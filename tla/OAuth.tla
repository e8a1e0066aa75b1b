------------------------------- MODULE OAuth -------------------------------
(***************************************************************************)
(* The authorization server: registration, approval, exchange of codes,    *)
(* refresh, revocation, clean-up, and the administrator's change of a      *)
(* client's namespace grant (src/src/oauth*.ts, src/src/admin.ts,          *)
(* src/src/db.ts).                                                         *)
(*                                                                         *)
(* Codes and tokens are rows of two tables that are handled alike, so one  *)
(* function holds both.  Exchange and refresh lock the presented row and   *)
(* read it (one action), then mark it and insert the tokens (another); a   *)
(* grant change is a transaction of three statements.  Each statement sees *)
(* what was committed when it began and waits for rows others have locked. *)
(* Pattern lists are opaque values; time is the lapse of single rows.      *)
(***************************************************************************)
EXTENDS Integers, FiniteSets

CONSTANTS
  Clients,
  Credentials,       \* code_hash and token_hash values
  Callers,           \* HTTP requests under way
  Grants,            \* lists of namespace patterns
  GrantChanges,      \* <<old, new>>: the changes administrators make
  DefaultGrant,      \* OAUTH_DEFAULT_NAMESPACES
  AllowRegistration, \* OAUTH_ALLOW_REGISTRATION
  ScopeRequests,     \* scope parameters clients send
  Nothing            \* no client row yet

Scopes == {"atom:read", "atom:write", "offline_access"}

ASSUME GrantAssumption == /\ DefaultGrant \in Grants /\ Nothing \notin Grants
                           /\ GrantChanges \subseteq Grants \X Grants
ASSUME ScopeAssumption == ScopeRequests \subseteq SUBSET Scopes
ASSUME RegistrationAssumption == AllowRegistration \in BOOLEAN

VARIABLES
  grant,     \* oauth_clients.allowed_namespaces, per client
  rows,      \* oauth_authorization_codes and oauth_tokens
  requests,  \* per caller, the request between its statements
  change,    \* per client, the administrator's transaction
  lineage    \* history: where a credential came from, kept after its deletion

vars == <<grant, rows, requests, change, lineage>>

Types == {"code", "access", "refresh"}
\* spent: used_at or revoked_at is set; lapsed: it is not, and expires_at is past
Rows == [type : Types, client : Clients, scopes : SUBSET Scopes, ns : Grants,
         state : {"live", "lapsed", "spent"}]
Unissued == [type |-> "unissued"]
Deleted == [type |-> "deleted"]
\* overtaken: a change of the client's grant was committed or under way while
\* the request that issued the credential, or an ancestor of it, was served
Lineages == [type : Types, parent : Credentials, root : Credentials, client : Clients,
             scopes : SUBSET Scopes, overtaken : BOOLEAN]
Idle == [op |-> "idle"]
Requests == {Idle}
  \cup [op : {"approve"}, client : Clients, scopes : SUBSET Scopes, ns : Grants,
        overtaken : BOOLEAN]
  \cup [op : {"exchange", "refresh"}, id : Credentials, client : Clients,
        scopes : SUBSET Scopes, ns : Grants, overtaken : BOOLEAN]
Changes == {Idle}
  \cup [op : {"revoking"}, grant : Grants, tokens : SUBSET Credentials]
  \cup [op : {"deleting"}, grant : Grants, tokens : SUBSET Credentials,
        codes : SUBSET Credentials]

Init ==
  /\ grant = [c \in Clients |-> Nothing]
  /\ rows = [x \in Credentials |-> Unissued]
  /\ requests = [r \in Callers |-> Idle]
  /\ change = [c \in Clients |-> Idle]
  /\ lineage = [x \in Credentials |-> Unissued]

Exists(x) == rows[x].type \in Types
Unspent(x) == Exists(x) /\ rows[x].state # "spent"
Live(x) == Exists(x) /\ rows[x].state = "live"

Begin(r, request) == requests[r] = Idle /\ requests' = [requests EXCEPT ![r] = request]
Return(r) == requests' = [requests EXCEPT ![r] = Idle]

----------------------------------------------------------------------------
(* Row locks *)

\* Mutant: SELECT without FOR UPDATE.
LockedNever(x) == FALSE

\* Rows read FOR UPDATE by a request, or updated by an uncommitted change.
Locked(x) ==
  \/ \E r \in Callers : requests[r].op \in {"exchange", "refresh"} /\ requests[r].id = x
  \/ \E c \in Clients : change[c].op = "deleting" /\ x \in change[c].tokens

----------------------------------------------------------------------------
(* Registration and approval *)

Register(c) ==
  /\ AllowRegistration
  /\ grant[c] = Nothing
  /\ grant' = [grant EXCEPT ![c] = DefaultGrant]
  /\ UNCHANGED <<rows, requests, change, lineage>>

\* atom:write brings atom:read
NormalizeScopes(scopes) ==
  IF "atom:write" \in scopes THEN scopes \cup {"atom:read"} ELSE scopes

\* The form comes back with the right password: the owner has approved client
\* and scopes, and issueAuthorizationCode reads the client's namespaces ...
\* (Access models the attempts with wrong passwords.)
Approve(r, c, scopes) ==
  /\ grant[c] # Nothing
  /\ Begin(r, [op |-> "approve", client |-> c, scopes |-> NormalizeScopes(scopes),
               ns |-> grant[c], overtaken |-> FALSE])
  /\ UNCHANGED <<grant, rows, change, lineage>>

NewRow(type, q) ==
  [type |-> type, client |-> q.client, scopes |-> q.scopes, ns |-> q.ns,
   state |-> "live"]

Overtaken(q) == q.overtaken \/ change[q.client] # Idle

\* ... and inserts the code in a second statement.
CodeInsert(r, k) ==
  LET q == requests[r]
  IN  /\ q.op = "approve"
      /\ lineage[k] = Unissued
      /\ rows' = [rows EXCEPT ![k] = NewRow("code", q)]
      /\ lineage' = [lineage EXCEPT ![k] =
           [type |-> "code", parent |-> k, root |-> k, client |-> q.client,
            scopes |-> q.scopes, overtaken |-> Overtaken(q)]]
      /\ Return(r)
      /\ UNCHANGED <<grant, change>>

----------------------------------------------------------------------------
(* Exchange and refresh *)

\* The caller presents x as a credential of the given type issued to c.
Presents(x, type, c) == Live(x) /\ rows[x].type = type /\ rows[x].client = c /\ ~Locked(x)

Holding(op, x, c, scopes) ==
  [op |-> op, id |-> x, client |-> c, scopes |-> scopes, ns |-> rows[x].ns,
   overtaken |-> FALSE]

\* SELECT ... FOR UPDATE and the checks; redirect URI and PKCE verifier match.
ExchangeLock(r, k, c) ==
  /\ Presents(k, "code", c)
  /\ Begin(r, Holding("exchange", k, c, rows[k].scopes))
  /\ UNCHANGED <<grant, rows, change, lineage>>

\* Mutant: what the owner approved is compared with, not what is left of it.
RefreshScopesOfConsent(x) ==
  {rows[x].scopes}
    \cup {s \in {NormalizeScopes(q) : q \in ScopeRequests} : s \subseteq lineage[lineage[x].root].scopes}

\* What a refresh may ask for: the same scopes, or fewer.
RefreshScopes(x) ==
  {rows[x].scopes}
    \cup {s \in {NormalizeScopes(q) : q \in ScopeRequests} : s \subseteq rows[x].scopes}

RefreshLock(r, t, c, scopes) ==
  /\ Presents(t, "refresh", c)
  /\ scopes \in RefreshScopes(t)
  /\ Begin(r, Holding("refresh", t, c, scopes))
  /\ UNCHANGED <<grant, rows, change, lineage>>

\* The tokens of one response: an access token a and, for offline access, a
\* refresh token b.
Pair(q, a, b) ==
  [x \in IF "offline_access" \in q.scopes THEN {a, b} ELSE {a} |->
     IF x = a THEN "access" ELSE "refresh"]

Spent(x) == [rows[x] EXCEPT !.state = "spent"]

\* UPDATE the presented row, INSERT the tokens, COMMIT.
Issue(r, a, b) ==
  LET q == requests[r]
      new == Pair(q, a, b)
      origin == lineage[q.id]
  IN  /\ q.op \in {"exchange", "refresh"}
      /\ a # b
      /\ \A x \in DOMAIN new : lineage[x] = Unissued
      /\ rows' = [x \in Credentials |->
           IF x \in DOMAIN new THEN NewRow(new[x], q)
           ELSE IF x = q.id THEN Spent(x) ELSE rows[x]]
      /\ lineage' = [x \in Credentials |->
           IF x \in DOMAIN new
           THEN [type |-> new[x], parent |-> q.id, root |-> origin.root,
                 client |-> q.client, scopes |-> q.scopes,
                 overtaken |-> origin.overtaken \/ Overtaken(q)]
           ELSE lineage[x]]
      /\ Return(r)
      /\ UNCHANGED <<grant, change>>

\* The request fails, or its connection does: rollback.
Abort(r) ==
  /\ requests[r] # Idle
  /\ Return(r)
  /\ UNCHANGED <<grant, rows, change, lineage>>

----------------------------------------------------------------------------
(* The end of credentials *)

\* Mutant: the UPDATE of /revoke does not wait for a lock.
MayRevokeAtOnce(t) == Exists(t) /\ rows[t].type # "code"

\* POST /revoke: one UPDATE over oauth_tokens, whatever the type or state.
MayRevoke(t) == Exists(t) /\ rows[t].type # "code" /\ ~Locked(t)

Revoke(t) ==
  /\ MayRevoke(t)
  /\ rows' = [rows EXCEPT ![t] = Spent(t)]
  /\ UNCHANGED <<grant, requests, change, lineage>>

Expire(x) ==
  /\ Live(x)
  /\ rows' = [rows EXCEPT ![x] = [@ EXCEPT !.state = "lapsed"]]
  /\ UNCHANGED <<grant, requests, change, lineage>>

\* cleanupOAuth.  How long ago a row lapsed or was spent is not modelled: any
\* of those rows may be old enough.
Cleanup(dead) ==
  /\ dead # {}
  /\ \A x \in dead : Exists(x) /\ ~Live(x) /\ ~Locked(x)
  /\ rows' = [x \in Credentials |-> IF x \in dead THEN Deleted ELSE rows[x]]
  /\ UNCHANGED <<grant, requests, change, lineage>>

----------------------------------------------------------------------------
(* The administrator changes a grant: one transaction of three statements *)

\* Mutant: only refresh tokens are revoked.
TokensOfRefreshing(c) ==
  {x \in Credentials : Unspent(x) /\ rows[x].type = "refresh" /\ rows[x].client = c}

TokensOf(c) ==
  {x \in Credentials : Unspent(x) /\ rows[x].type # "code" /\ rows[x].client = c}

CodesOf(c) ==
  {x \in Credentials : Unspent(x) /\ rows[x].type = "code" /\ rows[x].client = c}

\* UPDATE oauth_clients; the UPDATE of the tokens has begun.
GrantChangeBegin(c, g) ==
  /\ grant[c] # Nothing /\ change[c] = Idle
  /\ <<grant[c], g>> \in GrantChanges
  /\ change' = [change EXCEPT ![c] = [op |-> "revoking", grant |-> g, tokens |-> TokensOf(c)]]
  /\ UNCHANGED <<grant, rows, requests, lineage>>

\* It ends when no row it selected is locked, skipping those revoked or deleted
\* meanwhile; the DELETE of the codes has begun.
GrantChangeRevoke(c) ==
  /\ change[c].op = "revoking"
  /\ \A x \in change[c].tokens : ~Locked(x)
  /\ change' = [change EXCEPT ![c] =
       [op |-> "deleting", grant |-> @.grant,
        tokens |-> {x \in @.tokens : Unspent(x)}, codes |-> CodesOf(c)]]
  /\ UNCHANGED <<grant, rows, requests, lineage>>

\* Requests that read the old grant, or hold a row that carries it.
MarkOvertaken(c) ==
  [r \in Callers |->
     IF requests[r].op \in {"approve", "exchange", "refresh"} /\ requests[r].client = c
     THEN [requests[r] EXCEPT !.overtaken = TRUE] ELSE requests[r]]

\* The DELETE ends, skipping codes used meanwhile; COMMIT.
GrantChangeCommit(c) ==
  /\ change[c].op = "deleting"
  /\ \A x \in change[c].codes : ~Locked(x)
  /\ grant' = [grant EXCEPT ![c] = change[c].grant]
  /\ rows' = [x \in Credentials |->
       IF x \in change[c].tokens THEN Spent(x)
       ELSE IF x \in change[c].codes /\ Unspent(x) THEN Deleted
       ELSE rows[x]]
  /\ change' = [change EXCEPT ![c] = Idle]
  /\ requests' = MarkOvertaken(c)
  /\ UNCHANGED lineage

\* The process of the administrator dies, or the transaction fails.
GrantChangeAbort(c) ==
  /\ change[c] # Idle
  /\ change' = [change EXCEPT ![c] = Idle]
  /\ UNCHANGED <<grant, rows, requests, lineage>>

----------------------------------------------------------------------------
Next ==
  \/ \E c \in Clients : Register(c)
  \/ \E r \in Callers, c \in Clients, s \in ScopeRequests : Approve(r, c, s)
  \/ \E r \in Callers, k \in Credentials : CodeInsert(r, k)
  \/ \E r \in Callers, k \in Credentials, c \in Clients : ExchangeLock(r, k, c)
  \/ \E r \in Callers, t \in Credentials, c \in Clients, s \in SUBSET Scopes :
       RefreshLock(r, t, c, s)
  \/ \E r \in Callers, a, b \in Credentials : Issue(r, a, b)
  \/ \E r \in Callers : Abort(r)
  \/ \E t \in Credentials : Revoke(t)
  \/ \E x \in Credentials : Expire(x)
  \/ \E dead \in SUBSET Credentials : Cleanup(dead)
  \/ \E c \in Clients, g \in Grants : GrantChangeBegin(c, g)
  \/ \E c \in Clients : GrantChangeRevoke(c)
  \/ \E c \in Clients : GrantChangeCommit(c)
  \/ \E c \in Clients : GrantChangeAbort(c)

Spec == Init /\ [][Next]_vars

----------------------------------------------------------------------------
(* Properties *)

\* Every variable has its type.
TypeOK ==
  /\ grant \in [Clients -> Grants \cup {Nothing}]
  /\ rows \in [Credentials -> Rows \cup {Unissued, Deleted}]
  /\ requests \in [Callers -> Requests]
  /\ change \in [Clients -> Changes]
  /\ lineage \in [Credentials -> Lineages \cup {Unissued}]

\* A code is exchanged once and a refresh token redeemed once, however many
\* requests present it at the same time (FOR UPDATE in oauth-service.ts).
SingleUse ==
  \A x, y \in Credentials :
    /\ lineage[x].type \in {"access", "refresh"}
    /\ lineage[y].type = lineage[x].type
    /\ lineage[x].parent = lineage[y].parent
    => x = y

\* However often a session is refreshed, its tokens belong to the client and
\* stay within the scopes the owner approved; what a refresh gave up, no later
\* one gets back (refreshTokens, issueTokens).
WithinConsent ==
  \A x \in Credentials :
    Exists(x) => LET consent == lineage[lineage[x].root]
                     from == lineage[lineage[x].parent]
                 IN  /\ consent.type = "code"
                     /\ rows[x].client = consent.client
                     /\ rows[x].scopes \subseteq consent.scopes \cap from.scopes

\* A usable credential carries the current grant of its client, unless its
\* issue, or that of an ancestor, overlapped a change of the grant: only
\* requests under way escape oauth-namespaces (admin.ts).
GrantReaches ==
  \A x \in Credentials :
    Live(x) /\ ~lineage[x].overtaken => rows[x].ns = grant[rows[x].client]

\* A credential that was revoked, used or deleted issues nothing afterwards,
\* not even to a request that had read it before.
SpentIssuesNothing ==
  [][\A x \in Credentials :
       lineage[x] = Unissued /\ lineage'[x].type \in {"access", "refresh"}
         => Unspent(lineage'[x].parent)]_vars
=============================================================================
