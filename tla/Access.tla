------------------------------- MODULE Access -------------------------------
(***************************************************************************)
(* What stands between an HTTP request and the tool it calls: the fixed    *)
(* window limiter, the credential, the namespaces of the atoms involved    *)
(* (src/src/rate-limit.ts, src/src/transports/http.ts,                     *)
(* src/src/authorization.ts), and the count of wrong approval passwords    *)
(* (src/src/oauth.ts).                                                     *)
(*                                                                         *)
(* A request waits for the database after the limiter, between the check   *)
(* of its token and that of the namespaces, and before its tool runs;      *)
(* other requests run meanwhile.  Of the atoms only their namespaces and   *)
(* relations are modelled, and of the tools what they do to these.         *)
(***************************************************************************)
EXTENDS Integers, FiniteSets

CONSTANTS
  Ids, Namespaces,
  Peers,           \* addresses requests come from
  Callers,         \* requests under way
  Credentials,     \* records: the credentials in use
  Deployments,     \* see the variable deployment
  Window,          \* one minute
  ApprovalWindow,  \* ten minutes
  MaxFailures,     \* wrong passwords in it
  SweepAbove,      \* entries the limiter keeps before it sweeps
  MaxTime          \* bound: the clock stops there

Limiters == {"mcp", "oauth"}

\* The calls of tools, by what they involve.
Tools ==
  \* Of one namespace, or with {} of all of them: atom_search, atom_list, atom_stats and
  \* atom_lifecycle_suggestions (query), atom_context and memory_recall (context),
  \* atom_reembed and atom_consolidate (sweep)
  [kind : {"query", "context", "sweep"}, in : {{}} \cup {{n} : n \in Namespaces}]
  \* memory_remember
  \cup [kind : {"remember"}, in : {{n} : n \in Namespaces}]
  \* atom_create, atom_bulk_create
  \cup [kind : {"create"}, into : (SUBSET Namespaces) \ {{}}]
  \* atom_update; {}: the namespace is not changed
  \cup [kind : {"update"}, ids : {{i} : i \in Ids}, into : {{}} \cup {{n} : n \in Namespaces}]
  \* atom_supersede; memory_replace, with {}: into the namespace of the atom replaced
  \cup [kind : {"supersede"}, ids : {{i} : i \in Ids}, into : {{}} \cup {{n} : n \in Namespaces}]
  \* the others that name one atom; atom_delete may remove it, atom_find_similar (similar)
  \* searches those of its namespace
  \cup [kind : {"one", "remove", "neighbors", "similar"}, ids : {{i} : i \in Ids}]
  \* atom_link and atom_unlink; atom_merge into target
  \cup [kind : {"link", "unlink"}, ids : {e \in SUBSET Ids : Cardinality(e) = 2}]
  \cup [kind : {"merge"}, target : Ids, ids : SUBSET Ids]
  \* foundation_health and the other global ones
  \cup [kind : {"global"}]

\* all: "*" is among the patterns; token: an OAuth token, which may be revoked
ASSUME CredentialAssumption ==
  Credentials \subseteq [all : BOOLEAN, allowed : SUBSET Namespaces, write : BOOLEAN,
                         token : BOOLEAN]
ASSUME DeploymentAssumption ==
  Deployments \subseteq [limit : [Limiters -> Nat], tools : SUBSET Tools, approvals : BOOLEAN]
ASSUME LimitAssumption ==
  /\ Window \in Nat \ {0} /\ ApprovalWindow \in Nat \ {0}
  /\ MaxFailures \in Nat \ {0} /\ SweepAbove \in Nat /\ MaxTime \in Nat

VARIABLES
  deployment,  \* limits per minute (0: none), tools clients call, does the owner approve?
  now,
  entries,     \* per limiter and peer, its window
  failures,    \* failedApprovals
  spaces,      \* per atom, its namespace
  relations,   \* pairs of related atoms
  revoked,     \* tokens that are no longer valid
  requests,
  admitted,    \* history: per limiter and peer, <<time, serial>> of the requests let through
  guesses      \* history: per peer, those of wrong passwords looked at since the last right one

vars == <<deployment, now, entries, failures, spaces, relations, revoked, requests, admitted,
          guesses>>
limits == <<entries, failures, admitted, guesses>>
store == <<spaces, relations>>

Times == 0 .. MaxTime
None == [count |-> 0, resetAt |-> 0]   \* no entry: a window that is over
NotCreated == {}
Removed == {"removed"}
Pairs == {e \in SUBSET Ids : Cardinality(e) = 2}
Idle == [stage |-> "idle"]
\* Once the namespaces are checked:
\* changed: atoms that came into their namespace, or were related to another, since
\* found: atoms the tool found by searching a namespace
\* searched: the namespace in which it looks for atoms similar to one, when it knows it
Requests == {Idle}
  \cup [stage : {"received", "authenticated"}, credential : Credentials, tool : Tools]
  \cup [stage : {"authorized"}, credential : Credentials, tool : Tools, changed : SUBSET Ids,
         found : SUBSET Ids, searched : {{}} \cup {{n} : n \in Namespaces}]

Init ==
  /\ deployment \in Deployments
  /\ now = 0
  /\ entries = [k \in Limiters \X Peers |-> None]
  /\ failures = [p \in Peers |-> None]
  /\ spaces = [i \in Ids |-> NotCreated]
  /\ relations = {}
  /\ revoked = {}
  /\ requests = [r \in Callers |-> Idle]
  /\ admitted = [k \in Limiters \X Peers |-> {}]
  /\ guesses = [p \in Peers |-> {}]

Tick ==
  /\ now < MaxTime
  /\ deployment.approvals \/ \E l \in Limiters : deployment.limit[l] > 0   \* else no clock is read
  /\ now' = now + 1
  /\ UNCHANGED <<deployment, limits, store, revoked, requests>>

----------------------------------------------------------------------------
(* The limiter *)

Open(entry) == entry.resetAt > now

\* Mutant: sweeping drops the windows that are still open.
SweptAll(entry) == None

Swept(entry) == IF Open(entry) THEN entry ELSE None

\* One more request in the window, or in a new one.  The count matters up to
\* the first number that is too large.
Counted(entry, most) ==
  LET current == IF Open(entry) THEN entry ELSE [count |-> 0, resetAt |-> now + Window]
  IN  [current EXCEPT !.count = IF @ > most THEN @ ELSE @ + 1]

\* FixedWindowRateLimiter.consume: the limiter has seen the request.
Consume(l, p) ==
  LET most == deployment.limit[l]
      counted == [entries EXCEPT ![<<l, p>>] = Counted(@, most)]
      kept == {k \in DOMAIN counted : k[1] = l /\ counted[k] # None}
  IN  IF most = 0 THEN UNCHANGED entries
      ELSE entries' = [k \in DOMAIN counted |->
             IF k[1] = l /\ Cardinality(kept) > SweepAbove THEN Swept(counted[k]) ELSE counted[k]]

Admits(l, p) ==
  LET most == deployment.limit[l]
  IN  most = 0 \/ Counted(entries[<<l, p>>], most).count <= most

\* One more event of a history.
Noted(history) == history \cup {<<now, Cardinality(history)>>}

Admitted(l, p) ==
  IF deployment.limit[l] = 0 THEN admitted ELSE [admitted EXCEPT ![<<l, p>>] = Noted(@)]

Rejected(l, p) ==
  /\ ~Admits(l, p)
  /\ Consume(l, p)
  /\ UNCHANGED <<deployment, now, failures, store, revoked, requests, admitted, guesses>>

----------------------------------------------------------------------------
(* Approval *)

\* Mutant: a failure forgets those before it.
FailedOnce(entry) == [count |-> 1, resetAt |-> now + ApprovalWindow]

Failed(entry) ==
  LET current == IF Open(entry) THEN entry ELSE [count |-> 0, resetAt |-> now + ApprovalWindow]
  IN  [current EXCEPT !.count = @ + 1]

Blocked(p) == Open(failures[p]) /\ failures[p].count >= MaxFailures

\* POST /authorize with decision=approve.  The client is looked up before;
\* from the look at the failures to their update nothing is awaited.  The code
\* a right password brings is in OAuth.
ApprovalAttempt(p, right) ==
  /\ deployment.approvals
  /\ Admits("oauth", p)
  /\ Consume("oauth", p)
  /\ admitted' = Admitted("oauth", p)
  /\ IF Blocked(p) THEN UNCHANGED <<failures, guesses>>
     ELSE IF right THEN /\ failures' = [failures EXCEPT ![p] = None]
                        /\ guesses' = [guesses EXCEPT ![p] = {}]
     ELSE /\ failures' = [failures EXCEPT ![p] = Failed(@)]
          /\ guesses' = [guesses EXCEPT ![p] = Noted(@)]
  /\ UNCHANGED <<deployment, now, store, revoked, requests>>

----------------------------------------------------------------------------
(* From the request to the tool *)

Exists(i) == spaces[i] \notin {NotCreated, Removed}
Advance(r, request) == requests' = [requests EXCEPT ![r] = request]

Receive(r, p, credential, tool) ==
  /\ requests[r] = Idle
  /\ Admits("mcp", p)
  /\ Consume("mcp", p)
  /\ admitted' = Admitted("mcp", p)
  /\ Advance(r, [stage |-> "received", credential |-> credential, tool |-> tool])
  /\ UNCHANGED <<deployment, now, failures, store, revoked, guesses>>

IsReadTool(tool) ==
  tool.kind \in {"query", "context", "one", "similar", "neighbors", "global"}

\* The token is looked up; the scopes are compared with the tool.  (Some tools
\* of the kinds "one" and "global" need atom:write.)
Authenticate(r) ==
  LET q == requests[r]
  IN  /\ q.stage = "received"
      /\ q.credential \notin revoked
      /\ IsReadTool(q.tool) \/ q.credential.write
      /\ Advance(r, [q EXCEPT !.stage = "authenticated"])
      /\ UNCHANGED <<deployment, now, limits, store, revoked>>

Neighbors(i) == {j \in Ids \ {i} : {i, j} \in relations}

\* Tools that search a namespace the call names.
Searches(tool) == tool.kind \in {"query", "context", "sweep", "remember"}

\* The atoms a call names, or those of the namespace it names.
Involved(tool) ==
  CASE Searches(tool) -> {i \in Ids : Exists(i) /\ (tool.in = {} \/ spaces[i] = tool.in)}
    [] tool.kind \in {"create", "global"} -> {}
    [] tool.kind = "neighbors" -> UNION {{i} \cup Neighbors(i) : i \in tool.ids}
    [] tool.kind = "merge" -> {tool.target} \cup tool.ids
    [] OTHER -> tool.ids

Destinations(tool) ==
  IF tool.kind \in {"create", "update", "supersede"} THEN tool.into
  ELSE IF Searches(tool) THEN tool.in ELSE {}

\* Mutant: the atom's own namespace is enough for atom_neighbors.
NamespacesOfOwn(tool) ==
  Destinations(tool)
    \cup UNION {spaces[i] : i \in {j \in IF tool.kind = "neighbors" THEN tool.ids
                                         ELSE Involved(tool) : Exists(j)}}

\* Mutant: the namespace an atom moves to is not looked at.
NamespacesOfSource(tool) == UNION {spaces[i] : i \in {j \in Involved(tool) : Exists(j)}}

\* namespacesForIDs, neighborNamespaces and the namespaces named by the call.
\* Ids that do not exist have none.
NamespacesOf(tool) ==
  Destinations(tool) \cup UNION {spaces[i] : i \in {j \in Involved(tool) : Exists(j)}}

MayRun(credential, tool) ==
  \/ credential.all
  \/ /\ tool.kind # "global" /\ ~(Searches(tool) /\ tool.in = {})
     /\ NamespacesOf(tool) \subseteq credential.allowed

\* authorizeToolNamespaces
Authorize(r) ==
  LET q == requests[r]
  IN  /\ q.stage = "authenticated"
      /\ MayRun(q.credential, q.tool)
      /\ Advance(r, [stage |-> "authorized", credential |-> q.credential, tool |-> q.tool,
                     changed |-> {}, found |-> {}, searched |-> {}])
      /\ UNCHANGED <<deployment, now, limits, store, revoked>>

\* The request is refused, its tool fails or only reads, or the client is gone.
RequestEnds(r) ==
  /\ requests[r] # Idle
  /\ Advance(r, Idle)
  /\ UNCHANGED <<deployment, now, limits, store, revoked>>

----------------------------------------------------------------------------
(* The tool *)

\* The namespaces and relations after r's tool.
Stored(r, newSpaces, newRelations) ==
  LET came == {i \in Ids : newSpaces[i] # spaces[i]} \cup UNION (newRelations \ relations)
  IN  /\ spaces' = newSpaces
      /\ relations' = newRelations
      /\ requests' = [s \in Callers |->
           IF s = r THEN Idle
           ELSE IF requests[s].stage = "authorized" THEN [requests[s] EXCEPT !.changed = @ \cup came]
           ELSE requests[s]]
      /\ UNCHANGED <<deployment, now, limits, revoked>>

Runs(r, kind) == requests[r].stage = "authorized" /\ requests[r].tool.kind = kind

\* A search returns atom i.  A context asks several times, in parallel.
Find(r, i) ==
  LET q == requests[r]
  IN  /\ q.stage = "authorized" /\ q.tool.kind \in {"context", "sweep", "remember"}
      /\ i \in Involved(q.tool)
      /\ Advance(r, [q EXCEPT !.found = @ \cup {i}])
      /\ UNCHANGED <<deployment, now, limits, store, revoked>>

\* atom_find_similar reads the atom: it will search the namespace of the moment.
ReadSimilar(r, i) ==
  /\ Runs(r, "similar") /\ i \in requests[r].tool.ids
  /\ requests[r].searched = {} /\ Exists(i)
  /\ Advance(r, [requests[r] EXCEPT !.searched = spaces[i]])
  /\ UNCHANGED <<deployment, now, limits, store, revoked>>

\* What the tool of an authorized request may read or write next, each atom with
\* the one that leads to it: those it names or found; neighbors of one it found,
\* in that one's present namespace; those it may find similar to the one it names.
Reads(q) ==
  {<<i, i>> : i \in Involved(q.tool) \cup q.found}
    \cup (IF q.tool.kind = "context"
          THEN {e \in q.found \X Ids : e[2] \in Neighbors(e[1]) /\ spaces[e[2]] = spaces[e[1]]}
          ELSE {})
    \cup (IF q.tool.kind = "similar"
          THEN {e \in q.tool.ids \X Ids : spaces[e[2]] = q.searched} ELSE {})

\* atom_consolidate relates atoms it found; one that is gone fails it.
RunConsolidate(r, pairs) ==
  /\ Runs(r, "sweep") /\ pairs # {}
  /\ \A e \in pairs : e \subseteq {i \in requests[r].found : Exists(i)}
  /\ Stored(r, spaces, relations \cup pairs)

\* One new atom; a bulk creation makes several, one after the other.
RunCreate(r, i, n) ==
  /\ \/ Runs(r, "create") /\ n \in requests[r].tool.into
     \/ Runs(r, "remember") /\ n \in requests[r].tool.in
  /\ spaces[i] = NotCreated
  /\ Stored(r, [spaces EXCEPT ![i] = {n}], relations)

RunUpdate(r, i) ==
  LET into == requests[r].tool.into
  IN  /\ Runs(r, "update") /\ i \in requests[r].tool.ids
      /\ Exists(i)
      /\ Stored(r, [spaces EXCEPT ![i] = IF into = {} THEN @ ELSE into], relations)

\* The atom named, or one memory_remember found; the namespace of the replacement.
Replaces(r, old) ==
  \/ Runs(r, "supersede") /\ old \in requests[r].tool.ids
  \/ Runs(r, "remember") /\ old \in requests[r].found
Into(q, old) ==
  IF q.tool.kind = "remember" THEN q.tool.in
  ELSE IF q.tool.into = {} THEN spaces[old] ELSE q.tool.into

\* The replacement may be a new atom, or one of its namespace that says the same.
RunSupersede(r, old, i) ==
  LET into == Into(requests[r], old)
  IN  /\ Replaces(r, old)
      /\ Exists(old) /\ i # old
      /\ spaces[i] = NotCreated \/ spaces[i] = into
      /\ Stored(r, [spaces EXCEPT ![i] = into], relations \cup {{old, i}})

RunRemove(r, i) ==
  /\ Runs(r, "remove") /\ i \in requests[r].tool.ids
  /\ Exists(i)
  /\ Stored(r, [spaces EXCEPT ![i] = Removed], {e \in relations : i \notin e})

RunLink(r) ==
  /\ Runs(r, "link")
  /\ \A i \in requests[r].tool.ids : Exists(i)
  /\ Stored(r, spaces, relations \cup {requests[r].tool.ids})

RunUnlink(r) ==
  /\ Runs(r, "unlink")
  /\ Stored(r, spaces, relations \ {requests[r].tool.ids})

\* The target takes over the relations of the others, whatever their namespaces.
RunMerge(r) ==
  LET tool == requests[r].tool
      others == tool.ids \ {tool.target}
      moved == {(e \ others) \cup {tool.target} : e \in {x \in relations : x \cap others # {}}}
  IN  /\ Runs(r, "merge") /\ others # {}
      /\ \A i \in Involved(tool) : Exists(i)
      /\ Stored(r, spaces, {e \in relations : e \cap others = {}}
                             \cup {e \in moved : Cardinality(e) = 2})

\* /revoke, or the administrator's change of a grant
Revoke(credential) ==
  /\ credential.token /\ credential \notin revoked
  /\ revoked' = revoked \cup {credential}
  /\ UNCHANGED <<deployment, now, limits, store, requests>>

Next ==
  \/ Tick
  \/ \E l \in Limiters, p \in Peers : Rejected(l, p)
  \/ \E p \in Peers, right \in BOOLEAN : ApprovalAttempt(p, right)
  \/ \E r \in Callers, p \in Peers, credential \in Credentials, tool \in deployment.tools :
       Receive(r, p, credential, tool)
  \/ \E r \in Callers : Authenticate(r) \/ Authorize(r) \/ RequestEnds(r)
  \/ \E r \in Callers, i \in Ids : RunUpdate(r, i) \/ RunRemove(r, i)
  \/ \E r \in Callers, i \in Ids : Find(r, i) \/ ReadSimilar(r, i)
  \/ \E r \in Callers, pairs \in SUBSET Pairs : RunConsolidate(r, pairs)
  \/ \E r \in Callers, i \in Ids, n \in Namespaces : RunCreate(r, i, n)
  \/ \E r \in Callers, i, j \in Ids : RunSupersede(r, i, j)
  \/ \E r \in Callers : RunLink(r) \/ RunUnlink(r) \/ RunMerge(r)
  \/ \E credential \in Credentials : Revoke(credential)

Spec == Init /\ [][Next]_vars

----------------------------------------------------------------------------
(* Properties *)

\* Every variable has its type.
TypeOK ==
  /\ deployment \in Deployments
  /\ now \in Times
  /\ entries \in [Limiters \X Peers -> [count : Nat, resetAt : 0 .. MaxTime + Window]]
  /\ failures \in [Peers -> [count : 0 .. MaxFailures, resetAt : 0 .. MaxTime + ApprovalWindow]]
  /\ spaces \in [Ids -> {NotCreated, Removed} \cup {{n} : n \in Namespaces}]
  /\ relations \subseteq Pairs
  /\ revoked \subseteq Credentials
  /\ requests \in [Callers -> Requests]
  /\ admitted \in [Limiters \X Peers -> SUBSET (Times \X Nat)]
  /\ guesses \in [Peers -> SUBSET (Times \X Nat)]

\* How many of a history lie in the interval of the given length from t on.
Within(history, t, length) == Cardinality({h \in history : t <= h[1] /\ h[1] < t + length})

\* A peer gets at most twice its limit through in any interval of a minute,
\* and not more than that because windows are fixed; sweeping the entries of
\* idle peers gives nobody a second window (FixedWindowRateLimiter).
AtMostTwiceTheLimit ==
  \A l \in Limiters, p \in Peers : deployment.limit[l] > 0 =>
    \A t \in Times : Within(admitted[<<l, p>>], t, Window) <= 2 * deployment.limit[l]

\* Between two right ones, at most twice ten passwords of a peer are looked at
\* in any ten minutes, however its requests interleave with the windows.
GuessesAreLimited ==
  \A p \in Peers, t \in Times : Within(guesses[p], t, ApprovalWindow) <= 2 * MaxFailures

\* A tool that runs for a restricted credential reads and writes atoms of its
\* namespaces only, but for what an atom leads it to that another request
\* moved, created or related since the check: the atom itself, the namespace
\* atom_find_similar reads it to be in, its neighbors in its namespace
\* (authorizeToolNamespaces before the tool's own reads).
InvolvesOnlyAllowed ==
  \A r \in Callers : requests[r].stage = "authorized" =>
    LET q == requests[r]
    IN  q.credential.all \/
          \A reading \in Reads(q) :
            Exists(reading[2]) =>
              spaces[reading[2]] \subseteq q.credential.allowed \/ reading[1] \in q.changed

\* A restricted credential moves no atom into or out of the namespaces of
\* others, nor creates one there, unless another request moved the atom, or
\* the one it replaces, since the check: both ends of a move are checked
\* (authorization.ts; README, "both source and destination namespaces").
MovesOnlyWithin ==
  [][\A r \in Callers, i \in Ids :
       /\ requests[r].stage = "authorized" /\ requests'[r] = Idle
       /\ ~requests[r].credential.all
       /\ spaces'[i] # spaces[i]
       => LET q == requests[r]
          IN  \/ /\ spaces'[i] \subseteq q.credential.allowed \cup Removed
                 /\ spaces[i] \subseteq q.credential.allowed
              \/ q.tool.ids \cap q.changed # {}]_vars
=============================================================================
