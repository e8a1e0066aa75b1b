------------------------------ MODULE MCOAuth ------------------------------
(* A model-checking instance of OAuth: the credentials of one approval. *)
EXTENDS Naturals, OAuth, TLC

CONSTANTS
  Wide, Narrow,
  WithChange  \* bound: the credentials there may be when the grant changes

TwoGrants == {Wide, Narrow}

\* The administrator restricts the client once.
OneChange == {<<Wide, Narrow>>}

\* A session that lasts, one that gives up writing, and access to write without a session.
ThreeScopes == {{"atom:write", "offline_access"}, {"offline_access"}, {"atom:write"}}

Issued == {x \in Credentials : lineage[x] # Unissued}

\* Credentials are numbers, and the next ones are issued: it makes no difference which.
InOrder ==
  \A x, y \in Credentials : x < y /\ y \in Issued =>
    /\ x \in Issued
    /\ lineage[x].type = "refresh" /\ lineage[y].type = "access"
         => lineage[x].parent # lineage[y].parent

\* One form at a time is approved, and none any more when there is a code.
OneApproval ==
  /\ \A x, y \in Issued : lineage[x].type = "code" /\ lineage[y].type = "code" => x = y
  /\ \A r, q \in Callers : requests[r].op = "approve" =>
       Issued = {} /\ (requests[q].op = "approve" => q = r)

\* A session with more credentials than WithChange sees no change of the grant.
LongSessionsUnchanged ==
  Cardinality(Issued) > WithChange =>
    \A c \in Clients : change[c] = Idle /\ grant[c] \in {Nothing, DefaultGrant}

SessionSpec == Init /\ [][Next /\ InOrder' /\ OneApproval' /\ LongSessionsUnchanged']_vars

Symmetry == Permutations(Callers)
=============================================================================
