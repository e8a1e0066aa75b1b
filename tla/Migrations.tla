---------------------------- MODULE Migrations ----------------------------
(***************************************************************************)
(* How a server process brings the schema of its database up to date       *)
(* before it serves: Database.initialize and migrate (src/src/db.ts) over  *)
(* the ordered list of src/src/migrations.ts.                              *)
(*                                                                         *)
(* Several processes may start at once.  With AUTO_MIGRATE they queue for  *)
(* a session advisory lock; its holder infers the baseline of a database   *)
(* from before numbered migrations, reads which versions are recorded and  *)
(* applies the others, each in a transaction of its own.  Processes may    *)
(* die at any point; PostgreSQL then rolls back and frees the lock.        *)
(***************************************************************************)
EXTENDS Integers, Sequences, FiniteSets

CONSTANTS
  Processes,
  AutoMigrate      \* per process, AUTO_MIGRATE

ASSUME AutoMigrateAssumption == AutoMigrate \in [Processes -> BOOLEAN]

\* What each migration creates; every statement says IF NOT EXISTS ...
Creates == <<
  {"atoms", "atom_relations", "atom_events"},
  {"oauth_clients", "oauth_authorization_codes", "oauth_tokens"},
  {"allowed_namespaces", "atom_feedback", "maintenance_jobs"},
  {"retrieval indexes"},
  {"oauth indexes"},
  {"lifecycle states"}>>

\* ... and what its statements refer to.
Needs == <<
  {},
  {},
  Creates[1] \cup Creates[2],
  Creates[1],
  Creates[2] \cup {"maintenance_jobs"},
  Creates[1]>>

Latest == Len(Creates)      \* LATEST_SCHEMA_VERSION
Versions == 1 .. Latest
UpTo(n) == UNION {Creates[v] : v \in 1 .. n}

VARIABLES
  recorded,   \* versions in the table foundation_schema
  present,    \* tables, columns, indexes and constraints that exist
  foreign,    \* is there a table atoms of another application?
  queue,      \* who waits for the advisory lock; the first holds it
  stage,      \* per process, how far its start has come
  applied     \* history: how often each migration was committed

vars == <<recorded, present, foreign, queue, stage, applied>>

Down == [at |-> "down"]
At(place) == [at |-> place]
Applying(seen) == [at |-> "applying", seen |-> seen]
Stages == [at : {"down", "checking", "waiting", "inferring", "inferring oauth", "reading",
                 "serving"}]
  \cup [at : {"applying"}, seen : SUBSET Versions]
Migrating == {"inferring", "inferring oauth", "reading", "applying"}

\* Databases from before numbered migrations: with, without and with only some
\* of the oauth tables.
Legacy == {UpTo(1), UpTo(2), UpTo(1) \cup {"oauth_clients"}}

\* An empty database (or one with a foreign table atoms), a legacy one, or one of
\* an earlier or the present release.
Init ==
  /\ foreign \in BOOLEAN
  /\ \/ recorded = {} /\ present = {}
     \/ recorded = {} /\ present \in Legacy /\ ~foreign
     \/ \E v \in Versions : recorded = 1 .. v /\ present = UpTo(v) /\ ~foreign
  /\ queue = <<>>
  /\ stage = [p \in Processes |-> Down]
  /\ applied = [v \in Versions |-> 0]

MoveTo(p, s) == stage' = [stage EXCEPT ![p] = s]

\* Mutant: no advisory lock.
HoldsAlways(p) == stage[p].at # "down"

Holds(p) == queue # <<>> /\ Head(queue) = p

\* The queue when p has left it, or was not in it.
Without(p) ==
  LET n == CHOOSE n \in DOMAIN queue : queue[n] = p
  IN  IF \A k \in DOMAIN queue : queue[k] # p THEN queue
      ELSE SubSeq(queue, 1, n - 1) \o SubSeq(queue, n + 1, Len(queue))

Start(p) ==
  /\ stage[p] = Down
  /\ IF AutoMigrate[p]
     THEN MoveTo(p, At("waiting")) /\ queue' = Append(queue, p)
     ELSE MoveTo(p, At("checking")) /\ UNCHANGED queue
  /\ UNCHANGED <<recorded, present, foreign, applied>>

\* Mutant: a process is content with any numbered schema.
MayServeAny == recorded # {}

\* schemaVersion: the largest version recorded, 0 when there is no table.
MayServe == Latest \in recorded

\* AUTO_MIGRATE=false
Check(p) ==
  /\ stage[p].at = "checking"
  /\ MoveTo(p, IF MayServe THEN At("serving") ELSE Down)
  /\ UNCHANGED <<recorded, present, foreign, queue, applied>>

\* The lock is granted, and the table foundation_schema exists from here on.
LockGranted(p) ==
  /\ stage[p].at = "waiting"
  /\ Holds(p)
  /\ MoveTo(p, At("inferring"))
  /\ UNCHANGED <<recorded, present, foreign, queue, applied>>

\* The table atoms is there with its columns, but no version is recorded.
IsBaseline == recorded = {} /\ "atoms" \in present

\* Without a transaction: the two inserts are separate.
InferCore(p) ==
  /\ stage[p].at = "inferring"
  /\ IF IsBaseline
     THEN /\ recorded' = recorded \cup {1}
          /\ MoveTo(p, IF Creates[2] \subseteq present THEN At("inferring oauth") ELSE At("reading"))
     ELSE MoveTo(p, At("reading")) /\ UNCHANGED recorded
  /\ UNCHANGED <<present, foreign, queue, applied>>

InferOAuth(p) ==
  /\ stage[p].at = "inferring oauth"
  /\ recorded' = recorded \cup {2}
  /\ MoveTo(p, At("reading"))
  /\ UNCHANGED <<present, foreign, queue, applied>>

ReadRecorded(p) ==
  /\ stage[p].at = "reading"
  /\ MoveTo(p, Applying(recorded))
  /\ UNCHANGED <<recorded, present, foreign, queue, applied>>

\* Mutant: the list is not in order.
DueAny(p, v) == v \in Versions \ stage[p].seen

\* The next migration of the list.
Due(p, v) == v \in Versions \ stage[p].seen /\ \A w \in Versions \ stage[p].seen : v <= w

\* BEGIN, the statements, the insert, COMMIT.  On a foreign table atoms the
\* statements of version 1 fail.
Apply(p, v) ==
  /\ stage[p].at = "applying" /\ Due(p, v)
  /\ Needs[v] \subseteq present /\ ~foreign
  /\ recorded' = recorded \cup {v}
  /\ present' = present \cup Creates[v]
  /\ applied' = [applied EXCEPT ![v] = @ + 1]
  /\ MoveTo(p, Applying(stage[p].seen \cup {v}))
  /\ UNCHANGED <<foreign, queue>>

\* Mutant: the lock is not given back.
AbandonLocked(p) ==
  /\ stage[p].at \in Migrating
  /\ MoveTo(p, Down)
  /\ UNCHANGED <<recorded, present, foreign, queue, applied>>

\* A statement fails: rollback, unlock, and the process exits.
Abandon(p) ==
  /\ stage[p].at \in Migrating
  /\ MoveTo(p, Down)
  /\ queue' = Without(p)
  /\ UNCHANGED <<recorded, present, foreign, applied>>

\* All migrations are there: the index of the embeddings, unlock, serve.
Finish(p) ==
  /\ stage[p].at = "applying" /\ stage[p].seen = Versions
  /\ MoveTo(p, At("serving"))
  /\ queue' = Without(p)
  /\ UNCHANGED <<recorded, present, foreign, applied>>

\* The process dies or is stopped.
Crash(p) ==
  /\ stage[p] # Down
  /\ MoveTo(p, Down)
  /\ queue' = Without(p)
  /\ UNCHANGED <<recorded, present, foreign, applied>>

Progress(p) ==
  \/ Check(p) \/ LockGranted(p) \/ InferCore(p) \/ InferOAuth(p) \/ ReadRecorded(p)
  \/ \E v \in Versions : Apply(p, v)
  \/ Abandon(p) \/ Finish(p)

Next == \E p \in Processes : Start(p) \/ Progress(p) \/ Crash(p)

Spec == Init /\ [][Next]_vars

\* Queries are answered, or fail; PostgreSQL grants the lock in the order of
\* the requests.
FairSpec == Spec /\ \A p \in Processes : WF_vars(Progress(p))

----------------------------------------------------------------------------
(* Properties *)

\* Every variable has its type.
TypeOK ==
  /\ recorded \subseteq Versions
  /\ present \subseteq UpTo(Latest)
  /\ foreign \in BOOLEAN
  /\ queue \in Seq(Processes)
  /\ stage \in [Processes -> Stages]
  /\ applied \in [Versions -> Nat]

\* Wherever a start is interrupted, and from whatever database it began, the
\* recorded versions have no gap, and each of them is really there:
\* max(version), which schemaVersion reads, stands for all of them, and no
\* migration is skipped for good because of a start that died or of an
\* inferred baseline.
RecordedIsComplete == \A v \in recorded : 1 .. v \subseteq recorded /\ UpTo(v) \subseteq present

\* However many processes start together, no migration is run twice.
AppliedOnce == \A v \in Versions : applied[v] <= 1

\* A process serves only over a complete schema, also when it does not migrate
\* and reads nothing but the largest version.
ServesLatestSchema ==
  \A p \in Processes : stage[p].at = "serving" => present = UpTo(Latest)

\* A process that starts comes to serve or exits: a start that failed or died
\* does not keep the lock from those that wait for it.
StartEnds == \A p \in Processes : stage[p] # Down ~> stage[p].at \in {"serving", "down"}
=============================================================================
