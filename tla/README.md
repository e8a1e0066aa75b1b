# Foundation MCP: formal model

Foundation MCP is a memory server: MCP clients store, correct, replace, relate and
recall *atoms* (short texts with an embedding) kept in PostgreSQL. This directory
holds a TLA+ model of the server, the TLC configurations that check it on small
instances, and TLAPS proofs of its main properties for every instance.

Paths below are relative to the repository; line numbers refer to the modelled
commit.

## 1. The system

| Component | State | Operations | Hard part |
|---|---|---|---|
| Atom store (`src/atom-service.ts`) | tables `atoms`, `atom_relations`, `atom_events` | create, bulk create, update, remove, restore, link, unlink, merge, supersede, feedback, reembed, consolidate, archiveExpired | every call reads, then waits (duplicate look-up, embedding provider), then runs a transaction: anything commits in between |
| MCP tools (`src/mcp-server.ts`) | none | `memory_*` and `atom_*` tools composed of store calls | check in one call, act in the next |
| Smart memory (`src/smart-memory.ts`, `src/smart-memory-slots.ts`) | decision cache, daily budget, slot metadata inside atoms | remember, recall | two remembers of one slot, budget checked before an await and charged after it, lost metadata updates |
| Maintenance (`src/maintenance.ts`) | `running`, `queued` flags per process, table `maintenance_jobs` | start, stop, enqueue, run, status | slot reserved and released across awaits; crash and restart; several processes on one table |
| OAuth (`src/oauth*.ts`) and grants (`src/admin.ts`) | clients, authorization codes, tokens, failed-approval counters | register, authorize, exchange, refresh, revoke, change grants, clean-up | single use of codes and refresh tokens, grant changes against requests in flight, expiry |
| Authorization (`src/authorization.ts`) | none | decide whether a principal may call a tool | namespaces resolved before the tool runs |
| Database and migrations (`src/db.ts`, `src/migrations.ts`) | `foundation_schema`, connection pool | transaction, audit, migrate | concurrent starts, crash between migrations, unnumbered legacy schema |
| Embeddings (`src/embeddings.ts`, `mapLimit` in `src/utils.ts`) | vector cache | embed, embedMany | age and size eviction, a failing worker among running ones |
| Rate limiter (`src/rate-limit.ts`) | window counters | consume | window boundary, sweep |
| Context planner (`src/context-planner.ts`) | none | pack results into a budget | exact budget arithmetic |
| Legacy import (`src/legacy-import.ts`) | position of the import | run | crash and resume |
| Transports (`src/transports`) | sockets | the path of an HTTP request: limiter, credential, namespaces, tool | three waits between arrival and effect |
| Configuration, telemetry, benchmarks | counters | parsing, I/O | outside the model |

How they interact: a transport authorizes a request and calls a tool; a tool calls
the atom store or the smart memory, which calls the atom store; the atom store
calls the embedding service and the database. The maintenance service calls the
atom store and the OAuth clean-up from a timer. All processes of a deployment
share one database and nothing else.

What makes each part correct:

* atom store: a content exists once per namespace; relations join existing,
  different atoms; versions identify what a client read; an embedding belongs to
  its content; a superseded atom leads to its successor; retired memories come
  back only when asked; what a statement writes is in the audit trail;
* maintenance: one job at a time per process, the slot is always released, a
  finished job's row tells its outcome;
* smart memory: one current atom per slot, the daily budget bounds what is asked of
  the model, a cached decision is used for what it was made for;
* OAuth: codes and refresh tokens are used once, tokens never exceed the consent
  they come from, a changed grant reaches every later request;
* migrations: recorded versions are a prefix and in the schema, none is applied
  twice, a process serves only the latest schema, every start ends;
* retrieval and planner: only atoms of the namespace asked for, within the budget,
  chosen greedily, and nothing passed over that fits;
* embeddings: a text gets its own vector, failures leave nothing in the cache;
* limiter and authorization: limits hold across the boundary of windows, a
  restricted credential reaches its namespaces only.

## 2. Modules

| Module | Role |
|---|---|
| `VersionedRows` | abstract contract of the atoms table: what a client may rely on who keeps an atom id and a version |
| `AtomStore` | the atom store and the tools built on it, with its properties |
| `MCAtomStore` | operation sets and symmetry for TLC |
| `AtomStoreProofs` | theorems about `AtomStore`, proofs |
| `MaintenanceSlot` | abstract contract of the job slot: one job at a time per process, a finished job never returns |
| `Maintenance` | the maintenance service of several processes over one table of jobs, with its properties |
| `MCMaintenance` | job types, configuration and symmetry for TLC |
| `MaintenanceProofs` | theorems about `Maintenance`, proofs |
| `OAuth`, `OAuthProofs` | the authorization server and the administrator's grant changes; theorems about it, proofs |
| `SmartMemory`, `SmartMemoryProofs` | slot-aware and model-assisted `remember` over the rows it writes; theorems, proofs |
| `Migrations` | server processes that bring one database up to date |
| `MigrationsProofs` | theorems about `Migrations`, proofs |
| `Loops` | the loops of pure code as recursive functions |
| `Planner` | the context planner, as operators |
| `Recall`, `RecallProofs` | `context` with its queries over rows that others change, composed with `Planner`; theorems about both, proofs |
| `Access`, `AccessProofs` | limiter, failed approvals, and the authorization of tool calls; theorems, proofs |
| `Embedding`, `EmbeddingProofs` | the embedding cache, batches, workers and retries; theorems, proofs |
| `MCOAuth`, `MCSmartMemory`, `MCMigrations`, `MCRecall`, `MCAccess`, `MCEmbedding` | instances of these for TLC |

### AtomStore

State. `atoms[i]` is the row of id `i`: namespace, content, status, version and
the content its embedding was computed from (`NoEmbedding` for NULL). An id is
`Unused` until an insert gets it and `Gone` after a hard delete. `relations` is
the set of (from, to, type). `audited[i]` is the version covered by the newest
event of the id in `atom_events`. `calls[c]` is what a running tool call remembers
between its reads and its transaction.

Actions. One action per transaction and one per read that precedes it:

* `CreateBegin`, `CreateItem`, `CreateItemFails`: `create` and partial-success
  `bulkCreate` (look up all keys, embed the unknown ones, one transaction per
  item); atomic bulk creation is not modelled yet;
* `MemoryUpdate`, `AtomUpdate`, `GuardedUpdateRead`, `GuardedUpdateCommit`:
  `update` without and with `expectedVersion`;
* `Remove`, `HardDelete`, `AtomRestore`, `MemoryRestoreGet`,
  `MemoryRestoreCommit`, `ArchiveExpired`: life cycle;
* `Link`, `Unlink`, `Merge`, `ConsolidateScan`, `ConsolidateLink`: relations;
* `ReplaceGet`, `ReplaceLookup`, `SupersedeBegin`, `SupersedeCommit`:
  `memory_replace`, `atom_supersede`;
* `ReembedScan`, `ReembedBatch`, `ReembedBatchFails`: re-embedding;
* `CallFails`: a call throws or its process dies before its transaction.

Why a transaction is one action. Every transaction of the store either is one
statement or locks the rows it reads (`SELECT ... FOR UPDATE`, or the row lock of
`UPDATE` and `ON CONFLICT DO UPDATE`) before it computes from them; an insert into
`atom_relations` or `atom_events` locks the atoms it refers to through its foreign
keys. What a transaction writes depends only on rows it has locked, so it behaves
as if it ran at its commit. When two transactions wait for each other PostgreSQL
aborts one, which is `CallFails`. The single read of `update` before its
transaction, the embedding of the new content, depends on nothing stored, so
`update` needs no second action.

Abstractions. Contents are model values and stand for normalized contents; the
hash is injective on them. One embedding signature (provider, model, dimensions)
is in use. Tags, importance, metadata, weights, timestamps and access counts are
left out; `recordAccess` and `feedback` change nothing else. Which rows expired,
which pairs are similar, how a scan is limited and ordered is the environment's
choice. The items of a bulk creation form a set and are processed in any order.
Auditing is enabled. A relation inserted twice is one relation, as in the table.

Constants and bounds. `Operations` selects the operations a deployment's clients
use, so that a run can concentrate on one question; a theorem without a condition
on it holds for all of them. `MaxVersion`, `MaxBatch` and `MaxLinks` are bounds for
TLC: a row is not written beyond `MaxVersion`, a bulk creation has at most
`MaxBatch` items, `atom_link` is not used beyond `MaxLinks` relations. Because of
these bounds a bounded system stops, so the runs do not check for deadlock.

Properties. `OneAtomPerContent`, `RelationsJoinAtoms`, `SupersededHasSuccessor`,
`EmbeddingMatchesContent`, `VersionIdentifiesRow`, `MergeKeepsNeighbours`,
`HistoryCoversWrites` and the refinement `RowsAreVersioned` hold (under the
conditions stated with them); with re-embedding `EmbeddingMatchesContent` does not
(section 4).

### VersionedRows

A client that holds an atom id may rely on this: the row appears once, every
visible change raises the version, an index refresh changes nothing visible, and
a removed row does not come back. `AtomStore` implements it under `View`, which
shows a row as phase, version, body (namespace, content, status) and index.

### Maintenance

State. `proc[p]` holds the fields of the `MaintenanceService` of a server process:
`running`, `queued`, whether the timer is set, and whether the clean-up of stale
rows that `start` sends is still unanswered. `job[j]` is the call that works on the
job with id `j`: the await it stands at (`phase`), its process, whether it came
through `enqueue` or `run`, the job type and the steps done. `row[j]` is the row of
the job in `maintenance_jobs`: status and kind of error. `stale` holds the rows
older than five minutes.

Actions. One action per piece of code between two awaits:

* `Request`, `Tick`, `Run`, `Boot`: `enqueue` called by the tool, the timer and
  `start`, and `run`, up to their INSERT. A busy process refuses and changes
  nothing, so a refusal is no action. In the code a call is refused when either
  flag is set (`SlotFree`);
* `InsertCommits`, `InsertAnswered`, `InsertFails`: the database executes the
  INSERT, its answer arrives, or an error does, before or after the row exists;
* `ExecuteQueued`: the microtask that moves the reservation from `queued` to
  `running`;
* `MarkAnswered`, `MarkFails`, `StepDone`, `StepFails`, `SuccessRecorded`,
  `RecordFails`, `FailureRecorded`, `FailureUnrecorded`: the queries of
  `executeQueued` and `executePersisted` and the steps of `execute`, in its order;
* `Caught`: the catch clause of `run` or `executeQueued`, a microtask after the
  `finally` of `executePersisted`;
* `Stop`, `Crash`: `stop` in the shutdown handler (`src/transports/http.ts:256`),
  and the end of the process there or anywhere;
* `Sweep`, `SweepFails`: the UPDATE of `start`, executed late or lost;
* `Age`: five minutes pass.

Microtasks. `Drained(p)` says that no microtask of the process is waiting; the
answer of a query is only taken then, which is how Node.js schedules. Several
waiting microtasks run in any order.

Abstractions. A query is executed and answered in one step, except the INSERT,
whose row other processes' clean-ups can meet before the answer. A query whose
answer is lost is executed at that moment or never; one in flight when the process
dies was executed before or never is. Both orders are equivalent to a later
execution, as no other statement but the clean-up looks at the row. The closing of
the pool at shutdown makes queries fail, which they may at any time. What a step
does is the business of `AtomStore`; here it succeeds or throws. `status` reads
only. The UPDATE in the busy branch of `executeQueued` does not fail in the model;
that branch is unreachable (`AcceptedIsNeverRefused`).

Constants. `Requests` are the job types clients ask for and `Enabled` the optional
steps the configuration switches on. `Scheduled` is `MAINTENANCE_ENABLED`.
`RunCallers` are the processes in which `run` is called: its comment
(`src/maintenance.ts:68`) names CLI and tests, and no tool of the server uses it.
`EagerCallers` lets it be called between two microtasks; without it, it is called
from a macrotask such as a command or a timer. The catch clause of `run` resets
`running` for errors of `executePersisted` too (`src/maintenance.ts:85`), one
microtask after that released the slot, so an eager caller could lose its
reservation. The server has none, and every run sets `EagerCallers = FALSE`. `Prompt` says that a live process
takes less than five minutes from the INSERT to the UPDATE of a job: `Age` then
only meets rows whose call is over.

Properties. `OneJobAtATime`, `SlotNeverLeaks`, `AcceptedIsNeverRefused`,
`RowsTellTheOutcome`, the refinement `SlotIsExclusive` and the liveness properties
`SlotIsReleased` and `AcceptedIsSettled` hold. `FailedIsFinal` and
`SweptIsNotExecuted` hold where processes are prompt (section 4 says what a slow one
does).

The rows of executing jobs stay `running` after a crash, and those queued within
five minutes before a restart stay `queued` until a later start: `RowsTellTheOutcome`
and `AcceptedIsSettled` except processes that died, as the code does nothing else.

### MaintenanceSlot

A process holds at most one lease at a time; each job is leased at most once.
`Maintenance` implements it under `Lease`: a job is leased from its reservation in
`enqueue` or `run` until the flags are reset.

### OAuth

State. `grant[c]` is the namespace list of a client (`Nothing`: no row), `rows[x]`
the row of a code or token, `requests[r]` a request of the token endpoint or the
approval form between its statements, `change[c]` the administrator's transaction
between its statements. `lineage[x]` is history: parent, root and consent of a
credential, kept when its row is deleted, and `overtaken`, which is set when a
change of the grant was under way or committed while the request that issued it, or
an ancestor of it, was served.

Actions. `Register`, `Approve` and `CodeInsert` (the client's namespaces are read
in one statement and the code inserted in the next), `ExchangeLock`, `RefreshLock`
and `Issue` (SELECT FOR UPDATE and checks; mark the row, insert the tokens,
commit), `Abort`, `Revoke`, `Expire`, `Cleanup`, and `GrantChangeBegin`,
`GrantChangeRevoke`, `GrantChangeCommit`, `GrantChangeAbort`: the three statements
of `oauth-namespaces`. An UPDATE or DELETE picks its rows when it begins and
finishes when none of them is locked, skipping those that changed meanwhile, as
PostgreSQL does at READ COMMITTED.

Abstractions. Hashes are injective, the redirect URI and the PKCE verifier match,
namespace lists are opaque, and of time only that a row lapsed is kept. Wrong
passwords are in `Access`.

Properties. `SingleUse`, `WithinConsent`, `GrantReaches`, `SpentIssuesNothing`.
`WithinConsent` bounds a token both by the approval its session began with and by the
credential it was issued from.
`GrantReaches` excepts credentials that were overtaken: a code whose namespaces were
read before the change and which is inserted after it does carry the old grant.

### SmartMemory

State. `atoms` (content, status, version, the slot in the metadata, the slot tags),
`calls` (a `remember` between its reads and writes), `cache` (decisions, oldest
first), `spent` (today's calls and tokens), `deployment` (model or none, and what
clients say), and `disturbed`, history: the slots for which something happened that
may leave two values.

Actions. `RememberBegin` reads the atoms of the slot; `ReplaceCommit` supersedes the
only one; otherwise the candidates are read and one of `DecideByRule`,
`DecideFromCache`, `Ask` follows (no await in between); `ModelAnswers`,
`ModelFails`; `ApplySkip`, `ApplyRetire`, `ApplySupersede`, `ApplyCreate`, one
transaction per planned atom; `AnnotateRead`, `AnnotateWrite`, `AnnotateFails`, the
metadata; `CallEnds`. Around them: `MemoryUpdate`, `MemoryForget`, `MemoryRestore`,
`NewDay`, `CacheExpire`, `Restart`.

Abstractions. What a text says (its slot, its pieces, how much it resembles another)
is given by constants; a slot is one value of one namespace; of several slot tags of
an atom the first counts, in the order of the list (`TagOrder`, `FirstTag`). The rows
behave as in `AtomStore`, whose transactions are single steps here as well. The plan of the model
is any short list of actions over any atoms.

Properties. `OneValuePerSlot` says that a slot not in `disturbed` has at most one
active value. The exceptions are those of the code: overlapping calls (the slot is
read in one transaction and written in another), a lexical search that missed a
value, a call whose tags name several slots, an atom edited or restored by hand (the
slot of a call that has the edited atom in hand included), and stored texts other
than the one remembered. That the slot always has a value is not claimed: see section 4.
`ReplacesOnlyItsSlot`, `DailyBudgetAlmostHolds` (the token budget is tested with the
text and charged with the prompt, so the day ends up to one prompt above it) and
`CachedDecisionFitsCandidates`.

### Migrations

State. `recorded` (versions in `foundation_schema`), `present` (what exists of the
schema), `foreign` (a table `atoms` of another application), `queue` (who waits for
the advisory lock), `stage[p]`, and `applied`, history: how often a migration was
committed. Initial states are an empty database, the unnumbered ones of earlier
releases, and every numbered one.

Actions. `Start`, `Check` (AUTO_MIGRATE=false), `LockGranted`, `InferCore` and
`InferOAuth` (the baseline of an unnumbered database is recorded in two
autocommitted statements), `ReadRecorded`, `Apply` (one transaction), `Finish`,
`Abandon` (an error) and `Crash` anywhere.

Abstractions. A migration is what it creates and what it refers to. Statements of
migrations that only move data are part of their transaction.

### Planner and Recall

`Planner` holds the context planner as operators over sequences: the estimate of
tokens, the greedy choice by marginal relevance, the packing into lines. Scores are
integers and similarities percentages, so that the comparisons of the code, which
divides by the best score, are comparisons of integers here. The loops of both modules
are recursive functions (`Through` in `Loops`), about which can be proved what cannot
be about RECURSIVE operators.

`Recall` puts it where it is used. State: the namespace and status of the atoms,
`recorded` (whose access was counted) and `calls`. `Begin`, `Search` (one statement
per part of the query, side by side, each possibly without an embedding), `Pack`
(the statement that reads the relations, and the packing that follows it without an
await), `RecordAccess`, `CallEnds`; other calls `SetStatus` and `Move` atoms in
between. A search that has not answered yet is `Pending` in the results of its call;
each takes up to `Overfetch` results, four for each atom asked for, at least 20 and at
most 100. Related atoms come row by row (`JoiningRelations`, `FoundThrough`). `inside` and `moved` are history: atoms that were active in the namespace
at some time of the call, and whether any atom moved during it. `OutsidersStayOut`
needs the latter: related atoms are sought where the seed is by then.

Abstractions. How well a text answers a part of a query is a constant; results of
equal score come in any order. The relations are fixed, and come in an order by
weight (`RelationAssumption`); among equal weights the code goes by the time of the last
change, and any order is a value of the constant. Filters by type, tag and importance
are left out.

Properties. `OutsidersStayOut`, `WithinBudget`, `PicksAreGreedy`, `NothingElseFits`.
The last speaks of every candidate of the call: one that the context lacks fits with
none of its lines, or the context has the atoms asked for, or three times as many
candidates as asked for came before it in the diversified order, which is cut there.

### Access

State. `now`, `entries` (the windows of the two limiters), `failures` (failed
approvals), `spaces` and `relations` (the namespaces of atoms and who is related),
`revoked`, `requests`; histories `admitted` and `guesses` (what was let through, as
pairs of its time and a serial number). An authorized request remembers which atoms
its searches `found`, the namespace `searched` for similar atoms, and, as a history,
`changed`: atoms other requests brought into their namespace or related since the
check.

Actions. `Tick`, `Rejected`, `Receive`, `Authenticate`, `Authorize`, `RequestEnds`,
what a tool reads before it writes or answers (`Find`, `ReadSimilar`), the tools by what
they do to namespaces (`RunCreate`, `RunUpdate`, `RunSupersede`, `RunRemove`, `RunLink`,
`RunUnlink`, `RunMerge`, `RunConsolidate`), `ApprovalAttempt`, `Revoke`.
`Involved` is what the check looks at: the atoms a call names, or those of the
namespace it names. `Reads` is what the tool may look at or write when it runs, each
atom with the one that leads to it: `atom_find_similar` reads its atom and then searches
the namespace that atom is in by then, a context reads the neighbors of what it found in
the namespace these have by then, `memory_remember` and `atom_consolidate` write what
they found.

Abstractions. Of a tool, which atoms and namespaces it involves; a search finds any of
the atoms it may. The clock advances
in steps; a window has two, an approval window three. Passwords are right or wrong.

Properties. `AtMostTwiceTheLimit` and `GuessesAreLimited` speak about any interval
of the length of a window, wherever it begins. `InvolvesOnlyAllowed` and
`MovesOnlyWithin` except atoms that another request changed after the check, since
the check and the tool are separate transactions. The exception of
`InvolvesOnlyAllowed` is for the atom that leads to another: atoms nobody changed are
read in a forbidden namespace only by way of one that was moved, created or related.

### Embedding

State. `config`, `cache` (the `Map` in its order) and `calls` with their workers.
`EmbedMany` is everything up to the first await; `Answer`, `FailAndRetry`, `Fail` and
`Retry` are what happens to a worker's request; `Expire` is the age of an entry.
A call that fails leaves its other workers running, as `mapLimit` does. `missing` is
the list of distinct texts a call has to ask for and `answers` their vectors, place by
place; batch `b` is a range of these places (`Positions`).

Abstractions. A vector is the key it was computed for. A provider that indexes its
answers may send them in any order and too few of them; one that does not answers in
order. Status codes, time-outs, network errors and answers that are not JSON are
failures that may or may not be tried again.

Properties. `OwnVectors`, `FailuresCacheNothing`, `LearnsWhatFits`, `EveryCallEnds`.
`LearnsWhatFits` has one exception, a key that another call cached meanwhile: setting
it again leaves it in its old place, where a full cache may evict it.
Two calls that miss the same text at the same time both ask for it: there is no
single flight between calls, and no property claims it.

### Types

Every module defines `TypeOK`, which documents its variables. It is proved for all of
them (section 5) and checked in `Balanced`; in the other modules it says nothing that
their properties do not rest on and is not part of a run.

## 3. Runs

Each run is an instance of the `MC` module of its component. Ids, callers and the
like are symmetric where no property of the run is temporal.

| Run | Question | Bounds |
|---|---|---|
| `Balanced` | do the five memory tools keep types, embeddings and the contract of the table? | 3 atoms, 2 contents, 2 calls, versions to 4 |
| `History` | do supersession history, neighbourhoods and the audit trail survive merges, deletions, expiry and restores? | 3 atoms, 2 links of 2 types besides the supersessions, versions to 2 |
| `Writers` | are `expectedVersion`, late consolidation links and the unique key sound against every other writer? | 2 atoms, 2 contents, 2 calls, bulk creations of 2, 1 link, versions to 2 |
| `ReembedRace` | does an embedding stay with its content next to re-embedding? (it does not: section 4) | 2 atoms, 2 contents |
| `Jobs` | is the slot of a process exclusive and never lost, and do rows tell the truth when processes share the table? | 2 processes with schedule, tool and `run`, 3 jobs |
| `Release` | does every reservation end and every accepted job get an outcome? | 1 process, 3 jobs, `enqueue` and `run` |
| `Grants` | is a credential used once, are scopes that a refresh gave up gone for good, does a change of the grant reach the rest, and does a spent credential issue nothing? | 1 approval, 7 credentials (5 when the grant changes), 2 requests, 3 scope requests, 1 change |
| `Slots` | what remains of "one value per slot", the budget and the decision cache when calls interleave? | 2 atoms, 3 texts, an explicit and an inferred slot, 2 calls, 3 deployments, versions to 3 |
| `Start` | do interrupted and concurrent starts leave a schema the next one completes? | 3 processes, one of them without AUTO_MIGRATE, the 6 migrations |
| `Recall` | what may a context show when the table changes during the call, and is the packing right at its limits? | 4 atoms, 2 namespaces, 4 requests with least, tight and wide budgets (one of them cuts its candidates), 2 queries |
| `Access` | do limits hold in every interval, and does a restricted credential stay in its namespaces? | 2 addresses, 2 requests, 3 atoms, 2 namespaces, clock to 5, 6 deployments |
| `Embeddings` | do texts get their own vectors and failures leave no trace when calls share the cache? | 2 texts, 2 calls, 2 purposes, up to 2 batches and 2 workers, 1 retry, caches of 0 to 2 |

Why the bounds are enough. The properties of the atom store relate at most three
atoms (a merged source, its target and a neighbour; an old atom, its replacement and
a third that absorbs the replacement), and every race needs a call in flight and one
more writer. Two calls give two pending reads at once. Versions beyond the bound
repeat the situations of smaller ones, as no guard looks at the number itself; the
theorems of section 5 remove the bounds.

`History` and `Writers` keep versions at 2: each atom is written once after its
creation, which is what replacing, merging or deleting a participant, or overtaking
a reader, takes; longer histories of a row are those of `Balanced`.

A slot of maintenance is local to a process and the only thing processes share is a
row, which a second process changes in its clean-up; two processes are therefore
enough, and one for `Release`. Three jobs are one that executes, one that takes its
place and one that comes too early; an id is used once, so a run ends when the ids
are used up, and deadlock is not checked. Two enabled steps make a full job one that
can fail between its steps.

`Grants` follows one approval: a code and three pairs of tokens are what it takes to
narrow the scopes in one refresh and to ask for more in the next, and what two exchanges
of a code or two redemptions of a refresh token would leave; a code, a pair and the pair
of a refresh (`WithChange`) are what a change of the grant meets. Its credentials are
numbers and `SessionSpec` issues them in order, as which unissued one a statement gets
makes no difference; another approval or client would be another session, whose rows a
request or a change treats one by one. `Slots`: two atoms are an old value and a
new one, the three deployments are slots by rule, texts that split, and a model;
`Start` has all of the real migrations. `Recall` has an atom for every role (found by
words, found by its embedding only, related, related and found), and its two steady
atoms keep the number of tables small. `Access`: a limit of one and a sweep above one
entry make every boundary happen within two windows; three deployments
are of the clock and three of the tools, which do not read it: those that name atoms,
those that search, and those that relate atoms. `Embeddings`: five configurations have
two batches at a time, one batch of two texts, two batches behind one worker, a
provider without indexes and none at all, with a cache that holds everything, one
entry or nothing.

Where a bounded system stops (versions, ids, credentials or the clock are used up, or
a call has nothing left to do) deadlock is not checked. `Start` checks it.

Fairness. `Release`: `FairSpec` assumes for each job that `Progress` does not stay
enabled without being taken: a query the process sent is answered or fails, and
microtasks run. `Start`: the same for each starting process, and PostgreSQL grants an
advisory lock in the order of the requests. That is what the driver and the event
loop do; it is an assumption about the database, since neither the pool nor the
services set a deadline. `Embeddings` assumes of each worker only what timers bring
about (`TimerStep`): the time-out of an attempt and the end of the delay after it; no
answer of a provider is assumed. No client, schedule, start or stop is assumed to
act, and `Crash` may come at any time and need not come. The other runs assume no
fairness: a client may stop after any call.

## 4. Disagreements

`ReembedRace` checks a sentence of the code base and TLC finds a behaviour that
violates it: "Recomputes its hash and embedding when content changes"
(`src/mcp-server.ts:322`). A re-embedding run reads a content, waits for the provider
and writes by id alone (`src/atom-service.ts:868`); an update in between is left with
the embedding of its old content, and the row is never scanned again because its
signature is current.

The modules contain other behaviours that a reader may not expect. They follow from
the text of the code; no run claims their absence:

* Replacing A by B and then B by A reuses the row of A, which `dedupe: "merge"` leaves
  superseded (`src/atom-service.ts:1182`), so both rows end up superseded; the comment
  at `src/smart-memory.ts:362` says that the replacement should remain active. For the
  same reason a slot of `SmartMemory` may be left without a value.
* `memory_replace` and `memory_restore` read the status before the transaction that
  relies on it (`src/mcp-server.ts:193` and `:236`): a memory retired in between is
  superseded all the same, and one superseded in between is revived.
* The sources of a merge, the old atom of a supersession and expired atoms get a
  version without an event of their own, while `src/mcp-server.ts:639` promises a history of merges and
  lifecycle changes. `HistoryCoversWrites` excepts these and no other retirement: in a
  merge or supersession the target or the replacement must get its event in the same
  step, with the relation that leads to it, and only the sweep of expired atoms needs
  none.
* `executeQueued` does not look at the result of its guarded UPDATE
  (`src/maintenance.ts:111`): where a live process takes more than five minutes to get
  there (`Prompt = FALSE`), another's start fails the row, and the job is executed all
  the same, against the comment at `src/maintenance.ts:22`.
* Two overlapping remembers of one slot leave two values, and `annotateAtom` overwrites
  metadata written since it read them (`src/smart-memory-slots.ts:154` and `:239`).
* A code inserted while the grant of its client changes carries the old grant
  (`src/oauth-service-base.ts:105`).
* An atom moved between the check of its namespace and the tool is acted on in its new
  one (`src/transports/http.ts:149`). `atom_find_similar` then searches all of that
  namespace for a restricted credential (`src/atom-service.ts:493-501`), and a context
  reads the moved atom's neighbors there (`src/atom-service.ts:1251`): atoms nobody
  touched, which the check never saw.
* `README.md:291` says that an answer which is not valid JSON is not retried; the
  embedding service retries it, as an error without a code counts as a network error
  that may pass (`src/embeddings.ts:247` and `:317`).
* The repository's `README.md:142` speaks of schema version 5; the code is at 6.

## 5. Proofs

### Atom store

`AtomStoreProofs` proves, for all values of the constants that satisfy the four
assumptions of `AtomStore` (operations are known ones, NULL is no content, the
version bound is positive, the two built-in relation types exist):

| Theorem | Statement | Condition |
|---|---|---|
| `TypeCorrect` | `[]TypeOK` | |
| `RelationsSafe` | `[]RelationsJoinAtoms` | |
| `ContentIsUnique` | `[]OneAtomPerContent` | |
| `SupersededTraceable` | `[]SupersededHasSuccessor` | no client hard-deletes, unlinks or sets a status by hand |
| `StoreImplementsContract` | `RowsAreVersioned` | |
| `GuardIsSound` | `[]VersionIdentifiesRow` | |
| `EmbeddingsMatch` | `[]EmbeddingMatchesContent` | nothing re-embeds |
| `WritesAreCovered` | `HistoryCoversWrites` | |
| `MergesKeepNeighbours` | `MergeKeepsNeighbours` | |

The argument. `StoreInv` (types and relations together) is inductive: `Unlink`
writes the event mark of an atom that only `RelationsJoinAtoms` says exists, so
neither half is inductive alone. The type lemmas, one per group of actions, also
show that no row disappears except by hard deletion (`RowsPersist`), which is what
keeps relations valid. `ContentIsUnique` is inductive with `TypeOK`: every step
gives at most one row another key, and one that no other row holds
(`OneKeyMoves`). `SupersededTraceable` needs `StoreInv`: a step either retires
nothing and removes no relation, or is a merge, which hands the relation to its
target, or is the supersession that adds it. `StoreImplementsContract` rests on
`RowStep`: each action moves each row as the contract allows. `GuardIsSound`
strengthens the property to `SeenInv` (what a client has seen is a past state of
the row, and the row is not an unused id), which `RowStep` preserves.
`EmbeddingsMatch` is inductive with the fact that no call is re-embedding. The two
action properties need `TypeOK` only: `WritesAreCovered` follows action by action, and
`MergesKeepNeighbours` from what a merge makes of each relation, which is dropped,
kept or moved to the target (`RewiredNeighbours`).

### Maintenance

`MaintenanceProofs` proves, for all values of the constants that satisfy
`MaintenanceAssumption`:

| Theorem | Statement | Condition |
|---|---|---|
| `JobsTyped` | `[]TypeOK` | |
| `OutcomesTold` | `[]RowsTellTheOutcome` | |
| `MutualExclusion` | `[]OneJobAtATime` | no eager callers of `run` |
| `SlotIsOwned` | `[]SlotNeverLeaks` | no eager callers of `run` |
| `SlotRefined` | `SlotIsExclusive` | no eager callers of `run` |
| `AcceptedIsExecuted` | `[]AcceptedIsNeverRefused` | no eager callers of `run` |
| `FailedStaysFailed` | `FailedIsFinal` | prompt processes |
| `SweptStaysIdle` | `[]SweptIsNotExecuted` | prompt processes |

The argument. `OneJobAtATime` is not inductive: it says nothing of the flags that
keep it. `SlotInv` adds three facts. `FlagsMatch`: each flag is set exactly when a
call holds it (`queued` from `enqueue` to the microtask, `running` from there, or
from `run`, to the release). `OneUnderway`: a process has at most one call between
reservation and release. `NoLateCatch`: while an error is on its way to a catch
clause, any later call of the process is an `enqueue` awaiting its INSERT, so
`running` is not set and the clause resets nothing; this is what an eager caller
breaks, and why the condition is needed. `SlotNeverLeaks` itself is the fourth
conjunct. `OwnedStep` and `ProgressMoves`
show that a step moves one call of one live process, so that each action needs to
be considered for its own process only. The refinement follows from `OneUnderway`:
a step takes a lease, gives one back, or leaves `Lease` alone; a crash gives back
the one lease its process has.

`OutcomesTold` rests on `WorkInv`, which relates each call to its row (`Agree`): a
row exists from the INSERT on and says "succeeded" only after all steps. The
theorems about failed rows need more (`FinalInv`): a call under way never has a
failed row, and a row that is still queued belongs to a call that has done nothing.
The clean-up could fail the row of a live call, were it stale; `Prompt` excludes
that.

Only model-checked: `SlotIsReleased` and `AcceptedIsSettled`, liveness under
fairness, which the prover does not handle.

### Migrations

`MigrationsProofs` proves, for any processes and any assignment of `AUTO_MIGRATE` to
them:

| Theorem | Statement |
|---|---|
| `StartsTyped` | `[]TypeOK` |
| `RecordedStaysComplete` | `[]RecordedIsComplete` |
| `NothingAppliedTwice` | `[]AppliedOnce` |
| `ServedSchemaIsLatest` | `[]ServesLatestSchema` |

The argument. None of the four is inductive. `MigrationInv` adds `LockHeld` (whoever
migrates is first in the queue, so only one process does), `StageTells` (the holder of
the lock has read exactly what is recorded; "inferring oauth" is reached only with
version 1 recorded and the oauth tables there; whoever serves has seen the last
version), `CoreIsWhole` (a table `atoms` of this program comes with the other tables of
version 1, which makes the inferred baseline true) and `AppliedIsRecorded`. A process
that applies a migration is alone, so what it read is what is recorded, and the least
missing version leaves no gap.

Only model-checked: `StartEnds`, liveness.

### OAuth

`OAuthProofs` proves, for any clients, credentials, requests, namespaces and scopes:

| Theorem | Statement |
|---|---|
| `OAuthTypes` | `[]TypeOK` |
| `SingleUseHolds` | `[]SingleUse` |
| `WithinConsentHolds` | `[]WithinConsent` |
| `SpentIssuesNothingHolds` | `SpentIssuesNothing` |
| `GrantReachesHolds` | `[]GrantReaches` |

The argument. `SingleUse` speaks of credentials that were issued and says nothing of
the requests about to issue one. `CredentialInv` adds them. `HeldStays`: what a request
read under its row lock is still so (the row unspent, its client, namespaces and scopes
the same), no other request holds the row, and no change of a grant has locked it.
`DoomedStay` and `TargetsStay`: the rows a change of a grant has selected are its
client's, and those it has locked stay unspent. `ParentsSpent`: whatever was issued
from a code or token, that one is spent. So two children of one parent would need two
holders of its row, or a spent row that becomes unspent, and no action makes one
(`RowsOnlyEnd`). `SpentIssuesNothing` is a property of the steps of the same
invariant.

`WithinConsentHolds` adds `ScopesNarrow`: a credential has the scopes it was issued
with, and its parent, whose origin is kept when its row is deleted, had them too. What a
refresh asks for is within what its locked row has, so no step widens.

`GrantReaches` rests on `GrantInv`: what was issued outside any change carries the
grant as it is (`GrantCarried`), so does what an approval read and has not yet written
(`ApprovalsCurrent`), and a change under way has selected all such credentials of its
client (`ChangeCovers`). The commit of a change replaces the grant and ends all it
selected, which is all there is.

### Access

`AccessProofs` proves, for any addresses, requests, atoms, namespaces, tools, windows
and limits:

| Theorem | Statement |
|---|---|
| `AccessTypes` | `[]TypeOK` |
| `AtMostTwiceTheLimitHolds` | `[]AtMostTwiceTheLimit` |
| `GuessesAreLimitedHolds` | `[]GuessesAreLimited` |
| `InvolvesOnlyAllowedHolds` | `[]InvolvesOnlyAllowed` |
| `MovesOnlyWithinHolds` | `MovesOnlyWithin` |

The argument. The limiter and the counter of failed approvals are one fixed window,
and `Fits` relates such a window to the history of what it let through: the open
window holds no more than its counter and its limit, the window's length before it no
more than the limit, and when none is open the last window's length no more than the
limit. An interval that ends in the open window meets at most these two
(`TwoWindows`), hence twice the limit; the sweep drops only windows that are over.
Cardinalities of the histories come from `FiniteSetTheorems`. The two properties of
authorization follow from `CallsAllowed` and `DestinationsAllowed`, what the check said
stays true of an authorized request, but for the atoms in its `changed`, and from
`LeadsAllowed`: what it found since, and the namespace it searches for similar atoms,
are allowed as well, or come from such an atom.

### Smart memory

`SmartMemoryProofs` proves, for any texts, slots, tags, plans of the model,
deployments, calls and cache sizes:

| Theorem | Statement |
|---|---|
| `SmartMemoryTypes` | `[]TypeOK` |
| `DailyBudgetHolds` | `[]DailyBudgetAlmostHolds` |
| `CachedDecisionsFit` | `[]CachedDecisionFitsCandidates` |
| `ReplacesOnlyItsSlotHolds` | `ReplacesOnlyItsSlot` |
| `OneValuePerSlotHolds` | `[]OneValuePerSlot` |

The argument. Types need `PlansRemain`: a call that applies a decision has some of it
left. `ReadInv` is about what calls and cached decisions go by: it is a reading of the
past, the same as now or of an older version (`Past`); the key of a cached decision is
that of the candidates it was shown (`KeysFit`), so equal keys mean equal ids and
versions, hence equal contents; a value that is about to be replaced was read as one
of the call's slot (`ReplacesOfSlot`).

`OneValuePerSlot` is not inductive, as a call stores a value in a step and looks at
the slot in an earlier one. `SlotInv` adds, for a call whose slot is not in
`disturbed`: no other call is under way (`Alone`), and apart from the value it is
about to replace all values of its slot, and all atoms it has in hand, say just its
text (`OnlyTheText`), which one atom at most does (`NoTwins`). The proof found three
disturbances that the small instance does not have and the property has to except: a
call whose tags name several slots, an edit of an atom that a call has in hand, and
another text stored by a call, into which the call's slot is written afterwards even
if the text names another slot or none.

### Recall and planner

`RecallProofs` proves, for any atoms, texts, similarities, lines, scores, relations,
queries and budgets:

| Theorem | Statement |
|---|---|
| `RecallTypes` | `[]TypeOK` |
| `OutsidersStayOutHolds` | `[]OutsidersStayOut` |
| `WithinBudgetHolds` | `[]WithinBudget` |
| `NothingElseFitsHolds` | `[]NothingElseFits` |
| `PicksAreGreedyHolds` | `[]PicksAreGreedy` |

The argument. Each loop has an invariant of its own, which holds after every number of
rounds (`Iteration`, `Inductive`): ordinary induction over natural numbers as an
argument about a least counterexample. Packing: `PackedWell`, the counted
characters are those of the joined lines and the counted tokens no fewer than their
estimate (rounded line by line), and `SeenBy`, a candidate is packed or did not fit,
and what did not fit a shorter context does not fit a longer one. A candidate that
packing never saw was cut, as the picks are then all candidates or as many as the
limit (`AllOrCut`). Picking:
`PickedWell`, the redundancy of each candidate left is its largest similarity to all
picks so far, and the picks are greedy. Searching: results come from a set of atoms
that is closed under joining (`ClosedUnderJoining`), and merging and expansion keep
to it. The state invariant `RecallInv` says that a call notes the atoms that were in
its namespace (`Noting`), found only such (`Searching`), and has packed what the
planner makes of its candidates (`Recording`).

### Embedding

`EmbeddingProofs` proves, for any texts, callers, inputs and configurations, with
Null being no vector:

| Theorem | Statement |
|---|---|
| `EmbeddingTypes` | `[]TypeOK` |
| `OwnVectorsHold` | `[]OwnVectors` |
| `FailuresCacheNothingHolds` | `FailuresCacheNothing` |
| `LearnsWhatFitsHolds` | `LearnsWhatFits` |

The argument. `EmbeddingInv` adds two facts to the types. `Caches`: every entry of the
cache has the vector of its own key, a key occurs once, and the size is kept; look-up,
expiry, storing and eviction keep it so. `CallFits`, for a call that waits (`Waits`):
each of its texts was found with its vector or is among the missing ones, and each
batch is still to be taken, in the hands of a worker, or answered with the vectors of
its texts. When the last worker is over every batch is answered, and every missing
place is in some batch (`BatchesCover`). That an answer in another order is put right
is `ResultsInOrder`: indices of a whole batch that increase are 1, 2, and so on. The
action properties need the loop that stores: it adds keys it was given only, and
what it added is at the end of the cache, behind everything that may be evicted, as
long as there is room for all of it (`NewAtEnd`), and what it set again stays unless
the cache is full (`Settled`).

### Only model-checked

The liveness properties `EveryCallEnds`, `StartEnds`, `SlotIsReleased` and
`AcceptedIsSettled`: fairness and ENABLED are beyond the prover. Every other property
of a passing run is a theorem, under the conditions the tables above give.

## 6. Plan

1. An abstract specification of the authorization server (credentials issued, used
   once, ended) and of the embedding cache, with the refinements proved from
   `CredentialInv` and `EmbeddingInv`.
2. `LegacyImport`: crash and resume over the creation contract of `AtomStore`.
3. Atomic bulk creation with row locks: deadlock between calls, and its equivalence to
   a sequence of creations.

Not modelled. Legacy import: a command-line loop of bulk creations; a row imported
twice is a create with a known content, which `AtomStore` covers. Two releases on one
table (migration 5 fails jobs of a live older process): `Migrations` has the schema and
`Maintenance` the rows of one release. Row locks inside a transaction of the atom store,
so no deadlock between `merge` and bulk creations: PostgreSQL aborts one of them, which
is `CallFails`. `list`, `neighbors`, `similar` and `statistics`: single read-only
statements. Of the administration commands only `oauth-namespaces` is modelled; the
others read, or write files (`portableImport` restores atoms through `create`, so an
archived atom comes back active). SQL ranking, text classification and prompts, provider
protocols, HTTP plumbing, configuration parsing, telemetry, benchmarks, packaging:
wording, I/O and arithmetic without state.
