----------------------------- MODULE AtomStore -----------------------------
(***************************************************************************)
(* The atom store of Foundation: the atoms and atom_relations tables, the  *)
(* audit trail, and the AtomService operations on them as the MCP tools    *)
(* call them (src/src/atom-service.ts, src/src/mcp-server.ts).             *)
(*                                                                         *)
(* Every mutation runs in one PostgreSQL transaction that locks the rows   *)
(* it reads, and is one action.  What a call does BEFORE its transaction   *)
(* (look for a duplicate, read the atom, wait for the embedding provider)  *)
(* is a separate action that leaves what the call learnt in calls[c]: any  *)
(* other call may commit between the two.                                  *)
(***************************************************************************)
EXTENDS Integers, FiniteSets

CONSTANTS
  Ids,               \* atom ids the database can hand out
  Namespaces,
  Contents,          \* normalized contents; the hash is injective on them
  RelationTypes,
  Callers,           \* concurrent calls the server is executing
  Operations,        \* the operations this deployment's clients use
  EmbeddingsEnabled, \* is an embedding provider configured?
  NoEmbedding,       \* SQL NULL in the embedding column
  MaxVersion,        \* bound: a row is not written beyond this version
  MaxBatch,          \* bound: items of one bulk create
  MaxLinks           \* bound: atom_link is not used beyond this many relations

AllOperations ==
  {"create", "memory_update", "memory_replace", "memory_forget", "memory_restore",
   "atom_update", "guarded_update", "atom_delete", "hard_delete", "atom_restore",
   "atom_link", "atom_unlink", "atom_merge", "atom_supersede",
   "atom_reembed", "atom_consolidate", "archive_expired"}

ASSUME OperationsAssumption == Operations \subseteq AllOperations
ASSUME EmbeddingAssumption == /\ EmbeddingsEnabled \in BOOLEAN
                              /\ NoEmbedding \notin Contents
ASSUME VersionAssumption == MaxVersion \in Nat \ {0}
ASSUME RelationAssumption == {"supersedes", "duplicate_of"} \subseteq RelationTypes

VARIABLES
  atoms,      \* the atoms table, by id
  relations,  \* the atom_relations table
  audited,    \* per id, the row version its newest event in atom_events covers
  calls       \* per caller, the call between its reads and its transaction

vars == <<atoms, relations, audited, calls>>

Statuses == {"active", "resolved", "superseded", "deprecated", "archived", "deleted"}
Embeddings == Contents \cup {NoEmbedding}   \* the text an embedding was computed from
Rows == [ns : Namespaces, content : Contents, status : Statuses,
         version : 1 .. MaxVersion, embedding : Embeddings]
Unused == [status |-> "unused"]             \* id not handed out yet
Gone == [status |-> "gone"]                 \* row hard-deleted
Relations == [from : Ids, to : Ids, type : RelationTypes]
Items == [ns : Namespaces, content : Contents, dedupe : {"merge", "replace", "error"}]
Keys == Namespaces \X Contents
Pairs == {p \in Ids \X Ids : p[1] # p[2]}   \* near-duplicates of a consolidation scan

Idle == [op |-> "idle"]
Calls == {Idle}
  \cup [op : {"create"}, items : SUBSET Items, known : SUBSET Keys]
  \cup [op : {"guarded_update"}, id : Ids, seen : Rows]
  \cup [op : {"replace"}, old : Ids, item : Items]
  \cup [op : {"supersede"}, tool : {"memory_replace", "atom_supersede"}, old : Ids,
        item : Items, known : BOOLEAN, retire : BOOLEAN]
  \cup [op : {"memory_restore"}, id : Ids]
  \cup [op : {"reembed"}, rows : SUBSET (Ids \X Contents)]
  \cup [op : {"consolidate"}, pairs : SUBSET Pairs]

Init ==
  /\ atoms = [i \in Ids |-> Unused]
  /\ relations = {}
  /\ audited = [i \in Ids |-> 0]
  /\ calls = [c \in Callers |-> Idle]

Exists(i) == atoms[i].status \in Statuses
Active(i) == atoms[i].status = "active"
Holders(ns, content) ==     \* rows the UNIQUE (namespace, content_hash) key finds
  {i \in Ids : Exists(i) /\ atoms[i].ns = ns /\ atoms[i].content = content}
HasRoom(i) == Exists(i) /\ atoms[i].version < MaxVersion
Embed(content) == IF EmbeddingsEnabled THEN content ELSE NoEmbedding
\* create and supersede skip the provider when they saw a duplicate
EmbedUnless(known, content) == IF known THEN NoEmbedding ELSE Embed(content)
Bump(row) == [row EXCEPT !.version = @ + 1]

Return(c) == calls' = [calls EXCEPT ![c] = Idle]
Begin(c, call) == calls[c] = Idle /\ calls' = [calls EXCEPT ![c] = call]

----------------------------------------------------------------------------
(* Creation *)

\* Mutant: merging a duplicate forgets to count the revision.
CreatedRowUncounted(i, item, embedding) ==
  IF Exists(i)
  THEN [atoms[i] EXCEPT !.status = IF item.dedupe = "replace" THEN "active" ELSE @]
  ELSE [ns |-> item.ns, content |-> item.content, status |-> "active",
        version |-> 1, embedding |-> embedding]

\* Mutant: versions start at zero.
CreatedRowFromZero(i, item, embedding) ==
  IF Exists(i)
  THEN Bump(atoms[i])
  ELSE [ns |-> item.ns, content |-> item.content, status |-> "active",
        version |-> 0, embedding |-> embedding]

\* The row INSERT ... ON CONFLICT leaves at id i: a fresh row, or the holder
\* of the same content, reactivated only by dedupe = "replace" and keeping
\* its embedding when the call brought none.
CreatedRow(i, item, embedding) ==
  IF Exists(i)
  THEN Bump([atoms[i] EXCEPT
               !.status = IF item.dedupe = "replace" THEN "active" ELSE @,
               !.embedding = IF embedding = NoEmbedding THEN @ ELSE embedding])
  ELSE [ns |-> item.ns, content |-> item.content, status |-> "active",
        version |-> 1, embedding |-> embedding]

\* Mutant: no unique key, an insert always makes a row.
LandsOnAnyFreshId(i, item) == atoms[i] = Unused

\* The insert is not rejected and lands on id i.
LandsOn(i, item) ==
  \/ atoms[i] = Unused /\ Holders(item.ns, item.content) = {}
  \/ item.dedupe # "error" /\ i \in Holders(item.ns, item.content) /\ HasRoom(i)

\* atom_create, or a partial-success atom_bulk_create: look for duplicates of
\* all items at once, then embed the new ones.
CreateBegin(c, items) ==
  /\ "create" \in Operations
  /\ Begin(c, [op |-> "create", items |-> items,
               known |-> {<<it.ns, it.content>> : it \in
                            {x \in items : Holders(x.ns, x.content) # {}}}])
  /\ UNCHANGED <<atoms, relations, audited>>

ItemDone(c, item) ==
  LET rest == calls[c].items \ {item}
  IN  calls' = [calls EXCEPT ![c] = IF rest = {} THEN Idle ELSE [@ EXCEPT !.items = rest]]

\* One item in its own transaction.
CreateItem(c, item, i) ==
  LET known == <<item.ns, item.content>> \in calls[c].known
      row == CreatedRow(i, item, EmbedUnless(known, item.content))
  IN  /\ ~(known /\ item.dedupe = "error")
      /\ LandsOn(i, item)
      /\ atoms' = [atoms EXCEPT ![i] = row]
      /\ audited' = [audited EXCEPT ![i] = row.version]
      /\ ItemDone(c, item)
      /\ UNCHANGED relations

\* The item is rejected or its embedding failed; its siblings go on.
CreateItemFails(c, item) ==
  /\ ItemDone(c, item)
  /\ UNCHANGED <<atoms, relations, audited>>

----------------------------------------------------------------------------
(* Update *)

\* Mutant: a content change keeps the old embedding.
UpdatedRowKeepingEmbedding(i, ns, content, status) ==
  Bump([atoms[i] EXCEPT !.ns = ns, !.content = content, !.status = status])

\* The embedding is replaced exactly when the content differs from the row
\* the transaction has locked.
UpdatedRow(i, ns, content, status) ==
  Bump([atoms[i] EXCEPT !.ns = ns, !.content = content, !.status = status,
          !.embedding = IF content # atoms[i].content THEN Embed(content) ELSE @])

\* AtomService.update.  A field the caller left out keeps the row's value.
Update(i, ns, content, status) ==
  /\ HasRoom(i)
  /\ Holders(ns, content) \subseteq {i}
  /\ atoms' = [atoms EXCEPT ![i] = UpdatedRow(i, ns, content, status)]
  /\ audited' = [audited EXCEPT ![i] = atoms[i].version + 1]
  /\ UNCHANGED relations

MemoryUpdate(i, content) ==
  /\ "memory_update" \in Operations
  /\ Exists(i)
  /\ Update(i, atoms[i].ns, content, atoms[i].status)
  /\ UNCHANGED calls

AtomUpdate(i, ns, content, status) ==
  /\ "atom_update" \in Operations
  /\ Update(i, ns, content, status)
  /\ UNCHANGED calls

\* A client reads the atom (atom_get) and later patches its content, passing
\* the version it read as expectedVersion.
GuardedUpdateRead(c, i) ==
  /\ "guarded_update" \in Operations
  /\ Exists(i)
  /\ Begin(c, [op |-> "guarded_update", id |-> i, seen |-> atoms[i]])
  /\ UNCHANGED <<atoms, relations, audited>>

VersionMatches(c) ==
  /\ Exists(calls[c].id)
  /\ atoms[calls[c].id].version = calls[c].seen.version

GuardedUpdateCommit(c, content) ==
  /\ calls[c].op = "guarded_update"
  /\ VersionMatches(c)
  /\ Update(calls[c].id, atoms[calls[c].id].ns, content, atoms[calls[c].id].status)
  /\ Return(c)

----------------------------------------------------------------------------
(* Lifecycle: archive, delete, restore *)

\* Mutant: the event names no atom.
SetStatusUnaudited(i, status) ==
  /\ HasRoom(i)
  /\ atoms' = [atoms EXCEPT ![i] = Bump([@ EXCEPT !.status = status])]
  /\ UNCHANGED <<relations, audited>>

\* UPDATE atoms SET status, version = version + 1: whatever the old status.
SetStatus(i, status) ==
  /\ HasRoom(i)
  /\ atoms' = [atoms EXCEPT ![i] = Bump([@ EXCEPT !.status = status])]
  /\ audited' = [audited EXCEPT ![i] = atoms[i].version + 1]
  /\ UNCHANGED relations

Remove(i, status) ==
  /\ \/ status = "archived" /\ {"memory_forget", "atom_delete"} \cap Operations # {}
     \/ status = "deleted" /\ "atom_delete" \in Operations
  /\ SetStatus(i, status)
  /\ UNCHANGED calls

\* DELETE; the foreign keys take the relations of the row along.
HardDelete(i) ==
  /\ "hard_delete" \in Operations
  /\ Exists(i)
  /\ atoms' = [atoms EXCEPT ![i] = Gone]
  /\ relations' = {r \in relations : r.from # i /\ r.to # i}
  /\ UNCHANGED <<audited, calls>>

AtomRestore(i) ==
  /\ "atom_restore" \in Operations
  /\ SetStatus(i, "active")
  /\ UNCHANGED calls

\* memory_restore reads the status first and restores in a second statement.
MemoryRestoreGet(c, i) ==
  /\ "memory_restore" \in Operations
  /\ atoms[i].status \in {"archived", "deleted"}
  /\ Begin(c, [op |-> "memory_restore", id |-> i])
  /\ UNCHANGED <<atoms, relations, audited>>

MemoryRestoreCommit(c) ==
  /\ calls[c].op = "memory_restore"
  /\ SetStatus(calls[c].id, "active")
  /\ Return(c)

\* Mutant: archiving does not count as a revision.
ArchivedRowUncounted(i) == [atoms[i] EXCEPT !.status = "archived"]

ArchivedRow(i) == Bump([atoms[i] EXCEPT !.status = "archived"])

\* The maintenance sweep.  Which active rows have expired, and are not locked
\* by others, is the environment's choice.  Its event names no atom.
ArchiveExpired(expired) ==
  /\ "archive_expired" \in Operations
  /\ expired # {}
  /\ \A i \in expired : Active(i) /\ HasRoom(i)
  /\ atoms' = [i \in Ids |-> IF i \in expired THEN ArchivedRow(i) ELSE atoms[i]]
  /\ UNCHANGED <<relations, audited, calls>>

----------------------------------------------------------------------------
(* Relations and merge *)

Link(from, to, type) ==
  /\ "atom_link" \in Operations
  /\ from # to /\ Exists(from) /\ Exists(to)
  /\ Cardinality(relations) < MaxLinks
  /\ relations' = relations \cup {[from |-> from, to |-> to, type |-> type]}
  /\ audited' = [audited EXCEPT ![from] = atoms[from].version]
  /\ UNCHANGED <<atoms, calls>>

Unlink(r) ==
  /\ "atom_unlink" \in Operations
  /\ relations' = relations \ {r}
  /\ audited' = [audited EXCEPT ![r.from] = atoms[r.from].version]
  /\ UNCHANGED <<atoms, calls>>

Touches(r, ids) == r.from \in ids \/ r.to \in ids

\* A relation of a source seen as a relation of the target.
Moved(r, target, sources) ==
  [from |-> IF r.from \in sources THEN target ELSE r.from,
   to |-> IF r.to \in sources THEN target ELSE r.to,
   type |-> r.type]

\* Mutant: the sources' relations are deleted, not moved.
RewiredByDeleting(target, sources) == {r \in relations : ~Touches(r, sources)}

\* Mutant: only the outgoing relations of a source are moved.
RewiredOutgoing(target, sources) ==
  {r \in relations : ~Touches(r, sources)}
    \cup {m \in {Moved(r, target, sources) : r \in {x \in relations : x.from \in sources}} :
            m.from # m.to}

\* INSERT the moved relations except self-relations, then DELETE everything
\* that touches a source.
Rewired(target, sources) ==
  {r \in relations : ~Touches(r, sources)}
    \cup {m \in {Moved(r, target, sources) : r \in {x \in relations : Touches(x, sources)}} :
            m.from # m.to}

MergedRow(target, content) ==
  Bump([atoms[target] EXCEPT !.content = content, !.status = "active",
          !.embedding = IF content # atoms[target].content THEN Embed(content) ELSE @])

\* AtomService.merge.  All rows are locked together; the event names the target.
Merge(target, sources, content) ==
  /\ "atom_merge" \in Operations
  /\ sources # {} /\ target \notin sources
  /\ \A i \in sources \cup {target} : HasRoom(i)
  /\ Holders(atoms[target].ns, content) \subseteq {target}
  /\ atoms' = [i \in Ids |-> CASE i = target -> MergedRow(target, content)
                               [] i \in sources -> ArchivedRow(i)
                               [] OTHER -> atoms[i]]
  /\ relations' = Rewired(target, sources)
  /\ audited' = [audited EXCEPT ![target] = atoms[target].version + 1]
  /\ UNCHANGED calls

\* atom_consolidate reads pairs of near-duplicate active atoms of one
\* namespace (each pair as <<duplicate, canonical>>) ...
ConsolidateScan(c, pairs) ==
  /\ "atom_consolidate" \in Operations
  /\ pairs # {}
  /\ \A p \in pairs : /\ Active(p[1]) /\ Active(p[2])
                      /\ atoms[p[1]].ns = atoms[p[2]].ns
                      /\ atoms[p[1]].content # atoms[p[2]].content
                      /\ <<p[2], p[1]>> \notin pairs
  /\ Begin(c, [op |-> "consolidate", pairs |-> pairs])
  /\ UNCHANGED <<atoms, relations, audited>>

\* Mutant: the link does not depend on the rows.
ConsolidateLinkUnchecked(c) ==
  /\ calls[c].op = "consolidate"
  /\ relations' = relations \cup
       {[from |-> p[1], to |-> p[2], type |-> "duplicate_of"] : p \in calls[c].pairs}
  /\ Return(c)
  /\ UNCHANGED <<atoms, audited>>

\* ... and links them in a later transaction, all or (a row is gone) none.
ConsolidateLink(c) ==
  /\ calls[c].op = "consolidate"
  /\ \A p \in calls[c].pairs : Exists(p[1]) /\ Exists(p[2])
  /\ relations' = relations \cup
       {[from |-> p[1], to |-> p[2], type |-> "duplicate_of"] : p \in calls[c].pairs}
  /\ Return(c)
  /\ UNCHANGED <<atoms, audited>>

----------------------------------------------------------------------------
(* Supersede *)

\* memory_replace checks that the memory is active and copies its fields;
\* AtomService.supersede then runs like a call of its own.
ReplaceGet(c, i, content) ==
  /\ "memory_replace" \in Operations
  /\ Active(i)
  /\ Begin(c, [op |-> "replace", old |-> i,
               item |-> [ns |-> atoms[i].ns, content |-> content, dedupe |-> "merge"]])
  /\ UNCHANGED <<atoms, relations, audited>>

SupersedeCall(tool, old, item, retire) ==
  [op |-> "supersede", tool |-> tool, old |-> old, item |-> item,
   known |-> Holders(item.ns, item.content) # {}, retire |-> retire]

ReplaceLookup(c) ==
  /\ calls[c].op = "replace"
  /\ calls' = [calls EXCEPT ![c] = SupersedeCall("memory_replace", calls[c].old, calls[c].item, TRUE)]
  /\ UNCHANGED <<atoms, relations, audited>>

SupersedeBegin(c, old, item, retire) ==
  /\ "atom_supersede" \in Operations
  /\ Exists(old)          \* clients pass ids the store returned to them
  /\ ~(item.dedupe = "error" /\ Holders(item.ns, item.content) # {})
  /\ Begin(c, SupersedeCall("atom_supersede", old, item, retire))
  /\ UNCHANGED <<atoms, relations, audited>>

RetiredRow(i) == Bump([atoms[i] EXCEPT !.status = "superseded"])

Succeeds(new, old) == [from |-> new, to |-> old, type |-> "supersedes"]

\* Create or reuse the replacement, relate it to the old atom and retire the
\* old one, in one transaction.  The status of the old atom is not looked at
\* again, nor is the status of a reused replacement.
SupersedeCommit(c, i) ==
  LET call == calls[c]
      old == call.old
      row == CreatedRow(i, call.item, EmbedUnless(call.known, call.item.content))
  IN  /\ call.op = "supersede"
      /\ Exists(old)
      /\ LandsOn(i, call.item)
      /\ i # old
      /\ call.retire => HasRoom(old)
      /\ atoms' = [atoms EXCEPT ![i] = row,
                                ![old] = IF call.retire THEN RetiredRow(old) ELSE atoms[old]]
      /\ relations' = relations \cup {Succeeds(i, old)}
      /\ audited' = [audited EXCEPT ![i] = row.version]
      /\ Return(c)

----------------------------------------------------------------------------
(* Re-embedding *)

\* Read the active atoms without a current embedding, up to the limit ...
ReembedScan(c, ids) ==
  /\ "atom_reembed" \in Operations /\ EmbeddingsEnabled
  /\ ids # {}
  /\ \A i \in ids : Active(i) /\ atoms[i].embedding = NoEmbedding
  /\ Begin(c, [op |-> "reembed", rows |-> {<<i, atoms[i].content>> : i \in ids}])
  /\ UNCHANGED <<atoms, relations, audited>>

RowsLeft(c, batch) ==
  LET rest == calls[c].rows \ batch
  IN  calls' = [calls EXCEPT ![c] = IF rest = {} THEN Idle ELSE [@ EXCEPT !.rows = rest]]

\* ... then, batch by batch, embed the contents read and write the embeddings
\* to the rows by id.  The version is neither checked nor bumped.
Reembedded(row, i, batch) ==
  IF \E p \in batch : p[1] = i
  THEN [row EXCEPT !.embedding = (CHOOSE p \in batch : p[1] = i)[2]]
  ELSE row

ReembedBatch(c, batch) ==
  /\ calls[c].op = "reembed"
  /\ batch # {}
  /\ atoms' = [i \in Ids |-> IF Exists(i) THEN Reembedded(atoms[i], i, batch) ELSE atoms[i]]
  /\ RowsLeft(c, batch)
  /\ UNCHANGED <<relations, audited>>

\* The provider or the transaction failed; the run goes on with the next batch.
ReembedBatchFails(c, batch) ==
  /\ calls[c].op = "reembed"
  /\ batch # {}
  /\ RowsLeft(c, batch)
  /\ UNCHANGED <<atoms, relations, audited>>

----------------------------------------------------------------------------
\* A call ends without effect: it throws (atom not found, version conflict,
\* duplicate content, the replacement is the old atom, the provider or the
\* connection fails) and its transaction rolls back, or its process dies.
CallFails(c) ==
  /\ calls[c] # Idle
  /\ Return(c)
  /\ UNCHANGED <<atoms, relations, audited>>

CallStep(c) ==
  \/ \E items \in SUBSET Items :
       items # {} /\ Cardinality(items) <= MaxBatch /\ CreateBegin(c, items)
  \/ calls[c].op = "create" /\ \E item \in calls[c].items :
       CreateItemFails(c, item) \/ \E i \in Ids : CreateItem(c, item, i)
  \/ \E i \in Ids : GuardedUpdateRead(c, i) \/ MemoryRestoreGet(c, i) \/ SupersedeCommit(c, i)
  \/ \E content \in Contents : GuardedUpdateCommit(c, content)
  \/ MemoryRestoreCommit(c)
  \/ \E i \in Ids, content \in Contents : ReplaceGet(c, i, content)
  \/ ReplaceLookup(c)
  \/ \E i \in Ids, item \in Items, retire \in BOOLEAN : SupersedeBegin(c, i, item, retire)
  \/ \E ids \in SUBSET Ids : ReembedScan(c, ids)
  \/ calls[c].op = "reembed" /\ \E batch \in SUBSET calls[c].rows :
       ReembedBatch(c, batch) \/ ReembedBatchFails(c, batch)
  \/ \E pairs \in SUBSET Pairs : ConsolidateScan(c, pairs)
  \/ ConsolidateLink(c)
  \/ CallFails(c)

DirectStep ==
  \/ \E i \in Ids, content \in Contents : MemoryUpdate(i, content)
  \/ \E i \in Ids, ns \in Namespaces, content \in Contents, status \in Statuses :
       AtomUpdate(i, ns, content, status)
  \/ \E i \in Ids, status \in {"archived", "deleted"} : Remove(i, status)
  \/ \E i \in Ids : HardDelete(i) \/ AtomRestore(i)
  \/ \E expired \in SUBSET Ids : ArchiveExpired(expired)
  \/ \E from, to \in Ids, type \in RelationTypes : Link(from, to, type)
  \/ \E r \in relations : Unlink(r)
  \/ \E target \in Ids, sources \in SUBSET Ids, content \in Contents :
       Merge(target, sources, content)

Next == DirectStep \/ \E c \in Callers : CallStep(c)

Spec == Init /\ [][Next]_vars

----------------------------------------------------------------------------
(* Properties *)

\* Every row, relation, event mark and call in progress has its type.
TypeOK ==
  /\ atoms \in [Ids -> Rows \cup {Unused, Gone}]
  /\ relations \subseteq Relations
  /\ audited \in [Ids -> 0 .. MaxVersion]
  /\ calls \in [Callers -> Calls]

\* The unique key decides races between creators, updates and merges: no two
\* rows of a namespace hold the same content.
OneAtomPerContent ==
  \A i, j \in Ids : Exists(i) /\ Exists(j) /\ atoms[i].ns = atoms[j].ns
                      /\ atoms[i].content = atoms[j].content => i = j

\* Relations join two different rows that exist, however merges rewire them
\* and whatever is hard-deleted while a consolidation scan is under way.
RelationsJoinAtoms ==
  \A r \in relations : r.from # r.to /\ Exists(r.from) /\ Exists(r.to)

\* Supersession history: an atom retired as superseded can be followed to the
\* atom that replaced it, through any later merge, archival or restore.  It
\* is meant for deployments whose clients do not cut history by hand
\* (atom_unlink, hard deletion, setting the status with atom_update).
SupersededHasSuccessor ==
  \A i \in Ids : atoms[i].status = "superseded" =>
    \E n \in Ids : [from |-> n, to |-> i, type |-> "supersedes"] \in relations

\* A stored embedding was computed from the content stored next to it, so
\* semantic search ranks an atom by what it says now.
EmbeddingMatchesContent ==
  \A i \in Ids : Exists(i) => atoms[i].embedding \in {NoEmbedding, atoms[i].content}

\* The expectedVersion guard of atom_update is sound: while the version is
\* the one the client read, the row still says what the client read, so the
\* guarded update overwrites nothing unseen.
VersionIdentifiesRow ==
  \A c \in Callers : calls[c].op = "guarded_update" /\ VersionMatches(c) =>
    LET row == atoms[calls[c].id]
        seen == calls[c].seen
    IN  row.ns = seen.ns /\ row.content = seen.content /\ row.status = seen.status

\* A step writes row i, and it does nothing to it but give it the status.
Written(i) == Exists(i)' /\ (Exists(i) => atoms'[i].version # atoms[i].version)
OnlyRetired(i, status) == Exists(i) /\ atoms'[i] = Bump([atoms[i] EXCEPT !.status = status])

\* Row i is retired in the statement whose event is that of row j: merged into
\* it, its relations gone with it, or superseded by it.
RetiredBeside(i, j) ==
  /\ j # i /\ Written(j) /\ audited'[j] = atoms'[j].version
  /\ \/ OnlyRetired(i, "archived") /\ \A r \in relations' : ~Touches(r, {i})
     \/ OnlyRetired(i, "superseded") /\ Succeeds(j, i) \in relations'

\* Every version an atom gets has an event under its own id (atom_history), but
\* for one in which it is only retired, by a merge or a supersession whose event
\* is that of the atom written along with it, or by the expiry sweep, whose
\* event names no atom.
HistoryCoversWrites ==
  [][\A i \in Ids : Written(i) =>
       \/ audited'[i] = atoms'[i].version
       \/ \E j \in Ids : RetiredBeside(i, j)
       \/ OnlyRetired(i, "archived") /\ \E expired \in SUBSET Ids :
                                           i \in expired /\ ArchiveExpired(expired)]_vars

\* A merge keeps the neighbourhood: outside the merged atoms, exactly the
\* neighbours of a source or the target are neighbours of the target, with
\* the same type and direction, and no relation is left on a source.
MergeKeepsNeighbours ==
  [][\A t \in Ids, sources \in SUBSET Ids, content \in Contents :
       Merge(t, sources, content) =>
         /\ \A r \in relations' : ~Touches(r, sources)
         /\ \A n \in Ids \ (sources \cup {t}), type \in RelationTypes :
              /\ [from |-> t, to |-> n, type |-> type] \in relations' <=>
                   \E s \in sources \cup {t} : [from |-> s, to |-> n, type |-> type] \in relations
              /\ [from |-> n, to |-> t, type |-> type] \in relations' <=>
                   \E s \in sources \cup {t} : [from |-> n, to |-> s, type |-> type] \in relations]_vars

----------------------------------------------------------------------------
(* The store implements the contract of VersionedRows. *)

View(row) ==
  IF row \in {Unused, Gone}
  THEN [phase |-> row.status, version |-> 0, body |-> <<>>, index |-> NoEmbedding]
  ELSE [phase |-> "live", version |-> row.version,
        body |-> <<row.ns, row.content, row.status>>, index |-> row.embedding]

Contract == INSTANCE VersionedRows WITH rows <- [i \in Ids |-> View(atoms[i])]

\* Every behaviour of the store is a behaviour of VersionedRows: whatever
\* operation writes a row (update, restore, merge, a duplicate create, the
\* expiry sweep), its version grows with every visible change, re-embedding
\* is invisible, and ids are not reused.
RowsAreVersioned == Contract!Spec
===========================================================================
