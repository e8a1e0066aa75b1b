-------------------------- MODULE AtomStoreProofs --------------------------
(* Theorems about AtomStore, for every value of its constants. *)
EXTENDS AtomStore, TLAPS

USE DEF Statuses, Unused, Gone

LEMMA ExistingRow ==
  ASSUME TypeOK, NEW i \in Ids, Exists(i)
  PROVE  atoms[i] \in Rows
BY DEF TypeOK, Exists

LEMMA EmbedType ==
  ASSUME NEW content \in Contents, NEW known \in BOOLEAN
  PROVE  Embed(content) \in Embeddings /\ EmbedUnless(known, content) \in Embeddings
BY DEF Embed, EmbedUnless, Embeddings

LEMMA BumpType ==
  ASSUME NEW row \in Rows, row.version < MaxVersion
  PROVE  Bump(row) \in Rows
BY VersionAssumption DEF Bump, Rows

LEMMA RoomyRow ==
  ASSUME TypeOK, NEW i \in Ids, HasRoom(i)
  PROVE  atoms[i] \in Rows /\ atoms[i].version < MaxVersion
BY ExistingRow DEF HasRoom

LEMMA CreatedRowType ==
  ASSUME TypeOK, NEW i \in Ids, NEW item \in Items, NEW e \in Embeddings, LandsOn(i, item)
  PROVE  CreatedRow(i, item, e) \in Rows
<1>1. CASE Exists(i)
  <2>1. atoms[i] \in Rows /\ atoms[i].version < MaxVersion
    BY <1>1, RoomyRow DEF LandsOn, Exists
  <2>. DEFINE row == [atoms[i] EXCEPT
               !.status = IF item.dedupe = "replace" THEN "active" ELSE atoms[i].status,
               !.embedding = IF e = NoEmbedding THEN atoms[i].embedding ELSE e]
  <2>2. row \in Rows /\ row.version < MaxVersion
    BY <2>1 DEF Rows
  <2>3. Bump(row) \in Rows  BY <2>2, BumpType
  <2>. QED BY <1>1, <2>3 DEF CreatedRow
<1>2. CASE ~Exists(i)
  BY <1>2, VersionAssumption DEF CreatedRow, Rows, Items
<1>. QED BY <1>1, <1>2

LEMMA StatusRowType ==
  ASSUME TypeOK, NEW i \in Ids, HasRoom(i), NEW status \in Statuses
  PROVE  Bump([atoms[i] EXCEPT !.status = status]) \in Rows
<1>1. atoms[i] \in Rows /\ atoms[i].version < MaxVersion  BY RoomyRow
<1>. DEFINE row == [atoms[i] EXCEPT !.status = status]
<1>2. row \in Rows /\ row.version < MaxVersion  BY <1>1 DEF Rows
<1>. QED BY <1>2, BumpType

LEMMA UpdatedRowType ==
  ASSUME TypeOK, NEW i \in Ids, HasRoom(i), NEW ns \in Namespaces,
         NEW content \in Contents, NEW status \in Statuses
  PROVE  UpdatedRow(i, ns, content, status) \in Rows
<1>1. atoms[i] \in Rows /\ atoms[i].version < MaxVersion  BY RoomyRow
<1>2. Embed(content) \in Embeddings  BY EmbedType
<1>. DEFINE row == [atoms[i] EXCEPT !.ns = ns, !.content = content, !.status = status,
                 !.embedding = IF content # atoms[i].content THEN Embed(content)
                               ELSE atoms[i].embedding]
<1>3. row \in Rows /\ row.version < MaxVersion  BY <1>1, <1>2 DEF Rows
<1>4. Bump(row) \in Rows  BY <1>3, BumpType
<1>. QED BY <1>4 DEF UpdatedRow

LEMMA MergedRowType ==
  ASSUME TypeOK, NEW t \in Ids, HasRoom(t), NEW content \in Contents
  PROVE  MergedRow(t, content) \in Rows
<1>1. atoms[t] \in Rows /\ atoms[t].version < MaxVersion  BY RoomyRow
<1>2. Embed(content) \in Embeddings  BY EmbedType
<1>. DEFINE row == [atoms[t] EXCEPT !.content = content, !.status = "active",
                 !.embedding = IF content # atoms[t].content THEN Embed(content)
                               ELSE atoms[t].embedding]
<1>3. row \in Rows /\ row.version < MaxVersion  BY <1>1, <1>2 DEF Rows
<1>4. Bump(row) \in Rows  BY <1>3, BumpType
<1>. QED BY <1>4 DEF MergedRow

\* A step that removes no row.
RowsPersist == \A j \in Ids : Exists(j) => Exists(j)'

----------------------------------------------------------------------------
\* One update of a row keeps the table and the event marks well-typed.
LEMMA WriteType ==
  ASSUME TypeOK, NEW i \in Ids, NEW row \in Rows,
         atoms' = [atoms EXCEPT ![i] = row],
         audited' = [audited EXCEPT ![i] = row.version]
  PROVE  /\ atoms' \in [Ids -> Rows \cup {Unused, Gone}]
         /\ audited' \in [Ids -> 0 .. MaxVersion]
         /\ RowsPersist
BY DEF TypeOK, Rows, RowsPersist, Exists

LEMMA ReturnType ==
  ASSUME TypeOK, NEW c \in Callers, Return(c)
  PROVE  calls' \in [Callers -> Calls]
BY DEF TypeOK, Return, Calls

LEMMA BeginType ==
  ASSUME TypeOK, NEW c \in Callers, NEW call \in Calls, Begin(c, call)
  PROVE  calls' \in [Callers -> Calls]
BY DEF TypeOK, Begin

----------------------------------------------------------------------------
(* Type correctness, one lemma per group of actions. *)

LEMMA CreateType ==
  ASSUME TypeOK, NEW c \in Callers
  PROVE  /\ \A items \in SUBSET Items : CreateBegin(c, items) => TypeOK'
         /\ \A item \in Items, i \in Ids : calls[c].op = "create" /\ CreateItem(c, item, i) => TypeOK' /\ RowsPersist
         /\ \A item \in Items : calls[c].op = "create" /\ CreateItemFails(c, item) => TypeOK'
<1>1. ASSUME NEW items \in SUBSET Items, CreateBegin(c, items)  PROVE TypeOK'
  <2>. DEFINE known == {<<it.ns, it.content>> : it \in {x \in items : Holders(x.ns, x.content) # {}}}
  <2>1. known \in SUBSET Keys  BY DEF Keys, Items
  <2>2. [op |-> "create", items |-> items, known |-> known] \in Calls  BY <2>1 DEF Calls
  <2>3. calls' \in [Callers -> Calls]  BY <1>1, <2>2, BeginType DEF CreateBegin
  <2>. QED BY <1>1, <2>3 DEF CreateBegin, TypeOK
<1>2. ASSUME calls[c].op = "create", NEW item \in Items, ItemDone(c, item)
      PROVE  calls' \in [Callers -> Calls]
  <2>1. calls[c] \in [op : {"create"}, items : SUBSET Items, known : SUBSET Keys]
    BY <1>2 DEF TypeOK, Calls, Idle
  <2>2. [calls[c] EXCEPT !.items = calls[c].items \ {item}] \in Calls  BY <2>1 DEF Calls
  <2>. DEFINE next == IF calls[c].items \ {item} = {} THEN Idle
                      ELSE [calls[c] EXCEPT !.items = calls[c].items \ {item}]
  <2>3. next \in Calls  BY <2>2 DEF Calls
  <2>4. calls' = [calls EXCEPT ![c] = next]  BY <1>2 DEF ItemDone
  <2>. HIDE DEF next
  <2>. QED BY <2>3, <2>4 DEF TypeOK
<1>3. ASSUME calls[c].op = "create", NEW item \in Items, NEW i \in Ids, CreateItem(c, item, i)
      PROVE  TypeOK' /\ RowsPersist
  <2>. DEFINE known == <<item.ns, item.content>> \in calls[c].known
              row == CreatedRow(i, item, EmbedUnless(known, item.content))
  <2>1. item.content \in Contents  BY DEF Items
  <2>2. EmbedUnless(known, item.content) \in Embeddings
    BY <2>1 DEF EmbedUnless, Embed, Embeddings
  <2>3. row \in Rows  BY <1>3, <2>2, CreatedRowType DEF CreateItem
  <2>4. atoms' = [atoms EXCEPT ![i] = row] /\ audited' = [audited EXCEPT ![i] = row.version]
    BY <1>3 DEF CreateItem
  <2>5. calls' \in [Callers -> Calls]  BY <1>2, <1>3 DEF CreateItem
  <2>6. relations' = relations  BY <1>3 DEF CreateItem
  <2>. QED BY <2>3, <2>4, <2>5, <2>6, WriteType DEF TypeOK
<1>4. ASSUME calls[c].op = "create", NEW item \in Items, CreateItemFails(c, item)
      PROVE  TypeOK'
  BY <1>2, <1>4 DEF CreateItemFails, TypeOK
<1>. QED BY <1>1, <1>3, <1>4

LEMMA UpdateType ==
  ASSUME TypeOK, NEW i \in Ids, NEW ns \in Namespaces, NEW content \in Contents,
         NEW status \in Statuses, Update(i, ns, content, status),
         calls' \in [Callers -> Calls]
  PROVE  TypeOK' /\ RowsPersist
<1>. DEFINE row == UpdatedRow(i, ns, content, status)
<1>1. row \in Rows  BY UpdatedRowType DEF Update
<1>2. row.version = atoms[i].version + 1
  BY RoomyRow DEF Update, UpdatedRow, Bump, Rows
<1>3. relations' = relations /\ atoms' = [atoms EXCEPT ![i] = row]
       /\ audited' = [audited EXCEPT ![i] = row.version]
  BY <1>2 DEF Update
<1>. HIDE DEF row
<1>. QED BY <1>1, <1>3, WriteType DEF TypeOK

LEMMA SetStatusType ==
  ASSUME TypeOK, NEW i \in Ids, NEW status \in Statuses, SetStatus(i, status),
         calls' \in [Callers -> Calls]
  PROVE  TypeOK' /\ RowsPersist
<1>. DEFINE row == Bump([atoms[i] EXCEPT !.status = status])
<1>1. row \in Rows  BY StatusRowType DEF SetStatus
<1>2. row.version = atoms[i].version + 1
  BY RoomyRow DEF SetStatus, Bump, Rows
<1>3. relations' = relations /\ atoms' = [atoms EXCEPT ![i] = row]
       /\ audited' = [audited EXCEPT ![i] = row.version]
  BY <1>2 DEF SetStatus
<1>. HIDE DEF row
<1>. QED BY <1>1, <1>3, WriteType DEF TypeOK

LEMMA ExistingStatus ==
  ASSUME TypeOK, NEW i \in Ids, Exists(i)
  PROVE  /\ atoms[i].ns \in Namespaces /\ atoms[i].status \in Statuses
         /\ atoms[i].content \in Contents /\ atoms[i].version \in 1 .. MaxVersion
         /\ atoms[i].embedding \in Embeddings
BY ExistingRow DEF Rows

\* Actions that only start a call.
LEMMA BeginsType ==
  ASSUME TypeOK, NEW c \in Callers
  PROVE  /\ \A i \in Ids : GuardedUpdateRead(c, i) => TypeOK'
         /\ \A i \in Ids : MemoryRestoreGet(c, i) => TypeOK'
         /\ \A i \in Ids, content \in Contents : ReplaceGet(c, i, content) => TypeOK'
         /\ ReplaceLookup(c) => TypeOK'
         /\ \A i \in Ids, item \in Items, retire \in BOOLEAN :
              SupersedeBegin(c, i, item, retire) => TypeOK'
<1>1. ASSUME NEW i \in Ids, GuardedUpdateRead(c, i)  PROVE TypeOK'
  <2>1. [op |-> "guarded_update", id |-> i, seen |-> atoms[i]] \in Calls
    BY <1>1, ExistingRow DEF GuardedUpdateRead, Calls
  <2>. QED BY <1>1, <2>1, BeginType DEF GuardedUpdateRead, TypeOK
<1>2. ASSUME NEW i \in Ids, MemoryRestoreGet(c, i)  PROVE TypeOK'
  <2>1. [op |-> "memory_restore", id |-> i] \in Calls  BY DEF Calls
  <2>. QED BY <1>2, <2>1, BeginType DEF MemoryRestoreGet, TypeOK
<1>3. ASSUME NEW i \in Ids, NEW content \in Contents, ReplaceGet(c, i, content)  PROVE TypeOK'
  <2>1. atoms[i].ns \in Namespaces
    BY <1>3, ExistingStatus DEF ReplaceGet, Active, Exists
  <2>2. [op |-> "replace", old |-> i,
         item |-> [ns |-> atoms[i].ns, content |-> content, dedupe |-> "merge"]] \in Calls
    BY <2>1 DEF Calls, Items
  <2>. QED BY <1>3, <2>2, BeginType DEF ReplaceGet, TypeOK
<1>4. \A tool \in {"memory_replace", "atom_supersede"}, j \in Ids, it \in Items, r \in BOOLEAN :
         SupersedeCall(tool, j, it, r) \in Calls
  BY DEF SupersedeCall, Calls
<1>5. ASSUME ReplaceLookup(c)  PROVE TypeOK'
  <2>1. calls[c] \in [op : {"replace"}, old : Ids, item : Items]
    BY <1>5 DEF ReplaceLookup, TypeOK, Calls, Idle
  <2>2. SupersedeCall("memory_replace", calls[c].old, calls[c].item, TRUE) \in Calls
    BY <1>4, <2>1
  <2>. QED BY <1>5, <2>2 DEF ReplaceLookup, TypeOK
<1>6. ASSUME NEW i \in Ids, NEW item \in Items, NEW retire \in BOOLEAN,
             SupersedeBegin(c, i, item, retire)
      PROVE  TypeOK'
  <2>1. SupersedeCall("atom_supersede", i, item, retire) \in Calls  BY <1>4
  <2>. QED BY <1>6, <2>1, BeginType DEF SupersedeBegin, TypeOK
<1>. QED BY <1>1, <1>2, <1>3, <1>5, <1>6

LEMMA ScansType ==
  ASSUME TypeOK, NEW c \in Callers
  PROVE  /\ \A ids \in SUBSET Ids : ReembedScan(c, ids) => TypeOK'
         /\ \A pairs \in SUBSET Pairs : ConsolidateScan(c, pairs) => TypeOK'
<1>1. ASSUME NEW ids \in SUBSET Ids, ReembedScan(c, ids)  PROVE TypeOK'
  <2>1. \A j \in ids : <<j, atoms[j].content>> \in Ids \X Contents
    BY <1>1, ExistingStatus DEF ReembedScan, Active, Exists
  <2>2. {<<j, atoms[j].content>> : j \in ids} \in SUBSET (Ids \X Contents)  BY <2>1
  <2>3. [op |-> "reembed", rows |-> {<<j, atoms[j].content>> : j \in ids}] \in Calls
    BY <2>2 DEF Calls
  <2>. QED BY <1>1, <2>3, BeginType DEF ReembedScan, TypeOK
<1>2. ASSUME NEW pairs \in SUBSET Pairs, ConsolidateScan(c, pairs)  PROVE TypeOK'
  <2>1. [op |-> "consolidate", pairs |-> pairs] \in Calls  BY DEF Calls
  <2>. QED BY <1>2, <2>1, BeginType DEF ConsolidateScan, TypeOK
<1>. QED BY <1>1, <1>2

\* Actions that change rows without being part of a call.
LEMMA UpdatesType ==
  ASSUME TypeOK, UNCHANGED calls, NEW i \in Ids
  PROVE  /\ \A content \in Contents : MemoryUpdate(i, content) => TypeOK' /\ RowsPersist
         /\ \A ns \in Namespaces, content \in Contents, status \in Statuses :
              AtomUpdate(i, ns, content, status) => TypeOK' /\ RowsPersist
         /\ Remove(i, "archived") \/ Remove(i, "deleted") => TypeOK' /\ RowsPersist
         /\ AtomRestore(i) => TypeOK' /\ RowsPersist
<1>0. calls' \in [Callers -> Calls]  BY DEF TypeOK
<1>1. ASSUME NEW content \in Contents, MemoryUpdate(i, content)  PROVE TypeOK' /\ RowsPersist
  <2>1. atoms[i].ns \in Namespaces /\ atoms[i].status \in Statuses
    BY <1>1, ExistingStatus DEF MemoryUpdate
  <2>. QED BY <1>0, <1>1, <2>1, UpdateType DEF MemoryUpdate
<1>2. ASSUME NEW ns \in Namespaces, NEW content \in Contents, NEW status \in Statuses,
             AtomUpdate(i, ns, content, status)
      PROVE  TypeOK' /\ RowsPersist
  BY <1>0, <1>2, UpdateType DEF AtomUpdate
<1>3. ASSUME Remove(i, "archived") \/ Remove(i, "deleted")  PROVE  TypeOK' /\ RowsPersist
  BY <1>0, <1>3, SetStatusType DEF Remove
<1>4. ASSUME AtomRestore(i)  PROVE TypeOK' /\ RowsPersist
  BY <1>0, <1>4, SetStatusType DEF AtomRestore
<1>. QED BY <1>1, <1>2, <1>3, <1>4

LEMMA HardDeleteType ==
  ASSUME TypeOK, NEW i \in Ids, HardDelete(i)
  PROVE  TypeOK'
BY DEF HardDelete, TypeOK

LEMMA ArchiveExpiredType ==
  ASSUME TypeOK, NEW expired \in SUBSET Ids, ArchiveExpired(expired)
  PROVE  TypeOK' /\ RowsPersist
<1>1. \A i \in expired : ArchivedRow(i) \in Rows
  BY StatusRowType DEF ArchiveExpired, ArchivedRow
<1>2. atoms' \in [Ids -> Rows \cup {Unused, Gone}]  BY <1>1 DEF ArchiveExpired, TypeOK
<1>3. RowsPersist  BY <1>1 DEF ArchiveExpired, RowsPersist, Exists, Rows
<1>. QED BY <1>2, <1>3 DEF ArchiveExpired, TypeOK

LEMMA LinkType ==
  ASSUME TypeOK, RelationsJoinAtoms
  PROVE  /\ \A from, to \in Ids, type \in RelationTypes : Link(from, to, type) => TypeOK'
         /\ \A r \in relations : Unlink(r) => TypeOK'
<1>1. ASSUME NEW from \in Ids, NEW to \in Ids, NEW type \in RelationTypes, Link(from, to, type)
      PROVE  TypeOK'
  <2>1. atoms[from].version \in 0 .. MaxVersion
    BY <1>1, ExistingStatus, VersionAssumption DEF Link
  <2>. QED BY <1>1, <2>1 DEF Link, TypeOK, Relations
<1>2. ASSUME NEW r \in relations, Unlink(r)  PROVE TypeOK'
  <2>1. r.from \in Ids /\ Exists(r.from)  BY DEF TypeOK, Relations, RelationsJoinAtoms
  <2>2. atoms[r.from].version \in 0 .. MaxVersion
    BY <2>1, ExistingStatus, VersionAssumption
  <2>. QED BY <1>2, <2>1, <2>2 DEF Unlink, TypeOK
<1>. QED BY <1>1, <1>2

LEMMA MergeType ==
  ASSUME TypeOK, NEW t \in Ids, NEW sources \in SUBSET Ids, NEW content \in Contents,
         Merge(t, sources, content)
  PROVE  TypeOK' /\ RowsPersist
<1>1. MergedRow(t, content) \in Rows  BY MergedRowType DEF Merge
<1>2. \A i \in sources : ArchivedRow(i) \in Rows
  BY StatusRowType DEF Merge, ArchivedRow
<1>3. atoms' \in [Ids -> Rows \cup {Unused, Gone}]
  BY <1>1, <1>2 DEF Merge, TypeOK
<1>4. \A r \in relations : Moved(r, t, sources) \in Relations
  BY DEF Moved, TypeOK, Relations
<1>5. relations' \subseteq Relations
  BY <1>4 DEF Merge, Rewired, TypeOK
<1>6. atoms[t].version + 1 \in 0 .. MaxVersion
  BY RoomyRow, VersionAssumption DEF Merge, Rows
<1>7. RowsPersist  BY <1>1, <1>2 DEF Merge, RowsPersist, Exists, Rows
<1>. QED BY <1>3, <1>5, <1>6, <1>7 DEF Merge, TypeOK

\* The transactions that end a call.
LEMMA GuardedUpdateType ==
  ASSUME TypeOK, NEW c \in Callers, NEW content \in Contents, GuardedUpdateCommit(c, content)
  PROVE  TypeOK' /\ RowsPersist
<1>1. calls[c] \in [op : {"guarded_update"}, id : Ids, seen : Rows]
  BY DEF GuardedUpdateCommit, TypeOK, Calls, Idle
<1>2. calls[c].id \in Ids  BY <1>1
<1>3. Exists(calls[c].id)  BY DEF GuardedUpdateCommit, VersionMatches
<1>4. calls' \in [Callers -> Calls]  BY ReturnType DEF GuardedUpdateCommit
<1>. QED BY <1>2, <1>3, <1>4, ExistingStatus, UpdateType DEF GuardedUpdateCommit

LEMMA MemoryRestoreType ==
  ASSUME TypeOK, NEW c \in Callers, MemoryRestoreCommit(c)
  PROVE  TypeOK' /\ RowsPersist
<1>1. calls[c] \in [op : {"memory_restore"}, id : Ids]
  BY DEF MemoryRestoreCommit, TypeOK, Calls, Idle
<1>2. calls' \in [Callers -> Calls]  BY ReturnType DEF MemoryRestoreCommit
<1>. QED BY <1>1, <1>2, SetStatusType DEF MemoryRestoreCommit

LEMMA ConsolidateLinkType ==
  ASSUME TypeOK, NEW c \in Callers, ConsolidateLink(c)
  PROVE  TypeOK'
<1>1. calls[c].pairs \in SUBSET Pairs
  BY DEF ConsolidateLink, TypeOK, Calls, Idle
<1>2. relations' \subseteq Relations
  BY <1>1, RelationAssumption DEF ConsolidateLink, TypeOK, Relations, Pairs
<1>. QED BY <1>2, ReturnType DEF ConsolidateLink, TypeOK

LEMMA SupersedeType ==
  ASSUME TypeOK, NEW c \in Callers, NEW i \in Ids, SupersedeCommit(c, i)
  PROVE  TypeOK' /\ RowsPersist
<1>. DEFINE call == calls[c]
            old == call.old
            row == CreatedRow(i, call.item, EmbedUnless(call.known, call.item.content))
            retired == IF call.retire THEN RetiredRow(old) ELSE atoms[old]
<1>1. call \in [op : {"supersede"}, tool : {"memory_replace", "atom_supersede"}, old : Ids,
                item : Items, known : BOOLEAN, retire : BOOLEAN]
  BY DEF SupersedeCommit, TypeOK, Calls, Idle
<1>2. old \in Ids /\ call.item \in Items /\ call.item.content \in Contents
       /\ call.known \in BOOLEAN
  BY <1>1 DEF Items
<1>3. row \in Rows
  BY <1>2, EmbedType, CreatedRowType DEF SupersedeCommit
<1>4. retired \in Rows
  BY <1>2, ExistingRow, StatusRowType DEF SupersedeCommit, RetiredRow
<1>5. atoms' = [atoms EXCEPT ![i] = row, ![old] = retired]
       /\ audited' = [audited EXCEPT ![i] = row.version]
       /\ relations' = relations \cup {Succeeds(i, old)}
  BY DEF SupersedeCommit
<1>6. Succeeds(i, old) \in Relations
  BY <1>2, RelationAssumption DEF Succeeds, Relations
<1>7. calls' \in [Callers -> Calls]  BY ReturnType DEF SupersedeCommit
<1>. HIDE DEF row, retired, old, call
<1>8. TypeOK'  BY <1>2, <1>3, <1>4, <1>5, <1>6, <1>7 DEF TypeOK, Rows
<1>9. RowsPersist  BY <1>2, <1>3, <1>4, <1>5 DEF RowsPersist, TypeOK, Exists, Rows
<1>. QED BY <1>8, <1>9

LEMMA ReembedType ==
  ASSUME TypeOK, NEW c \in Callers, calls[c].op = "reembed",
         NEW batch \in SUBSET calls[c].rows
  PROVE  /\ ReembedBatch(c, batch) => TypeOK' /\ RowsPersist
         /\ ReembedBatchFails(c, batch) => TypeOK'
<1>1. calls[c] \in [op : {"reembed"}, rows : SUBSET (Ids \X Contents)]
  BY DEF TypeOK, Calls, Idle
<1>2. ASSUME RowsLeft(c, batch)  PROVE calls' \in [Callers -> Calls]
  <2>. DEFINE rest == calls[c].rows \ batch
              next == IF rest = {} THEN Idle ELSE [calls[c] EXCEPT !.rows = rest]
  <2>1. [calls[c] EXCEPT !.rows = rest] \in Calls  BY <1>1 DEF Calls
  <2>2. next \in Calls  BY <2>1 DEF Calls
  <2>3. calls' = [calls EXCEPT ![c] = next]  BY <1>2 DEF RowsLeft
  <2>. HIDE DEF next
  <2>. QED BY <2>2, <2>3 DEF TypeOK
<1>3. ASSUME ReembedBatch(c, batch)  PROVE TypeOK' /\ RowsPersist
  <2>1. ASSUME NEW i \in Ids, Exists(i)  PROVE Reembedded(atoms[i], i, batch) \in Rows
    <3>1. atoms[i] \in Rows  BY <2>1, ExistingRow
    <3>2. CASE \E p \in batch : p[1] = i
      <4>. DEFINE q == CHOOSE p \in batch : p[1] = i
      <4>1. q \in batch  BY <3>2
      <4>2. q[2] \in Embeddings  BY <1>1, <4>1 DEF Embeddings
      <4>3. Reembedded(atoms[i], i, batch) = [atoms[i] EXCEPT !.embedding = q[2]]
        BY <3>2 DEF Reembedded
      <4>. HIDE DEF q
      <4>. QED BY <3>1, <4>2, <4>3 DEF Rows
    <3>3. CASE ~\E p \in batch : p[1] = i
      BY <3>1, <3>3 DEF Reembedded
    <3>. QED BY <3>2, <3>3
  <2>2. atoms' = [i \in Ids |-> IF Exists(i) THEN Reembedded(atoms[i], i, batch) ELSE atoms[i]]
    BY <1>3 DEF ReembedBatch
  <2>3. atoms' \in [Ids -> Rows \cup {Unused, Gone}]  BY <2>1, <2>2 DEF TypeOK
  <2>4. RowsPersist  BY <2>1, <2>2 DEF RowsPersist, Exists, Rows
  <2>. QED BY <1>2, <1>3, <2>3, <2>4 DEF ReembedBatch, TypeOK
<1>4. ASSUME ReembedBatchFails(c, batch)  PROVE TypeOK'
  BY <1>2, <1>4 DEF ReembedBatchFails, TypeOK
<1>. QED BY <1>3, <1>4

LEMMA CallFailsType ==
  ASSUME TypeOK, NEW c \in Callers, CallFails(c)
  PROVE  TypeOK'
BY ReturnType DEF CallFails, TypeOK

----------------------------------------------------------------------------
(* Type correctness and RelationsJoinAtoms are inductive together: the     *)
(* event of atom_unlink names a version of the row the relation starts at. *)

StoreInv == TypeOK /\ RelationsJoinAtoms

\* A step that touches no relation, and removes no row.
LEMMA JoinsKept ==
  ASSUME StoreInv, RowsPersist, relations' = relations
  PROVE  RelationsJoinAtoms'
BY DEF StoreInv, TypeOK, Relations, RelationsJoinAtoms, RowsPersist

LEMMA SameRows ==
  ASSUME UNCHANGED <<atoms, relations>>, StoreInv
  PROVE  RelationsJoinAtoms'
BY JoinsKept DEF RowsPersist, Exists

LEMMA CallStepJoins ==
  ASSUME StoreInv, NEW c \in Callers, CallStep(c)
  PROVE  StoreInv'
<1>. USE DEF StoreInv
<1>1. ASSUME NEW items \in SUBSET Items, CreateBegin(c, items)  PROVE StoreInv'
  BY <1>1, CreateType, SameRows DEF CreateBegin
<1>2. ASSUME calls[c].op = "create", NEW item \in calls[c].items, CreateItemFails(c, item)
      PROVE  StoreInv'
  <2>1. item \in Items  BY <1>2 DEF TypeOK, Calls, Idle
  <2>. QED BY <1>2, <2>1, CreateType, SameRows DEF CreateItemFails
<1>3. ASSUME calls[c].op = "create", NEW item \in calls[c].items, NEW i \in Ids,
             CreateItem(c, item, i)
      PROVE  StoreInv'
  <2>1. item \in Items  BY <1>3 DEF TypeOK, Calls, Idle
  <2>2. relations' = relations  BY <1>3 DEF CreateItem
  <2>. QED BY <1>3, <2>1, <2>2, CreateType, JoinsKept
<1>4. ASSUME NEW i \in Ids, GuardedUpdateRead(c, i) \/ MemoryRestoreGet(c, i)  PROVE StoreInv'
  BY <1>4, BeginsType, SameRows DEF GuardedUpdateRead, MemoryRestoreGet
<1>5. ASSUME NEW i \in Ids, SupersedeCommit(c, i)  PROVE StoreInv'
  <2>1. TypeOK' /\ RowsPersist  BY <1>5, SupersedeType
  <2>2. calls[c].old \in Ids /\ calls[c].op = "supersede"
    BY <1>5 DEF SupersedeCommit, TypeOK, Calls, Idle
  <2>3. Exists(calls[c].old) /\ i # calls[c].old  BY <1>5 DEF SupersedeCommit
  <2>4. relations' = relations \cup {Succeeds(i, calls[c].old)}  BY <1>5 DEF SupersedeCommit
  <2>5. Exists(i)'
    <3>. DEFINE call == calls[c]
                row == CreatedRow(i, call.item, EmbedUnless(call.known, call.item.content))
    <3>1. call \in [op : {"supersede"}, tool : {"memory_replace", "atom_supersede"}, old : Ids,
                    item : Items, known : BOOLEAN, retire : BOOLEAN]
      BY <1>5 DEF SupersedeCommit, TypeOK, Calls, Idle
    <3>2. row \in Rows
      <4>1. call.item \in Items /\ call.item.content \in Contents /\ call.known \in BOOLEAN
        BY <3>1 DEF Items
      <4>. QED BY <1>5, <4>1, EmbedType, CreatedRowType DEF SupersedeCommit
    <3>3. atoms'[i] = row  BY <1>5, <2>2, <2>3 DEF SupersedeCommit, TypeOK
    <3>. HIDE DEF row
    <3>. QED BY <3>2, <3>3 DEF Exists, Rows
  <2>6. RelationsJoinAtoms'
    BY <2>1, <2>2, <2>3, <2>4, <2>5 DEF RelationsJoinAtoms, RowsPersist, Succeeds, TypeOK, Relations
  <2>. QED BY <2>1, <2>6
<1>6. ASSUME NEW content \in Contents, GuardedUpdateCommit(c, content)  PROVE StoreInv'
  <2>1. relations' = relations  BY <1>6 DEF GuardedUpdateCommit, Update
  <2>. QED BY <1>6, <2>1, GuardedUpdateType, JoinsKept
<1>7. ASSUME MemoryRestoreCommit(c)  PROVE StoreInv'
  <2>1. relations' = relations  BY <1>7 DEF MemoryRestoreCommit, SetStatus
  <2>. QED BY <1>7, <2>1, MemoryRestoreType, JoinsKept
<1>8. ASSUME NEW i \in Ids, NEW content \in Contents, ReplaceGet(c, i, content)
      PROVE  StoreInv'
  BY <1>8, BeginsType, SameRows DEF ReplaceGet
<1>9. ASSUME NEW i \in Ids, NEW item \in Items, NEW retire \in BOOLEAN,
             SupersedeBegin(c, i, item, retire)
      PROVE  StoreInv'
  BY <1>9, BeginsType, SameRows DEF SupersedeBegin
<1>15. ASSUME ReplaceLookup(c)  PROVE StoreInv'
  BY <1>15, BeginsType, SameRows DEF ReplaceLookup
<1>10. ASSUME NEW ids \in SUBSET Ids, ReembedScan(c, ids)  PROVE StoreInv'
  BY <1>10, ScansType, SameRows DEF ReembedScan
<1>11. ASSUME calls[c].op = "reembed", NEW batch \in SUBSET calls[c].rows,
              ReembedBatch(c, batch) \/ ReembedBatchFails(c, batch)
       PROVE  StoreInv'
  <2>1. CASE ReembedBatch(c, batch)
    <3>1. relations' = relations  BY <2>1 DEF ReembedBatch
    <3>. QED BY <1>11, <2>1, <3>1, ReembedType, JoinsKept
  <2>2. CASE ReembedBatchFails(c, batch)
    BY <1>11, <2>2, ReembedType, SameRows DEF ReembedBatchFails
  <2>. QED BY <1>11, <2>1, <2>2
<1>12. ASSUME NEW pairs \in SUBSET Pairs, ConsolidateScan(c, pairs)  PROVE StoreInv'
  BY <1>12, ScansType, SameRows DEF ConsolidateScan
<1>13. ASSUME ConsolidateLink(c)  PROVE StoreInv'
  <2>1. calls[c].pairs \in SUBSET Pairs
    BY <1>13 DEF ConsolidateLink, TypeOK, Calls, Idle
  <2>2. TypeOK'  BY <1>13, ConsolidateLinkType
  <2>3. RelationsJoinAtoms'
    BY <1>13, <2>1 DEF ConsolidateLink, RelationsJoinAtoms, Exists, Pairs
  <2>. QED BY <2>2, <2>3
<1>14. ASSUME CallFails(c)  PROVE StoreInv'
  BY <1>14, CallFailsType, SameRows DEF CallFails
<1>. QED
  BY <1>1, <1>2, <1>3, <1>4, <1>5, <1>6, <1>7, <1>8, <1>9, <1>10, <1>11, <1>12, <1>13, <1>14, <1>15
  DEF CallStep

LEMMA DirectStepJoins ==
  ASSUME StoreInv, DirectStep
  PROVE  StoreInv'
<1>. USE DEF StoreInv
<1>1. ASSUME NEW i \in Ids,
             \/ \E content \in Contents : MemoryUpdate(i, content)
             \/ \E ns \in Namespaces, content \in Contents, status \in Statuses :
                  AtomUpdate(i, ns, content, status)
             \/ Remove(i, "archived") \/ Remove(i, "deleted") \/ AtomRestore(i)
      PROVE  StoreInv'
  <2>1. UNCHANGED <<relations, calls>>
    BY <1>1 DEF MemoryUpdate, AtomUpdate, Remove, AtomRestore, Update, SetStatus
  <2>2. TypeOK' /\ RowsPersist  BY <1>1, <2>1, UpdatesType
  <2>. QED BY <2>1, <2>2, JoinsKept
<1>2. ASSUME NEW i \in Ids, HardDelete(i)  PROVE StoreInv'
  <2>1. \A j \in Ids \ {i} : Exists(j) => Exists(j)'  BY <1>2 DEF HardDelete, TypeOK, Exists
  <2>2. RelationsJoinAtoms'
    BY <1>2, <2>1 DEF HardDelete, RelationsJoinAtoms, TypeOK, Relations
  <2>. QED BY <1>2, <2>2, HardDeleteType
<1>3. ASSUME NEW expired \in SUBSET Ids, ArchiveExpired(expired)  PROVE StoreInv'
  <2>1. relations' = relations  BY <1>3 DEF ArchiveExpired
  <2>. QED BY <1>3, <2>1, ArchiveExpiredType, JoinsKept
<1>4. ASSUME NEW from \in Ids, NEW to \in Ids, NEW type \in RelationTypes, Link(from, to, type)
      PROVE  StoreInv'
  <2>1. RelationsJoinAtoms'  BY <1>4 DEF Link, RelationsJoinAtoms, Exists
  <2>. QED BY <1>4, <2>1, LinkType
<1>5. ASSUME NEW r \in relations, Unlink(r)  PROVE StoreInv'
  <2>1. RelationsJoinAtoms'  BY <1>5 DEF Unlink, RelationsJoinAtoms, Exists
  <2>. QED BY <1>5, <2>1, LinkType
<1>6. ASSUME NEW t \in Ids, NEW sources \in SUBSET Ids, NEW content \in Contents,
             Merge(t, sources, content)
      PROVE  StoreInv'
  <2>1. TypeOK' /\ RowsPersist  BY <1>6, MergeType
  <2>2. \A r \in relations : LET m == Moved(r, t, sources) IN Exists(m.from) /\ Exists(m.to)
    BY <1>6 DEF Merge, Moved, RelationsJoinAtoms, HasRoom, TypeOK, Relations
  <2>3. \A r \in relations' : r.from # r.to /\ Exists(r.from) /\ Exists(r.to)
    BY <1>6, <2>2 DEF Merge, Rewired, RelationsJoinAtoms
  <2>4. RelationsJoinAtoms'
    BY <2>1, <2>3 DEF RelationsJoinAtoms, RowsPersist, TypeOK, Relations
  <2>. QED BY <2>1, <2>4
<1>. QED BY <1>1, <1>2, <1>3, <1>4, <1>5, <1>6 DEF DirectStep

LEMMA StoreInvStutter ==
  ASSUME StoreInv, UNCHANGED vars
  PROVE  StoreInv'
BY DEF StoreInv, TypeOK, RelationsJoinAtoms, Exists, vars

\* Every reachable table is well-typed, and its relations join two different
\* atoms that exist, for any number of ids, callers and operations.
THEOREM StoreSafe == Spec => []StoreInv
<1>1. Init => StoreInv
  BY VersionAssumption DEF Init, StoreInv, TypeOK, RelationsJoinAtoms, Calls
<1>2. StoreInv /\ [Next]_vars => StoreInv'
  BY DirectStepJoins, CallStepJoins, StoreInvStutter DEF Next
<1>. QED BY <1>1, <1>2, PTL DEF Spec

\* The type invariant of the store.
THEOREM TypeCorrect == Spec => []TypeOK
BY StoreSafe, PTL DEF StoreInv

\* Relations join existing, different atoms, whatever is merged or hard-deleted.
THEOREM RelationsSafe == Spec => []RelationsJoinAtoms
BY StoreSafe, PTL DEF StoreInv

----------------------------------------------------------------------------
(* Supersession history. *)

\* No client cuts history by hand: nobody sets the status directly, unlinks
\* or hard-deletes.
NoHandCuts == {"atom_update", "atom_unlink", "hard_delete"} \cap Operations = {}

\* A step after which nothing is superseded that was not before.
NoneRetired == \A i \in Ids : atoms'[i].status = "superseded" => atoms[i].status = "superseded"

LEMMA SuccessorsKept ==
  ASSUME SupersededHasSuccessor, NoneRetired, relations \subseteq relations'
  PROVE  SupersededHasSuccessor'
BY DEF SupersededHasSuccessor, NoneRetired, Succeeds

LEMMA SetStatusRetiresNone ==
  ASSUME TypeOK, NEW i \in Ids, NEW status \in Statuses \ {"superseded"}, SetStatus(i, status)
  PROVE  NoneRetired
<1>1. atoms[i] \in Rows  BY RoomyRow DEF SetStatus
<1>. QED BY <1>1 DEF SetStatus, NoneRetired, Bump, TypeOK, Rows

LEMMA UpdateRetiresNone ==
  ASSUME TypeOK, NEW i \in Ids, NEW ns, NEW content, Update(i, ns, content, atoms[i].status)
  PROVE  NoneRetired
<1>1. atoms[i] \in Rows  BY RoomyRow DEF Update
<1>. QED BY <1>1 DEF Update, UpdatedRow, NoneRetired, Bump, TypeOK, Rows

LEMMA CreatedRowStatus ==
  ASSUME TypeOK, NEW i \in Ids, NEW item, NEW e
  PROVE  LET row == CreatedRow(i, item, e)
         IN  row.status = "superseded" => atoms[i].status = "superseded"
<1>1. CASE Exists(i)
  <2>1. atoms[i] \in Rows  BY <1>1, ExistingRow
  <2>. QED BY <1>1, <2>1 DEF CreatedRow, Bump, Rows
<1>2. CASE ~Exists(i)
  BY <1>2 DEF CreatedRow
<1>. QED BY <1>1, <1>2

LEMMA ArchivedRowStatus ==
  ASSUME TypeOK, NEW i \in Ids, HasRoom(i)
  PROVE  ArchivedRow(i).status = "archived"
<1>1. atoms[i] \in Rows  BY RoomyRow
<1>. QED BY <1>1 DEF ArchivedRow, Bump, Rows

LEMMA MergedRowStatus ==
  ASSUME TypeOK, NEW t \in Ids, HasRoom(t), NEW content
  PROVE  MergedRow(t, content).status = "active"
<1>1. atoms[t] \in Rows  BY RoomyRow
<1>. QED BY <1>1 DEF MergedRow, Bump, Rows

\* A relation to an atom that takes no part in the merge survives it, from
\* the target when its own start is merged away.
LEMMA MergeKeepsSuccessors ==
  ASSUME StoreInv, SupersededHasSuccessor, NEW t \in Ids, NEW sources \in SUBSET Ids,
         NEW content \in Contents, Merge(t, sources, content)
  PROVE  SupersededHasSuccessor'
<1>. DEFINE edge(n, i) == [from |-> n, to |-> i, type |-> "supersedes"]
<1>. SUFFICES ASSUME NEW i \in Ids, atoms'[i].status = "superseded"
              PROVE  \E n \in Ids : edge(n, i) \in relations'
  BY DEF SupersededHasSuccessor
<1>1. i # t /\ i \notin sources
  BY MergedRowStatus, ArchivedRowStatus DEF Merge, StoreInv
<1>2. atoms[i].status = "superseded"  BY <1>1 DEF Merge
<1>3. PICK n \in Ids : edge(n, i) \in relations
  BY <1>2 DEF SupersededHasSuccessor
<1>4. CASE n \notin sources
  <2>1. ~Touches(edge(n, i), sources)  BY <1>1, <1>4 DEF Touches
  <2>. QED BY <1>3, <2>1 DEF Merge, Rewired
<1>5. CASE n \in sources
  <2>1. Moved(edge(n, i), t, sources) = edge(t, i)  BY <1>1, <1>5 DEF Moved
  <2>2. Touches(edge(n, i), sources)  BY <1>5 DEF Touches
  <2>3. edge(t, i).from # edge(t, i).to  BY <1>1
  <2>. HIDE DEF edge
  <2>4. edge(t, i) \in relations'  BY <1>3, <2>1, <2>2, <2>3 DEF Merge, Rewired
  <2>. QED BY <2>4
<1>. QED BY <1>4, <1>5

\* The atom a supersede retires gets its successor in the same step.
LEMMA SupersedeKeepsSuccessors ==
  ASSUME StoreInv, SupersededHasSuccessor, NEW c \in Callers, NEW i \in Ids, SupersedeCommit(c, i)
  PROVE  SupersededHasSuccessor'
<1>. DEFINE old == calls[c].old
            row == CreatedRow(i, calls[c].item, EmbedUnless(calls[c].known, calls[c].item.content))
<1>1. old \in Ids /\ i # old
  BY DEF SupersedeCommit, StoreInv, TypeOK, Calls, Idle
<1>2. /\ relations' = relations \cup {[from |-> i, to |-> old, type |-> "supersedes"]}
      /\ atoms' = [atoms EXCEPT ![i] = row,
                     ![old] = IF calls[c].retire THEN RetiredRow(old) ELSE atoms[old]]
  BY DEF SupersedeCommit, Succeeds
<1>3. row.status = "superseded" => atoms[i].status = "superseded"
  BY CreatedRowStatus DEF StoreInv
<1>. SUFFICES ASSUME NEW j \in Ids, atoms'[j].status = "superseded"
              PROVE  \E n \in Ids : [from |-> n, to |-> j, type |-> "supersedes"] \in relations'
  BY DEF SupersededHasSuccessor
<1>4. CASE j = old  BY <1>2, <1>4
<1>5. CASE j # old
  <2>. HIDE DEF row
  <2>1. atoms[j].status = "superseded"
    BY <1>1, <1>2, <1>3, <1>5 DEF StoreInv, TypeOK
  <2>. QED BY <1>2, <2>1 DEF SupersededHasSuccessor
<1>. QED BY <1>4, <1>5

LEMMA CallStepSuccessors ==
  ASSUME StoreInv, SupersededHasSuccessor, NEW c \in Callers, CallStep(c)
  PROVE  SupersededHasSuccessor'
<1>. USE DEF StoreInv
<1>1. ASSUME UNCHANGED atoms, relations \subseteq relations'  PROVE SupersededHasSuccessor'
  BY <1>1, SuccessorsKept DEF NoneRetired
<1>2. ASSUME calls[c].op = "create", NEW item \in calls[c].items, NEW i \in Ids,
             CreateItem(c, item, i)
      PROVE  SupersededHasSuccessor'
  <2>. DEFINE known == <<item.ns, item.content>> \in calls[c].known
              row == CreatedRow(i, item, EmbedUnless(known, item.content))
  <2>1. atoms' = [atoms EXCEPT ![i] = row] /\ relations' = relations
    BY <1>2 DEF CreateItem
  <2>2. row.status = "superseded" => atoms[i].status = "superseded"  BY CreatedRowStatus
  <2>. HIDE DEF row
  <2>3. NoneRetired  BY <2>1, <2>2 DEF NoneRetired, TypeOK
  <2>. QED BY <2>1, <2>3, SuccessorsKept
<1>3. ASSUME NEW content \in Contents, GuardedUpdateCommit(c, content)
      PROVE  SupersededHasSuccessor'
  <2>1. calls[c].id \in Ids  BY <1>3 DEF GuardedUpdateCommit, TypeOK, Calls, Idle
  <2>2. NoneRetired  BY <1>3, <2>1, UpdateRetiresNone DEF GuardedUpdateCommit
  <2>3. relations' = relations  BY <1>3 DEF GuardedUpdateCommit, Update
  <2>. QED BY <2>2, <2>3, SuccessorsKept
<1>4. ASSUME MemoryRestoreCommit(c)  PROVE SupersededHasSuccessor'
  <2>1. calls[c].id \in Ids  BY <1>4 DEF MemoryRestoreCommit, TypeOK, Calls, Idle
  <2>2. NoneRetired  BY <1>4, <2>1, SetStatusRetiresNone DEF MemoryRestoreCommit
  <2>3. relations' = relations  BY <1>4 DEF MemoryRestoreCommit, SetStatus
  <2>. QED BY <2>2, <2>3, SuccessorsKept
<1>5. ASSUME NEW batch, ReembedBatch(c, batch)  PROVE SupersededHasSuccessor'
  <2>1. \A i \in Ids : Exists(i) => Reembedded(atoms[i], i, batch).status = atoms[i].status
    BY ExistingRow DEF Reembedded, Rows
  <2>2. NoneRetired  BY <1>5, <2>1 DEF ReembedBatch, NoneRetired
  <2>3. relations' = relations  BY <1>5 DEF ReembedBatch
  <2>. QED BY <2>2, <2>3, SuccessorsKept
<1>6. ASSUME NEW i \in Ids, SupersedeCommit(c, i)  PROVE SupersededHasSuccessor'
  BY <1>6, SupersedeKeepsSuccessors
<1>7. ASSUME ConsolidateLink(c)  PROVE SupersededHasSuccessor'
  BY <1>1, <1>7 DEF ConsolidateLink
<1>8. ASSUME UNCHANGED <<atoms, relations>>  PROVE SupersededHasSuccessor'
  BY <1>1, <1>8
<1>. QED
  BY <1>2, <1>3, <1>4, <1>5, <1>6, <1>7, <1>8
  DEF CallStep, CreateBegin, CreateItemFails, GuardedUpdateRead, MemoryRestoreGet, ReplaceGet,
      ReplaceLookup, SupersedeBegin, ReembedScan, ReembedBatchFails, ConsolidateScan, CallFails

LEMMA DirectStepSuccessors ==
  ASSUME NoHandCuts, StoreInv, SupersededHasSuccessor, DirectStep
  PROVE  SupersededHasSuccessor'
<1>. USE DEF StoreInv
<1>1. ASSUME NEW i \in Ids, NEW content \in Contents, MemoryUpdate(i, content)
      PROVE  SupersededHasSuccessor'
  <2>1. relations' = relations  BY <1>1 DEF MemoryUpdate, Update
  <2>. QED BY <1>1, <2>1, UpdateRetiresNone, SuccessorsKept DEF MemoryUpdate
<1>2. ASSUME NEW i \in Ids, NEW status \in {"archived", "deleted"}, Remove(i, status)
      PROVE  SupersededHasSuccessor'
  <2>1. relations' = relations  BY <1>2 DEF Remove, SetStatus
  <2>. QED BY <1>2, <2>1, SetStatusRetiresNone, SuccessorsKept DEF Remove
<1>3. ASSUME NEW i \in Ids, AtomRestore(i)  PROVE SupersededHasSuccessor'
  <2>1. relations' = relations  BY <1>3 DEF AtomRestore, SetStatus
  <2>. QED BY <1>3, <2>1, SetStatusRetiresNone, SuccessorsKept DEF AtomRestore
<1>4. ASSUME NEW expired \in SUBSET Ids, ArchiveExpired(expired)  PROVE SupersededHasSuccessor'
  <2>1. NoneRetired  BY <1>4, ArchivedRowStatus DEF ArchiveExpired, NoneRetired
  <2>. QED BY <1>4, <2>1, SuccessorsKept DEF ArchiveExpired
<1>5. ASSUME NEW from \in Ids, NEW to \in Ids, NEW type \in RelationTypes, Link(from, to, type)
      PROVE  SupersededHasSuccessor'
  BY <1>5, SuccessorsKept DEF Link, NoneRetired
<1>6. ASSUME NEW t \in Ids, NEW sources \in SUBSET Ids, NEW content \in Contents,
             Merge(t, sources, content)
      PROVE  SupersededHasSuccessor'
  BY <1>6, MergeKeepsSuccessors
<1>. QED
  BY <1>1, <1>2, <1>3, <1>4, <1>5, <1>6
  DEF DirectStep, NoHandCuts, AtomUpdate, HardDelete, Unlink

\* While clients do not cut history by hand, every superseded atom can be
\* followed to the atom that replaced it: supersede relates the two in the
\* transaction that retires the old one, merge hands the relation on to its
\* target, and no other operation removes it.
THEOREM SupersededTraceable ==
  ASSUME NoHandCuts
  PROVE  Spec => []SupersededHasSuccessor
<1>1. Init => SupersededHasSuccessor  BY DEF Init, SupersededHasSuccessor
<1>2. StoreInv /\ SupersededHasSuccessor /\ [Next]_vars => SupersededHasSuccessor'
  <2>1. ASSUME StoreInv, SupersededHasSuccessor, UNCHANGED vars  PROVE SupersededHasSuccessor'
    BY <2>1 DEF SupersededHasSuccessor, vars
  <2>. QED BY <2>1, DirectStepSuccessors, CallStepSuccessors DEF Next
<1>. QED BY <1>1, <1>2, StoreSafe, PTL DEF Spec

----------------------------------------------------------------------------
(* Every step moves each row the way VersionedRows allows. *)

\* The version grows.
Revised(i) == /\ atoms[i] \in Rows /\ atoms'[i] \in Rows
              /\ atoms'[i].version > atoms[i].version

\* Only the embedding changes.
Reindexed(i) == /\ atoms[i] \in Rows /\ atoms'[i] \in Rows
                /\ atoms'[i].ns = atoms[i].ns /\ atoms'[i].content = atoms[i].content
                /\ atoms'[i].status = atoms[i].status /\ atoms'[i].version = atoms[i].version

RowStep(i) == \/ atoms'[i] = atoms[i]
              \/ atoms[i] = Unused /\ atoms'[i] \in Rows
              \/ Revised(i)
              \/ Reindexed(i)
              \/ atoms[i] \in Rows /\ atoms'[i] = Gone

LEMMA BumpVersion ==
  ASSUME NEW row \in Rows
  PROVE  Bump(row).version = row.version + 1 /\ row.version \in Nat
BY DEF Bump, Rows

LEMMA CreatedRowVersion ==
  ASSUME TypeOK, NEW i \in Ids, Exists(i), NEW item, NEW e
  PROVE  CreatedRow(i, item, e).version = atoms[i].version + 1
<1>1. atoms[i] \in Rows  BY ExistingRow
<1>. QED BY <1>1 DEF CreatedRow, Bump, Rows

LEMMA UpdatedRowVersion ==
  ASSUME TypeOK, NEW i \in Ids, Exists(i), NEW ns, NEW content, NEW status
  PROVE  UpdatedRow(i, ns, content, status).version = atoms[i].version + 1
<1>1. atoms[i] \in Rows  BY ExistingRow
<1>. QED BY <1>1 DEF UpdatedRow, Bump, Rows

LEMMA MergedRowVersion ==
  ASSUME TypeOK, NEW i \in Ids, Exists(i), NEW content
  PROVE  MergedRow(i, content).version = atoms[i].version + 1
<1>1. atoms[i] \in Rows  BY ExistingRow
<1>. QED BY <1>1 DEF MergedRow, Bump, Rows

LEMMA StatusRowVersion ==
  ASSUME TypeOK, NEW i \in Ids, Exists(i), NEW status
  PROVE  Bump([atoms[i] EXCEPT !.status = status]).version = atoms[i].version + 1
<1>1. atoms[i] \in Rows  BY ExistingRow
<1>. QED BY <1>1 DEF Bump, Rows

\* One write of a row that exists, or of an unused id.
LEMMA OneRowStep ==
  ASSUME TypeOK, NEW i \in Ids, NEW row \in Rows, atoms' = [atoms EXCEPT ![i] = row],
         \/ atoms[i] = Unused
         \/ Exists(i) /\ row.version = atoms[i].version + 1
  PROVE  \A j \in Ids : RowStep(j)
<1>1. atoms'[i] = row /\ \A j \in Ids \ {i} : atoms'[j] = atoms[j]  BY DEF TypeOK
<1>2. CASE atoms[i] = Unused  BY <1>1, <1>2 DEF RowStep
<1>3. CASE Exists(i) /\ row.version = atoms[i].version + 1
  <2>1. atoms[i] \in Rows /\ atoms[i].version \in Nat  BY <1>3, ExistingRow DEF Rows
  <2>2. Revised(i)  BY <1>1, <1>3, <2>1 DEF Revised
  <2>. QED BY <1>1, <2>2 DEF RowStep
<1>. QED BY <1>2, <1>3

LEMMA SetStatusRowStep ==
  ASSUME TypeOK, NEW i \in Ids, NEW status \in Statuses, SetStatus(i, status)
  PROVE  \A j \in Ids : RowStep(j)
<1>. DEFINE row == Bump([atoms[i] EXCEPT !.status = status])
<1>1. row \in Rows  BY StatusRowType DEF SetStatus
<1>2. Exists(i) /\ row.version = atoms[i].version + 1
  BY StatusRowVersion DEF SetStatus, HasRoom
<1>3. atoms' = [atoms EXCEPT ![i] = row]  BY DEF SetStatus
<1>. HIDE DEF row
<1>. QED BY <1>1, <1>2, <1>3, OneRowStep

LEMMA UpdateRowStep ==
  ASSUME TypeOK, NEW i \in Ids, NEW ns \in Namespaces, NEW content \in Contents,
         NEW status \in Statuses, Update(i, ns, content, status)
  PROVE  \A j \in Ids : RowStep(j)
<1>. DEFINE row == UpdatedRow(i, ns, content, status)
<1>1. row \in Rows  BY UpdatedRowType DEF Update
<1>2. Exists(i)  BY DEF Update, HasRoom
<1>3. row.version = atoms[i].version + 1  BY <1>2, UpdatedRowVersion
<1>4. atoms' = [atoms EXCEPT ![i] = row]  BY DEF Update
<1>. HIDE DEF row
<1>. QED BY <1>1, <1>2, <1>3, <1>4, OneRowStep

LEMMA DirectRowSteps ==
  ASSUME TypeOK, DirectStep
  PROVE  \A j \in Ids : RowStep(j)
<1>1. ASSUME NEW i \in Ids, NEW content \in Contents, MemoryUpdate(i, content)
      PROVE  \A j \in Ids : RowStep(j)
  <2>1. atoms[i].ns \in Namespaces /\ atoms[i].status \in Statuses
    BY <1>1, ExistingStatus DEF MemoryUpdate
  <2>. QED BY <1>1, <2>1, UpdateRowStep DEF MemoryUpdate
<1>2. ASSUME NEW i \in Ids, NEW ns \in Namespaces, NEW content \in Contents,
             NEW status \in Statuses, AtomUpdate(i, ns, content, status)
      PROVE  \A j \in Ids : RowStep(j)
  BY <1>2, UpdateRowStep DEF AtomUpdate
<1>3. ASSUME NEW i \in Ids, NEW status \in {"archived", "deleted"}, Remove(i, status)
      PROVE  \A j \in Ids : RowStep(j)
  BY <1>3, SetStatusRowStep DEF Remove
<1>4. ASSUME NEW i \in Ids, AtomRestore(i)  PROVE  \A j \in Ids : RowStep(j)
  BY <1>4, SetStatusRowStep DEF AtomRestore
<1>5. ASSUME NEW i \in Ids, HardDelete(i)  PROVE  \A j \in Ids : RowStep(j)
  <2>1. atoms[i] \in Rows  BY <1>5, ExistingRow DEF HardDelete
  <2>. QED BY <1>5, <2>1 DEF HardDelete, RowStep, TypeOK
<1>6. ASSUME NEW expired \in SUBSET Ids, ArchiveExpired(expired)
      PROVE  \A j \in Ids : RowStep(j)
  <2>1. \A j \in expired : HasRoom(j) /\ atoms'[j] = ArchivedRow(j)  BY <1>6 DEF ArchiveExpired
  <2>2. \A j \in expired : Revised(j)
    <3>. TAKE j \in expired
    <3>1. atoms[j] \in Rows /\ atoms[j].version \in Nat  BY <2>1, RoomyRow DEF Rows
    <3>2. ArchivedRow(j) \in Rows  BY <2>1, StatusRowType DEF ArchivedRow
    <3>3. ArchivedRow(j).version = atoms[j].version + 1  BY <2>1, StatusRowVersion DEF ArchivedRow, HasRoom
    <3>. QED BY <2>1, <3>1, <3>2, <3>3 DEF Revised
  <2>. QED BY <1>6, <2>2 DEF ArchiveExpired, RowStep
<1>7. ASSUME NEW from \in Ids, NEW to \in Ids, NEW type \in RelationTypes, Link(from, to, type)
      PROVE  \A j \in Ids : RowStep(j)
  BY <1>7 DEF Link, RowStep
<1>8. ASSUME NEW r \in relations, Unlink(r)  PROVE  \A j \in Ids : RowStep(j)
  BY <1>8 DEF Unlink, RowStep
<1>9. ASSUME NEW t \in Ids, NEW sources \in SUBSET Ids, NEW content \in Contents,
             Merge(t, sources, content)
      PROVE  \A j \in Ids : RowStep(j)
  <2>. TAKE j \in Ids
  <2>1. CASE j \notin sources \cup {t}  BY <1>9, <2>1 DEF Merge, RowStep
  <2>2. ASSUME j \in sources \cup {t}  PROVE RowStep(j)
    <3>1. HasRoom(j)  BY <1>9, <2>2 DEF Merge
    <3>2. atoms[j] \in Rows /\ atoms[j].version \in Nat  BY <3>1, RoomyRow DEF Rows
    <3>3. atoms'[j] = MergedRow(j, content) \/ atoms'[j] = ArchivedRow(j)
      BY <1>9, <2>2 DEF Merge
    <3>4. MergedRow(j, content) \in Rows /\ ArchivedRow(j) \in Rows
      BY <3>1, MergedRowType, StatusRowType DEF ArchivedRow
    <3>5. atoms'[j].version = atoms[j].version + 1  
      BY <3>1, <3>3, MergedRowVersion, StatusRowVersion DEF ArchivedRow, HasRoom
    <3>. QED BY <3>2, <3>3, <3>4, <3>5 DEF RowStep, Revised
  <2>. QED BY <2>1, <2>2
<1>. QED BY <1>1, <1>2, <1>3, <1>4, <1>5, <1>6, <1>7, <1>8, <1>9 DEF DirectStep

LEMMA CallRowSteps ==
  ASSUME TypeOK, NEW c \in Callers, CallStep(c)
  PROVE  \A j \in Ids : RowStep(j)
<1>1. ASSUME calls[c].op = "create", NEW item \in calls[c].items, NEW i \in Ids,
             CreateItem(c, item, i)
      PROVE  \A j \in Ids : RowStep(j)
  <2>. DEFINE known == <<item.ns, item.content>> \in calls[c].known
              e == EmbedUnless(known, item.content)
              row == CreatedRow(i, item, e)
  <2>1. item \in Items /\ item.content \in Contents
    BY <1>1 DEF TypeOK, Calls, Idle, Items
  <2>2. EmbedUnless(known, item.content) \in Embeddings
    BY <2>1 DEF EmbedUnless, Embed, Embeddings
  <2>3. LandsOn(i, item) /\ atoms' = [atoms EXCEPT ![i] = row]  BY <1>1 DEF CreateItem
  <2>4. row \in Rows  BY <2>1, <2>2, <2>3, CreatedRowType
  <2>5. atoms[i] = Unused \/ (Exists(i) /\ row.version = atoms[i].version + 1)
    <3>1. atoms[i] = Unused \/ Exists(i)  BY <2>3 DEF LandsOn, HasRoom
    <3>. HIDE DEF e
    <3>2. ASSUME Exists(i)  PROVE row.version = atoms[i].version + 1
      BY <3>2, CreatedRowVersion
    <3>. QED BY <3>1, <3>2
  <2>. HIDE DEF row
  <2>. QED BY <2>3, <2>4, <2>5, OneRowStep
<1>2. ASSUME NEW content \in Contents, GuardedUpdateCommit(c, content)
      PROVE  \A j \in Ids : RowStep(j)
  <2>1. calls[c].id \in Ids  BY <1>2 DEF GuardedUpdateCommit, TypeOK, Calls, Idle
  <2>2. Exists(calls[c].id)  BY <1>2 DEF GuardedUpdateCommit, VersionMatches
  <2>3. atoms[calls[c].id].ns \in Namespaces /\ atoms[calls[c].id].status \in Statuses
    BY <2>1, <2>2, ExistingStatus
  <2>. QED BY <1>2, <2>1, <2>3, UpdateRowStep DEF GuardedUpdateCommit
<1>3. ASSUME MemoryRestoreCommit(c)  PROVE  \A j \in Ids : RowStep(j)
  <2>1. calls[c].id \in Ids  BY <1>3 DEF MemoryRestoreCommit, TypeOK, Calls, Idle
  <2>. QED BY <1>3, <2>1, SetStatusRowStep DEF MemoryRestoreCommit
<1>4. ASSUME NEW batch \in SUBSET calls[c].rows, ReembedBatch(c, batch)
      PROVE  \A j \in Ids : RowStep(j)
  <2>. TAKE j \in Ids
  <2>1. CASE ~Exists(j)  BY <1>4, <2>1 DEF ReembedBatch, RowStep
  <2>2. CASE Exists(j)
    <3>1. atoms'[j] = Reembedded(atoms[j], j, batch)  BY <1>4, <2>2 DEF ReembedBatch
    <3>2. atoms[j] \in Rows  BY <2>2, ExistingRow
    <3>3. batch \subseteq Ids \X Contents  BY <1>4 DEF ReembedBatch, TypeOK, Calls, Idle
    <3>4. CASE \E p \in batch : p[1] = j
      <4>. DEFINE q == CHOOSE p \in batch : p[1] = j
      <4>1. q \in batch  BY <3>4
      <4>2. q[2] \in Embeddings  BY <3>3, <4>1 DEF Embeddings
      <4>. HIDE DEF q
      <4>3. atoms'[j] = [atoms[j] EXCEPT !.embedding = q[2]]
        BY <3>1, <3>4 DEF Reembedded, q
      <4>. QED BY <3>2, <4>2, <4>3 DEF RowStep, Reindexed, Rows
    <3>5. CASE ~\E p \in batch : p[1] = j
      BY <3>1, <3>5 DEF Reembedded, RowStep
    <3>. QED BY <3>4, <3>5
  <2>. QED BY <2>1, <2>2
<1>5. ASSUME NEW i \in Ids, SupersedeCommit(c, i)  PROVE  \A j \in Ids : RowStep(j)
  <2>. DEFINE call == calls[c]
              old == call.old
              e == EmbedUnless(call.known, call.item.content)
              row == CreatedRow(i, call.item, e)
  <2>1. /\ old \in Ids /\ call.item \in Items /\ call.item.content \in Contents
        /\ call.known \in BOOLEAN
    BY <1>5 DEF SupersedeCommit, TypeOK, Calls, Idle, Items
  <2>2. /\ Exists(old) /\ i # old /\ LandsOn(i, call.item) /\ (call.retire => HasRoom(old))
        /\ atoms' = [atoms EXCEPT ![i] = row,
                        ![old] = IF call.retire THEN RetiredRow(old) ELSE atoms[old]]
    BY <1>5 DEF SupersedeCommit
  <2>3. row \in Rows  BY <2>1, <2>2, EmbedType, CreatedRowType
  <2>4. atoms[i] = Unused \/ (Exists(i) /\ row.version = atoms[i].version + 1)
    <3>1. atoms[i] = Unused \/ Exists(i)  BY <2>2 DEF LandsOn, HasRoom
    <3>. HIDE DEF e
    <3>2. ASSUME Exists(i)  PROVE row.version = atoms[i].version + 1
      BY <3>2, CreatedRowVersion
    <3>. QED BY <3>1, <3>2
  <2>. HIDE DEF row
  <2>5. RowStep(i)
    <3>1. atoms'[i] = row  BY <2>2 DEF TypeOK
    <3>2. Exists(i) => atoms[i] \in Rows /\ atoms[i].version \in Nat  BY ExistingRow DEF Rows
    <3>. QED BY <2>3, <2>4, <3>1, <3>2 DEF RowStep, Revised
  <2>6. RowStep(old)
    <3>1. CASE ~call.retire  BY <2>1, <2>2, <3>1 DEF TypeOK, RowStep
    <3>2. CASE call.retire
      <4>1. atoms'[old] = RetiredRow(old)  BY <2>1, <2>2, <3>2 DEF TypeOK
      <4>2. RetiredRow(old) \in Rows  BY <2>1, <2>2, <3>2, StatusRowType DEF RetiredRow
      <4>3. RetiredRow(old).version = atoms[old].version + 1  BY <2>1, <2>2, StatusRowVersion DEF RetiredRow
      <4>4. atoms[old] \in Rows /\ atoms[old].version \in Nat
        BY <2>1, <2>2, ExistingRow DEF Rows
      <4>. QED BY <4>1, <4>2, <4>3, <4>4 DEF RowStep, Revised
    <3>. QED BY <3>1, <3>2
  <2>7. \A j \in Ids \ {i, old} : RowStep(j)  BY <2>2 DEF TypeOK, RowStep
  <2>. QED BY <2>5, <2>6, <2>7
<1>6. ASSUME UNCHANGED atoms  PROVE \A j \in Ids : RowStep(j)
  BY <1>6 DEF RowStep
<1>. QED
  BY <1>1, <1>2, <1>3, <1>4, <1>5, <1>6
  DEF CallStep, CreateBegin, CreateItemFails, GuardedUpdateRead, MemoryRestoreGet, ReplaceGet,
      ReplaceLookup, SupersedeBegin, ReembedScan, ReembedBatchFails, ConsolidateScan,
      ConsolidateLink, CallFails

LEMMA StepRows ==
  ASSUME TypeOK, [Next]_vars
  PROVE  \A j \in Ids : RowStep(j)
<1>1. ASSUME UNCHANGED vars  PROVE \A j \in Ids : RowStep(j)
  BY <1>1 DEF vars, RowStep
<1>. QED BY <1>1, DirectRowSteps, CallRowSteps DEF Next

\* A row step is a step of the contract.
LEMMA RowRefines ==
  ASSUME TypeOK, NEW i \in Ids, RowStep(i)
  PROVE  LET old == View(atoms[i])
             new == View(atoms'[i])
         IN  \/ old.phase = "unused" /\ new.phase = "live" /\ new.version > 0
             \/ old.phase = "live" /\ new.phase = "live" /\ new.version > old.version
             \/ old.phase = "live" /\ new = [old EXCEPT !.index = new.index]
             \/ old.phase = "live" /\ new.phase = "gone"
             \/ new = old
<1>1. \A row \in Rows : View(row) = [phase |-> "live", version |-> row.version,
                                     body |-> <<row.ns, row.content, row.status>>,
                                     index |-> row.embedding]
  BY DEF View, Rows
<1>2. View(Unused).phase = "unused" /\ View(Gone).phase = "gone"  BY DEF View
<1>3. \A row \in Rows : row.version > 0  BY DEF Rows
<1>. QED BY <1>1, <1>2, <1>3 DEF RowStep, Revised, Reindexed

\* The store implements the contract of VersionedRows: versions only grow,
\* every visible change counts, re-embedding is invisible, ids are not reused,
\* whatever mix of operations writes the rows.
THEOREM StoreImplementsContract == Spec => RowsAreVersioned
<1>. DEFINE rows == [i \in Ids |-> View(atoms[i])]
<1>1. Init => Contract!Init
  BY DEF Init, Contract!Init, View
<1>2. TypeOK /\ [Next]_vars => [Contract!Next]_rows
  <2>. SUFFICES ASSUME TypeOK, [Next]_vars  PROVE Contract!Next
    OBVIOUS
  <2>. SUFFICES ASSUME NEW i \in Ids
                PROVE  \/ Contract!Appear(i) \/ Contract!Revise(i) \/ Contract!Reindex(i)
                       \/ Contract!Vanish(i) \/ rows'[i] = rows[i]
    BY DEF Contract!Next
  <2>1. rows[i] = View(atoms[i]) /\ rows'[i] = View(atoms'[i])
    BY DEF View
  <2>2. RowStep(i)  BY StepRows
  <2>. QED BY <2>1, <2>2, RowRefines
           DEF Contract!Appear, Contract!Revise, Contract!Reindex, Contract!Vanish
<1>. QED BY <1>1, <1>2, TypeCorrect, PTL DEF Spec, RowsAreVersioned, Contract!Spec

----------------------------------------------------------------------------
(* The expectedVersion guard. *)

\* What a client has seen is a past state of the row: the row is not unused,
\* its version is not smaller, and with the same version it says the same.
SeenIsPast(row, seen) ==
  row \in Rows => /\ row.version >= seen.version
                  /\ row.version = seen.version =>
                       /\ row.ns = seen.ns /\ row.content = seen.content
                       /\ row.status = seen.status

SeenInv ==
  \A c \in Callers : calls[c].op = "guarded_update" =>
    atoms[calls[c].id] # Unused /\ SeenIsPast(atoms[calls[c].id], calls[c].seen)

LEMMA SeenStaysPast ==
  ASSUME NEW i \in Ids, RowStep(i), NEW seen \in Rows,
         atoms[i] # Unused, SeenIsPast(atoms[i], seen)
  PROVE  atoms'[i] # Unused /\ SeenIsPast(atoms'[i], seen)
<1>1. Gone \notin Rows /\ Unused \notin Rows /\ \A row \in Rows : row.version \in Nat
  BY DEF Rows
<1>2. CASE atoms'[i] = atoms[i]  BY <1>2
<1>3. CASE Revised(i)  BY <1>1, <1>3 DEF Revised, SeenIsPast
<1>4. CASE Reindexed(i)  BY <1>1, <1>4 DEF Reindexed, SeenIsPast
<1>5. CASE atoms[i] \in Rows /\ atoms'[i] = Gone  BY <1>1, <1>5 DEF SeenIsPast
<1>. QED BY <1>2, <1>3, <1>4, <1>5 DEF RowStep

\* Guarded calls begin with a read and keep what they read.
GuardedCallsKept ==
  \A c \in Callers : calls'[c].op = "guarded_update" =>
    \/ calls'[c] = calls[c]
    \/ \E i \in Ids : Exists(i) /\ calls'[c] = [op |-> "guarded_update", id |-> i, seen |-> atoms[i]]
                        /\ atoms' = atoms

LEMMA GuardedCallsStep ==
  ASSUME TypeOK, [Next]_vars
  PROVE  GuardedCallsKept
<1>1. ASSUME UNCHANGED calls  PROVE GuardedCallsKept
  BY <1>1 DEF GuardedCallsKept
<1>2. ASSUME NEW c \in Callers, CallStep(c)  PROVE GuardedCallsKept
  <2>1. ASSUME NEW call, calls' = [calls EXCEPT ![c] = call], call.op # "guarded_update"
        PROVE  GuardedCallsKept
    BY <2>1 DEF GuardedCallsKept, TypeOK
  <2>2. ASSUME Return(c)  PROVE GuardedCallsKept
    <3>1. Idle.op # "guarded_update"  BY DEF Idle
    <3>. QED BY <2>1, <2>2, <3>1 DEF Return
  <2>3. ASSUME NEW call, Begin(c, call), call.op # "guarded_update"  PROVE GuardedCallsKept
    BY <2>1, <2>3 DEF Begin
  <2>4. ASSUME NEW i \in Ids, GuardedUpdateRead(c, i)  PROVE GuardedCallsKept
    BY <2>4 DEF GuardedUpdateRead, Begin, GuardedCallsKept, TypeOK
  <2>5. ASSUME NEW item, calls[c].op = "create", ItemDone(c, item)  PROVE GuardedCallsKept
    <3>1. calls[c] \in [op : {"create"}, items : SUBSET Items, known : SUBSET Keys]
      BY <2>5 DEF TypeOK, Calls, Idle
    <3>. DEFINE rest == calls[c].items \ {item}
                call == IF rest = {} THEN Idle ELSE [calls[c] EXCEPT !.items = rest]
    <3>2. calls' = [calls EXCEPT ![c] = call]  BY <2>5 DEF ItemDone
    <3>3. call.op # "guarded_update"  BY <3>1 DEF Idle
    <3>. HIDE DEF call
    <3>. QED BY <2>1, <3>2, <3>3
  <2>6. ASSUME NEW batch, calls[c].op = "reembed", RowsLeft(c, batch)  PROVE GuardedCallsKept
    <3>1. calls[c] \in [op : {"reembed"}, rows : SUBSET (Ids \X Contents)]
      BY <2>6 DEF TypeOK, Calls, Idle
    <3>. DEFINE rest == calls[c].rows \ batch
                call == IF rest = {} THEN Idle ELSE [calls[c] EXCEPT !.rows = rest]
    <3>2. calls' = [calls EXCEPT ![c] = call]  BY <2>6 DEF RowsLeft
    <3>3. call.op # "guarded_update"  BY <3>1 DEF Idle
    <3>. HIDE DEF call
    <3>. QED BY <2>1, <3>2, <3>3
  <2>7. ASSUME ReplaceLookup(c)  PROVE GuardedCallsKept
    BY <2>1, <2>7 DEF ReplaceLookup, SupersedeCall
  <2>8. ASSUME NEW items, CreateBegin(c, items)  PROVE GuardedCallsKept
    BY <2>3, <2>8 DEF CreateBegin
  <2>9. ASSUME NEW i, MemoryRestoreGet(c, i)  PROVE GuardedCallsKept
    BY <2>3, <2>9 DEF MemoryRestoreGet
  <2>10. ASSUME NEW i, NEW content, ReplaceGet(c, i, content)  PROVE GuardedCallsKept
    BY <2>3, <2>10 DEF ReplaceGet
  <2>11. ASSUME NEW i, NEW item, NEW retire, SupersedeBegin(c, i, item, retire)
         PROVE  GuardedCallsKept
    BY <2>3, <2>11 DEF SupersedeBegin, SupersedeCall
  <2>12. ASSUME NEW ids, ReembedScan(c, ids)  PROVE GuardedCallsKept
    BY <2>3, <2>12 DEF ReembedScan
  <2>13. ASSUME NEW pairs, ConsolidateScan(c, pairs)  PROVE GuardedCallsKept
    BY <2>3, <2>13 DEF ConsolidateScan
  <2>. QED
    BY <1>2, <2>2, <2>4, <2>5, <2>6, <2>7, <2>8, <2>9, <2>10, <2>11, <2>12, <2>13
    DEF CallStep, CreateItem, CreateItemFails, GuardedUpdateCommit, MemoryRestoreCommit,
        SupersedeCommit, ReembedBatch, ReembedBatchFails, ConsolidateLink, CallFails
<1>3. DirectStep => UNCHANGED calls
  BY DEF DirectStep, MemoryUpdate, AtomUpdate, Remove, HardDelete, AtomRestore, ArchiveExpired,
         Link, Unlink, Merge
<1>. QED BY <1>1, <1>2, <1>3 DEF Next, vars

\* The guard of atom_update is sound: while the version is the one a client
\* read, the row still says what the client read.
THEOREM GuardIsSound == Spec => []VersionIdentifiesRow
<1>1. Init => SeenInv  BY DEF Init, SeenInv, Idle
<1>2. TypeOK /\ TypeOK' /\ SeenInv /\ [Next]_vars => SeenInv'
  <2>. SUFFICES ASSUME TypeOK, TypeOK', SeenInv, [Next]_vars,
                       NEW c \in Callers, calls'[c].op = "guarded_update"
                PROVE  LET row == atoms'[calls'[c].id]
                       IN  row # Unused /\ SeenIsPast(row, calls'[c].seen)
    BY DEF SeenInv, SeenIsPast
  <2>1. calls'[c].id \in Ids /\ calls'[c].seen \in Rows
    BY DEF TypeOK, Calls, Idle
  <2>2. CASE calls'[c] = calls[c]
    <3>1. atoms[calls[c].id] # Unused /\ SeenIsPast(atoms[calls[c].id], calls[c].seen)
      BY <2>2 DEF SeenInv
    <3>2. RowStep(calls[c].id)  BY <2>1, <2>2, StepRows
    <3>. QED BY <2>1, <2>2, <3>1, <3>2, SeenStaysPast
  <2>3. ASSUME NEW i \in Ids, Exists(i), atoms' = atoms,
               calls'[c] = [op |-> "guarded_update", id |-> i, seen |-> atoms[i]]
        PROVE  LET row == atoms'[calls'[c].id]
               IN  row # Unused /\ SeenIsPast(row, calls'[c].seen)
    <3>1. atoms[i] \in Rows  BY <2>3, ExistingRow
    <3>. QED BY <2>3, <3>1 DEF SeenIsPast, Rows
  <2>. QED BY <2>2, <2>3, GuardedCallsStep DEF GuardedCallsKept
<1>3. TypeOK /\ SeenInv => VersionIdentifiesRow
  <2>. SUFFICES ASSUME TypeOK, SeenInv, NEW c \in Callers,
                       calls[c].op = "guarded_update", VersionMatches(c)
                PROVE  LET row == atoms[calls[c].id]
                           seen == calls[c].seen
                       IN  row.ns = seen.ns /\ row.content = seen.content /\ row.status = seen.status
    BY DEF VersionIdentifiesRow
  <2>1. calls[c].id \in Ids  BY DEF TypeOK, Calls, Idle
  <2>2. atoms[calls[c].id] \in Rows  BY <2>1, ExistingRow DEF VersionMatches
  <2>. QED BY <2>2 DEF SeenInv, SeenIsPast, VersionMatches
<1>. QED BY <1>1, <1>2, <1>3, TypeCorrect, PTL DEF Spec

----------------------------------------------------------------------------
(* The unique key. *)

SameKey(j) == Exists(j) /\ atoms'[j].ns = atoms[j].ns /\ atoms'[j].content = atoms[j].content

\* A step that gives at most the row t another key, which no other row holds.
OneKeyMoves(t) ==
  /\ \A j \in Ids \ {t} : Exists(j)' => SameKey(j)
  /\ Exists(t)' => SameKey(t) \/ Holders(atoms'[t].ns, atoms'[t].content) \subseteq {t}

LEMMA OneKeyMovesKeepsUnique ==
  ASSUME OneAtomPerContent, NEW t \in Ids, OneKeyMoves(t)
  PROVE  OneAtomPerContent'
<1>. SUFFICES ASSUME NEW i \in Ids, NEW j \in Ids, Exists(i)', Exists(j)', i # j,
                     atoms'[i].ns = atoms'[j].ns, atoms'[i].content = atoms'[j].content
              PROVE  FALSE
  BY DEF OneAtomPerContent
<1>1. CASE SameKey(i) /\ SameKey(j)  BY <1>1 DEF SameKey, OneAtomPerContent
<1>2. CASE i = t /\ ~SameKey(t)  BY <1>2 DEF OneKeyMoves, SameKey, Holders
<1>3. CASE j = t /\ ~SameKey(t)  BY <1>3 DEF OneKeyMoves, SameKey, Holders
<1>. QED BY <1>1, <1>2, <1>3 DEF OneKeyMoves

LEMMA KeysKeptKeepsUnique ==
  ASSUME OneAtomPerContent, \A j \in Ids : Exists(j)' => SameKey(j)
  PROVE  OneAtomPerContent'
BY DEF SameKey, OneAtomPerContent

LEMMA StatusRowKey ==
  ASSUME TypeOK, NEW i \in Ids, Exists(i), NEW status
  PROVE  LET row == Bump([atoms[i] EXCEPT !.status = status])
         IN  row.ns = atoms[i].ns /\ row.content = atoms[i].content
<1>1. atoms[i] \in Rows  BY ExistingRow
<1>. QED BY <1>1 DEF Bump, Rows

LEMMA UpdatedRowKey ==
  ASSUME TypeOK, NEW i \in Ids, Exists(i), NEW ns, NEW content, NEW status
  PROVE  LET row == UpdatedRow(i, ns, content, status)
         IN  row.ns = ns /\ row.content = content
<1>1. atoms[i] \in Rows  BY ExistingRow
<1>. QED BY <1>1 DEF UpdatedRow, Bump, Rows

LEMMA MergedRowKey ==
  ASSUME TypeOK, NEW t \in Ids, Exists(t), NEW content
  PROVE  MergedRow(t, content).ns = atoms[t].ns /\ MergedRow(t, content).content = content
<1>1. atoms[t] \in Rows  BY ExistingRow
<1>. QED BY <1>1 DEF MergedRow, Bump, Rows

\* An insert lands on the only row that may hold the item's key.
LEMMA CreatedRowKey ==
  ASSUME TypeOK, OneAtomPerContent, NEW i \in Ids, NEW item \in Items, NEW e, LandsOn(i, item)
  PROVE  LET row == CreatedRow(i, item, e)
         IN  row.ns = item.ns /\ row.content = item.content /\ Holders(row.ns, row.content) \subseteq {i}
<1>1. CASE Exists(i)
  <2>1. atoms[i] \in Rows  BY <1>1, ExistingRow
  <2>2. atoms[i].ns = item.ns /\ atoms[i].content = item.content
    BY <1>1 DEF LandsOn, Holders, Exists
  <2>3. CreatedRow(i, item, e).ns = item.ns /\ CreatedRow(i, item, e).content = item.content
    BY <1>1, <2>1, <2>2 DEF CreatedRow, Bump, Rows
  <2>. QED BY <1>1, <2>2, <2>3 DEF Holders, OneAtomPerContent
<1>2. CASE ~Exists(i)
  <2>1. Holders(item.ns, item.content) = {}  BY <1>2 DEF LandsOn, Holders
  <2>. QED BY <1>2, <2>1 DEF CreatedRow
<1>. QED BY <1>1, <1>2

LEMMA SetStatusUnique ==
  ASSUME TypeOK, OneAtomPerContent, NEW i \in Ids, NEW status, SetStatus(i, status)
  PROVE  OneAtomPerContent'
<1>. DEFINE row == Bump([atoms[i] EXCEPT !.status = status])
<1>1. Exists(i) /\ row.ns = atoms[i].ns /\ row.content = atoms[i].content
  BY StatusRowKey DEF SetStatus, HasRoom
<1>2. atoms' = [atoms EXCEPT ![i] = row]  BY DEF SetStatus
<1>. HIDE DEF row
<1>. QED BY <1>1, <1>2, KeysKeptKeepsUnique DEF TypeOK, SameKey, Exists

LEMMA UpdateUnique ==
  ASSUME TypeOK, OneAtomPerContent, NEW i \in Ids, NEW ns, NEW content, NEW status,
         Update(i, ns, content, status)
  PROVE  OneAtomPerContent'
<1>. DEFINE row == UpdatedRow(i, ns, content, status)
<1>1. Exists(i) /\ Holders(ns, content) \subseteq {i} /\ atoms' = [atoms EXCEPT ![i] = row]
  BY DEF Update, HasRoom
<1>2. row.ns = ns /\ row.content = content  BY <1>1, UpdatedRowKey
<1>. HIDE DEF row
<1>3. OneKeyMoves(i)  BY <1>1, <1>2 DEF TypeOK, OneKeyMoves, SameKey, Exists
<1>. QED BY <1>3, OneKeyMovesKeepsUnique

LEMMA DirectStepUnique ==
  ASSUME TypeOK, OneAtomPerContent, DirectStep
  PROVE  OneAtomPerContent'
<1>1. ASSUME NEW expired \in SUBSET Ids, ArchiveExpired(expired)  PROVE OneAtomPerContent'
  <2>1. \A j \in expired : Exists(j) /\ atoms'[j].ns = atoms[j].ns /\ atoms'[j].content = atoms[j].content
    BY <1>1, StatusRowKey DEF ArchiveExpired, ArchivedRow, HasRoom
  <2>2. \A j \in Ids \ expired : atoms'[j] = atoms[j]  BY <1>1 DEF ArchiveExpired
  <2>. QED BY <2>1, <2>2, KeysKeptKeepsUnique DEF SameKey, Exists
<1>2. ASSUME NEW t \in Ids, NEW sources \in SUBSET Ids, NEW content \in Contents,
             Merge(t, sources, content)
      PROVE  OneAtomPerContent'
  <2>1. \A j \in sources \cup {t} : Exists(j)  BY <1>2 DEF Merge, HasRoom
  <2>2. \A j \in sources : SameKey(j)
    BY <1>2, <2>1, StatusRowKey DEF Merge, ArchivedRow, SameKey
  <2>3. atoms'[t].ns = atoms[t].ns /\ atoms'[t].content = content
    BY <1>2, <2>1, MergedRowKey DEF Merge
  <2>4. \A j \in Ids \ (sources \cup {t}) : atoms'[j] = atoms[j]  BY <1>2 DEF Merge
  <2>5. Holders(atoms'[t].ns, atoms'[t].content) \subseteq {t}  BY <1>2, <2>3 DEF Merge
  <2>6. OneKeyMoves(t)  BY <2>2, <2>4, <2>5 DEF OneKeyMoves, SameKey, Exists
  <2>. QED BY <2>6, OneKeyMovesKeepsUnique
<1>3. ASSUME NEW i \in Ids, HardDelete(i)  PROVE OneAtomPerContent'
  BY <1>3, KeysKeptKeepsUnique DEF HardDelete, TypeOK, SameKey, Exists
<1>4. ASSUME UNCHANGED atoms  PROVE OneAtomPerContent'
  BY <1>4 DEF OneAtomPerContent, Exists
<1>. QED BY <1>1, <1>2, <1>3, <1>4, SetStatusUnique, UpdateUnique
         DEF DirectStep, MemoryUpdate, AtomUpdate, Remove, AtomRestore, Link, Unlink

LEMMA CallStepUnique ==
  ASSUME TypeOK, OneAtomPerContent, NEW c \in Callers, CallStep(c)
  PROVE  OneAtomPerContent'
<1>1. ASSUME calls[c].op = "create", NEW item \in calls[c].items, NEW i \in Ids,
             CreateItem(c, item, i)
      PROVE  OneAtomPerContent'
  <2>. DEFINE known == <<item.ns, item.content>> \in calls[c].known
              e == EmbedUnless(known, item.content)
              row == CreatedRow(i, item, e)
  <2>1. item \in Items  BY <1>1 DEF TypeOK, Calls, Idle
  <2>2. LandsOn(i, item) /\ atoms' = [atoms EXCEPT ![i] = row]  BY <1>1 DEF CreateItem
  <2>. HIDE DEF e
  <2>3. Holders(row.ns, row.content) \subseteq {i}  BY <2>1, <2>2, CreatedRowKey
  <2>. HIDE DEF row
  <2>4. OneKeyMoves(i)  BY <2>2, <2>3 DEF TypeOK, OneKeyMoves, SameKey, Exists
  <2>. QED BY <2>4, OneKeyMovesKeepsUnique
<1>2. ASSUME NEW i \in Ids, SupersedeCommit(c, i)  PROVE OneAtomPerContent'
  <2>. DEFINE call == calls[c]
              old == call.old
              e == EmbedUnless(call.known, call.item.content)
              row == CreatedRow(i, call.item, e)
  <2>1. call.item \in Items /\ old \in Ids
    BY <1>2 DEF SupersedeCommit, TypeOK, Calls, Idle
  <2>2. /\ Exists(old) /\ i # old /\ LandsOn(i, call.item)
        /\ atoms' = [atoms EXCEPT ![i] = row,
                        ![old] = IF call.retire THEN RetiredRow(old) ELSE atoms[old]]
    BY <1>2 DEF SupersedeCommit
  <2>. HIDE DEF e
  <2>3. Holders(row.ns, row.content) \subseteq {i}  BY <2>1, <2>2, CreatedRowKey
  <2>4. RetiredRow(old).ns = atoms[old].ns /\ RetiredRow(old).content = atoms[old].content
    BY <2>1, <2>2, StatusRowKey DEF RetiredRow
  <2>. HIDE DEF row
  <2>5. OneKeyMoves(i)  BY <2>1, <2>2, <2>3, <2>4 DEF TypeOK, OneKeyMoves, SameKey, Exists
  <2>. QED BY <2>5, OneKeyMovesKeepsUnique
<1>3. ASSUME NEW batch, ReembedBatch(c, batch)  PROVE OneAtomPerContent'
  <2>1. \A j \in Ids : Exists(j) => LET row == Reembedded(atoms[j], j, batch)
                                    IN  row.ns = atoms[j].ns /\ row.content = atoms[j].content
    BY ExistingRow DEF Reembedded, Rows
  <2>2. \A j \in Ids : Exists(j)' => SameKey(j)
    BY <1>3, <2>1 DEF ReembedBatch, SameKey, Exists
  <2>. QED BY <2>2, KeysKeptKeepsUnique
<1>4. ASSUME NEW content \in Contents, GuardedUpdateCommit(c, content)  PROVE OneAtomPerContent'
  <2>1. calls[c].id \in Ids  BY <1>4 DEF GuardedUpdateCommit, TypeOK, Calls, Idle
  <2>. QED BY <1>4, <2>1, UpdateUnique DEF GuardedUpdateCommit
<1>5. ASSUME MemoryRestoreCommit(c)  PROVE OneAtomPerContent'
  <2>1. calls[c].id \in Ids  BY <1>5 DEF MemoryRestoreCommit, TypeOK, Calls, Idle
  <2>. QED BY <1>5, <2>1, SetStatusUnique DEF MemoryRestoreCommit
<1>6. ASSUME UNCHANGED atoms  PROVE OneAtomPerContent'
  BY <1>6 DEF OneAtomPerContent, Exists
<1>. QED
  BY <1>1, <1>2, <1>3, <1>4, <1>5, <1>6
  DEF CallStep, CreateBegin, CreateItemFails, GuardedUpdateRead, MemoryRestoreGet, ReplaceGet,
      ReplaceLookup, SupersedeBegin, ReembedScan, ReembedBatchFails, ConsolidateScan,
      ConsolidateLink, CallFails

\* No two rows of a namespace hold the same content, however creators,
\* updates, merges and supersessions race each other.
THEOREM ContentIsUnique == Spec => []OneAtomPerContent
<1>1. Init => OneAtomPerContent  BY DEF Init, OneAtomPerContent, Exists
<1>2. TypeOK /\ OneAtomPerContent /\ [Next]_vars => OneAtomPerContent'
  <2>1. ASSUME OneAtomPerContent, UNCHANGED vars  PROVE OneAtomPerContent'
    BY <2>1 DEF OneAtomPerContent, Exists, vars
  <2>. QED BY <2>1, DirectStepUnique, CallStepUnique DEF Next
<1>. QED BY <1>1, <1>2, TypeCorrect, PTL DEF Spec

----------------------------------------------------------------------------
(* Embeddings, where no re-embedding runs. *)

NoReembedding == "atom_reembed" \notin Operations

NoneReembeds == \A c \in Callers : calls[c].op # "reembed"

Matches(row) == row.embedding \in {NoEmbedding, row.content}

LEMMA NoneReembedsStep ==
  ASSUME NoReembedding, TypeOK, NoneReembeds, [Next]_vars
  PROVE  NoneReembeds'
<1>1. ASSUME UNCHANGED calls  PROVE NoneReembeds'
  BY <1>1 DEF NoneReembeds
<1>2. ASSUME NEW c \in Callers, CallStep(c)  PROVE NoneReembeds'
  <2>1. ASSUME NEW call, calls' = [calls EXCEPT ![c] = call], call.op # "reembed"
        PROVE  NoneReembeds'
    BY <2>1 DEF NoneReembeds, TypeOK
  <2>2. ASSUME Return(c)  PROVE NoneReembeds'
    <3>1. Idle.op # "reembed"  BY DEF Idle
    <3>. QED BY <2>1, <2>2, <3>1 DEF Return
  <2>3. ASSUME NEW call, Begin(c, call), call.op # "reembed"  PROVE NoneReembeds'
    BY <2>1, <2>3 DEF Begin
  <2>4. ASSUME NEW item, calls[c].op = "create", ItemDone(c, item)  PROVE NoneReembeds'
    <3>1. calls[c] \in [op : {"create"}, items : SUBSET Items, known : SUBSET Keys]
      BY <2>4 DEF TypeOK, Calls, Idle
    <3>. DEFINE rest == calls[c].items \ {item}
                call == IF rest = {} THEN Idle ELSE [calls[c] EXCEPT !.items = rest]
    <3>2. calls' = [calls EXCEPT ![c] = call]  BY <2>4 DEF ItemDone
    <3>3. call.op # "reembed"  BY <3>1 DEF Idle
    <3>. HIDE DEF call
    <3>. QED BY <2>1, <3>2, <3>3
  <2>5. ASSUME ReplaceLookup(c)  PROVE NoneReembeds'
    BY <2>1, <2>5 DEF ReplaceLookup, SupersedeCall
  <2>6. ASSUME NEW items, CreateBegin(c, items)  PROVE NoneReembeds'
    BY <2>3, <2>6 DEF CreateBegin
  <2>7. ASSUME NEW i, GuardedUpdateRead(c, i) \/ MemoryRestoreGet(c, i)  PROVE NoneReembeds'
    BY <2>3, <2>7 DEF GuardedUpdateRead, MemoryRestoreGet
  <2>8. ASSUME NEW i, NEW content, ReplaceGet(c, i, content)  PROVE NoneReembeds'
    BY <2>3, <2>8 DEF ReplaceGet
  <2>9. ASSUME NEW i, NEW item, NEW retire, SupersedeBegin(c, i, item, retire)
        PROVE  NoneReembeds'
    BY <2>3, <2>9 DEF SupersedeBegin, SupersedeCall
  <2>10. ASSUME NEW pairs, ConsolidateScan(c, pairs)  PROVE NoneReembeds'
    BY <2>3, <2>10 DEF ConsolidateScan
  <2>. QED
    BY <1>2, <2>2, <2>4, <2>5, <2>6, <2>7, <2>8, <2>9, <2>10
    DEF CallStep, NoReembedding, NoneReembeds, ReembedScan, CreateItem, CreateItemFails,
        GuardedUpdateCommit, MemoryRestoreCommit, SupersedeCommit, ReembedBatch,
        ReembedBatchFails, ConsolidateLink, CallFails
<1>3. DirectStep => UNCHANGED calls
  BY DEF DirectStep, MemoryUpdate, AtomUpdate, Remove, HardDelete, AtomRestore, ArchiveExpired,
         Link, Unlink, Merge
<1>. QED BY <1>1, <1>2, <1>3 DEF Next, vars

LEMMA StatusRowMatches ==
  ASSUME TypeOK, NEW i \in Ids, Exists(i), Matches(atoms[i]), NEW status
  PROVE  Matches(Bump([atoms[i] EXCEPT !.status = status]))
<1>1. atoms[i] \in Rows  BY ExistingRow
<1>. QED BY <1>1 DEF Bump, Matches, Rows

LEMMA UpdatedRowMatches ==
  ASSUME TypeOK, NEW i \in Ids, Exists(i), Matches(atoms[i]), NEW ns, NEW content, NEW status
  PROVE  Matches(UpdatedRow(i, ns, content, status))
<1>1. atoms[i] \in Rows  BY ExistingRow
<1>. QED BY <1>1 DEF UpdatedRow, Bump, Matches, Embed, Rows

LEMMA MergedRowMatches ==
  ASSUME TypeOK, NEW t \in Ids, Exists(t), Matches(atoms[t]), NEW content
  PROVE  Matches(MergedRow(t, content))
<1>1. atoms[t] \in Rows  BY ExistingRow
<1>. QED BY <1>1 DEF MergedRow, Bump, Matches, Embed, Rows

\* A creating call brings the embedding of its own content or none ...
LEMMA EmbedUnlessChoice ==
  ASSUME NEW known \in BOOLEAN, NEW content
  PROVE  EmbedUnless(known, content) \in {NoEmbedding, content}
BY DEF EmbedUnless, Embed

\* ... and lands on a row of that content.
LEMMA CreatedRowMatches ==
  ASSUME TypeOK, NEW i \in Ids, NEW item \in Items, NEW e \in {NoEmbedding, item.content},
         LandsOn(i, item), Exists(i) => Matches(atoms[i])
  PROVE  Matches(CreatedRow(i, item, e))
<1>1. CASE Exists(i)
  <2>1. atoms[i] \in Rows  BY <1>1, ExistingRow
  <2>2. atoms[i].content = item.content  BY <1>1 DEF LandsOn, Holders, Exists
  <2>3. CreatedRow(i, item, e).content = item.content
    BY <1>1, <2>1, <2>2 DEF CreatedRow, Bump, Rows
  <2>4. CreatedRow(i, item, e).embedding = IF e = NoEmbedding THEN atoms[i].embedding ELSE e
    BY <1>1, <2>1 DEF CreatedRow, Bump, Rows
  <2>. QED BY <1>1, <2>2, <2>3, <2>4 DEF Matches
<1>2. CASE ~Exists(i)
  <2>1. CreatedRow(i, item, e).content = item.content /\ CreatedRow(i, item, e).embedding = e
    BY <1>2 DEF CreatedRow
  <2>. QED BY <2>1 DEF Matches
<1>. QED BY <1>1, <1>2

\* The rows written match, the others stay.
LEMMA WrittenRowsMatch ==
  ASSUME EmbeddingMatchesContent,
         \A j \in Ids : atoms'[j] = atoms[j] \/ (Exists(j)' => Matches(atoms'[j]))
  PROVE  EmbeddingMatchesContent'
BY DEF EmbeddingMatchesContent, Matches, Exists

LEMMA DirectStepMatches ==
  ASSUME TypeOK, EmbeddingMatchesContent, DirectStep
  PROVE  EmbeddingMatchesContent'
<1>. USE DEF HasRoom
<1>0. \A j \in Ids : Exists(j) => Matches(atoms[j])  BY DEF EmbeddingMatchesContent, Matches
<1>1. ASSUME NEW i \in Ids, NEW status, SetStatus(i, status)  PROVE EmbeddingMatchesContent'
  <2>1. \A j \in Ids : atoms'[j] = atoms[j] \/ Matches(atoms'[j])
    BY <1>0, <1>1, StatusRowMatches DEF SetStatus, TypeOK
  <2>. QED BY <2>1, WrittenRowsMatch
<1>2. ASSUME NEW i \in Ids, NEW ns, NEW content, NEW status, Update(i, ns, content, status)
      PROVE  EmbeddingMatchesContent'
  <2>1. \A j \in Ids : atoms'[j] = atoms[j] \/ Matches(atoms'[j])
    BY <1>0, <1>2, UpdatedRowMatches DEF Update, TypeOK
  <2>. QED BY <2>1, WrittenRowsMatch
<1>3. ASSUME NEW i \in Ids, HardDelete(i)  PROVE EmbeddingMatchesContent'
  BY <1>3, WrittenRowsMatch DEF HardDelete, TypeOK, Exists
<1>4. ASSUME NEW expired \in SUBSET Ids, ArchiveExpired(expired)  PROVE EmbeddingMatchesContent'
  <2>1. \A j \in Ids : atoms'[j] = atoms[j] \/ Matches(atoms'[j])
    BY <1>0, <1>4, StatusRowMatches DEF ArchiveExpired, ArchivedRow
  <2>. QED BY <2>1, WrittenRowsMatch
<1>5. ASSUME NEW t \in Ids, NEW sources \in SUBSET Ids, NEW content \in Contents,
             Merge(t, sources, content)
      PROVE  EmbeddingMatchesContent'
  <2>1. \A j \in sources \cup {t} : Exists(j)  BY <1>5 DEF Merge
  <2>2. \A j \in sources : Matches(ArchivedRow(j))
    BY <1>0, <2>1, StatusRowMatches DEF ArchivedRow
  <2>3. Matches(MergedRow(t, content))  BY <1>0, <2>1, MergedRowMatches
  <2>4. \A j \in Ids : atoms'[j] = atoms[j] \/ Matches(atoms'[j])
    BY <1>5, <2>2, <2>3 DEF Merge
  <2>. QED BY <2>4, WrittenRowsMatch
<1>6. ASSUME UNCHANGED atoms  PROVE EmbeddingMatchesContent'
  BY <1>6, WrittenRowsMatch
<1>. QED BY <1>1, <1>2, <1>3, <1>4, <1>5, <1>6
         DEF DirectStep, MemoryUpdate, AtomUpdate, Remove, AtomRestore, Link, Unlink

LEMMA CallStepMatches ==
  ASSUME TypeOK, NoneReembeds, EmbeddingMatchesContent, NEW c \in Callers, CallStep(c)
  PROVE  EmbeddingMatchesContent'
<1>. USE DEF HasRoom
<1>0. \A j \in Ids : Exists(j) => Matches(atoms[j])  BY DEF EmbeddingMatchesContent, Matches
<1>1. ASSUME calls[c].op = "create", NEW item \in calls[c].items, NEW i \in Ids,
             CreateItem(c, item, i)
      PROVE  EmbeddingMatchesContent'
  <2>. DEFINE known == <<item.ns, item.content>> \in calls[c].known
              e == EmbedUnless(known, item.content)
              row == CreatedRow(i, item, e)
  <2>1. item \in Items  BY <1>1 DEF TypeOK, Calls, Idle
  <2>2. LandsOn(i, item) /\ atoms' = [atoms EXCEPT ![i] = row]  BY <1>1 DEF CreateItem
  <2>3. known \in BOOLEAN  OBVIOUS
  <2>. HIDE DEF known
  <2>4. e \in {NoEmbedding, item.content}  BY <2>3, EmbedUnlessChoice
  <2>. HIDE DEF e
  <2>5. Matches(row)  BY <1>0, <2>1, <2>2, <2>4, CreatedRowMatches
  <2>. HIDE DEF row
  <2>6. \A j \in Ids : atoms'[j] = atoms[j] \/ Matches(atoms'[j])  BY <2>2, <2>5 DEF TypeOK
  <2>. QED BY <2>6, WrittenRowsMatch
<1>2. ASSUME NEW i \in Ids, SupersedeCommit(c, i)  PROVE EmbeddingMatchesContent'
  <2>. DEFINE call == calls[c]
              old == call.old
              e == EmbedUnless(call.known, call.item.content)
              row == CreatedRow(i, call.item, e)
  <2>1. call.item \in Items /\ call.known \in BOOLEAN /\ old \in Ids
    BY <1>2 DEF SupersedeCommit, TypeOK, Calls, Idle
  <2>2. /\ Exists(old) /\ LandsOn(i, call.item)
        /\ atoms' = [atoms EXCEPT ![i] = row,
                        ![old] = IF call.retire THEN RetiredRow(old) ELSE atoms[old]]
    BY <1>2 DEF SupersedeCommit
  <2>3. e \in {NoEmbedding, call.item.content}  BY <2>1, EmbedUnlessChoice
  <2>. HIDE DEF e
  <2>4. Matches(row)  BY <1>0, <2>1, <2>2, <2>3, CreatedRowMatches
  <2>5. Matches(RetiredRow(old))  BY <1>0, <2>1, <2>2, StatusRowMatches DEF RetiredRow
  <2>6. Matches(atoms[old])  BY <1>0, <2>1, <2>2
  <2>. HIDE DEF row
  <2>7. \A j \in Ids : atoms'[j] = atoms[j] \/ Matches(atoms'[j])
    BY <2>2, <2>4, <2>5, <2>6 DEF TypeOK
  <2>. QED BY <2>7, WrittenRowsMatch
<1>3. ASSUME NEW content \in Contents, GuardedUpdateCommit(c, content)
      PROVE  EmbeddingMatchesContent'
  <2>. DEFINE i == calls[c].id
  <2>1. i \in Ids  BY <1>3 DEF GuardedUpdateCommit, TypeOK, Calls, Idle
  <2>2. \A j \in Ids : atoms'[j] = atoms[j] \/ Matches(atoms'[j])
    BY <1>0, <1>3, <2>1, UpdatedRowMatches DEF GuardedUpdateCommit, Update, TypeOK
  <2>. QED BY <2>2, WrittenRowsMatch
<1>4. ASSUME MemoryRestoreCommit(c)  PROVE EmbeddingMatchesContent'
  <2>1. calls[c].id \in Ids  BY <1>4 DEF MemoryRestoreCommit, TypeOK, Calls, Idle
  <2>2. \A j \in Ids : atoms'[j] = atoms[j] \/ Matches(atoms'[j])
    BY <1>0, <1>4, <2>1, StatusRowMatches DEF MemoryRestoreCommit, SetStatus, TypeOK
  <2>. QED BY <2>2, WrittenRowsMatch
<1>5. ASSUME UNCHANGED atoms  PROVE EmbeddingMatchesContent'
  BY <1>5, WrittenRowsMatch
<1>. QED
  BY <1>1, <1>2, <1>3, <1>4, <1>5
  DEF CallStep, CreateBegin, CreateItemFails, GuardedUpdateRead, MemoryRestoreGet, ReplaceGet,
      ReplaceLookup, SupersedeBegin, ReembedScan, ReembedBatch, ReembedBatchFails, NoneReembeds,
      ConsolidateScan, ConsolidateLink, CallFails

\* Where nothing re-embeds (atom_reembed is not used, and maintenance is off or
\* its MAINTENANCE_REEMBED_LIMIT is 0), a stored embedding was computed from the content stored next to it.
THEOREM EmbeddingsMatch ==
  ASSUME NoReembedding
  PROVE  Spec => []EmbeddingMatchesContent
<1>1. Init => NoneReembeds /\ EmbeddingMatchesContent
  BY DEF Init, NoneReembeds, EmbeddingMatchesContent, Exists, Idle
<1>2. TypeOK /\ NoneReembeds /\ EmbeddingMatchesContent /\ [Next]_vars
        => (NoneReembeds /\ EmbeddingMatchesContent)'
  <2>1. ASSUME EmbeddingMatchesContent, UNCHANGED vars  PROVE EmbeddingMatchesContent'
    BY <2>1 DEF EmbeddingMatchesContent, Exists, vars
  <2>. QED BY <2>1, NoneReembedsStep, DirectStepMatches, CallStepMatches DEF Next
<1>. QED BY <1>1, <1>2, TypeCorrect, PTL DEF Spec
----------------------------------------------------------------------------
(* Every version is in the audit trail, but for those that only retire. *)

Covered(i) ==
  Written(i) =>
    \/ audited'[i] = atoms'[i].version
    \/ \E j \in Ids : RetiredBeside(i, j)
    \/ OnlyRetired(i, "archived") /\ \E expired \in SUBSET Ids :
                                        i \in expired /\ ArchiveExpired(expired)

LEMMA KeptRowCovered ==
  ASSUME NEW i \in Ids, atoms'[i] = atoms[i]
  PROVE  Covered(i)
BY DEF Covered, Written, Exists

\* One row is written and the event covers the version it gets.
LEMMA AuditedWriteCovered ==
  ASSUME TypeOK, NEW i \in Ids, NEW row, NEW version, version = row.version,
         atoms' = [atoms EXCEPT ![i] = row], audited' = [audited EXCEPT ![i] = version]
  PROVE  \A j \in Ids : Covered(j)
<1>1. atoms'[i] = row /\ audited'[i] = version  BY DEF TypeOK
<1>2. Covered(i)  BY <1>1 DEF Covered
<1>3. \A j \in Ids \ {i} : atoms'[j] = atoms[j]  BY DEF TypeOK
<1>. QED BY <1>2, <1>3, KeptRowCovered

LEMMA UpdateCovered ==
  ASSUME TypeOK, NEW i \in Ids, NEW ns, NEW content, NEW status, Update(i, ns, content, status)
  PROVE  \A j \in Ids : Covered(j)
<1>. DEFINE row == UpdatedRow(i, ns, content, status)
<1>1. row.version = atoms[i].version + 1  BY UpdatedRowVersion DEF Update, HasRoom
<1>2. /\ atoms' = [atoms EXCEPT ![i] = row]
      /\ audited' = [audited EXCEPT ![i] = atoms[i].version + 1]
  BY DEF Update
<1>. HIDE DEF row
<1>. QED BY <1>1, <1>2, AuditedWriteCovered

LEMMA SetStatusCovered ==
  ASSUME TypeOK, NEW i \in Ids, NEW status, SetStatus(i, status)
  PROVE  \A j \in Ids : Covered(j)
<1>. DEFINE row == Bump([atoms[i] EXCEPT !.status = status])
<1>1. row.version = atoms[i].version + 1  BY StatusRowVersion DEF SetStatus, HasRoom
<1>2. /\ atoms' = [atoms EXCEPT ![i] = row]
      /\ audited' = [audited EXCEPT ![i] = atoms[i].version + 1]
  BY DEF SetStatus
<1>. HIDE DEF row
<1>. QED BY <1>1, <1>2, AuditedWriteCovered

LEMMA RewiredLeavesNone ==
  ASSUME NEW t, NEW sources, t \notin sources, NEW r \in Rewired(t, sources)
  PROVE  ~Touches(r, sources)
BY DEF Rewired, Moved, Touches

\* The event of a merge names the target; the sources are only archived.
LEMMA MergeCovered ==
  ASSUME TypeOK, NEW t \in Ids, NEW sources \in SUBSET Ids, NEW content \in Contents,
         Merge(t, sources, content)
  PROVE  \A j \in Ids : Covered(j)
<1>. TAKE j \in Ids
<1>1. CASE j \notin sources \cup {t}
  <2>1. atoms'[j] = atoms[j]  BY <1>1 DEF Merge
  <2>. QED BY <2>1, KeptRowCovered
<1>2. /\ atoms'[t] = MergedRow(t, content) /\ audited'[t] = atoms[t].version + 1
      /\ MergedRow(t, content).version = atoms[t].version + 1
      /\ Exists(t) /\ atoms[t].version \in Nat
  <2>1. Exists(t) /\ atoms[t] \in Rows  BY ExistingRow DEF Merge, HasRoom
  <2>2. atoms[t].version \in Nat  BY <2>1 DEF Rows
  <2>. QED BY <2>1, <2>2, MergedRowVersion DEF Merge, HasRoom, TypeOK
<1>3. CASE j = t
  BY <1>2, <1>3 DEF Covered
<1>4. CASE j \in sources
  <2>1. OnlyRetired(j, "archived") /\ j # t
    BY <1>4 DEF Merge, ArchivedRow, HasRoom, OnlyRetired
  <2>2. \A r \in relations' : ~Touches(r, {j})
    <3>1. \A r \in relations' : ~Touches(r, sources)
      BY RewiredLeavesNone DEF Merge
    <3>. QED BY <1>4, <3>1 DEF Touches
  <2>3. Written(t)
    <3>1. MergedRow(t, content).status \in Statuses
      <4>1. atoms[t] \in Rows  BY <1>2, ExistingRow
      <4>. QED BY <4>1 DEF MergedRow, Bump, Rows, Statuses
    <3>. QED BY <1>2, <3>1 DEF Written, Exists
  <2>. QED BY <1>2, <2>1, <2>2, <2>3 DEF Covered, RetiredBeside
<1>. QED BY <1>1, <1>3, <1>4

LEMMA DirectStepCovered ==
  ASSUME TypeOK, DirectStep
  PROVE  \A j \in Ids : Covered(j)
<1>1. ASSUME NEW i \in Ids, NEW content \in Contents, MemoryUpdate(i, content)
      PROVE  \A j \in Ids : Covered(j)
  BY <1>1, UpdateCovered DEF MemoryUpdate
<1>2. ASSUME NEW i \in Ids, NEW ns \in Namespaces, NEW content \in Contents,
             NEW status \in Statuses, AtomUpdate(i, ns, content, status)
      PROVE  \A j \in Ids : Covered(j)
  BY <1>2, UpdateCovered DEF AtomUpdate
<1>3. ASSUME NEW i \in Ids, NEW status \in {"archived", "deleted"}, Remove(i, status)
      PROVE  \A j \in Ids : Covered(j)
  BY <1>3, SetStatusCovered DEF Remove
<1>4. ASSUME NEW i \in Ids, AtomRestore(i)  PROVE \A j \in Ids : Covered(j)
  BY <1>4, SetStatusCovered DEF AtomRestore
<1>5. ASSUME NEW i \in Ids, HardDelete(i)  PROVE \A j \in Ids : Covered(j)
  <2>1. atoms'[i] = Gone /\ \A j \in Ids \ {i} : atoms'[j] = atoms[j]
    BY <1>5 DEF HardDelete, TypeOK
  <2>2. Covered(i)  BY <2>1 DEF Covered, Written, Exists, Gone, Statuses
  <2>. QED BY <2>1, <2>2, KeptRowCovered
<1>6. ASSUME NEW expired \in SUBSET Ids, ArchiveExpired(expired)
      PROVE  \A j \in Ids : Covered(j)
  <2>. TAKE j \in Ids
  <2>1. CASE j \in expired
    <3>1. OnlyRetired(j, "archived")
      BY <1>6, <2>1 DEF ArchiveExpired, ArchivedRow, HasRoom, OnlyRetired
    <3>. QED BY <1>6, <2>1, <3>1 DEF Covered
  <2>2. CASE j \notin expired
    <3>1. atoms'[j] = atoms[j]  BY <1>6, <2>2 DEF ArchiveExpired
    <3>. QED BY <3>1, KeptRowCovered
  <2>. QED BY <2>1, <2>2
<1>7. ASSUME UNCHANGED atoms  PROVE \A j \in Ids : Covered(j)
  BY <1>7, KeptRowCovered
<1>. QED BY <1>1, <1>2, <1>3, <1>4, <1>5, <1>6, <1>7, MergeCovered DEF DirectStep, Link, Unlink

LEMMA CallStepCovered ==
  ASSUME TypeOK, NEW c \in Callers, CallStep(c)
  PROVE  \A j \in Ids : Covered(j)
<1>1. ASSUME NEW item \in calls[c].items, NEW i \in Ids, CreateItem(c, item, i)
      PROVE  \A j \in Ids : Covered(j)
  <2>. DEFINE known == <<item.ns, item.content>> \in calls[c].known
              row == CreatedRow(i, item, EmbedUnless(known, item.content))
  <2>1. atoms' = [atoms EXCEPT ![i] = row] /\ audited' = [audited EXCEPT ![i] = row.version]
    BY <1>1 DEF CreateItem
  <2>. HIDE DEF row
  <2>. QED BY <2>1, AuditedWriteCovered
<1>2. ASSUME NEW content \in Contents, GuardedUpdateCommit(c, content)
      PROVE  \A j \in Ids : Covered(j)
  <2>1. calls[c].id \in Ids  BY <1>2 DEF GuardedUpdateCommit, TypeOK, Calls, Idle
  <2>. QED BY <1>2, <2>1, UpdateCovered DEF GuardedUpdateCommit
<1>3. ASSUME MemoryRestoreCommit(c)  PROVE \A j \in Ids : Covered(j)
  <2>1. calls[c].id \in Ids  BY <1>3 DEF MemoryRestoreCommit, TypeOK, Calls, Idle
  <2>. QED BY <1>3, <2>1, SetStatusCovered DEF MemoryRestoreCommit
<1>4. ASSUME NEW batch \in SUBSET calls[c].rows, ReembedBatch(c, batch)
      PROVE  \A j \in Ids : Covered(j)
  <2>. TAKE j \in Ids
  <2>1. CASE ~Exists(j)
    <3>1. atoms'[j] = atoms[j]  BY <1>4, <2>1 DEF ReembedBatch
    <3>. QED BY <3>1, KeptRowCovered
  <2>2. CASE Exists(j)
    <3>1. atoms[j] \in Rows /\ atoms'[j] = Reembedded(atoms[j], j, batch)
      BY <1>4, <2>2, ExistingRow DEF ReembedBatch
    <3>2. atoms'[j].version = atoms[j].version  BY <3>1 DEF Reembedded, Rows
    <3>. QED BY <2>2, <3>2 DEF Covered, Written
  <2>. QED BY <2>1, <2>2
<1>5. ASSUME NEW i \in Ids, SupersedeCommit(c, i)  PROVE \A j \in Ids : Covered(j)
  <2>. DEFINE call == calls[c]
              old == call.old
              row == CreatedRow(i, call.item, EmbedUnless(call.known, call.item.content))
  <2>1. old \in Ids  BY <1>5 DEF SupersedeCommit, TypeOK, Calls, Idle
  <2>2. /\ Exists(old) /\ i # old
        /\ atoms' = [atoms EXCEPT ![i] = row,
                        ![old] = IF call.retire THEN RetiredRow(old) ELSE atoms[old]]
        /\ audited' = [audited EXCEPT ![i] = row.version]
    BY <1>5 DEF SupersedeCommit
  <2>. HIDE DEF row
  <2>3. Covered(i)
    <3>1. atoms'[i] = row /\ audited'[i] = row.version  BY <2>2 DEF TypeOK
    <3>. QED BY <3>1 DEF Covered
  <2>4. Covered(old)
    <3>1. CASE call.retire
      <4>1. OnlyRetired(old, "superseded")
        BY <2>1, <2>2, <3>1 DEF TypeOK, RetiredRow, OnlyRetired
      <4>2. Written(i) /\ audited'[i] = atoms'[i].version
        <5>1. atoms'[i] = row /\ audited'[i] = row.version  BY <2>2 DEF TypeOK
        <5>2. row \in Rows
          <6>1. call \in [op : {"supersede"}, tool : {"memory_replace", "atom_supersede"},
                          old : Ids, item : Items, known : BOOLEAN, retire : BOOLEAN]
            BY <1>5 DEF SupersedeCommit, TypeOK, Calls, Idle
          <6>2. call.item \in Items /\ call.item.content \in Contents /\ call.known \in BOOLEAN
            BY <6>1 DEF Items
          <6>. QED BY <1>5, <6>2, EmbedType, CreatedRowType DEF SupersedeCommit, row
        <5>3. ASSUME Exists(i)  PROVE row.version # atoms[i].version
          <6>1. atoms[i].version \in Nat  BY <5>3, ExistingRow DEF Rows
          <6>2. row.version = atoms[i].version + 1  BY <5>3, CreatedRowVersion DEF row
          <6>. QED BY <6>1, <6>2
        <5>. QED BY <5>1, <5>2, <5>3 DEF Written, Exists, Rows
      <4>3. Succeeds(i, old) \in relations'  BY <1>5 DEF SupersedeCommit
      <4>. QED BY <2>2, <4>1, <4>2, <4>3 DEF Covered, RetiredBeside
    <3>2. CASE ~call.retire
      <4>1. atoms'[old] = atoms[old]  BY <2>1, <2>2, <3>2 DEF TypeOK
      <4>. QED BY <2>1, <4>1, KeptRowCovered
    <3>. QED BY <3>1, <3>2
  <2>5. \A j \in Ids \ {i, old} : atoms'[j] = atoms[j]  BY <2>2 DEF TypeOK
  <2>. QED BY <2>3, <2>4, <2>5, KeptRowCovered
<1>6. ASSUME UNCHANGED atoms  PROVE \A j \in Ids : Covered(j)
  BY <1>6, KeptRowCovered
<1>. QED
  BY <1>1, <1>2, <1>3, <1>4, <1>5, <1>6
  DEF CallStep, CreateBegin, CreateItemFails, GuardedUpdateRead, MemoryRestoreGet, ReplaceGet,
      ReplaceLookup, SupersedeBegin, ReembedScan, ReembedBatchFails, ConsolidateScan,
      ConsolidateLink, CallFails

\* Whatever mix of operations writes a row, its new version has an event under
\* its own id, or it is only retired: merged into or superseded by a row that is
\* written, with its event, in the same step, or archived by the expiry sweep.
THEOREM WritesAreCovered == Spec => HistoryCoversWrites
<1>1. TypeOK /\ [Next]_vars => \A i \in Ids : Covered(i)
  <2>1. ASSUME UNCHANGED vars  PROVE \A i \in Ids : Covered(i)
    BY <2>1, KeptRowCovered DEF vars
  <2>. QED BY <2>1, DirectStepCovered, CallStepCovered DEF Next
<1>2. (\A i \in Ids : Covered(i)) =>
        \A i \in Ids : Written(i) =>
          \/ audited'[i] = atoms'[i].version
          \/ \E j \in Ids : RetiredBeside(i, j)
          \/ OnlyRetired(i, "archived") /\ \E expired \in SUBSET Ids :
                                              i \in expired /\ ArchiveExpired(expired)
  BY DEF Covered
<1>. QED BY <1>1, <1>2, TypeCorrect, PTL DEF Spec, HistoryCoversWrites

----------------------------------------------------------------------------
(* A merge keeps the neighbourhood. *)

\* An outsider is a neighbour of the target after the rewiring exactly when it
\* was one of the target or of a source, in the same direction and of the same type.
LEMMA RewiredNeighbours ==
  ASSUME relations \subseteq Relations, NEW t \in Ids, NEW sources \in SUBSET Ids,
         t \notin sources, NEW n \in Ids \ (sources \cup {t}), NEW type \in RelationTypes
  PROVE  /\ [from |-> t, to |-> n, type |-> type] \in Rewired(t, sources) <=>
              \E s \in sources \cup {t} : [from |-> s, to |-> n, type |-> type] \in relations
         /\ [from |-> n, to |-> t, type |-> type] \in Rewired(t, sources) <=>
              \E s \in sources \cup {t} : [from |-> n, to |-> s, type |-> type] \in relations
<1>. DEFINE edge(a, b) == [from |-> a, to |-> b, type |-> type]
<1>1. \A r \in relations : r = [from |-> r.from, to |-> r.to, type |-> r.type]
  BY DEF Relations
<1>2. ASSUME edge(t, n) \in Rewired(t, sources)
      PROVE  \E s \in sources \cup {t} : edge(s, n) \in relations
  <2>1. CASE edge(t, n) \in relations  BY <2>1
  <2>2. CASE edge(t, n) \notin relations
    <3>1. PICK r \in relations : edge(t, n) = Moved(r, t, sources)
      BY <1>2, <2>2 DEF Rewired
    <3>2. r.from \in sources \cup {t} /\ r.to = n /\ r.type = type  BY <3>1 DEF Moved
    <3>3. r = edge(r.from, n)  BY <1>1, <3>2
    <3>. QED BY <3>2, <3>3
  <2>. QED BY <2>1, <2>2
<1>3. ASSUME NEW s \in sources \cup {t}, edge(s, n) \in relations
      PROVE  edge(t, n) \in Rewired(t, sources)
  <2>1. CASE s = t
    <3>1. ~Touches(edge(t, n), sources)  BY DEF Touches
    <3>. QED BY <1>3, <2>1, <3>1 DEF Rewired
  <2>2. CASE s \in sources
    <3>1. Touches(edge(s, n), sources) /\ Moved(edge(s, n), t, sources) = edge(t, n)
      BY <2>2 DEF Touches, Moved
    <3>2. edge(t, n).from # edge(t, n).to  OBVIOUS
    <3>. QED BY <1>3, <3>1, <3>2 DEF Rewired
  <2>. QED BY <2>1, <2>2
<1>4. ASSUME edge(n, t) \in Rewired(t, sources)
      PROVE  \E s \in sources \cup {t} : edge(n, s) \in relations
  <2>1. CASE edge(n, t) \in relations  BY <2>1
  <2>2. CASE edge(n, t) \notin relations
    <3>1. PICK r \in relations : edge(n, t) = Moved(r, t, sources)
      BY <1>4, <2>2 DEF Rewired
    <3>2. r.to \in sources \cup {t} /\ r.from = n /\ r.type = type  BY <3>1 DEF Moved
    <3>3. r = edge(n, r.to)  BY <1>1, <3>2
    <3>. QED BY <3>2, <3>3
  <2>. QED BY <2>1, <2>2
<1>5. ASSUME NEW s \in sources \cup {t}, edge(n, s) \in relations
      PROVE  edge(n, t) \in Rewired(t, sources)
  <2>1. CASE s = t
    <3>1. ~Touches(edge(n, t), sources)  BY DEF Touches
    <3>. QED BY <1>5, <2>1, <3>1 DEF Rewired
  <2>2. CASE s \in sources
    <3>1. Touches(edge(n, s), sources) /\ Moved(edge(n, s), t, sources) = edge(n, t)
      BY <2>2 DEF Touches, Moved
    <3>2. edge(n, t).from # edge(n, t).to  OBVIOUS
    <3>. QED BY <1>5, <3>1, <3>2 DEF Rewired
  <2>. QED BY <2>1, <2>2
<1>. QED BY <1>2, <1>3, <1>4, <1>5

\* A merge keeps the neighbourhood: whatever sets of atoms are merged and
\* however they are related, outside the merged atoms exactly the neighbours
\* of a source or the target are neighbours of the target, with the same type
\* and direction, and no relation is left on a source.
THEOREM MergesKeepNeighbours == Spec => MergeKeepsNeighbours
<1>1. TypeOK =>
        \A t \in Ids, sources \in SUBSET Ids, content \in Contents :
          Merge(t, sources, content) =>
            /\ \A r \in relations' : ~Touches(r, sources)
            /\ \A n \in Ids \ (sources \cup {t}), type \in RelationTypes :
                 /\ [from |-> t, to |-> n, type |-> type] \in relations' <=>
                      \E s \in sources \cup {t} : [from |-> s, to |-> n, type |-> type] \in relations
                 /\ [from |-> n, to |-> t, type |-> type] \in relations' <=>
                      \E s \in sources \cup {t} : [from |-> n, to |-> s, type |-> type] \in relations
  <2>. SUFFICES ASSUME TypeOK, NEW t \in Ids, NEW sources \in SUBSET Ids,
                       NEW content \in Contents, Merge(t, sources, content)
                PROVE  /\ \A r \in relations' : ~Touches(r, sources)
                       /\ \A n \in Ids \ (sources \cup {t}), type \in RelationTypes :
                            /\ [from |-> t, to |-> n, type |-> type] \in relations' <=>
                                 \E s \in sources \cup {t} :
                                   [from |-> s, to |-> n, type |-> type] \in relations
                            /\ [from |-> n, to |-> t, type |-> type] \in relations' <=>
                                 \E s \in sources \cup {t} :
                                   [from |-> n, to |-> s, type |-> type] \in relations
    OBVIOUS
  <2>1. relations' = Rewired(t, sources) /\ t \notin sources  BY DEF Merge
  <2>2. relations \subseteq Relations  BY DEF TypeOK
  <2>. QED BY <2>1, <2>2, RewiredNeighbours, RewiredLeavesNone
<1>. QED BY <1>1, TypeCorrect, PTL DEF Spec, MergeKeepsNeighbours
===========================================================================
