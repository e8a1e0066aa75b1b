-------------------------- MODULE SmartMemoryProofs --------------------------
(***************************************************************************)
(* Theorems about SmartMemory, for any texts and atoms, any wording rules  *)
(* and searches, any number of calls at once, any budgets and any cache.   *)
(***************************************************************************)
EXTENDS SmartMemory, SequenceTheorems, TLAPS

----------------------------------------------------------------------------
(* The states of a call *)

Replacing == [op : {"replace"}, input : Inputs, old : Ids, seen : Rows]
Searching == [op : {"search"}, input : Inputs, exact : SUBSET Ids]
Asking == [op : {"ask"}, input : Inputs, exact : SUBSET Ids, candidates : Candidates]
Applying == [op : {"apply"}, input : Inputs, exact : SUBSET Ids, candidates : Candidates,
             plan : Seq(Planned), shown : Candidates, stored : SUBSET Ids]
Annotating == [op : {"annotate"}, input : Inputs, todo : SUBSET Ids, checked : SUBSET Ids]

LEMMA KindsOfCalls ==
  ASSUME NEW call \in Calls
  PROVE  /\ call.op \in {"idle", "replace", "search", "ask", "apply", "annotate"}
         /\ call = Idle <=> call.op = "idle"
         /\ call.op = "replace" => call \in Replacing
         /\ call.op = "search" => call \in Searching
         /\ call.op = "ask" => call \in Asking
         /\ call.op = "apply" => call \in Applying
         /\ call.op = "annotate" => call \in Annotating
         /\ call # Idle => call.input \in Inputs
<1> DEFINE AllKinds == {Idle} \cup Replacing \cup Searching \cup Asking \cup Applying \cup Annotating
<1>1. call \in AllKinds
  BY DEF Calls, Replacing, Searching, Asking, Applying, Annotating
<1>2. Idle.op = "idle"
  BY DEF Idle
<1>3. \A r \in Replacing : r.op = "replace" /\ r.input \in Inputs
  BY DEF Replacing
<1>4. \A r \in Searching : r.op = "search" /\ r.input \in Inputs
  BY DEF Searching
<1>5. \A r \in Asking : r.op = "ask" /\ r.input \in Inputs
  BY DEF Asking
<1>6. \A r \in Applying : r.op = "apply" /\ r.input \in Inputs
  BY DEF Applying
<1>7. \A r \in Annotating : r.op = "annotate" /\ r.input \in Inputs
  BY DEF Annotating
<1> QED
  BY <1>1, <1>2, <1>3, <1>4, <1>5, <1>6, <1>7

LEMMA KindsAreCalls ==
  /\ Idle \in Calls
  /\ Replacing \cup Searching \cup Asking \cup Applying \cup Annotating \subseteq Calls
BY DEF Calls, Replacing, Searching, Asking, Applying, Annotating

LEMMA Deployed ==
  ASSUME NEW d \in Deployments
  PROVE  /\ d.versions \in 1 .. MaxVersion
         /\ d.contents \subseteq Contents
         /\ \A in \in d.inputs : in[1] \in Contents /\ in[2] \subseteq ExplicitSlots
<1>1. d \in [model : BOOLEAN, inputs : SUBSET (Contents \X SUBSET ExplicitSlots),
             contents : SUBSET Contents, versions : 1 .. MaxVersion]
  BY DeploymentAssumption
<1>2. d.inputs \subseteq Contents \X SUBSET ExplicitSlots
  BY <1>1
<1> QED
  BY <1>1, <1>2

----------------------------------------------------------------------------
(* Slots *)

\* A set of tags has a first one.
LEMMA FirstOfTags ==
  ASSUME NEW tags \in SUBSET ExplicitSlots, tags # {}
  PROVE  FirstTag(tags) \in tags /\ \A t \in tags : <<FirstTag(tags), t>> \in TagOrder
<1>1. \E t \in tags : {t} \X tags \subseteq TagOrder
  BY TagAssumption
<1>2. FirstTag(tags) \in tags /\ {FirstTag(tags)} \X tags \subseteq TagOrder
  BY <1>1 DEF FirstTag
<1> QED
  BY <1>2

\* The first tag of two sets together is the first of one of them.
LEMMA FirstOfUnion ==
  ASSUME NEW A \in SUBSET ExplicitSlots, NEW B \in SUBSET ExplicitSlots, A # {}, B # {}
  PROVE  FirstTag(A \cup B) \in {FirstTag(A), FirstTag(B)}
<1> DEFINE f == FirstTag(A \cup B)
<1>1. f \in A \cup B /\ \A t \in A \cup B : <<f, t>> \in TagOrder
  BY FirstOfTags
<1>2. FirstTag(A) \in A /\ \A t \in A : <<FirstTag(A), t>> \in TagOrder
  BY FirstOfTags
<1>3. FirstTag(B) \in B /\ \A t \in B : <<FirstTag(B), t>> \in TagOrder
  BY FirstOfTags
<1>4. \A t1, t2 \in ExplicitSlots :
        <<t1, t2>> \in TagOrder /\ <<t2, t1>> \in TagOrder => t1 = t2
  BY TagAssumption
<1> HIDE DEF f
<1>5. CASE f \in A
  <2>1. <<f, FirstTag(A)>> \in TagOrder /\ <<FirstTag(A), f>> \in TagOrder
    BY <1>1, <1>2, <1>5
  <2>2. f = FirstTag(A)
    BY <1>2, <1>4, <1>5, <2>1
  <2> QED
    BY <2>2 DEF f
<1>6. CASE f \in B
  <2>1. <<f, FirstTag(B)>> \in TagOrder /\ <<FirstTag(B), f>> \in TagOrder
    BY <1>1, <1>3, <1>6
  <2>2. f = FirstTag(B)
    BY <1>3, <1>4, <1>6, <2>1
  <2> QED
    BY <2>2 DEF f
<1> QED
  BY <1>1, <1>5, <1>6

LEMMA SlotTypes ==
  /\ \A content \in Contents, tags \in SUBSET ExplicitSlots :
       /\ InferSlot(content, tags) \in Slots \cup {NoSlot}
       /\ SlotsOfCall(content, tags) \subseteq Slots \cup {NoSlot}
  /\ \A row \in Rows : SlotOfRow(row) \in Slots \cup {NoSlot}
<1>1. ASSUME NEW content \in Contents, NEW tags \in SUBSET ExplicitSlots
      PROVE  /\ InferSlot(content, tags) \in Slots \cup {NoSlot}
             /\ SlotsOfCall(content, tags) \subseteq Slots \cup {NoSlot}
  <2>1. SlotOfContent[content] \in InferredSlots \cup {NoSlot}
    BY TextAssumption
  <2>2. tags # {} => FirstTag(tags) \in ExplicitSlots
    BY FirstOfTags
  <2> QED
    BY <2>1, <2>2 DEF InferSlot, SlotsOfCall, Slots
<1>2. ASSUME NEW row \in Rows
      PROVE  SlotOfRow(row) \in Slots \cup {NoSlot}
  <2>1. row.slot \in Slots \cup {NoSlot} /\ row.content \in Contents /\ row.tags \in SUBSET ExplicitSlots
    BY DEF Rows
  <2> QED
    BY <1>1, <2>1 DEF SlotOfRow
<1> QED
  BY <1>1, <1>2

----------------------------------------------------------------------------
(* Rows *)

\* What a step may make of the atoms: whatever changes gets a higher version.
Grown(old, new) ==
  \A i \in Ids : old[i].status \in Statuses =>
    /\ new[i].status \in Statuses
    /\ new[i] = old[i] \/ new[i].version > old[i].version

LEMMA RowFields ==
  ASSUME NEW row \in Rows
  PROVE  /\ row.content \in Contents /\ row.status \in Statuses /\ row.version \in 1 .. MaxVersion
         /\ row.slot \in Slots \cup {NoSlot} /\ row.tags \in SUBSET ExplicitSlots
         /\ row.version \in Nat
  BY BoundAssumption DEF Rows

AtomsFit == atoms \in [Ids -> Rows \cup {Unused}] /\ deployment \in Deployments

LEMMA ExistingRows ==
  ASSUME AtomsFit, NEW i \in Ids
  PROVE  /\ Exists(i) => atoms[i] \in Rows
         /\ ~Exists(i) => atoms[i] = Unused
         /\ Active(i) => Exists(i)
         /\ HasRoom(i) => Exists(i) /\ atoms[i].version < MaxVersion
<1>1. atoms[i] \in Rows \cup {Unused}
  BY DEF AtomsFit
<1>2. Unused.status \notin Statuses
  BY DEF Unused, Statuses
<1>3. \A row \in Rows : row.status \in Statuses
  BY RowFields
<1>4. Active(i) => Exists(i)
  BY DEF Active, Exists, Statuses
<1>5. HasRoom(i) => Exists(i) /\ atoms[i].version < MaxVersion
  <2>1. deployment.versions \in 1 .. MaxVersion
    BY Deployed DEF AtomsFit
  <2>2. Exists(i) => atoms[i].version \in Nat
    BY <1>1, <1>2, RowFields DEF Exists
  <2> QED
    BY <2>1, <2>2, BoundAssumption DEF HasRoom
<1> QED
  BY <1>1, <1>2, <1>3, <1>4, <1>5 DEF Exists

\* The row that a merge leaves
Merges(i, content, tags, slot, row) ==
  /\ row \in Rows /\ row.content = content
  /\ slot # NoSlot => row.slot = slot
  /\ Exists(i) => /\ atoms[i] \in Rows /\ atoms[i].content = content
                  /\ row.status = atoms[i].status /\ row.version > atoms[i].version
                  /\ row.tags = atoms[i].tags \cup tags
                  /\ slot = NoSlot => row.slot = atoms[i].slot
  /\ ~Exists(i) => /\ Holders(content) = {}
                   /\ row.tags = tags /\ row.slot = slot

LEMMA MergedRowFits ==
  ASSUME AtomsFit, NEW i \in Ids, NEW content \in Contents, NEW tags \in SUBSET ExplicitSlots,
         NEW slot \in Slots \cup {NoSlot}, LandsOn(i, content)
  PROVE  Merges(i, content, tags, slot, MergedRow(i, content, tags, slot))
<1> DEFINE row == MergedRow(i, content, tags, slot)
<1>1. CASE Exists(i)
  <2>1. i \in Holders(content) /\ HasRoom(i)
    <3>1. atoms[i] # Unused
      BY <1>1 DEF Exists, Unused, Statuses
    <3> QED
      BY <3>1 DEF LandsOn
  <2>2. atoms[i] \in Rows /\ atoms[i].version < MaxVersion /\ atoms[i].content = content
    BY <2>1, ExistingRows DEF Holders
  <2>3. row = Bump([atoms[i] EXCEPT !.tags = @ \cup tags, !.slot = IF slot = NoSlot THEN @ ELSE slot])
    BY <1>1 DEF MergedRow
  <2>4. /\ atoms[i].content \in Contents /\ atoms[i].status \in Statuses
        /\ atoms[i].version \in Nat /\ atoms[i].tags \cup tags \in SUBSET ExplicitSlots
        /\ (IF slot = NoSlot THEN atoms[i].slot ELSE slot) \in Slots \cup {NoSlot}
        /\ atoms[i].version + 1 \in 1 .. MaxVersion
    BY <2>2, RowFields, BoundAssumption
  <2>5. /\ row.content = atoms[i].content /\ row.status = atoms[i].status
        /\ row.version = atoms[i].version + 1 /\ row.tags = atoms[i].tags \cup tags
        /\ row.slot = (IF slot = NoSlot THEN atoms[i].slot ELSE slot)
    BY <2>2, <2>3 DEF Bump, Rows
  <2>6. row \in Rows
    BY <2>2, <2>3, <2>4 DEF Bump, Rows
  <2> QED
    BY <1>1, <2>2, <2>4, <2>5, <2>6 DEF Merges
<1>2. CASE ~Exists(i)
  <2>1. row = [content |-> content, status |-> "active", version |-> 1, slot |-> slot, tags |-> tags]
    BY <1>2 DEF MergedRow
  <2>2. Holders(content) = {}
    BY <1>2 DEF LandsOn, HasRoom
  <2>3. row \in Rows
    BY <2>1, BoundAssumption DEF Rows, Statuses
  <2> QED
    BY <1>2, <2>1, <2>2, <2>3 DEF Merges
<1> QED
  BY <1>1, <1>2

\* One row is written.
LEMMA OneWrite ==
  ASSUME AtomsFit, NEW i \in Ids, NEW row \in Rows,
         Exists(i) => row.version > atoms[i].version,
         atoms' = [atoms EXCEPT ![i] = row]
  PROVE  /\ atoms' \in [Ids -> Rows \cup {Unused}] /\ Grown(atoms, atoms')
         /\ atoms'[i] = row /\ \A j \in Ids \ {i} : atoms'[j] = atoms[j]
<1>1. /\ atoms' \in [Ids -> Rows \cup {Unused}]
      /\ atoms'[i] = row /\ \A j \in Ids \ {i} : atoms'[j] = atoms[j]
  BY DEF AtomsFit
<1> QED
  BY <1>1, RowFields DEF Grown, Exists

\* The next version of a row
Edit(row, content, status, slot) ==
  Bump([row EXCEPT !.content = content, !.status = status, !.slot = slot])

LEMMA EditFits ==
  ASSUME NEW row \in Rows, row.version < MaxVersion,
         NEW content \in Contents, NEW status \in Statuses, NEW slot \in Slots \cup {NoSlot}
  PROVE  /\ Edit(row, content, status, slot) \in Rows
         /\ Edit(row, content, status, slot).version > row.version
         /\ Edit(row, content, status, slot).content = content
         /\ Edit(row, content, status, slot).status = status
         /\ Edit(row, content, status, slot).slot = slot
         /\ Edit(row, content, status, slot).tags = row.tags
<1> DEFINE new == Edit(row, content, status, slot)
<1>1. row.version \in Nat /\ row.version + 1 \in 1 .. MaxVersion
  BY RowFields, BoundAssumption
<1>2. new \in Rows
  BY <1>1 DEF Edit, Bump, Rows
<1>3. /\ new.version = row.version + 1 /\ new.content = content /\ new.status = status
      /\ new.slot = slot /\ new.tags = row.tags
  BY DEF Edit, Bump, Rows
<1> QED
  BY <1>1, <1>2, <1>3

\* What a step makes of one atom that is there, all others staying as they are.
Rewrites(i, content, status, slot) ==
  /\ atoms' \in [Ids -> Rows \cup {Unused}]
  /\ atoms[i] \in Rows /\ atoms'[i] \in Rows /\ atoms'[i].version > atoms[i].version
  /\ atoms'[i].content = content /\ atoms'[i].status = status /\ atoms'[i].slot = slot
  /\ atoms'[i].tags = atoms[i].tags
  /\ \A j \in Ids \ {i} : atoms'[j] = atoms[j]

LEMMA RewritesFit ==
  ASSUME AtomsFit, NEW i \in Ids, HasRoom(i),
         NEW content \in Contents, NEW status \in Statuses, NEW slot \in Slots \cup {NoSlot},
         atoms' = [atoms EXCEPT ![i] = Edit(atoms[i], content, status, slot)]
  PROVE  Rewrites(i, content, status, slot) /\ Grown(atoms, atoms')
<1>1. PICK row : row = Edit(atoms[i], content, status, slot)
  OBVIOUS
<1>2. /\ row \in Rows /\ row.version > atoms[i].version
      /\ row.content = content /\ row.status = status /\ row.slot = slot
      /\ row.tags = atoms[i].tags
  BY <1>1, EditFits, ExistingRows
<1>3. /\ atoms' \in [Ids -> Rows \cup {Unused}] /\ Grown(atoms, atoms')
      /\ atoms'[i] = row /\ \A j \in Ids \ {i} : atoms'[j] = atoms[j]
  BY <1>1, <1>2, OneWrite
<1> QED
  BY <1>2, <1>3, ExistingRows DEF Rewrites

\* A merge, all other atoms but old staying as they are.
Stores(i, content, tags, slot, old) ==
  /\ atoms' \in [Ids -> Rows \cup {Unused}]
  /\ atoms'[i] \in Rows /\ atoms'[i].content = content
  /\ slot # NoSlot => atoms'[i].slot = slot
  /\ Exists(i) => /\ atoms[i] \in Rows /\ atoms[i].content = content
                  /\ atoms'[i].status = atoms[i].status
                  /\ atoms'[i].tags = atoms[i].tags \cup tags
                  /\ slot = NoSlot => atoms'[i].slot = atoms[i].slot
  /\ ~Exists(i) => /\ Holders(content) = {}
                   /\ atoms'[i].tags = tags /\ atoms'[i].slot = slot
  /\ \A j \in Ids \ {i} : j \notin old => atoms'[j] = atoms[j]
  /\ \A j \in old : /\ j # i /\ atoms[j] \in Rows /\ atoms'[j] \in Rows
                    /\ atoms'[j].status = "superseded" /\ atoms'[j].content = atoms[j].content

LEMMA StoresFit ==
  ASSUME AtomsFit, NEW i \in Ids, NEW content \in Contents, NEW tags \in SUBSET ExplicitSlots,
         NEW slot \in Slots \cup {NoSlot}, LandsOn(i, content),
         atoms' = [atoms EXCEPT ![i] = MergedRow(i, content, tags, slot)]
  PROVE  Stores(i, content, tags, slot, {}) /\ Grown(atoms, atoms')
<1>1. PICK row : row = MergedRow(i, content, tags, slot)
  OBVIOUS
<1>2. Merges(i, content, tags, slot, row)
  BY <1>1, MergedRowFits
<1>3. /\ atoms' \in [Ids -> Rows \cup {Unused}] /\ Grown(atoms, atoms')
      /\ atoms'[i] = row /\ \A j \in Ids \ {i} : atoms'[j] = atoms[j]
  BY <1>1, <1>2, OneWrite DEF Merges
<1> QED
  BY <1>2, <1>3 DEF Stores, Merges

LEMMA ReplacesFit ==
  ASSUME AtomsFit, NEW i \in Ids, NEW content \in Contents, NEW tags \in SUBSET ExplicitSlots,
         NEW slot \in Slots \cup {NoSlot}, NEW old \in Ids, MayReplace(i, content, old),
         atoms' = Replace(i, MergedRow(i, content, tags, slot), old)
  PROVE  Stores(i, content, tags, slot, {old}) /\ Grown(atoms, atoms')
<1>1. PICK row : row = MergedRow(i, content, tags, slot)
  OBVIOUS
<1>2. Merges(i, content, tags, slot, row)
  BY <1>1, MergedRowFits DEF MayReplace
<1>3. HasRoom(old) /\ i # old /\ atoms[old] \in Rows
  BY ExistingRows DEF MayReplace
<1>4. PICK gone : gone = Bump([atoms[old] EXCEPT !.status = "superseded"])
  OBVIOUS
<1>5. /\ atoms[old].content \in Contents /\ atoms[old].slot \in Slots \cup {NoSlot}
      /\ "superseded" \in Statuses
  BY <1>3, RowFields DEF Statuses
<1>6. gone = Edit(atoms[old], atoms[old].content, "superseded", atoms[old].slot)
  BY <1>3, <1>4 DEF Rows, Edit
<1>7. /\ gone \in Rows /\ gone.version > atoms[old].version
      /\ gone.content = atoms[old].content /\ gone.status = "superseded"
  BY <1>3, <1>5, <1>6, EditFits, ExistingRows DEF MayReplace
<1>8. atoms' = [atoms EXCEPT ![i] = row, ![old] = gone]
  BY <1>1, <1>3, <1>4 DEF Replace, AtomsFit
<1>9. /\ atoms' \in [Ids -> Rows \cup {Unused}] /\ atoms'[i] = row /\ atoms'[old] = gone
      /\ \A j \in Ids \ {i} : j # old => atoms'[j] = atoms[j]
  BY <1>2, <1>3, <1>7, <1>8 DEF AtomsFit, Merges
<1>10. Grown(atoms, atoms')
  BY <1>2, <1>7, <1>9, RowFields DEF Grown, Exists, Merges
<1> QED
  BY <1>2, <1>3, <1>7, <1>9, <1>10 DEF Stores, Merges

----------------------------------------------------------------------------
(* The cache and the plans *)

Entries == [key : Keys, plan : Plans, shown : Candidates]

LEMMA Overwritten ==
  ASSUME NEW S, NEW q \in Seq(S), NEW e \in S, NEW D
  PROVE  LET new == [n \in DOMAIN q |-> IF n \in D THEN e ELSE q[n]]
         IN  new \in Seq(S) /\ Len(new) = Len(q) /\ DOMAIN new = DOMAIN q
<1> DEFINE new == [n \in DOMAIN q |-> IF n \in D THEN e ELSE q[n]]
<1>1. Len(q) \in Nat /\ DOMAIN q = 1 .. Len(q)
  BY LenProperties
<1>2. \A n \in 1 .. Len(q) : (IF n \in D THEN e ELSE q[n]) \in S
  BY ElementOfSeq
<1>3. new \in [1 .. Len(q) -> S] /\ DOMAIN new = 1 .. Len(q)
  BY <1>1, <1>2
<1> HIDE DEF new
<1>4. new \in Seq(S)
  BY <1>1, <1>3, SeqDef
<1>5. Len(new) = Len(q)
  BY <1>1, <1>3, <1>4, LenProperties
<1> QED
  BY <1>1, <1>3, <1>4, <1>5 DEF new

\* The entries of a cache
EntriesIn(q) == {q[n] : n \in DOMAIN q}

LEMMA CacheOfItsEntries ==
  ASSUME cache \in Seq(Entries)
  PROVE  /\ cache \in Seq(EntriesIn(cache)) /\ EntriesIn(cache) \subseteq Entries
         /\ Len(cache) \in Nat /\ DOMAIN cache = 1 .. Len(cache)
         /\ \A n \in 1 .. Len(cache) : cache[n] \in EntriesIn(cache)
<1>1. /\ Len(cache) \in Nat /\ DOMAIN cache = 1 .. Len(cache)
      /\ cache \in [1 .. Len(cache) -> Entries]
  BY LenProperties
<1> HIDE DEF Entries
<1>2. cache \in [1 .. Len(cache) -> EntriesIn(cache)] /\ EntriesIn(cache) \subseteq Entries
  BY <1>1 DEF EntriesIn
<1> QED
  BY <1>1, <1>2, SeqDef

\* Setting an entry keeps the cache within its size and adds nothing else.
LEMMA RememberedFits ==
  ASSUME cache \in Seq(Entries), Len(cache) <= CacheSize, NEW entry \in Entries
  PROVE  /\ Remembered(entry) \in Seq(EntriesIn(cache) \cup {entry})
         /\ Len(Remembered(entry)) <= CacheSize
<1> DEFINE R == EntriesIn(cache) \cup {entry}
           known == {n \in DOMAIN cache : cache[n].key = entry.key}
           all == IF known = {} THEN Append(cache, entry)
                  ELSE [n \in DOMAIN cache |-> IF n \in known THEN entry ELSE cache[n]]
<1>1. /\ Len(cache) \in Nat /\ CacheSize \in Nat /\ entry \in R /\ cache \in Seq(R)
  BY CacheOfItsEntries, BudgetAssumption, SeqMonotonic
<1>2. Remembered(entry) = IF Len(all) > CacheSize THEN SubSeq(all, Len(all) - CacheSize + 1, Len(all)) ELSE all
  BY DEF Remembered
<1> HIDE DEF known, R
<1>3. all \in Seq(R) /\ Len(all) \in Nat /\ Len(all) <= CacheSize + 1
  <2>1. CASE known = {}
    <3>1. all = Append(cache, entry)
      BY <2>1
    <3> HIDE DEF all
    <3>2. all \in Seq(R) /\ Len(all) = Len(cache) + 1
      BY <1>1, <3>1, AppendProperties
    <3> QED
      BY <1>1, <3>2
  <2>2. CASE known # {}
    <3>1. all = [n \in DOMAIN cache |-> IF n \in known THEN entry ELSE cache[n]]
      BY <2>2
    <3> HIDE DEF all
    <3>2. all \in Seq(R) /\ Len(all) = Len(cache)
      BY <1>1, <3>1, Overwritten
    <3> QED
      BY <1>1, <3>2
  <2> QED
    BY <2>1, <2>2
<1> HIDE DEF all
<1>4. CASE Len(all) > CacheSize
  <2>1. Len(all) - CacheSize + 1 = 2 /\ Len(all) = CacheSize + 1
    BY <1>1, <1>3, <1>4
  <2>2. Remembered(entry) = SubSeq(all, 2, Len(all))
    BY <1>2, <1>4, <2>1
  <2>3. \A i \in 2 .. Len(all) : all[i] \in R
    BY <1>3, ElementOfSeq
  <2>4. /\ Remembered(entry) \in Seq(R)
        /\ Len(Remembered(entry)) = IF 2 <= Len(all) THEN Len(all) - 2 + 1 ELSE 0
    BY <1>3, <2>2, <2>3, SubSeqProperties
  <2> QED
    BY <1>1, <2>1, <2>4 DEF R
<1>5. CASE ~(Len(all) > CacheSize)
  <2>1. Remembered(entry) = all /\ Len(all) <= CacheSize
    BY <1>1, <1>2, <1>3, <1>5
  <2> QED
    BY <1>3, <2>1 DEF R
<1> QED
  BY <1>4, <1>5

\* So does the expiry of an entry.
LEMMA ExpiredFits ==
  ASSUME cache \in Seq(Entries), Len(cache) <= CacheSize, NEW n \in DOMAIN cache, CacheExpire(n)
  PROVE  cache' \in Seq(EntriesIn(cache)) /\ Len(cache') <= CacheSize
<1>1. PICK R : R = EntriesIn(cache)
  OBVIOUS
<1>2. Len(cache) \in Nat /\ n \in 1 .. Len(cache) /\ cache \in Seq(R)
  BY <1>1, CacheOfItsEntries
<1>3. PICK first, last : first = n - 1 /\ last = n + 1
  OBVIOUS
<1>4. PICK before, after : before = SubSeq(cache, 1, first) /\ after = SubSeq(cache, last, Len(cache))
  OBVIOUS
<1> HIDE DEF Entries
<1>5. before \in Seq(R) /\ Len(before) = n - 1
  <2>1. first \in Int /\ \A i \in 1 .. first : cache[i] \in R
    BY <1>2, <1>3, ElementOfSeq
  <2>2. before \in Seq(R) /\ Len(before) = (IF 1 <= first THEN first - 1 + 1 ELSE 0)
    BY <1>4, <2>1, SubSeqProperties
  <2> QED
    BY <1>2, <1>3, <2>2
<1>6. after \in Seq(R) /\ Len(after) = Len(cache) - n
  <2>1. last \in Int /\ Len(cache) \in Int /\ \A i \in last .. Len(cache) : cache[i] \in R
    BY <1>2, <1>3, ElementOfSeq
  <2>2. /\ after \in Seq(R)
        /\ Len(after) = (IF last <= Len(cache) THEN Len(cache) - last + 1 ELSE 0)
    BY <1>4, <2>1, SubSeqProperties
  <2> QED
    BY <1>2, <1>3, <2>2
<1>7. before \o after \in Seq(R) /\ Len(before \o after) = Len(before) + Len(after)
  BY <1>5, <1>6, ConcatProperties
<1>8. cache' = before \o after
  BY <1>3, <1>4 DEF CacheExpire
<1> QED
  BY <1>1, <1>2, <1>5, <1>6, <1>7, <1>8, BudgetAssumption

LEMMA PlansAreSequences == Plans \subseteq Seq(Planned)
<1> SUFFICES ASSUME NEW plan \in Plans
             PROVE  plan \in Seq(Planned)
  OBVIOUS
<1>1. PICK n \in 1 .. MaxPlanned : plan \in [1 .. n -> Planned]
  BY DEF Plans
<1>2. n \in Nat
  BY BoundAssumption
<1> HIDE DEF Planned
<1> QED
  BY <1>1, <1>2, SeqDef

LEMMA PiecesArePlanned ==
  ASSUME NEW text \in Contents
  PROVE  CreatePieces(text) \in Seq(Planned)
<1>1. PiecesOf[text] \in Seq(Contents)
  BY TextAssumption
<1>2. Len(PiecesOf[text]) \in Nat /\ DOMAIN PiecesOf[text] = 1 .. Len(PiecesOf[text])
  BY <1>1, LenProperties
<1>3. \A n \in 1 .. Len(PiecesOf[text]) : [action |-> "create", content |-> PiecesOf[text][n]] \in Planned
  BY <1>1, ElementOfSeq DEF Planned
<1>4. CreatePieces(text) = [n \in 1 .. Len(PiecesOf[text]) |-> [action |-> "create", content |-> PiecesOf[text][n]]]
  BY <1>2 DEF CreatePieces
<1> HIDE DEF Planned
<1>5. CreatePieces(text) \in [1 .. Len(PiecesOf[text]) -> Planned]
  BY <1>3, <1>4
<1> QED
  BY <1>2, <1>5, SeqDef

----------------------------------------------------------------------------
(* Types *)

\* What is left of a decision is not empty.
PlansRemain == \A c \in Callers : calls[c].op = "apply" => calls[c].plan # <<>>

TypeInv == TypeOK /\ PlansRemain

\* One call goes from old to new, with more atoms in hand.
Moved(old, new, more) ==
  /\ new \in Calls
  /\ new.op = "apply" => new.plan # <<>>
  /\ new.op = "annotate" => old.op = "annotate" \/ new.input.slot # NoSlot
  /\ \/ new = Idle
     \/ new # Idle /\ new.op # "replace" /\ new.input = old.input /\ InHand(new) \subseteq InHand(old) \cup more

Steps(c, more) ==
  /\ calls' \in [Callers -> Calls]
  /\ \A d \in Callers \ {c} : calls'[d] = calls[d]
  /\ calls[c] # Idle
  /\ Moved(calls[c], calls'[c], more)

LEMMA Advances ==
  ASSUME calls \in [Callers -> Calls], NEW c \in Callers, calls[c] # Idle,
         NEW new, NEW more, Moved(calls[c], new, more), Advance(c, new)
  PROVE  Steps(c, more) /\ calls'[c] = new
<1>1. calls' = [calls EXCEPT ![c] = new] /\ new \in Calls
  BY DEF Advance, Moved
<1>2. calls' \in [Callers -> Calls] /\ calls'[c] = new /\ \A d \in Callers \ {c} : calls'[d] = calls[d]
  BY <1>1
<1> QED
  BY <1>2 DEF Steps

LEMMA Returns ==
  ASSUME calls \in [Callers -> Calls], NEW c \in Callers, calls[c] # Idle, Return(c)
  PROVE  Steps(c, {}) /\ calls'[c] = Idle
<1>1. Moved(calls[c], Idle, {})
  BY KindsAreCalls DEF Moved, Idle
<1> QED
  BY <1>1, Advances DEF Return

LEMMA AfterPlanFits ==
  ASSUME NEW call \in Applying
  PROVE  /\ AfterPlan(call) \in Calls
         /\ AfterPlan(call).op \in {"idle", "apply", "annotate"}
         /\ AfterPlan(call).op = "apply" => AfterPlan(call) = call /\ call.plan # <<>>
         /\ AfterPlan(call).op = "annotate" => AfterPlan(call).input.slot # NoSlot
         /\ \/ AfterPlan(call) = Idle
            \/ /\ AfterPlan(call) # Idle /\ AfterPlan(call).op # "replace"
               /\ AfterPlan(call).input = call.input
               /\ InHand(AfterPlan(call)) \subseteq call.exact \cup call.stored
<1> DEFINE todo == IF call.exact # {} THEN call.exact ELSE call.stored
           rest == [op |-> "annotate", input |-> call.input, todo |-> todo, checked |-> {}]
<1>1. /\ call.op = "apply" /\ call.input \in Inputs
      /\ call.exact \in SUBSET Ids /\ call.stored \in SUBSET Ids
  BY DEF Applying
<1>2. /\ AfterPlan(call) \in {call, Idle, rest} /\ (AfterPlan(call) = call => call.plan # <<>>)
      /\ AfterPlan(call) = rest => call.input.slot # NoSlot
  <2>1. rest # call
    BY <1>1
  <2>2. Idle # call /\ rest # Idle
    BY <1>1 DEF Idle
  <2> QED
    BY <2>1, <2>2 DEF AfterPlan
<1>3. CASE AfterPlan(call) = call
  <2>1. call \in Calls /\ InHand(call) = call.exact \cup call.stored /\ call # Idle
    BY <1>1, KindsAreCalls DEF InHand, Idle
  <2> QED
    BY <1>1, <1>2, <1>3, <2>1
<1>4. CASE AfterPlan(call) = Idle
  BY <1>4, KindsAreCalls DEF Idle
<1>5. CASE AfterPlan(call) = rest
  <2>1. rest \in Annotating /\ rest.op = "annotate" /\ rest.input = call.input
    BY <1>1 DEF Annotating
  <2>2. InHand(rest) = todo
    BY <2>1 DEF InHand
  <2>3. rest \in Calls /\ rest # Idle /\ todo \subseteq call.exact \cup call.stored
    BY <2>1, KindsAreCalls DEF Idle
  <2> HIDE DEF rest, todo
  <2> QED
    BY <1>2, <1>5, <2>1, <2>2, <2>3
<1> QED
  BY <1>2, <1>3, <1>4, <1>5

\* A decision is taken, for a call that searched or asked.
LEMMA ApplyFits ==
  ASSUME NEW call \in Searching \cup Asking, NEW candidates \in Candidates,
         NEW plan \in Seq(Planned), NEW shown \in Candidates
  PROVE  /\ Moved(call, Apply(call, candidates, plan, shown), {})
         /\ Apply(call, candidates, plan, shown).op \in {"idle", "apply", "annotate"}
         /\ Apply(call, candidates, plan, shown).op = "apply" =>
              /\ Apply(call, candidates, plan, shown).candidates = candidates
              /\ Apply(call, candidates, plan, shown).shown = shown
<1> DEFINE full == [op |-> "apply", input |-> call.input, exact |-> call.exact,
                    candidates |-> candidates, plan |-> plan, shown |-> shown, stored |-> {}]
<1>1. call.input \in Inputs /\ call.exact \in SUBSET Ids /\ InHand(call) = call.exact
  BY DEF Searching, Asking, InHand
<1>2. full \in Applying
  BY <1>1 DEF Applying
<1>3. /\ full.input = call.input /\ full.exact = call.exact /\ full.stored = {}
      /\ full.candidates = candidates /\ full.shown = shown
  OBVIOUS
<1>4. Apply(call, candidates, plan, shown) = AfterPlan(full)
  BY DEF Apply
<1> HIDE DEF full
<1> QED
  BY <1>1, <1>2, <1>3, <1>4, AfterPlanFits DEF Moved

LEMMA CandidatesFit ==
  ASSUME AtomsFit, NEW text
  PROVE  /\ ReadOf(Found(text)) \in Candidates
         /\ \A p \in ReadOf(Found(text)) : p[1] \in Ids /\ Exists(p[1]) /\ p[2] = atoms[p[1]]
<1>1. \A i \in Found(text) : i \in Ids /\ Exists(i) /\ atoms[i] \in Rows
  BY ExistingRows DEF Found
<1> HIDE DEF Found
<1>2. \A p \in ReadOf(Found(text)) : /\ p \in Ids \X Rows
                                     /\ p[1] \in Ids /\ Exists(p[1]) /\ p[2] = atoms[p[1]]
  BY <1>1 DEF ReadOf
<1> QED
  BY <1>2 DEF Candidates

----------------------------------------------------------------------------
(* How the actions move a call *)

LEMMA TypesOf ==
  ASSUME TypeInv
  PROVE  /\ AtomsFit /\ calls \in [Callers -> Calls]
         /\ cache \in Seq(Entries) /\ Len(cache) <= CacheSize
         /\ \A c \in Callers : calls[c] \in Calls
  BY DEF TypeInv, TypeOK, AtomsFit, Entries

\* A call that keeps no reading of an atom for later
NoReading(call) == call.op \in {"idle", "apply", "annotate"}

LEMMA RuleSteps ==
  ASSUME TypeInv, NEW c \in Callers, DecideByRule(c)
  PROVE  /\ Steps(c, {}) /\ NoReading(calls'[c])
         /\ calls'[c].op = "apply" => calls'[c].candidates = calls'[c].shown
<1>1. PICK candidates : candidates = ReadOf(Found(calls[c].input.text))
  OBVIOUS
<1>2. candidates \in Candidates
  BY <1>1, CandidatesFit, TypesOf
<1>3. calls[c].op = "search" /\ calls[c] \in Searching /\ calls[c] # Idle
  BY TypesOf, KindsOfCalls DEF DecideByRule, Idle
<1>4. calls[c].input.text \in Contents
  BY <1>3 DEF Searching, Inputs
<1>5. \E plan \in Seq(Planned) : Advance(c, Apply(calls[c], candidates, plan, candidates))
  <2>1. <<>> \in Seq(Planned) /\ CreatePieces(calls[c].input.text) \in Seq(Planned)
    BY <1>4, EmptySeq, PiecesArePlanned
  <2> QED
    BY <1>1, <2>1 DEF DecideByRule
<1>6. PICK plan \in Seq(Planned) : Advance(c, Apply(calls[c], candidates, plan, candidates))
  BY <1>5
<1>7. PICK new : new = Apply(calls[c], candidates, plan, candidates)
  OBVIOUS
<1>8. /\ Moved(calls[c], new, {}) /\ NoReading(new)
      /\ new.op = "apply" => new.candidates = candidates /\ new.shown = candidates
  BY <1>2, <1>3, <1>7, ApplyFits DEF NoReading
<1>9. Steps(c, {}) /\ calls'[c] = new
  BY <1>3, <1>6, <1>7, <1>8, Advances, TypesOf
<1> QED
  BY <1>8, <1>9

LEMMA CacheSteps ==
  ASSUME TypeInv, NEW c \in Callers, NEW n \in DOMAIN cache, DecideFromCache(c, n)
  PROVE  /\ Steps(c, {}) /\ NoReading(calls'[c])
         /\ calls'[c].op = "apply" =>
              /\ calls'[c].candidates = ReadOf(Found(calls[c].input.text))
              /\ calls'[c].shown = cache[n].shown
<1>1. PICK candidates : candidates = ReadOf(Found(calls[c].input.text))
  OBVIOUS
<1>2. candidates \in Candidates
  BY <1>1, CandidatesFit, TypesOf
<1>3. calls[c].op = "search" /\ calls[c] \in Searching /\ calls[c] # Idle
  BY TypesOf, KindsOfCalls DEF DecideFromCache, NeedsModel, Idle
<1>4. cache[n].plan \in Seq(Planned) /\ cache[n].shown \in Candidates
  <2>1. cache[n] \in Entries
    BY TypesOf, LenProperties, ElementOfSeq
  <2> QED
    BY <2>1, PlansAreSequences DEF Entries
<1>5. PICK new : new = Apply(calls[c], candidates, cache[n].plan, cache[n].shown)
  OBVIOUS
<1>6. /\ Moved(calls[c], new, {}) /\ NoReading(new)
      /\ new.op = "apply" => new.candidates = candidates /\ new.shown = cache[n].shown
  BY <1>2, <1>3, <1>4, <1>5, ApplyFits DEF NoReading
<1>7. Steps(c, {}) /\ calls'[c] = new
  BY <1>1, <1>3, <1>5, <1>6, Advances, TypesOf DEF DecideFromCache
<1> QED
  BY <1>1, <1>6, <1>7

LEMMA AskSteps ==
  ASSUME TypeInv, NEW c \in Callers, Ask(c)
  PROVE  /\ Steps(c, {}) /\ calls'[c].op = "ask"
         /\ calls'[c].candidates = ReadOf(Found(calls[c].input.text))
<1>1. PICK candidates : candidates = ReadOf(Found(calls[c].input.text))
  OBVIOUS
<1>2. candidates \in Candidates
  BY <1>1, CandidatesFit, TypesOf
<1>3. calls[c].op = "search" /\ calls[c] \in Searching /\ calls[c] # Idle
  BY TypesOf, KindsOfCalls DEF Ask, NeedsModel, Idle
<1>4. PICK new : new = [op |-> "ask", input |-> calls[c].input, exact |-> calls[c].exact,
                        candidates |-> candidates]
  OBVIOUS
<1>5. /\ new \in Asking /\ new.op = "ask" /\ new.input = calls[c].input
      /\ new.exact = calls[c].exact /\ new.candidates = candidates
  BY <1>2, <1>3, <1>4 DEF Asking, Searching
<1>6. Moved(calls[c], new, {})
  <2>1. InHand(new) = new.exact /\ InHand(calls[c]) = calls[c].exact
    BY <1>3, <1>5 DEF InHand
  <2>2. new \in Calls /\ new # Idle
    BY <1>5, KindsAreCalls DEF Idle
  <2> QED
    BY <1>5, <2>1, <2>2 DEF Moved
<1>7. Steps(c, {}) /\ calls'[c] = new
  BY <1>1, <1>3, <1>4, <1>6, Advances, TypesOf DEF Ask
<1> QED
  BY <1>1, <1>5, <1>7

LEMMA AnswerSteps ==
  ASSUME TypeInv, NEW c \in Callers, NEW plan \in Plans, ModelAnswers(c, plan)
  PROVE  /\ Steps(c, {}) /\ NoReading(calls'[c])
         /\ calls'[c].op = "apply" => calls'[c].candidates = calls'[c].shown
<1>1. calls[c].op = "ask" /\ calls[c] \in Asking /\ calls[c] # Idle
  BY TypesOf, KindsOfCalls DEF ModelAnswers, Idle
<1>2. calls[c].candidates \in Candidates /\ plan \in Seq(Planned)
  BY <1>1, PlansAreSequences DEF Asking
<1>3. PICK new : new = Apply(calls[c], calls[c].candidates, plan, calls[c].candidates)
  OBVIOUS
<1>4. /\ Moved(calls[c], new, {}) /\ NoReading(new)
      /\ new.op = "apply" => new.candidates = new.shown
  BY <1>1, <1>2, <1>3, ApplyFits DEF NoReading
<1>5. Steps(c, {}) /\ calls'[c] = new
  BY <1>1, <1>3, <1>4, Advances, TypesOf DEF ModelAnswers
<1> QED
  BY <1>4, <1>5

LEMMA FailSteps ==
  ASSUME TypeInv, NEW c \in Callers, ModelFails(c)
  PROVE  /\ Steps(c, {}) /\ NoReading(calls'[c])
         /\ calls'[c].op = "apply" => calls'[c].candidates = calls'[c].shown
<1>1. calls[c].op = "ask" /\ calls[c] \in Asking /\ calls[c] # Idle
  BY TypesOf, KindsOfCalls DEF ModelFails, Idle
<1>2. calls[c].candidates \in Candidates /\ calls[c].input.text \in Contents
  BY <1>1 DEF Asking, Inputs
<1>3. PICK new : new = Apply(calls[c], calls[c].candidates, CreatePieces(calls[c].input.text),
                             calls[c].candidates)
  OBVIOUS
<1>4. /\ Moved(calls[c], new, {}) /\ NoReading(new)
      /\ new.op = "apply" => new.candidates = new.shown
  BY <1>1, <1>2, <1>3, PiecesArePlanned, ApplyFits DEF NoReading
<1>5. Steps(c, {}) /\ calls'[c] = new
  BY <1>1, <1>3, <1>4, Advances, TypesOf DEF ModelFails
<1> QED
  BY <1>4, <1>5

\* The next atom of a decision
LEMMA NextPlanned ==
  ASSUME TypeInv, NEW c \in Callers, calls[c].op = "apply"
  PROVE  /\ calls[c] \in Applying /\ calls[c] # Idle
         /\ calls[c].plan \in Seq(Planned) /\ calls[c].plan # <<>>
         /\ Next1(c) \in Planned /\ Tail(calls[c].plan) \in Seq(Planned)
         /\ Next1(c).action # "skip" => Next1(c).content \in Contents
         /\ Next1(c).action = "supersede" => Next1(c).target \in Ids
<1>1. calls[c] \in Applying /\ calls[c] # Idle
  BY TypesOf, KindsOfCalls DEF Idle
<1>2. calls[c].plan \in Seq(Planned) /\ calls[c].plan # <<>>
  BY <1>1 DEF TypeInv, PlansRemain, Applying
<1>3. \A p \in Planned : /\ p.action # "skip" => p.content \in Contents
                         /\ p.action = "supersede" => p.target \in Ids
  BY DEF Planned
<1> HIDE DEF Planned
<1>4. Head(calls[c].plan) \in Planned /\ Tail(calls[c].plan) \in Seq(Planned)
  BY <1>2, HeadTailProperties
<1> QED
  BY <1>1, <1>2, <1>3, <1>4 DEF Next1

LEMMA AppliedSteps ==
  ASSUME TypeInv, NEW c \in Callers, calls[c].op = "apply", NEW stored \in SUBSET Ids,
         Applied(c, stored)
  PROVE  /\ Steps(c, stored) /\ NoReading(calls'[c])
         /\ calls'[c].op = "apply" => /\ calls'[c].candidates = calls[c].candidates
                                      /\ calls'[c].shown = calls[c].shown
<1>1. calls[c] \in Applying /\ calls[c] # Idle /\ Tail(calls[c].plan) \in Seq(Planned)
  BY NextPlanned
<1>2. PICK full : full = [calls[c] EXCEPT !.plan = Tail(@), !.stored = @ \cup stored]
  OBVIOUS
<1>3. /\ full \in Applying
      /\ full.input = calls[c].input /\ full.exact = calls[c].exact
      /\ full.stored = calls[c].stored \cup stored
      /\ full.candidates = calls[c].candidates /\ full.shown = calls[c].shown
  <2> HIDE DEF Planned, Candidates
  <2> QED
    BY <1>1, <1>2 DEF Applying
<1>4. InHand(calls[c]) = calls[c].exact \cup calls[c].stored
  BY DEF InHand
<1>5. PICK new : new = AfterPlan(full)
  OBVIOUS
<1>6. /\ Moved(calls[c], new, stored) /\ NoReading(new)
      /\ new.op = "apply" => new = full
  BY <1>3, <1>4, <1>5, AfterPlanFits DEF Moved, NoReading
<1>7. Steps(c, stored) /\ calls'[c] = new
  BY <1>1, <1>2, <1>5, <1>6, Advances, TypesOf DEF Applied
<1> QED
  BY <1>3, <1>6, <1>7

LEMMA AnnotationEndSteps ==
  ASSUME TypeInv, NEW c \in Callers, calls[c].op = "annotate", NEW i \in Ids, AnnotationEnds(c, i)
  PROVE  Steps(c, {}) /\ NoReading(calls'[c]) /\ calls'[c].op # "apply"
<1>1. calls[c] \in Annotating /\ calls[c] # Idle
  BY TypesOf, KindsOfCalls DEF Idle
<1>2. CASE Return(c)
  BY <1>1, <1>2, Returns, TypesOf DEF NoReading, Idle
<1>3. CASE Advance(c, [calls[c] EXCEPT !.checked = @ \ {i}])
  <2>1. PICK new : new = [calls[c] EXCEPT !.checked = @ \ {i}]
    OBVIOUS
  <2>2. /\ new \in Annotating /\ new.op = "annotate" /\ new.input = calls[c].input
        /\ new.todo = calls[c].todo /\ new.checked \subseteq calls[c].checked
    BY <1>1, <2>1 DEF Annotating
  <2>3. /\ InHand(new) = new.todo \cup new.checked
        /\ InHand(calls[c]) = calls[c].todo \cup calls[c].checked
    BY <2>2 DEF InHand
  <2>4. new \in Calls /\ new # Idle
    BY <2>2, KindsAreCalls DEF Idle
  <2>5. Moved(calls[c], new, {}) /\ NoReading(new)
    BY <2>2, <2>3, <2>4 DEF Moved, NoReading
  <2>6. Steps(c, {}) /\ calls'[c] = new
    BY <1>1, <1>3, <2>1, <2>5, Advances, TypesOf
  <2> QED
    BY <2>2, <2>5, <2>6
<1> QED
  BY <1>2, <1>3 DEF AnnotationEnds

LEMMA AnnotateReadSteps ==
  ASSUME TypeInv, NEW c \in Callers, NEW i \in Ids, AnnotateRead(c, i)
  PROVE  Steps(c, {}) /\ NoReading(calls'[c]) /\ calls'[c].op # "apply"
<1>1. calls[c] \in Annotating /\ calls[c] # Idle /\ calls[c].op = "annotate" /\ i \in calls[c].todo
  BY TypesOf, KindsOfCalls DEF AnnotateRead, Idle
<1>2. CASE Return(c)
  BY <1>1, <1>2, Returns, TypesOf DEF NoReading, Idle
<1>3. ASSUME NEW checked \in SUBSET Ids, checked \subseteq calls[c].checked \cup {i},
             NEW new, new = [calls[c] EXCEPT !.todo = @ \ {i}, !.checked = checked],
             Advance(c, new)
      PROVE  Steps(c, {}) /\ NoReading(calls'[c]) /\ calls'[c].op # "apply"
  <2>1. /\ new \in Annotating /\ new.op = "annotate" /\ new.input = calls[c].input
        /\ new.todo = calls[c].todo \ {i} /\ new.checked = checked
    BY <1>1, <1>3 DEF Annotating
  <2>2. /\ InHand(new) = new.todo \cup new.checked
        /\ InHand(calls[c]) = calls[c].todo \cup calls[c].checked
    BY <1>1, <2>1 DEF InHand
  <2>3. new \in Calls /\ new # Idle
    BY <2>1, KindsAreCalls DEF Idle
  <2>4. Moved(calls[c], new, {}) /\ NoReading(new)
    BY <1>1, <1>3, <2>1, <2>2, <2>3 DEF Moved, NoReading
  <2>5. Steps(c, {}) /\ calls'[c] = new
    BY <1>1, <1>3, <2>4, Advances, TypesOf
  <2> QED
    BY <2>1, <2>4, <2>5
<1>4. calls[c].checked \in SUBSET Ids /\ calls[c].checked \cup {i} \in SUBSET Ids
  BY <1>1 DEF Annotating
<1>5. CASE Advance(c, [calls[c] EXCEPT !.todo = calls[c].todo \ {i}, !.checked = @ \cup {i}])
  BY <1>3, <1>4, <1>5
<1>6. CASE Advance(c, [calls[c] EXCEPT !.todo = calls[c].todo \ {i}])
  <2>1. [calls[c] EXCEPT !.todo = calls[c].todo \ {i}]
          = [calls[c] EXCEPT !.todo = @ \ {i}, !.checked = calls[c].checked]
    BY <1>1 DEF Annotating
  <2> QED
    BY <1>3, <1>4, <1>6, <2>1
<1> QED
  BY <1>2, <1>5, <1>6 DEF AnnotateRead

LEMMA EndSteps ==
  ASSUME TypeInv, NEW c \in Callers, CallEnds(c)
  PROVE  Steps(c, {}) /\ calls'[c] = Idle
<1>1. calls[c] # Idle
  BY DEF CallEnds, Idle
<1> QED
  BY <1>1, Returns, TypesOf DEF CallEnds

----------------------------------------------------------------------------
(* What the actions make of the atoms *)

LEMMA ReplaceWrites ==
  ASSUME TypeInv, NEW c \in Callers, NEW i \in Ids, ReplaceCommit(c, i)
  PROVE  /\ calls[c] \in Replacing /\ calls[c].op = "replace"
         /\ Stores(i, calls[c].input.text, calls[c].seen.tags \cup calls[c].input.tags,
                   calls[c].input.slot, {calls[c].old})
         /\ Grown(atoms, atoms')
         /\ Steps(c, {}) /\ calls'[c] = Idle
<1>1. calls[c] \in Replacing /\ calls[c].op = "replace" /\ calls[c] # Idle
  BY TypesOf, KindsOfCalls DEF ReplaceCommit, Idle
<1>2. /\ calls[c].input.text \in Contents /\ calls[c].input.tags \in SUBSET ExplicitSlots
      /\ calls[c].input.slot \in Slots \cup {NoSlot} /\ calls[c].old \in Ids /\ calls[c].seen \in Rows
  BY <1>1 DEF Replacing, Inputs
<1>3. calls[c].seen.tags \cup calls[c].input.tags \in SUBSET ExplicitSlots
  BY <1>2, RowFields
<1>4. PICK tags : tags = calls[c].seen.tags \cup calls[c].input.tags
  OBVIOUS
<1>5. /\ MayReplace(i, calls[c].input.text, calls[c].old)
      /\ atoms' = Replace(i, MergedRow(i, calls[c].input.text, tags, calls[c].input.slot), calls[c].old)
      /\ Return(c)
  BY <1>4 DEF ReplaceCommit
<1>6. /\ Stores(i, calls[c].input.text, tags, calls[c].input.slot, {calls[c].old})
      /\ Grown(atoms, atoms')
  BY <1>2, <1>3, <1>4, <1>5, ReplacesFit, TypesOf
<1>7. Steps(c, {}) /\ calls'[c] = Idle
  BY <1>1, <1>5, Returns, TypesOf
<1> QED
  BY <1>1, <1>4, <1>6, <1>7

LEMMA InputOfApply ==
  ASSUME TypeInv, NEW c \in Callers, calls[c].op = "apply"
  PROVE  /\ calls[c].input \in Inputs
         /\ calls[c].input.text \in Contents /\ calls[c].input.tags \in SUBSET ExplicitSlots
         /\ calls[c].input.slot \in Slots \cup {NoSlot}
         /\ calls[c].candidates \subseteq Ids \X Rows
<1>1. calls[c] \in Applying
  BY NextPlanned
<1> QED
  BY <1>1 DEF Applying, Inputs, Candidates

LEMMA CreateWrites ==
  ASSUME TypeInv, NEW c \in Callers, NEW i \in Ids, ApplyCreate(c, i)
  PROVE  /\ calls[c].op = "apply" /\ Next1(c).content \in Contents
         /\ Stores(i, Next1(c).content, calls[c].input.tags, NoSlot, {})
         /\ Grown(atoms, atoms')
         /\ disturbed' = disturbed \cup DisturbedByStoring(c, atoms'[i])
<1>1. calls[c].op = "apply" /\ Next1(c).content \in Contents
  BY NextPlanned DEF ApplyCreate
<1>2. PICK content, tags : content = Next1(c).content /\ tags = calls[c].input.tags
  OBVIOUS
<1>3. PICK row : row = MergedRow(i, content, tags, NoSlot)
  OBVIOUS
<1>4. /\ LandsOn(i, content) /\ atoms' = [atoms EXCEPT ![i] = row]
      /\ disturbed' = disturbed \cup DisturbedByStoring(c, row)
  BY <1>2, <1>3 DEF ApplyCreate
<1>5. content \in Contents /\ tags \in SUBSET ExplicitSlots /\ NoSlot \in Slots \cup {NoSlot}
  BY <1>1, <1>2, InputOfApply
<1>6. atoms'[i] = row
  BY <1>4, TypesOf DEF AtomsFit
<1>7. Stores(i, content, tags, NoSlot, {}) /\ Grown(atoms, atoms')
  BY <1>3, <1>4, <1>5, StoresFit, TypesOf
<1> QED
  BY <1>1, <1>2, <1>4, <1>6, <1>7

LEMMA SupersedeWrites ==
  ASSUME TypeInv, NEW c \in Callers, NEW i \in Ids, ApplySupersede(c, i)
  PROVE  /\ calls[c].op = "apply" /\ Next1(c).content \in Contents /\ Next1(c).target \in Ids
         /\ Stores(i, Next1(c).content, calls[c].input.tags, NoSlot, {Next1(c).target})
         /\ Grown(atoms, atoms')
         /\ disturbed' = disturbed \cup DisturbedByStoring(c, atoms'[i])
<1>1. /\ calls[c].op = "apply" /\ Next1(c).action = "supersede"
      /\ Next1(c).content \in Contents /\ Next1(c).target \in Ids
  BY NextPlanned DEF ApplySupersede
<1>2. PICK content, tags, old : content = Next1(c).content /\ tags = calls[c].input.tags /\ old = Next1(c).target
  OBVIOUS
<1>3. PICK row : row = MergedRow(i, content, tags, NoSlot)
  OBVIOUS
<1>4. /\ MayReplace(i, content, old) /\ atoms' = Replace(i, row, old)
      /\ disturbed' = disturbed \cup DisturbedByStoring(c, row)
  BY <1>2, <1>3 DEF ApplySupersede
<1>5. content \in Contents /\ tags \in SUBSET ExplicitSlots /\ NoSlot \in Slots \cup {NoSlot} /\ old \in Ids
  BY <1>1, <1>2, InputOfApply
<1>6. atoms'[i] = row
  BY <1>4, TypesOf DEF AtomsFit, Replace, MayReplace
<1>7. Stores(i, content, tags, NoSlot, {old}) /\ Grown(atoms, atoms')
  BY <1>3, <1>4, <1>5, ReplacesFit, TypesOf
<1> QED
  BY <1>1, <1>2, <1>4, <1>6, <1>7

LEMMA RetireWrites ==
  ASSUME TypeInv, NEW c \in Callers, ApplyRetire(c)
  PROVE  /\ calls[c].op = "apply"
         /\ \E i \in Ids : \E slot \in Slots \cup {NoSlot} :
              Exists(i) /\ Rewrites(i, atoms[i].content, "retired", slot)
         /\ Grown(atoms, atoms')
<1>1. calls[c].op = "apply" /\ calls[c].candidates \subseteq Ids \X Rows
  BY InputOfApply DEF ApplyRetire
<1>2. PICK p \in calls[c].candidates :
        /\ HasRoom(p[1])
        /\ atoms' = [atoms EXCEPT ![p[1]] = Bump([@ EXCEPT !.status = "retired", !.slot = p[2].slot])]
  BY DEF ApplyRetire
<1>3. PICK i, slot : i = p[1] /\ slot = p[2].slot
  OBVIOUS
<1>4. i \in Ids /\ slot \in Slots \cup {NoSlot} /\ HasRoom(i)
  BY <1>1, <1>2, <1>3, RowFields
<1>5. Exists(i) /\ atoms[i] \in Rows /\ atoms[i].content \in Contents /\ "retired" \in Statuses
  BY <1>4, ExistingRows, TypesOf, RowFields DEF Statuses
<1>6. atoms' = [atoms EXCEPT ![i] = Edit(atoms[i], atoms[i].content, "retired", slot)]
  BY <1>2, <1>3, <1>4, <1>5, TypesOf DEF Edit, Bump, Rows, AtomsFit
<1>7. Rewrites(i, atoms[i].content, "retired", slot) /\ Grown(atoms, atoms')
  BY <1>4, <1>5, <1>6, RewritesFit, TypesOf
<1> QED
  BY <1>1, <1>4, <1>5, <1>7

LEMMA AnnotateWrites ==
  ASSUME TypeInv, NEW c \in Callers, NEW i \in Ids, AnnotateWrite(c, i)
  PROVE  /\ calls[c].op = "annotate" /\ i \in calls[c].checked /\ calls[c] # Idle
         /\ Exists(i) /\ Rewrites(i, atoms[i].content, atoms[i].status, calls[c].input.slot)
         /\ Grown(atoms, atoms')
<1>1. calls[c] \in Annotating /\ calls[c].op = "annotate" /\ calls[c] # Idle
  BY TypesOf, KindsOfCalls DEF AnnotateWrite, Idle
<1>2. PICK slot \in Slots \cup {NoSlot} : slot = calls[c].input.slot
  BY <1>1 DEF Annotating, Inputs
<1>3. HasRoom(i) /\ atoms' = [atoms EXCEPT ![i] = Bump([@ EXCEPT !.slot = slot])]
  BY <1>2 DEF AnnotateWrite
<1>4. /\ Exists(i) /\ atoms[i] \in Rows
      /\ atoms[i].content \in Contents /\ atoms[i].status \in Statuses
  BY <1>3, ExistingRows, TypesOf, RowFields
<1>5. atoms' = [atoms EXCEPT ![i] = Edit(atoms[i], atoms[i].content, atoms[i].status, slot)]
  BY <1>3, <1>4, TypesOf DEF Edit, Bump, Rows, AtomsFit
<1>6. Rewrites(i, atoms[i].content, atoms[i].status, slot) /\ Grown(atoms, atoms')
  BY <1>3, <1>4, <1>5, RewritesFit, TypesOf
<1> QED
  BY <1>1, <1>2, <1>4, <1>6 DEF AnnotateWrite

LEMMA UpdateWrites ==
  ASSUME TypeInv, NEW i \in Ids, NEW content \in Contents, MemoryUpdate(i, content)
  PROVE  /\ Exists(i) /\ Rewrites(i, content, atoms[i].status, atoms[i].slot)
         /\ Grown(atoms, atoms')
<1>1. HasRoom(i) /\ atoms' = [atoms EXCEPT ![i] = Bump([@ EXCEPT !.content = content])]
  BY DEF MemoryUpdate
<1>2. /\ Exists(i) /\ atoms[i] \in Rows
      /\ atoms[i].status \in Statuses /\ atoms[i].slot \in Slots \cup {NoSlot}
  BY <1>1, ExistingRows, TypesOf, RowFields
<1>3. atoms' = [atoms EXCEPT ![i] = Edit(atoms[i], content, atoms[i].status, atoms[i].slot)]
  BY <1>1, <1>2, TypesOf DEF Edit, Bump, Rows, AtomsFit
<1> QED
  BY <1>1, <1>2, <1>3, RewritesFit, TypesOf

LEMMA StatusWrites ==
  ASSUME TypeInv, NEW i \in Ids, NEW status \in Statuses, HasRoom(i),
         atoms' = [atoms EXCEPT ![i] = Bump([@ EXCEPT !.status = status])]
  PROVE  /\ Exists(i) /\ Rewrites(i, atoms[i].content, status, atoms[i].slot)
         /\ Grown(atoms, atoms')
<1>1. /\ Exists(i) /\ atoms[i] \in Rows
      /\ atoms[i].content \in Contents /\ atoms[i].slot \in Slots \cup {NoSlot}
  BY ExistingRows, TypesOf, RowFields
<1>2. atoms' = [atoms EXCEPT ![i] = Edit(atoms[i], atoms[i].content, status, atoms[i].slot)]
  BY <1>1, TypesOf DEF Edit, Bump, Rows, AtomsFit
<1> QED
  BY <1>1, <1>2, RewritesFit, TypesOf

----------------------------------------------------------------------------
(* A call begins *)

BeginsWith(c, text, tags, slot, found) ==
  /\ calls' \in [Callers -> Calls]
  /\ \A d \in Callers \ {c} : calls'[d] = calls[d]
  /\ calls[c] = Idle /\ calls'[c] # Idle
  /\ calls'[c].input.text = text /\ calls'[c].input.tags = tags /\ calls'[c].input.slot = slot
  /\ found \subseteq Ids
  /\ IF slot = NoSlot THEN found = {} ELSE found \subseteq Values(slot)
  /\ \/ /\ calls'[c].op = "replace" /\ slot # NoSlot
        /\ found = {calls'[c].old} /\ calls'[c].seen = atoms[calls'[c].old]
     \/ /\ calls'[c].op = "search"
        /\ calls'[c].exact = {i \in found : atoms[i].content = text}
        /\ calls'[c].exact = {} => \A i \in found : found # {i}

LEMMA BeginSteps ==
  ASSUME TypeInv, NEW c \in Callers, NEW text \in Contents, NEW tags \in SUBSET ExplicitSlots,
         NEW slot \in Slots \cup {NoSlot}, NEW found \in SUBSET Ids,
         RememberBegin(c, text, tags, slot, found)
  PROVE  BeginsWith(c, text, tags, slot, found)
<1> DEFINE exact == {i \in found : atoms[i].content = text}
           old == CHOOSE i \in found : TRUE
           input == [text |-> text, tags |-> tags, slot |-> slot]
<1>1. IF slot = NoSlot THEN found = {} ELSE found \subseteq Values(slot)
  BY DEF RememberBegin, SlotCandidates
<1>2. input \in Inputs /\ input.text = text /\ input.tags = tags /\ input.slot = slot
  BY DEF Inputs
<1>3. PICK new : new = AfterCandidates(input, found)
  OBVIOUS
<1>4. calls[c] = Idle /\ calls' = [calls EXCEPT ![c] = new]
  BY <1>3 DEF RememberBegin, Advance
<1> HIDE DEF input
<1>5. CASE exact = {} /\ \E i \in found : found = {i}
  <2>1. new = [op |-> "replace", input |-> input, old |-> old, seen |-> atoms[old]]
    BY <1>2, <1>3, <1>5 DEF AfterCandidates
  <2>2. found = {old}
    BY <1>5
  <2> HIDE DEF old, exact
  <2>3. slot # NoSlot /\ old \in Values(slot)
    BY <1>1, <2>2
  <2>4. old \in Ids /\ atoms[old] \in Rows
    BY <2>2, <2>3, ExistingRows, TypesOf DEF Values
  <2>5. /\ new \in Replacing /\ new.op = "replace" /\ new.input = input
        /\ new.old = old /\ new.seen = atoms[old]
    BY <1>2, <2>1, <2>4 DEF Replacing
  <2>6. new \in Calls /\ new # Idle
    BY <2>5, KindsAreCalls DEF Idle
  <2>7. calls' \in [Callers -> Calls] /\ calls'[c] = new /\ \A d \in Callers \ {c} : calls'[d] = calls[d]
    BY <1>4, <2>6, TypesOf
  <2> QED
    BY <1>1, <1>2, <1>4, <2>2, <2>3, <2>5, <2>6, <2>7 DEF BeginsWith
<1>6. CASE ~(exact = {} /\ \E i \in found : found = {i})
  <2>1. new = [op |-> "search", input |-> input, exact |-> exact]
    BY <1>2, <1>3, <1>6 DEF AfterCandidates
  <2>2. exact \in SUBSET Ids /\ (exact = {} => \A i \in found : found # {i})
    BY <1>6
  <2>3. new \in Searching /\ new.op = "search" /\ new.input = input /\ new.exact = exact
    BY <1>2, <2>1, <2>2 DEF Searching
  <2>4. new \in Calls /\ new # Idle
    BY <2>3, KindsAreCalls DEF Idle
  <2>5. calls' \in [Callers -> Calls] /\ calls'[c] = new /\ \A d \in Callers \ {c} : calls'[d] = calls[d]
    BY <1>4, <2>4, TypesOf
  <2> QED
    BY <1>1, <1>2, <1>4, <2>2, <2>3, <2>4, <2>5 DEF BeginsWith
<1> QED
  BY <1>5, <1>6

\* What a call begins with.
LEMMA CallInputs ==
  ASSUME TypeInv, NEW in \in deployment.inputs
  PROVE  in[1] \in Contents /\ in[2] \in SUBSET ExplicitSlots
  BY Deployed, TypesOf DEF AtomsFit

----------------------------------------------------------------------------
(* Types hold *)

LEMMA TypesMoved ==
  ASSUME TypeInv, NEW c \in Callers, NEW more, Steps(c, more), deployment' = deployment,
         atoms' \in [Ids -> Rows \cup {Unused}],
         cache' \in Seq(Entries), Len(cache') <= CacheSize,
         spent' \in [calls : Nat, tokens : Nat], disturbed' \subseteq Slots
  PROVE  TypeInv'
<1>1. calls' \in [Callers -> Calls]
  BY DEF Steps
<1>2. \A d \in Callers : calls'[d].op = "apply" => calls'[d].plan # <<>>
  BY DEF Steps, Moved, TypeInv, PlansRemain
<1> QED
  BY <1>1, <1>2 DEF TypeInv, TypeOK, PlansRemain, Entries

LEMMA TypesWritten ==
  ASSUME TypeInv, atoms' \in [Ids -> Rows \cup {Unused}], disturbed' \subseteq Slots,
         UNCHANGED <<deployment, calls, cache, spent>>
  PROVE  TypeInv'
BY DEF TypeInv, TypeOK, PlansRemain

LEMMA NamedSlots ==
  /\ \A slots \in SUBSET (Slots \cup {NoSlot}) : Named(slots) \subseteq Slots
  /\ \A slots, slot : slot \in slots /\ slot # NoSlot => slot \in Named(slots)
BY DEF Named

LEMMA StoringDisturbs ==
  ASSUME TypeInv, NEW c \in Callers, calls[c].op = "apply", NEW row \in Rows
  PROVE  DisturbedByStoring(c, row) \subseteq Slots
<1>1. {SlotOfRow(row), calls[c].input.slot} \in SUBSET (Slots \cup {NoSlot})
  BY SlotTypes, InputOfApply
<1> QED
  BY <1>1, NamedSlots DEF DisturbedByStoring

LEMMA CallSlots ==
  ASSUME TypeInv, NEW c \in Callers, calls[c] # Idle
  PROVE  calls[c].input.slot \in Slots \cup {NoSlot} /\ calls[c].input \in Inputs
  BY TypesOf, KindsOfCalls DEF Inputs

LEMMA CallTypesStep ==
  ASSUME TypeInv, NEW c \in Callers, CallStep(c)
  PROVE  TypeInv'
<1>1. /\ spent \in [calls : Nat, tokens : Nat] /\ disturbed \subseteq Slots
      /\ atoms \in [Ids -> Rows \cup {Unused}]
  BY DEF TypeInv, TypeOK
<1>2. ASSUME NEW in \in deployment.inputs, NEW slot \in Slots \cup {NoSlot}, NEW found \in SUBSET Ids,
             RememberBegin(c, in[1], in[2], slot, found)
      PROVE  TypeInv'
  <2>1. PICK text, tags : text = in[1] /\ tags = in[2]
    OBVIOUS
  <2>2. text \in Contents /\ tags \in SUBSET ExplicitSlots
    BY <2>1, CallInputs
  <2>3. RememberBegin(c, text, tags, slot, found)
    BY <1>2, <2>1
  <2>4. BeginsWith(c, text, tags, slot, found)
    BY <2>2, <2>3, BeginSteps
  <2>5. \A d \in Callers : calls'[d].op = "apply" => calls'[d].plan # <<>>
    BY <2>4 DEF BeginsWith, TypeInv, PlansRemain
  <2>6. DisturbedBy(tags, slot, found) \subseteq Slots
    <3>1. \A d \in Callers : calls[d] # Idle => calls[d].input.slot \in Slots \cup {NoSlot}
      BY CallSlots
    <3>2. tags \subseteq Slots \cup {NoSlot}
      BY <2>2 DEF Slots
    <3> QED
      BY <3>1, <3>2, NamedSlots DEF DisturbedBy, Named
  <2>7. /\ disturbed' = disturbed \cup DisturbedBy(tags, slot, found)
        /\ UNCHANGED <<deployment, atoms, cache, spent>>
    BY <2>3 DEF RememberBegin
  <2> QED
    BY <1>1, <2>4, <2>5, <2>6, <2>7 DEF TypeInv, TypeOK, PlansRemain, BeginsWith
<1>3. ASSUME NEW i \in Ids, ReplaceCommit(c, i)
      PROVE  TypeInv'
  <2>1. Steps(c, {}) /\ atoms' \in [Ids -> Rows \cup {Unused}]
    BY <1>3, ReplaceWrites DEF Stores
  <2>2. UNCHANGED <<deployment, cache, spent, disturbed>>
    BY <1>3 DEF ReplaceCommit
  <2> QED
    BY <1>1, <2>1, <2>2, TypesMoved, TypesOf
<1>4. ASSUME NEW i \in Ids, ApplySupersede(c, i)
      PROVE  TypeInv'
  <2>1. /\ calls[c].op = "apply" /\ Applied(c, {i})
        /\ atoms' \in [Ids -> Rows \cup {Unused}] /\ atoms'[i] \in Rows
        /\ disturbed' = disturbed \cup DisturbedByStoring(c, atoms'[i])
        /\ UNCHANGED <<deployment, cache, spent>>
    BY <1>4, SupersedeWrites DEF Stores, ApplySupersede
  <2>2. PICK row \in Rows : row = atoms'[i]
    BY <2>1
  <2>3. Steps(c, {i}) /\ disturbed' \subseteq Slots
    BY <1>1, <2>1, <2>2, AppliedSteps, StoringDisturbs
  <2> QED
    BY <1>1, <2>1, <2>3, TypesMoved, TypesOf
<1>5. ASSUME NEW i \in Ids, ApplyCreate(c, i)
      PROVE  TypeInv'
  <2>1. /\ calls[c].op = "apply" /\ Applied(c, {i})
        /\ atoms' \in [Ids -> Rows \cup {Unused}] /\ atoms'[i] \in Rows
        /\ disturbed' = disturbed \cup DisturbedByStoring(c, atoms'[i])
        /\ UNCHANGED <<deployment, cache, spent>>
    BY <1>5, CreateWrites DEF Stores, ApplyCreate
  <2>2. PICK row \in Rows : row = atoms'[i]
    BY <2>1
  <2>3. Steps(c, {i}) /\ disturbed' \subseteq Slots
    BY <1>1, <2>1, <2>2, AppliedSteps, StoringDisturbs
  <2> QED
    BY <1>1, <2>1, <2>3, TypesMoved, TypesOf
<1>6. CASE DecideByRule(c)
  BY <1>1, <1>6, RuleSteps, TypesMoved, TypesOf DEF DecideByRule
<1>7. CASE Ask(c)
  <2>1. calls[c].input.text \in Contents
    BY <1>7, TypesOf, KindsOfCalls DEF Ask, NeedsModel, Searching, Inputs
  <2>2. spent' \in [calls : Nat, tokens : Nat]
    BY <1>1, <1>7, <2>1, BudgetAssumption DEF Ask, Charge
  <2> QED
    BY <1>1, <1>7, <2>2, AskSteps, TypesMoved, TypesOf DEF Ask
<1>8. CASE ModelFails(c)
  BY <1>1, <1>8, FailSteps, TypesMoved, TypesOf DEF ModelFails
<1>9. ASSUME NEW n \in DOMAIN cache, DecideFromCache(c, n)
      PROVE  TypeInv'
  BY <1>1, <1>9, CacheSteps, TypesMoved, TypesOf DEF DecideFromCache
<1>10. ASSUME NEW plan \in Plans, ModelAnswers(c, plan)
       PROVE  TypeInv'
  <2>1. calls[c] \in Asking
    BY <1>10, TypesOf, KindsOfCalls DEF ModelAnswers
  <2>2. PICK entry : entry = [key |-> Key(calls[c].input.text, calls[c].candidates), plan |-> plan,
                              shown |-> calls[c].candidates]
    OBVIOUS
  <2>3. entry \in Entries
    <3>1. calls[c].input.text \in Contents /\ calls[c].candidates \subseteq Ids \X Rows
      BY <2>1 DEF Asking, Inputs, Candidates
    <3>2. Key(calls[c].input.text, calls[c].candidates) \in Keys
      BY <3>1, RowFields DEF Key, Keys
    <3> QED
      BY <2>2, <3>1, <3>2 DEF Entries, Candidates
  <2>4. cache' = Remembered(entry) /\ UNCHANGED <<deployment, atoms, spent, disturbed>>
    BY <1>10, <2>2 DEF ModelAnswers
  <2>5. cache' \in Seq(Entries) /\ Len(cache') <= CacheSize
    <3>1. EntriesIn(cache) \cup {entry} \subseteq Entries
      BY <2>3, CacheOfItsEntries, TypesOf
    <3>2. /\ Remembered(entry) \in Seq(EntriesIn(cache) \cup {entry})
          /\ Len(Remembered(entry)) <= CacheSize
      BY <2>3, RememberedFits, TypesOf
    <3> QED
      BY <2>4, <3>1, <3>2, SeqMonotonic
  <2> QED
    BY <1>1, <1>10, <2>4, <2>5, AnswerSteps, TypesMoved
<1>11. CASE ApplySkip(c)
  BY <1>1, <1>11, AppliedSteps, TypesMoved, TypesOf DEF ApplySkip
<1>12. CASE ApplyRetire(c)
  <2>1. Applied(c, {}) /\ calls[c].op = "apply" /\ UNCHANGED <<deployment, cache, spent, disturbed>>
    BY <1>12 DEF ApplyRetire
  <2>2. atoms' \in [Ids -> Rows \cup {Unused}]
    BY <1>12, RetireWrites DEF Rewrites
  <2> QED
    BY <1>1, <2>1, <2>2, AppliedSteps, TypesMoved, TypesOf
<1>13. ASSUME NEW i \in Ids, AnnotateRead(c, i)
       PROVE  TypeInv'
  BY <1>1, <1>13, AnnotateReadSteps, TypesMoved, TypesOf DEF AnnotateRead
<1>14. ASSUME NEW i \in Ids, AnnotateWrite(c, i)
       PROVE  TypeInv'
  <2>1. /\ calls[c].op = "annotate" /\ AnnotationEnds(c, i)
        /\ UNCHANGED <<deployment, cache, spent, disturbed>>
    BY <1>14 DEF AnnotateWrite
  <2>2. atoms' \in [Ids -> Rows \cup {Unused}]
    BY <1>14, AnnotateWrites DEF Rewrites
  <2> QED
    BY <1>1, <2>1, <2>2, AnnotationEndSteps, TypesMoved, TypesOf
<1>15. ASSUME NEW i \in Ids, AnnotateFails(c, i)
       PROVE  TypeInv'
  BY <1>1, <1>15, AnnotationEndSteps, TypesMoved, TypesOf DEF AnnotateFails
<1>16. CASE CallEnds(c)
  BY <1>1, <1>16, EndSteps, TypesMoved, TypesOf DEF CallEnds
<1> QED
  BY <1>2, <1>3, <1>4, <1>5, <1>6, <1>7, <1>8, <1>9, <1>10, <1>11, <1>12, <1>13, <1>14, <1>15,
     <1>16 DEF CallStep

LEMMA UpdateDisturbs ==
  ASSUME TypeInv, NEW i \in Ids, NEW content \in Contents, MemoryUpdate(i, content)
  PROVE  disturbed' \subseteq Slots
<1>1. /\ disturbed \subseteq Slots /\ atoms[i] \in Rows /\ atoms'[i] \in Rows
  BY UpdateWrites DEF Rewrites, TypeInv, TypeOK
<1>2. PICK before, after \in Rows : before = atoms[i] /\ after = atoms'[i]
  BY <1>1
<1>3. SlotOfRow(before) \in Slots \cup {NoSlot} /\ SlotOfRow(after) \in Slots \cup {NoSlot}
  BY SlotTypes
<1>4. \A d \in Callers : i \in InHand(calls[d]) => calls[d].input.slot \in Slots \cup {NoSlot}
  BY CallSlots DEF InHand, Idle
<1>5. disturbed' = disturbed \cup Named({SlotOfRow(before), SlotOfRow(after)}
       \cup {calls[c].input.slot : c \in {d \in Callers : i \in InHand(calls[d])}})
  BY <1>2 DEF MemoryUpdate
<1> QED
  BY <1>1, <1>3, <1>4, <1>5 DEF Named

LEMMA TypesStep ==
  ASSUME TypeInv, [Next]_vars
  PROVE  TypeInv'
<1>1. /\ spent \in [calls : Nat, tokens : Nat] /\ disturbed \subseteq Slots
      /\ atoms \in [Ids -> Rows \cup {Unused}] /\ calls \in [Callers -> Calls]
  BY DEF TypeInv, TypeOK
<1>2. ASSUME NEW c \in Callers, CallStep(c)
      PROVE  TypeInv'
  BY <1>2, CallTypesStep
<1>3. ASSUME NEW i \in Ids, NEW content \in Contents, MemoryUpdate(i, content)
      PROVE  TypeInv'
  <2>1. atoms' \in [Ids -> Rows \cup {Unused}] /\ disturbed' \subseteq Slots
    BY <1>3, UpdateWrites, UpdateDisturbs DEF Rewrites
  <2> QED
    BY <1>3, <2>1, TypesWritten DEF MemoryUpdate
<1>4. ASSUME NEW i \in Ids, MemoryForget(i)
      PROVE  TypeInv'
  <2>1. atoms' \in [Ids -> Rows \cup {Unused}]
    BY <1>4, StatusWrites DEF MemoryForget, Rewrites, Statuses
  <2> QED
    BY <1>1, <1>4, <2>1, TypesWritten DEF MemoryForget
<1>5. ASSUME NEW i \in Ids, MemoryRestore(i)
      PROVE  TypeInv'
  <2>1. atoms' \in [Ids -> Rows \cup {Unused}] /\ atoms[i] \in Rows
    BY <1>5, StatusWrites DEF MemoryRestore, Rewrites, Statuses
  <2>2. PICK row \in Rows : row = atoms[i]
    BY <2>1
  <2>3. disturbed' = disturbed \cup Named({SlotOfRow(row)}) /\ SlotOfRow(row) \in Slots \cup {NoSlot}
    BY <1>5, <2>2, SlotTypes DEF MemoryRestore
  <2>4. disturbed' \subseteq Slots
    BY <1>1, <2>3 DEF Named
  <2> QED
    BY <1>5, <2>1, <2>4, TypesWritten DEF MemoryRestore
<1>6. CASE NewDay
  BY <1>6 DEF NewDay, TypeInv, TypeOK, PlansRemain
<1>7. ASSUME NEW n \in DOMAIN cache, CacheExpire(n)
      PROVE  TypeInv'
  <2>1. cache' \in Seq(Entries) /\ Len(cache') <= CacheSize
    <3>1. cache' \in Seq(EntriesIn(cache)) /\ Len(cache') <= CacheSize
      BY <1>7, ExpiredFits, TypesOf
    <3>2. EntriesIn(cache) \subseteq Entries
      BY CacheOfItsEntries, TypesOf
    <3> QED
      BY <3>1, <3>2, SeqMonotonic
  <2> QED
    BY <1>7, <2>1 DEF CacheExpire, TypeInv, TypeOK, PlansRemain, Entries
<1>8. CASE Restart
  <2>1. calls' \in [Callers -> Calls] /\ \A c \in Callers : calls'[c].op # "apply"
    BY <1>8, KindsAreCalls DEF Restart, Idle
  <2>2. cache' \in Seq(Entries) /\ Len(cache') <= CacheSize
    BY <1>8, EmptySeq, BudgetAssumption DEF Restart
  <2> QED
    BY <1>1, <1>8, <2>1, <2>2 DEF Restart, TypeInv, TypeOK, PlansRemain, Entries
<1>9. CASE UNCHANGED vars
  BY <1>9 DEF vars, TypeInv, TypeOK, PlansRemain
<1> QED
  BY <1>2, <1>3, <1>4, <1>5, <1>6, <1>7, <1>8, <1>9 DEF Next

LEMMA TypesInit == Init => TypeInv
<1> SUFFICES ASSUME Init
             PROVE  TypeInv
  OBVIOUS
<1>1. calls \in [Callers -> Calls] /\ \A c \in Callers : calls[c].op # "apply"
  BY KindsAreCalls DEF Init, Idle
<1>2. cache \in Seq(Entries) /\ Len(cache) <= CacheSize
  BY EmptySeq, BudgetAssumption DEF Init
<1> QED
  BY <1>1, <1>2 DEF Init, TypeInv, TypeOK, PlansRemain, Entries

\* Every variable keeps its type: deployments, atoms, calls, cache and budget.
THEOREM SmartMemoryTypes == Spec => []TypeOK
<1>1. TypeInv => TypeOK
  BY DEF TypeInv
<1> QED
  BY <1>1, TypesInit, TypesStep, PTL DEF Spec

----------------------------------------------------------------------------
(* The budget *)

\* However many calls wait for the model at once, the requests of a day stay
\* within the budget, and their tokens exceed it by less than one prompt's
\* overhead: only Ask charges, and it tests in the same step.
THEOREM DailyBudgetHolds == Spec => []DailyBudgetAlmostHolds
<1>1. Init => DailyBudgetAlmostHolds
  BY BudgetAssumption DEF Init, DailyBudgetAlmostHolds
<1>2. TypeInv /\ DailyBudgetAlmostHolds /\ [Next]_vars => DailyBudgetAlmostHolds'
  <2> SUFFICES ASSUME TypeInv, DailyBudgetAlmostHolds, [Next]_vars
               PROVE  DailyBudgetAlmostHolds'
    OBVIOUS
  <2>1. ASSUME NEW c \in Callers, Ask(c)
        PROVE  DailyBudgetAlmostHolds'
    <3>1. calls[c].input.text \in Contents
      BY <2>1, TypesOf, KindsOfCalls DEF Ask, NeedsModel, Searching, Inputs
    <3>2. PICK text \in Contents : text = calls[c].input.text
      BY <3>1
    <3>3. BudgetAllows(text) /\ spent' = Charge(text)
      BY <2>1, <3>2 DEF Ask, NeedsModel, ShouldUseModel
    <3>4. spent.calls \in Nat /\ spent.tokens \in Nat
      BY DEF TypeInv, TypeOK
    <3>5. /\ TextTokens[text] \in Nat /\ PromptTokens[text] \in Nat
          /\ PromptTokens[text] <= TextTokens[text] + MaxOverhead
          /\ CallBudget \in Nat /\ TokenBudget \in Nat /\ MaxOverhead \in Nat
      BY BudgetAssumption
    <3>6. spent'.calls = spent.calls + 1 /\ spent'.tokens = spent.tokens + PromptTokens[text]
      BY <3>3 DEF Charge
    <3> QED
      BY <3>3, <3>4, <3>5, <3>6 DEF BudgetAllows, DailyBudgetAlmostHolds
  <2>2. CASE spent' = [calls |-> 0, tokens |-> 0]
    BY <2>2, BudgetAssumption DEF DailyBudgetAlmostHolds
  <2>3. CASE UNCHANGED spent
    BY <2>3 DEF DailyBudgetAlmostHolds
  <2>4. ASSUME NEW c \in Callers, CallStep(c)
        PROVE  Ask(c) \/ UNCHANGED spent
    BY <2>4 DEF CallStep, RememberBegin, ReplaceCommit, ApplySupersede, ApplyCreate, DecideByRule,
       ModelFails, DecideFromCache, ModelAnswers, ApplySkip, ApplyRetire, AnnotateRead,
       AnnotateWrite, AnnotateFails, CallEnds
  <2> QED
    BY <2>1, <2>2, <2>3, <2>4
       DEF Next, MemoryUpdate, MemoryForget, MemoryRestore, NewDay, CacheExpire, Restart, vars
<1> QED
  BY <1>1, <1>2, TypesInit, TypesStep, PTL DEF Spec

----------------------------------------------------------------------------
(* What was read of the atoms *)

\* The atoms a call has read and still goes by: the candidates it asks the
\* model about, or the value it is about to replace
ReadingsOf(call) ==
  CASE call.op = "ask" -> call.candidates
    [] call.op = "replace" -> {<<call.old, call.seen>>}
    [] OTHER -> {}

WasRead(p) ==
  \/ \E c \in Callers : p \in ReadingsOf(calls[c])
  \/ \E entry \in EntriesIn(cache) : p \in entry.shown

\* What was read is still so, or the version has gone on.
Past ==
  \A p \in Ids \X Rows : WasRead(p) =>
    /\ Exists(p[1])
    /\ p[2] = atoms[p[1]] \/ atoms[p[1]].version > p[2].version

KeysFit == \A entry \in EntriesIn(cache) : entry.key = Key(entry.key.text, entry.shown)

Says(candidates) == {<<p[1], p[2].content, p[2].slot>> : p \in candidates}

\* A call that replaces a value read it as a value of its slot.
ReplacesOfSlot ==
  \A c \in Callers : calls[c].op = "replace" =>
    calls[c].input.slot # NoSlot /\ SlotOfRow(calls[c].seen) = calls[c].input.slot

ReadInv == Past /\ KeysFit /\ ReplacesOfSlot /\ CachedDecisionFitsCandidates

LEMMA ReadingsAreRows ==
  ASSUME TypeInv, NEW p, WasRead(p)
  PROVE  p \in Ids \X Rows
<1>1. \A c \in Callers : ReadingsOf(calls[c]) \subseteq Ids \X Rows
  <2> SUFFICES ASSUME NEW c \in Callers
               PROVE  ReadingsOf(calls[c]) \subseteq Ids \X Rows
    OBVIOUS
  <2>1. CASE calls[c].op = "ask"
    BY <2>1, TypesOf, KindsOfCalls DEF ReadingsOf, Asking, Candidates
  <2>2. CASE calls[c].op = "replace"
    <3>1. calls[c].old \in Ids /\ calls[c].seen \in Rows
      BY <2>2, TypesOf, KindsOfCalls DEF Replacing
    <3> QED
      BY <2>2, <3>1 DEF ReadingsOf
  <2>3. CASE calls[c].op \notin {"ask", "replace"}
    BY <2>3 DEF ReadingsOf
  <2> QED
    BY <2>1, <2>2, <2>3
<1>2. \A entry \in EntriesIn(cache) : entry.shown \subseteq Ids \X Rows
  BY CacheOfItsEntries, TypesOf DEF Entries, Candidates
<1> QED
  BY <1>1, <1>2 DEF WasRead

\* Readings keep their place in the past when only current ones are added.
LEMMA PastKept ==
  ASSUME TypeInv, TypeInv', Past, Grown(atoms, atoms'),
         \A p \in Ids \X Rows : WasRead(p)' => WasRead(p) \/ (Exists(p[1]) /\ p[2] = atoms[p[1]])
  PROVE  Past'
<1> SUFFICES ASSUME NEW p \in Ids \X Rows, WasRead(p)'
             PROVE  /\ atoms'[p[1]].status \in Statuses
                    /\ p[2] = atoms'[p[1]] \/ atoms'[p[1]].version > p[2].version
  BY DEF Past, Exists
<1>1. /\ p[1] \in Ids /\ p[2] \in Rows /\ Exists(p[1])
      /\ p[2] = atoms[p[1]] \/ atoms[p[1]].version > p[2].version
  BY DEF Past
<1>2. PICK i \in Ids : i = p[1]
  BY <1>1
<1>3. /\ atoms'[i].status \in Statuses
      /\ atoms'[i] = atoms[i] \/ atoms'[i].version > atoms[i].version
  BY <1>1, <1>2 DEF Grown, Exists
<1>4. CASE p[2] = atoms[i] \/ atoms'[i] = atoms[i]
  BY <1>1, <1>2, <1>3, <1>4
<1>5. CASE atoms[i].version > p[2].version /\ atoms'[i].version > atoms[i].version
  <2>1. p[2].version \in Nat
    BY <1>1, RowFields
  <2>2. atoms[i].version \in Nat
    BY <1>1, <1>2, ExistingRows, RowFields, TypesOf
  <2>3. atoms'[i].version \in Nat
    <3>1. atoms'[i] \in Rows \cup {Unused}
      BY DEF TypeInv, TypeOK
    <3>2. atoms'[i] \in Rows
      BY <1>3, <3>1 DEF Unused, Statuses
    <3> QED
      BY <3>2, RowFields
  <2> QED
    BY <1>1, <1>2, <1>3, <1>5, <2>1, <2>2, <2>3
<1> QED
  BY <1>1, <1>2, <1>3, <1>4, <1>5

LEMMA ReadingsMoved ==
  ASSUME NEW c \in Callers, NEW more, Steps(c, more), NoReading(calls'[c]), cache' = cache
  PROVE  \A p : WasRead(p)' => WasRead(p)
<1>1. ReadingsOf(calls'[c]) = {}
  BY DEF ReadingsOf, NoReading
<1>2. \A d \in Callers \ {c} : calls'[d] = calls[d]
  BY DEF Steps
<1> QED
  BY <1>1, <1>2 DEF WasRead

\* The decisions and replacements of all calls but c stay as they are.
LEMMA OthersKept ==
  ASSUME NEW c \in Callers, \A d \in Callers \ {c} : calls'[d] = calls[d],
         ReplacesOfSlot, CachedDecisionFitsCandidates,
         calls'[c].op = "replace" =>
           calls'[c].input.slot # NoSlot /\ SlotOfRow(calls'[c].seen) = calls'[c].input.slot,
         calls'[c].op = "apply" => Says(calls'[c].candidates) = Says(calls'[c].shown)
  PROVE  ReplacesOfSlot' /\ CachedDecisionFitsCandidates'
<1>1. \A d \in Callers : calls'[d].op = "replace" =>
        calls'[d].input.slot # NoSlot /\ SlotOfRow(calls'[d].seen) = calls'[d].input.slot
  BY DEF ReplacesOfSlot
<1>2. \A d \in Callers : calls'[d].op = "apply" => Says(calls'[d].candidates) = Says(calls'[d].shown)
  BY DEF CachedDecisionFitsCandidates, Says
<1> QED
  BY <1>1, <1>2 DEF ReplacesOfSlot, CachedDecisionFitsCandidates, Says

\* A step of a call that keeps no reading, sets nothing in the cache and, if
\* it applies a decision, applies one that fits.
LEMMA ReadMoved ==
  ASSUME TypeInv, TypeInv', ReadInv, NEW c \in Callers, NEW more, Steps(c, more),
         NoReading(calls'[c]), cache' = cache, Grown(atoms, atoms'),
         calls'[c].op = "apply" => Says(calls'[c].candidates) = Says(calls'[c].shown)
  PROVE  ReadInv'
<1>1. Past'
  <2>1. \A p : WasRead(p)' => WasRead(p)
    BY ReadingsMoved
  <2>2. Past
    BY DEF ReadInv
  <2>3. \A p \in Ids \X Rows : WasRead(p)' => WasRead(p) \/ (Exists(p[1]) /\ p[2] = atoms[p[1]])
    BY <2>1, Zenon
  <2> QED
    BY <2>2, <2>3, PastKept, Zenon
<1>2. KeysFit'
  BY DEF ReadInv, KeysFit
<1>3. ReplacesOfSlot' /\ CachedDecisionFitsCandidates'
  BY OthersKept DEF ReadInv, Steps, NoReading
<1> QED
  BY <1>1, <1>2, <1>3 DEF ReadInv

\* The key of the candidates is that of a cached decision: they are the same.
LEMMA SameVersionsSaySame ==
  ASSUME TypeInv, ReadInv, NEW entry \in EntriesIn(cache), NEW text, NEW candidates,
         candidates = ReadOf(Found(text)), entry.key = Key(text, candidates)
  PROVE  Says(candidates) = Says(entry.shown)
<1>1. \A p \in candidates : p[1] \in Ids /\ Exists(p[1]) /\ p[2] = atoms[p[1]]
  BY CandidatesFit, TypesOf
<1>2. \A p \in entry.shown :
        /\ p[1] \in Ids /\ p[2] \in Rows
        /\ p[2] = atoms[p[1]] \/ atoms[p[1]].version > p[2].version
  <2>1. \A p \in entry.shown : WasRead(p)
    BY DEF WasRead
  <2> QED
    BY <2>1, ReadingsAreRows DEF ReadInv, Past
<1>3. {<<p[1], p[2].version>> : p \in candidates} = {<<p[1], p[2].version>> : p \in entry.shown}
  <2>1. entry.key.versions = {<<p[1], p[2].version>> : p \in candidates}
    BY DEF Key
  <2>2. entry.key = Key(entry.key.text, entry.shown)
    BY DEF ReadInv, KeysFit
  <2>3. entry.key.versions = {<<p[1], p[2].version>> : p \in entry.shown}
    BY <2>2 DEF Key
  <2> QED
    BY <2>1, <2>3
<1>4. ASSUME NEW p \in candidates, NEW q \in entry.shown, p[1] = q[1], p[2].version = q[2].version
      PROVE  p[2] = q[2]
  <2>1. PICK i \in Ids : i = p[1] /\ Exists(i)
    BY <1>1
  <2>2. atoms[i].version \in Nat /\ p[2] = atoms[i]
    BY <1>1, <2>1, ExistingRows, RowFields, TypesOf
  <2>3. q[2] = atoms[i] \/ atoms[i].version > q[2].version
    BY <1>2, <1>4, <2>1
  <2> QED
    BY <1>4, <2>2, <2>3
<1>5. \A p \in candidates : \E q \in entry.shown : p[1] = q[1] /\ p[2] = q[2]
  <2> SUFFICES ASSUME NEW p \in candidates
               PROVE  \E q \in entry.shown : p[1] = q[1] /\ p[2] = q[2]
    OBVIOUS
  <2>1. <<p[1], p[2].version>> \in {<<q[1], q[2].version>> : q \in entry.shown}
    BY <1>3
  <2>2. PICK q \in entry.shown : <<p[1], p[2].version>> = <<q[1], q[2].version>>
    BY <2>1
  <2> QED
    BY <1>4, <2>2
<1>6. \A q \in entry.shown : \E p \in candidates : p[1] = q[1] /\ p[2] = q[2]
  <2> SUFFICES ASSUME NEW q \in entry.shown
               PROVE  \E p \in candidates : p[1] = q[1] /\ p[2] = q[2]
    OBVIOUS
  <2>1. <<q[1], q[2].version>> \in {<<p[1], p[2].version>> : p \in candidates}
    BY <1>3
  <2>2. PICK p \in candidates : <<p[1], p[2].version>> = <<q[1], q[2].version>>
    BY <2>1
  <2> QED
    BY <1>4, <2>2
<1> QED
  BY <1>5, <1>6 DEF Says

\* A step of a call that reads current atoms, or caches a decision made for
\* what it had read.
LEMMA ReadByCall ==
  ASSUME TypeInv, TypeInv', ReadInv, NEW c \in Callers, atoms' = atoms,
         \A d \in Callers \ {c} : calls'[d] = calls[d],
         \A p \in ReadingsOf(calls'[c]) : Exists(p[1]) /\ p[2] = atoms[p[1]],
         \A entry \in EntriesIn(cache') :
           \/ entry \in EntriesIn(cache)
           \/ entry.key = Key(entry.key.text, entry.shown) /\ \A p \in entry.shown : WasRead(p),
         calls'[c].op = "replace" =>
           calls'[c].input.slot # NoSlot /\ SlotOfRow(calls'[c].seen) = calls'[c].input.slot,
         calls'[c].op = "apply" => Says(calls'[c].candidates) = Says(calls'[c].shown)
  PROVE  ReadInv'
<1>1. Past'
  <2>1. Past /\ Grown(atoms, atoms')
    BY DEF ReadInv, Grown
  <2>2. ASSUME NEW p, WasRead(p)'
        PROVE  WasRead(p) \/ (Exists(p[1]) /\ p[2] = atoms[p[1]])
    <3>1. CASE \E d \in Callers : p \in ReadingsOf(calls'[d])
      BY <3>1 DEF WasRead
    <3>2. CASE \E entry \in EntriesIn(cache') : p \in entry.shown
      BY <3>2 DEF WasRead
    <3> QED
      BY <2>2, <3>1, <3>2 DEF WasRead
  <2> QED
    BY <2>1, <2>2, PastKept, Zenon
<1>2. KeysFit'
  BY DEF ReadInv, KeysFit
<1>3. ReplacesOfSlot' /\ CachedDecisionFitsCandidates'
  BY OthersKept DEF ReadInv
<1> QED
  BY <1>1, <1>2, <1>3 DEF ReadInv

\* A step that leaves the calls alone, or drops readings and decisions.
LEMMA ReadAround ==
  ASSUME TypeInv, TypeInv', ReadInv, Grown(atoms, atoms'),
         calls' = calls \/ \A c \in Callers : calls'[c] = Idle,
         EntriesIn(cache') \subseteq EntriesIn(cache)
  PROVE  ReadInv'
<1>1. \A c \in Callers : calls'[c] = calls[c] \/ calls'[c].op = "idle"
  BY DEF Idle
<1>2. \A c \in Callers : ReadingsOf(calls'[c]) \subseteq ReadingsOf(calls[c])
  BY <1>1 DEF ReadingsOf
<1>3. \A p : WasRead(p)' => WasRead(p)
  BY <1>2 DEF WasRead
<1>4. Past'
  <2>1. Past
    BY DEF ReadInv
  <2>2. \A p \in Ids \X Rows : WasRead(p)' => WasRead(p) \/ (Exists(p[1]) /\ p[2] = atoms[p[1]])
    BY <1>3, Zenon
  <2> QED
    BY <2>1, <2>2, PastKept, Zenon
<1>5. KeysFit'
  BY DEF ReadInv, KeysFit
<1>6. ReplacesOfSlot' /\ CachedDecisionFitsCandidates'
  BY <1>1 DEF ReadInv, ReplacesOfSlot, CachedDecisionFitsCandidates
<1> QED
  BY <1>4, <1>5, <1>6 DEF ReadInv

LEMMA ReadsBegin ==
  ASSUME TypeInv, TypeInv', ReadInv, NEW c \in Callers, NEW in \in deployment.inputs,
         NEW slot \in Slots \cup {NoSlot}, NEW found \in SUBSET Ids,
         RememberBegin(c, in[1], in[2], slot, found)
  PROVE  ReadInv'
<1>1. BeginsWith(c, in[1], in[2], slot, found)
  BY CallInputs, BeginSteps
<1>2. /\ \A d \in Callers \ {c} : calls'[d] = calls[d]
      /\ calls'[c].op \in {"replace", "search"}
      /\ calls'[c].input.slot = slot
      /\ calls'[c].op = "replace" =>
           /\ slot # NoSlot /\ calls'[c].old \in found /\ found \subseteq Values(slot)
           /\ calls'[c].seen = atoms[calls'[c].old]
  BY <1>1 DEF BeginsWith
<1>3. \A i \in Values(slot) : i \in Ids /\ Exists(i) /\ SlotOfRow(atoms[i]) = slot
  BY ExistingRows, TypesOf DEF Values
<1>4. \A p \in ReadingsOf(calls'[c]) : Exists(p[1]) /\ p[2] = atoms[p[1]]
  BY <1>2, <1>3 DEF ReadingsOf
<1>5. calls'[c].op = "replace" =>
        calls'[c].input.slot # NoSlot /\ SlotOfRow(calls'[c].seen) = calls'[c].input.slot
  BY <1>2, <1>3
<1>6. atoms' = atoms /\ cache' = cache /\ calls'[c].op # "apply"
  BY <1>2 DEF RememberBegin
<1> QED
  BY <1>2, <1>4, <1>5, <1>6, ReadByCall

LEMMA ReadsAsked ==
  ASSUME TypeInv, TypeInv', ReadInv, NEW c \in Callers, Ask(c)
  PROVE  ReadInv'
<1>1. /\ Steps(c, {}) /\ calls'[c].op = "ask"
      /\ calls'[c].candidates = ReadOf(Found(calls[c].input.text))
  BY AskSteps
<1>2. \A p \in ReadOf(Found(calls[c].input.text)) : Exists(p[1]) /\ p[2] = atoms[p[1]]
  BY CandidatesFit, TypesOf
<1>3. \A p \in ReadingsOf(calls'[c]) : Exists(p[1]) /\ p[2] = atoms[p[1]]
  BY <1>1, <1>2 DEF ReadingsOf
<1>4. atoms' = atoms /\ cache' = cache /\ \A d \in Callers \ {c} : calls'[d] = calls[d]
  BY <1>1 DEF Ask, Steps
<1> QED
  BY <1>1, <1>3, <1>4, ReadByCall

LEMMA ReadsAnswered ==
  ASSUME TypeInv, TypeInv', ReadInv, NEW c \in Callers, NEW plan \in Plans, ModelAnswers(c, plan)
  PROVE  ReadInv'
<1>1. /\ Steps(c, {}) /\ NoReading(calls'[c])
      /\ calls'[c].op = "apply" => calls'[c].candidates = calls'[c].shown
  BY AnswerSteps
<1>2. calls[c] \in Asking /\ calls[c].op = "ask"
  BY TypesOf, KindsOfCalls DEF ModelAnswers
<1>3. PICK entry : entry = [key |-> Key(calls[c].input.text, calls[c].candidates), plan |-> plan,
                            shown |-> calls[c].candidates]
  OBVIOUS
<1>4. entry \in Entries
  <2>1. calls[c].input.text \in Contents /\ calls[c].candidates \subseteq Ids \X Rows
    BY <1>2 DEF Asking, Inputs, Candidates
  <2>2. Key(calls[c].input.text, calls[c].candidates) \in Keys
    BY <2>1, RowFields DEF Key, Keys
  <2> QED
    BY <1>3, <2>1, <2>2 DEF Entries, Candidates
<1>5. entry.key = Key(entry.key.text, entry.shown) /\ \A p \in entry.shown : WasRead(p)
  BY <1>2, <1>3 DEF Key, WasRead, ReadingsOf
<1>6. \A e \in EntriesIn(cache') : e \in EntriesIn(cache) \/ e = entry
  <2>1. cache' = Remembered(entry)
    BY <1>3 DEF ModelAnswers
  <2>2. cache' \in Seq(EntriesIn(cache) \cup {entry})
    BY <1>4, <2>1, RememberedFits, TypesOf
  <2> QED
    BY <2>2 DEF EntriesIn
<1>7. /\ \A p \in ReadingsOf(calls'[c]) : Exists(p[1]) /\ p[2] = atoms[p[1]]
      /\ calls'[c].op # "replace"
  BY <1>1 DEF NoReading, ReadingsOf
<1>8. atoms' = atoms /\ \A d \in Callers \ {c} : calls'[d] = calls[d]
  BY <1>1 DEF ModelAnswers, Steps
<1> QED
  BY <1>1, <1>5, <1>6, <1>7, <1>8, ReadByCall

LEMMA ReadCallStep ==
  ASSUME TypeInv, TypeInv', ReadInv, NEW c \in Callers, CallStep(c)
  PROVE  ReadInv'
<1>1. Grown(atoms, atoms)
  BY DEF Grown
<1>2. ASSUME NEW in \in deployment.inputs, NEW slot \in Slots \cup {NoSlot}, NEW found \in SUBSET Ids,
             RememberBegin(c, in[1], in[2], slot, found)
      PROVE  ReadInv'
  BY <1>2, ReadsBegin
<1>3. ASSUME NEW i \in Ids, ReplaceCommit(c, i)
      PROVE  ReadInv'
  <2>1. Grown(atoms, atoms') /\ Steps(c, {}) /\ calls'[c] = Idle /\ cache' = cache
    BY <1>3, ReplaceWrites DEF ReplaceCommit
  <2> QED
    BY <2>1, ReadMoved DEF NoReading, Idle
<1>4. ASSUME NEW more, calls[c].op = "apply", Applied(c, more), more \in SUBSET Ids,
             Grown(atoms, atoms'), cache' = cache
      PROVE  ReadInv'
  <2>1. /\ Steps(c, more) /\ NoReading(calls'[c])
        /\ calls'[c].op = "apply" => /\ calls'[c].candidates = calls[c].candidates
                                     /\ calls'[c].shown = calls[c].shown
    BY <1>4, AppliedSteps
  <2>2. calls'[c].op = "apply" => Says(calls'[c].candidates) = Says(calls'[c].shown)
    BY <1>4, <2>1 DEF ReadInv, CachedDecisionFitsCandidates, Says
  <2> QED
    BY <1>4, <2>1, <2>2, ReadMoved
<1>5. ASSUME NEW i \in Ids, ApplySupersede(c, i)
      PROVE  ReadInv'
  BY <1>4, <1>5, SupersedeWrites DEF ApplySupersede
<1>6. ASSUME NEW i \in Ids, ApplyCreate(c, i)
      PROVE  ReadInv'
  BY <1>4, <1>6, CreateWrites DEF ApplyCreate
<1>7. CASE DecideByRule(c)
  <2>1. /\ Steps(c, {}) /\ NoReading(calls'[c])
        /\ calls'[c].op = "apply" => calls'[c].candidates = calls'[c].shown
    BY <1>7, RuleSteps
  <2> QED
    BY <1>1, <1>7, <2>1, ReadMoved DEF DecideByRule
<1>8. CASE Ask(c)
  BY <1>8, ReadsAsked
<1>9. CASE ModelFails(c)
  <2>1. /\ Steps(c, {}) /\ NoReading(calls'[c])
        /\ calls'[c].op = "apply" => calls'[c].candidates = calls'[c].shown
    BY <1>9, FailSteps
  <2> QED
    BY <1>1, <1>9, <2>1, ReadMoved DEF ModelFails
<1>10. ASSUME NEW n \in DOMAIN cache, DecideFromCache(c, n)
       PROVE  ReadInv'
  <2>1. /\ Steps(c, {}) /\ NoReading(calls'[c])
        /\ calls'[c].op = "apply" =>
             /\ calls'[c].candidates = ReadOf(Found(calls[c].input.text))
             /\ calls'[c].shown = cache[n].shown
    BY <1>10, CacheSteps
  <2>2. PICK entry \in EntriesIn(cache) : entry = cache[n]
    BY <1>10 DEF EntriesIn
  <2>3. PICK text : text = calls[c].input.text
    OBVIOUS
  <2>4. PICK candidates : candidates = ReadOf(Found(text))
    OBVIOUS
  <2>5. entry.key = Key(text, candidates) /\ atoms' = atoms /\ cache' = cache
    BY <1>10, <2>2, <2>3, <2>4 DEF DecideFromCache
  <2>6. Says(candidates) = Says(entry.shown)
    BY <2>4, <2>5, SameVersionsSaySame
  <2>7. calls'[c].op = "apply" => Says(calls'[c].candidates) = Says(calls'[c].shown)
    BY <2>1, <2>2, <2>3, <2>4, <2>6
  <2> QED
    BY <1>1, <2>1, <2>5, <2>7, ReadMoved
<1>11. ASSUME NEW plan \in Plans, ModelAnswers(c, plan)
       PROVE  ReadInv'
  BY <1>11, ReadsAnswered
<1>12. CASE ApplySkip(c)
  BY <1>1, <1>4, <1>12 DEF ApplySkip
<1>13. CASE ApplyRetire(c)
  <2>1. /\ calls[c].op = "apply" /\ Applied(c, {}) /\ cache' = cache /\ Grown(atoms, atoms')
    BY <1>13, RetireWrites DEF ApplyRetire
  <2> QED
    BY <1>4, <1>13, <2>1 DEF ApplyRetire
<1>14. ASSUME NEW i \in Ids, AnnotateRead(c, i)
       PROVE  ReadInv'
  <2>1. Steps(c, {}) /\ NoReading(calls'[c]) /\ calls'[c].op # "apply"
    BY <1>14, AnnotateReadSteps
  <2> QED
    BY <1>1, <1>14, <2>1, ReadMoved DEF AnnotateRead
<1>15. ASSUME NEW i \in Ids, AnnotateWrite(c, i)
       PROVE  ReadInv'
  <2>1. /\ calls[c].op = "annotate" /\ AnnotationEnds(c, i) /\ cache' = cache
        /\ Grown(atoms, atoms')
    BY <1>15, AnnotateWrites DEF AnnotateWrite
  <2>2. Steps(c, {}) /\ NoReading(calls'[c]) /\ calls'[c].op # "apply"
    BY <2>1, AnnotationEndSteps
  <2> QED
    BY <2>1, <2>2, ReadMoved
<1>16. ASSUME NEW i \in Ids, AnnotateFails(c, i)
       PROVE  ReadInv'
  <2>1. calls[c].op = "annotate" /\ AnnotationEnds(c, i) /\ cache' = cache /\ atoms' = atoms
    BY <1>16 DEF AnnotateFails
  <2>2. Steps(c, {}) /\ NoReading(calls'[c]) /\ calls'[c].op # "apply"
    BY <2>1, AnnotationEndSteps
  <2> QED
    BY <1>1, <2>1, <2>2, ReadMoved
<1>17. CASE CallEnds(c)
  <2>1. Steps(c, {}) /\ calls'[c] = Idle /\ atoms' = atoms /\ cache' = cache
    BY <1>17, EndSteps DEF CallEnds
  <2> QED
    BY <1>1, <2>1, ReadMoved DEF NoReading, Idle
<1> QED
  BY <1>2, <1>3, <1>5, <1>6, <1>7, <1>8, <1>9, <1>10, <1>11, <1>12, <1>13, <1>14, <1>15, <1>16,
     <1>17 DEF CallStep

LEMMA ReadStep ==
  ASSUME TypeInv, TypeInv', ReadInv, [Next]_vars
  PROVE  ReadInv'
<1>1. /\ Grown(atoms, atoms) /\ EntriesIn(cache) \subseteq EntriesIn(cache)
  BY DEF Grown
<1>2. ASSUME NEW c \in Callers, CallStep(c)
      PROVE  ReadInv'
  BY <1>2, ReadCallStep
<1>3. ASSUME NEW i \in Ids, NEW content \in Contents, MemoryUpdate(i, content)
      PROVE  ReadInv'
  BY <1>1, <1>3, UpdateWrites, ReadAround DEF MemoryUpdate
<1>4. ASSUME NEW i \in Ids, MemoryForget(i)
      PROVE  ReadInv'
  <2>1. Grown(atoms, atoms')
    BY <1>4, StatusWrites DEF MemoryForget, Statuses
  <2> QED
    BY <1>1, <1>4, <2>1, ReadAround DEF MemoryForget
<1>5. ASSUME NEW i \in Ids, MemoryRestore(i)
      PROVE  ReadInv'
  <2>1. Grown(atoms, atoms')
    BY <1>5, StatusWrites DEF MemoryRestore, Statuses
  <2> QED
    BY <1>1, <1>5, <2>1, ReadAround DEF MemoryRestore
<1>6. CASE NewDay
  BY <1>1, <1>6, ReadAround DEF NewDay
<1>7. ASSUME NEW n \in DOMAIN cache, CacheExpire(n)
      PROVE  ReadInv'
  <2>1. cache' \in Seq(EntriesIn(cache))
    BY <1>7, ExpiredFits, TypesOf
  <2>2. EntriesIn(cache') \subseteq EntriesIn(cache)
    BY <2>1 DEF EntriesIn
  <2> QED
    BY <1>1, <1>7, <2>2, ReadAround DEF CacheExpire
<1>8. CASE Restart
  <2>1. EntriesIn(cache') \subseteq EntriesIn(cache)
    BY <1>8 DEF Restart, EntriesIn
  <2>2. \A c \in Callers : calls'[c] = Idle
    BY <1>8 DEF Restart
  <2> QED
    BY <1>1, <1>8, <2>1, <2>2, ReadAround DEF Restart
<1>9. CASE UNCHANGED vars
  BY <1>1, <1>9, ReadAround DEF vars
<1> QED
  BY <1>2, <1>3, <1>4, <1>5, <1>6, <1>7, <1>8, <1>9 DEF Next

LEMMA ReadInit == Init => ReadInv
<1> SUFFICES ASSUME Init
             PROVE  ReadInv
  OBVIOUS
<1>1. \A c \in Callers : calls[c].op = "idle" /\ ReadingsOf(calls[c]) = {}
  BY DEF Init, Idle, ReadingsOf
<1>2. EntriesIn(cache) = {}
  BY DEF Init, EntriesIn
<1> QED
  BY <1>1, <1>2
     DEF ReadInv, Past, WasRead, KeysFit, ReplacesOfSlot, CachedDecisionFitsCandidates

\* What a call goes by was read of atoms that are unchanged or have a higher
\* version since, decisions are cached under the versions they were made for,
\* and a value to be replaced was read as one of the slot.
THEOREM ReadingsInvariant == Spec => [](TypeInv /\ ReadInv)
<1>1. Init => TypeInv /\ ReadInv
  BY TypesInit, ReadInit
<1>2. TypeInv /\ ReadInv /\ [Next]_vars => (TypeInv /\ ReadInv)'
  BY TypesStep, ReadStep
<1> QED
  BY <1>1, <1>2, PTL DEF Spec

\* A decision taken from the cache was made for candidates that say the same:
\* an atom changed in between has a version that the key does not hold.
THEOREM CachedDecisionsFit == Spec => []CachedDecisionFitsCandidates
<1>1. TypeInv /\ ReadInv => CachedDecisionFitsCandidates
  BY DEF ReadInv
<1> QED
  BY <1>1, ReadingsInvariant, PTL

\* Unless the atom changed after it was read, the atom that gives way to a new
\* value is a value of the call's slot, whatever was done to it before.
THEOREM ReplacesOnlyItsSlotHolds == Spec => ReplacesOnlyItsSlot
<1>1. TypeInv /\ ReadInv /\ [Next]_vars
        => [\A c \in Callers, i \in Ids :
              LET call == calls[c]
              IN  ReplaceCommit(c, i) /\ atoms[call.old].version = call.seen.version
                    => SlotOfRow(atoms[call.old]) = call.input.slot]_vars
  <2> SUFFICES ASSUME TypeInv, ReadInv, NEW c \in Callers, NEW i \in Ids, ReplaceCommit(c, i),
                      atoms[calls[c].old].version = calls[c].seen.version
               PROVE  SlotOfRow(atoms[calls[c].old]) = calls[c].input.slot
    OBVIOUS
  <2>1. calls[c] \in Replacing /\ calls[c].op = "replace"
    BY ReplaceWrites
  <2>2. PICK old \in Ids, seen \in Rows : old = calls[c].old /\ seen = calls[c].seen
    BY <2>1 DEF Replacing
  <2>3. WasRead(<<old, seen>>)
    BY <2>1, <2>2 DEF WasRead, ReadingsOf
  <2>4. seen = atoms[old] \/ atoms[old].version > seen.version
    BY <2>2, <2>3 DEF ReadInv, Past
  <2>5. seen.version \in Nat
    BY RowFields
  <2>6. seen = atoms[old]
    BY <2>2, <2>4, <2>5
  <2> QED
    BY <2>1, <2>2, <2>6 DEF ReadInv, ReplacesOfSlot
<1> QED
  BY <1>1, ReadingsInvariant, PTL DEF Spec, ReplacesOnlyItsSlot

----------------------------------------------------------------------------
(* One value per slot *)

\* A call's slot is one of those its input belongs to; if its tags name others,
\* these count as disturbed.
InputsFit ==
  \A c \in Callers : calls[c] # Idle =>
    /\ calls[c].input.slot \in SlotsOfCall(calls[c].input.text, calls[c].input.tags)
    /\ calls[c].input.tags \subseteq {calls[c].input.slot} \/ calls[c].input.tags \subseteq disturbed

AnnotatesSlots == \A c \in Callers : calls[c].op = "annotate" => calls[c].input.slot # NoSlot

\* A call on whose slot one value can be counted
Undisturbed(c) == calls[c] # Idle /\ calls[c].input.slot \in Slots \ disturbed

\* It runs by itself,
Alone == \A c \in Callers : Undisturbed(c) => \A d \in Callers \ {c} : calls[d] = Idle

\* and apart from the value it is about to replace, the values of its slot and
\* what it holds in hand say just what its text says.
OnlyTheText ==
  \A c \in Callers : Undisturbed(c) =>
    IF calls[c].op = "replace" THEN Values(calls[c].input.slot) \subseteq {calls[c].old}
    ELSE Values(calls[c].input.slot) \cup InHand(calls[c]) \subseteq Holders(calls[c].input.text)

\* A content is that of one atom.
NoTwins == \A i, j \in Ids : Exists(i) /\ Exists(j) /\ atoms[i].content = atoms[j].content => i = j

SlotInv == InputsFit /\ AnnotatesSlots /\ Alone /\ OnlyTheText /\ NoTwins /\ OneValuePerSlot

\* What is left to show of a step of one call
LEMMA SlotMoved ==
  ASSUME TypeInv, SlotInv, NEW c \in Callers, NEW more, Steps(c, more), disturbed \subseteq disturbed',
         NoTwins', OneValuePerSlot',
         \A slot, text :
           /\ calls'[c] # Idle /\ Undisturbed(c) /\ slot \notin disturbed'
           /\ slot = calls[c].input.slot /\ text = calls[c].input.text
           => Values(slot)' \cup InHand(calls[c]) \cup more \subseteq Holders(text)'
  PROVE  SlotInv'
<1>1. /\ \A d \in Callers \ {c} : calls'[d] = calls[d]
      /\ calls[c] # Idle
      /\ calls'[c].op = "annotate" => calls[c].op = "annotate" \/ calls'[c].input.slot # NoSlot
      /\ calls'[c] # Idle => /\ calls'[c].op # "replace" /\ calls'[c].input = calls[c].input
                             /\ InHand(calls'[c]) \subseteq InHand(calls[c]) \cup more
  BY DEF Steps, Moved
<1>2. InputsFit'
  BY <1>1 DEF SlotInv, InputsFit
<1>3. AnnotatesSlots'
  <2>1. calls'[c].op = "annotate" => calls'[c] # Idle
    BY DEF Idle
  <2> QED
    BY <1>1, <2>1 DEF SlotInv, AnnotatesSlots
<1>4. ASSUME NEW d \in Callers, Undisturbed(d)'
      PROVE  /\ d = c /\ Undisturbed(c) /\ calls[c].input.slot \notin disturbed'
             /\ \A e \in Callers \ {c} : calls[e] = Idle
  <2>1. calls'[d] # Idle /\ calls'[d].input.slot \in Slots \ disturbed'
    BY <1>4 DEF Undisturbed
  <2>2. calls'[d].input = calls[d].input /\ calls[d] # Idle
    BY <1>1, <2>1
  <2>3. Undisturbed(d) /\ calls[d].input.slot \notin disturbed'
    BY <2>1, <2>2 DEF Undisturbed
  <2> QED
    BY <1>1, <2>3 DEF SlotInv, Alone
<1>5. Alone'
  BY <1>1, <1>4 DEF Alone
<1>6. OnlyTheText'
  <2> SUFFICES ASSUME NEW d \in Callers, Undisturbed(d)',
                      NEW slot, NEW text, slot = calls'[d].input.slot, text = calls'[d].input.text
               PROVE  /\ calls'[d].op # "replace"
                      /\ Values(slot)' \cup InHand(calls'[d]) \subseteq Holders(text)'
    BY DEF OnlyTheText
  <2>1. /\ d = c /\ Undisturbed(c) /\ calls[c].input.slot \notin disturbed' /\ calls'[c] # Idle
    BY <1>4 DEF Undisturbed
  <2> QED
    BY <1>1, <2>1
<1> QED
  BY <1>2, <1>3, <1>5, <1>6 DEF SlotInv

\* A step that touches no atom and marks no slot
LEMMA SlotQuiet ==
  ASSUME TypeInv, SlotInv, NEW c \in Callers, Steps(c, {}), atoms' = atoms, disturbed' = disturbed,
         calls[c].op # "replace" \/ calls'[c] = Idle
  PROVE  SlotInv'
<1>1. NoTwins' /\ OneValuePerSlot'
  BY DEF SlotInv, NoTwins, OneValuePerSlot, Exists, Values, Active
<1>2. \A slot : Values(slot)' = Values(slot)
  BY DEF Values, Active
<1>3. \A text : Holders(text)' = Holders(text)
  BY DEF Holders, Exists
<1>4. calls'[c] # Idle /\ Undisturbed(c) =>
        Values(calls[c].input.slot) \cup InHand(calls[c]) \subseteq Holders(calls[c].input.text)
  BY DEF SlotInv, OnlyTheText
<1> QED
  BY <1>1, <1>2, <1>3, <1>4, SlotMoved

\* What a write makes of the holders of a content and the values of a slot
LEMMA StoresKeepApart ==
  ASSUME NoTwins, NEW i \in Ids, NEW content, NEW tags, NEW slot, NEW old \in SUBSET Ids,
         Stores(i, content, tags, slot, old)
  PROVE  /\ NoTwins'
         /\ \A text : Holders(text) \subseteq Holders(text)'
         /\ i \in Holders(content)' /\ Holders(content) \subseteq {i}
         /\ \A s : Values(s)' \subseteq (Values(s) \ old) \cup {i}
<1>1. atoms'[i].status \in Statuses /\ atoms'[i].content = content
  BY RowFields DEF Stores
<1>2. ASSUME NEW j \in Ids \ {i}
      PROVE  /\ atoms'[j].status \in Statuses <=> atoms[j].status \in Statuses
             /\ atoms'[j].content = atoms[j].content
             /\ j \in old => atoms'[j].status = "superseded"
             /\ j \notin old => atoms'[j] = atoms[j]
  <2>1. CASE j \in old
    <3>1. /\ atoms[j] \in Rows /\ atoms'[j] \in Rows
          /\ atoms'[j].status = "superseded" /\ atoms'[j].content = atoms[j].content
      BY <2>1 DEF Stores
    <3> QED
      BY <2>1, <3>1, RowFields
  <2>2. CASE j \notin old
    BY <2>2 DEF Stores
  <2> QED
    BY <2>1, <2>2
<1>3. i \notin old
  BY DEF Stores
<1>4. Exists(i) => atoms[i].content = content
  BY DEF Stores
<1>5. Holders(content) \subseteq {i}
  <2>1. CASE Exists(i)
    BY <1>4, <2>1 DEF Holders, NoTwins
  <2>2. CASE ~Exists(i)
    BY <2>2 DEF Stores
  <2> QED
    BY <2>1, <2>2
<1>6. NoTwins'
  <2> SUFFICES ASSUME NEW j \in Ids, NEW k \in Ids, atoms'[j].status \in Statuses,
                      atoms'[k].status \in Statuses, atoms'[j].content = atoms'[k].content, j # k
               PROVE  FALSE
    BY DEF NoTwins, Exists
  <2>1. CASE j # i /\ k # i
    BY <1>2, <2>1 DEF NoTwins, Exists
  <2>2. CASE j = i
    BY <1>1, <1>2, <1>5, <2>2 DEF Holders, Exists
  <2>3. CASE k = i
    BY <1>1, <1>2, <1>5, <2>3 DEF Holders, Exists
  <2> QED
    BY <2>1, <2>2, <2>3
<1>7. \A text : Holders(text) \subseteq Holders(text)'
  BY <1>1, <1>2, <1>4 DEF Holders, Exists
<1>8. i \in Holders(content)'
  BY <1>1 DEF Holders, Exists
<1>9. \A s : Values(s)' \subseteq (Values(s) \ old) \cup {i}
  <2> SUFFICES ASSUME NEW s, NEW j \in Ids \ {i}, atoms'[j].status = "active",
                      SlotOfRow(atoms'[j]) = s
               PROVE  j \in Values(s) \ old
    BY DEF Values, Active
  <2>1. j \notin old /\ atoms'[j] = atoms[j]
    BY <1>2
  <2> QED
    BY <2>1 DEF Values, Active
<1> QED
  BY <1>5, <1>6, <1>7, <1>8, <1>9

\* The slot of an atom that takes up a call's text and tags: the one it had,
\* the call's, or one that the call's tags name besides.
LEMMA SlotOfStored ==
  ASSUME TypeInv, SlotInv, NEW c \in Callers, calls[c] # Idle, NEW i \in Ids, NEW old,
         Stores(i, calls[c].input.text, calls[c].input.tags, NoSlot, old),
         NEW s \in Slots \ disturbed, SlotOfRow(atoms'[i]) = s
  PROVE  s = calls[c].input.slot \/ (Exists(i) /\ SlotOfRow(atoms[i]) = s)
<1>1. PICK text \in Contents, tags \in SUBSET ExplicitSlots :
        text = calls[c].input.text /\ tags = calls[c].input.tags
  BY CallSlots DEF Inputs
<1>2. PICK slot \in Slots \cup {NoSlot} : slot = calls[c].input.slot
  BY CallSlots
<1>3. /\ slot \in SlotsOfCall(text, tags)
      /\ tags \subseteq {slot} \/ tags \subseteq disturbed
  BY <1>1, <1>2 DEF SlotInv, InputsFit
<1>4. tags # {} => FirstTag(tags) \in tags
  BY FirstOfTags
<1>5. tags # {} => FirstTag(tags) = slot \/ FirstTag(tags) \in disturbed
  BY <1>3, <1>4
<1>6. PICK row \in Rows : row = atoms'[i]
  BY DEF Stores
<1>7. row.content = text /\ SlotOfRow(row) = s /\ NoSlot \notin Slots
  BY <1>1, <1>6, SlotAssumption DEF Stores
<1>8. CASE ~Exists(i)
  <2>1. row.tags = tags /\ row.slot = NoSlot
    BY <1>1, <1>6, <1>8 DEF Stores
  <2>2. s = InferSlot(text, tags)
    BY <1>7, <2>1 DEF SlotOfRow
  <2>3. CASE tags = {}
    BY <1>2, <1>3, <2>2, <2>3 DEF InferSlot, SlotsOfCall
  <2>4. CASE tags # {}
    BY <1>2, <1>5, <2>2, <2>4 DEF InferSlot
  <2> QED
    BY <2>3, <2>4
<1>9. CASE Exists(i)
  <2>1. /\ atoms[i] \in Rows /\ atoms[i].content = text
        /\ row.tags = atoms[i].tags \cup tags /\ row.slot = atoms[i].slot
    BY <1>1, <1>6, <1>9 DEF Stores
  <2>2. PICK before \in Rows : before = atoms[i]
    BY <2>1
  <2>3. CASE before.slot # NoSlot
    BY <1>7, <1>9, <2>1, <2>2, <2>3 DEF SlotOfRow
  <2>4. CASE before.slot = NoSlot
    <3>1. /\ s = InferSlot(text, before.tags \cup tags)
          /\ SlotOfRow(before) = InferSlot(text, before.tags)
          /\ before.tags \in SUBSET ExplicitSlots
      BY <1>7, <2>1, <2>2, <2>4, RowFields DEF SlotOfRow
    <3>2. CASE tags = {}
      <4>1. before.tags \cup tags = before.tags
        BY <3>2
      <4> QED
        BY <1>9, <2>2, <3>1, <4>1
    <3>3. CASE tags # {} /\ before.tags = {}
      <4>1. before.tags \cup tags = tags
        BY <3>3
      <4>2. s = FirstTag(tags)
        BY <3>1, <3>3, <4>1 DEF InferSlot
      <4> QED
        BY <1>2, <1>5, <3>3, <4>2
    <3>4. CASE tags # {} /\ before.tags # {}
      <4>1. s = FirstTag(before.tags \cup tags) /\ SlotOfRow(before) = FirstTag(before.tags)
        BY <3>1, <3>4 DEF InferSlot
      <4>2. s \in {FirstTag(before.tags), FirstTag(tags)}
        BY <3>1, <3>4, <4>1, FirstOfUnion
      <4> QED
        BY <1>2, <1>5, <1>9, <2>2, <3>4, <4>1, <4>2
    <3> QED
      BY <3>2, <3>3, <3>4
  <2> QED
    BY <2>3, <2>4
<1> QED
  BY <1>8, <1>9

LEMMA SlotStored ==
  ASSUME TypeInv, SlotInv, NEW c \in Callers, calls[c].op = "apply", NEW i \in Ids, Steps(c, {i}),
         NEW content \in Contents, NEW old \in SUBSET Ids,
         Stores(i, content, calls[c].input.tags, NoSlot, old),
         disturbed' = disturbed \cup DisturbedByStoring(c, atoms'[i])
  PROVE  SlotInv'
<1>1. /\ NoTwins'
      /\ \A text : Holders(text) \subseteq Holders(text)'
      /\ i \in Holders(content)' /\ Holders(content) \subseteq {i}
      /\ \A s : Values(s)' \subseteq (Values(s) \ old) \cup {i}
  BY StoresKeepApart DEF SlotInv
<1>2. \A s : i \in Values(s)' <=> atoms'[i].status = "active" /\ SlotOfRow(atoms'[i]) = s
  BY DEF Values, Active
<1>3. \A s \in Slots \ disturbed : \A j, k \in Values(s) : j = k
  BY DEF SlotInv, OneValuePerSlot
<1>4. disturbed \subseteq disturbed' /\ calls[c] # Idle /\ calls[c].input.slot \in Slots \cup {NoSlot}
  BY CallSlots DEF Idle
<1>5. Undisturbed(c) =>
        Values(calls[c].input.slot) \cup InHand(calls[c]) \subseteq Holders(calls[c].input.text)
  BY DEF SlotInv, OnlyTheText
<1>6. CASE content = calls[c].input.text
  <2>1. disturbed' = disturbed
    BY <1>6 DEF DisturbedByStoring, Stores
  <2>2. ASSUME NEW s \in Slots \ disturbed', NEW j \in Values(s)', NEW k \in Values(s)'
        PROVE  j = k
    <3>1. CASE i \notin Values(s)'
      BY <1>1, <1>3, <2>1, <3>1
    <3>2. CASE i \in Values(s)'
      <4>1. s = calls[c].input.slot \/ (Exists(i) /\ SlotOfRow(atoms[i]) = s)
        BY <1>2, <1>4, <1>6, <2>1, <3>2, SlotOfStored
      <4>2. CASE s = calls[c].input.slot
        <5>1. Values(s) \subseteq {i}
          BY <1>1, <1>4, <1>5, <1>6, <2>1, <4>2 DEF Undisturbed
        <5> QED
          BY <1>1, <5>1
      <4>3. CASE Exists(i) /\ SlotOfRow(atoms[i]) = s
        <5>1. atoms[i].status = "active"
          BY <1>2, <3>2, <4>3 DEF Stores
        <5>2. i \in Values(s)
          BY <4>3, <5>1 DEF Values, Active
        <5> QED
          BY <1>1, <1>3, <2>1, <5>2
      <4> QED
        BY <4>1, <4>2, <4>3
    <3> QED
      BY <3>1, <3>2
  <2>3. OneValuePerSlot'
    BY <2>2 DEF OneValuePerSlot
  <2>4. ASSUME NEW slot, NEW text, Undisturbed(c),
               slot = calls[c].input.slot, text = calls[c].input.text
        PROVE  Values(slot)' \cup InHand(calls[c]) \cup {i} \subseteq Holders(text)'
    <3>1. Values(slot) \cup InHand(calls[c]) \subseteq Holders(text) /\ text = content
      BY <1>5, <1>6, <2>4
    <3> QED
      BY <1>1, <3>1
  <2> QED
    BY <1>1, <1>4, <2>3, <2>4, SlotMoved
<1>7. CASE content # calls[c].input.text
  <2>1. disturbed' = disturbed \cup Named({SlotOfRow(atoms'[i]), calls[c].input.slot})
    BY <1>7 DEF DisturbedByStoring, Stores
  <2>2. NoSlot \notin Slots
    BY SlotAssumption
  <2>3. \A s \in Slots \ disturbed' : i \notin Values(s)'
    BY <1>2, <2>1, <2>2 DEF Named
  <2>4. OneValuePerSlot'
    <3>1. \A s \in Slots \ disturbed' : \A j, k \in Values(s)' : j = k
      BY <1>1, <1>3, <1>4, <2>3
    <3> QED
      BY <3>1 DEF OneValuePerSlot
  <2>5. Undisturbed(c) => calls[c].input.slot \in disturbed'
    BY <2>1, <2>2 DEF Named, Undisturbed
  <2> QED
    BY <1>1, <1>4, <2>4, <2>5, SlotMoved
<1> QED
  BY <1>6, <1>7

LEMMA SlotReplaced ==
  ASSUME TypeInv, ReadInv, SlotInv, NEW c \in Callers, NEW i \in Ids, ReplaceCommit(c, i)
  PROVE  SlotInv'
<1>1. PICK old \in Ids : old = calls[c].old
  BY ReplaceWrites DEF Replacing
<1> DEFINE text == calls[c].input.text
           tags == calls[c].seen.tags \cup calls[c].input.tags
           slot == calls[c].input.slot
<1>2. /\ Stores(i, text, tags, slot, {old}) /\ Steps(c, {}) /\ calls'[c] = Idle
      /\ calls[c].op = "replace" /\ disturbed' = disturbed
  BY <1>1, ReplaceWrites DEF ReplaceCommit
<1>3. slot # NoSlot
  BY <1>1, <1>2 DEF ReadInv, ReplacesOfSlot
<1>4. /\ NoTwins'
      /\ \A s : Values(s)' \subseteq (Values(s) \ {old}) \cup {i}
  BY <1>2, StoresKeepApart DEF SlotInv
<1>5. SlotOfRow(atoms'[i]) = slot
  <2>1. atoms'[i].slot = slot
    BY <1>2, <1>3 DEF Stores
  <2> QED
    BY <1>3, <2>1 DEF SlotOfRow
<1>6. \A s : i \in Values(s)' => s = slot
  BY <1>5 DEF Values, Active
<1>7. slot \in Slots \ disturbed => Values(slot) \subseteq {old}
  BY <1>1, <1>2, ReplaceWrites DEF SlotInv, OnlyTheText, Undisturbed, Steps
<1>8. \A s \in Slots \ disturbed : \A j, k \in Values(s) : j = k
  BY DEF SlotInv, OneValuePerSlot
<1>9. OneValuePerSlot'
  <2>1. \A s \in Slots \ disturbed' : \A j, k \in Values(s)' : j = k
    BY <1>2, <1>4, <1>6, <1>7, <1>8
  <2> QED
    BY <2>1 DEF OneValuePerSlot
<1> QED
  BY <1>2, <1>4, <1>9, SlotMoved

LEMMA RewritesKeepApart ==
  ASSUME NoTwins, NEW i \in Ids, NEW content, NEW status, NEW slot,
         Rewrites(i, content, status, slot), Exists(i), Holders(content) \subseteq {i}
  PROVE  /\ NoTwins'
         /\ \A text : Holders(text) \ {i} \subseteq Holders(text)'
         /\ content = atoms[i].content => \A text : Holders(text) \subseteq Holders(text)'
         /\ \A s : Values(s)' \subseteq Values(s) \cup {i}
<1>1. /\ atoms'[i].status \in Statuses /\ atoms'[i].content = content
      /\ \A j \in Ids \ {i} : atoms'[j] = atoms[j]
  BY RowFields DEF Rewrites
<1>2. NoTwins'
  BY <1>1 DEF NoTwins, Exists, Holders
<1>3. \A text : Holders(text) \ {i} \subseteq Holders(text)'
  BY <1>1 DEF Holders, Exists
<1>4. ASSUME content = atoms[i].content
      PROVE  \A text : Holders(text) \subseteq Holders(text)'
  BY <1>1, <1>4 DEF Holders, Exists
<1>5. \A s : Values(s)' \subseteq Values(s) \cup {i}
  BY <1>1 DEF Values, Active
<1> QED
  BY <1>2, <1>3, <1>4, <1>5

\* The only holder of what an atom says is that atom.
LEMMA OnlyHolder ==
  ASSUME NoTwins, NEW i \in Ids, Exists(i)
  PROVE  Holders(atoms[i].content) \subseteq {i}
BY DEF NoTwins, Holders

LEMMA SlotRetired ==
  ASSUME TypeInv, SlotInv, NEW c \in Callers, ApplyRetire(c)
  PROVE  SlotInv'
<1>1. /\ calls[c].op = "apply" /\ Applied(c, {}) /\ disturbed' = disturbed
  BY DEF ApplyRetire
<1>2. Steps(c, {})
  BY <1>1, AppliedSteps
<1>3. PICK i \in Ids, slot \in Slots \cup {NoSlot} :
        Exists(i) /\ Rewrites(i, atoms[i].content, "retired", slot)
  BY RetireWrites
<1>4. NoTwins /\ Holders(atoms[i].content) \subseteq {i}
  BY <1>3, OnlyHolder DEF SlotInv
<1>5. /\ NoTwins'
      /\ \A text : Holders(text) \subseteq Holders(text)'
      /\ \A s : Values(s)' \subseteq Values(s) \cup {i}
  BY <1>3, <1>4, RewritesKeepApart
<1>6. \A s : i \notin Values(s)'
  BY <1>3 DEF Values, Active, Rewrites
<1>7. OneValuePerSlot'
  <2>1. \A s \in Slots \ disturbed : \A j, k \in Values(s) : j = k
    BY DEF SlotInv, OneValuePerSlot
  <2>2. \A s \in Slots \ disturbed' : \A j, k \in Values(s)' : j = k
    BY <1>1, <1>5, <1>6, <2>1
  <2> QED
    BY <2>2 DEF OneValuePerSlot
<1>8. Undisturbed(c) =>
        Values(calls[c].input.slot) \cup InHand(calls[c]) \subseteq Holders(calls[c].input.text)
  BY <1>1 DEF SlotInv, OnlyTheText
<1>9. ASSUME NEW slot1, NEW text, Undisturbed(c),
             slot1 = calls[c].input.slot, text = calls[c].input.text
      PROVE  Values(slot1)' \cup InHand(calls[c]) \cup {} \subseteq Holders(text)'
  BY <1>5, <1>6, <1>8, <1>9
<1> QED
  BY <1>1, <1>2, <1>5, <1>7, <1>9, SlotMoved

LEMMA SlotAnnotated ==
  ASSUME TypeInv, SlotInv, NEW c \in Callers, NEW i \in Ids, AnnotateWrite(c, i)
  PROVE  SlotInv'
<1> DEFINE own == calls[c].input.slot
<1>1. /\ calls[c].op = "annotate" /\ i \in calls[c].checked /\ calls[c] # Idle
      /\ Exists(i) /\ Rewrites(i, atoms[i].content, atoms[i].status, own)
  BY AnnotateWrites
<1>2. AnnotationEnds(c, i) /\ disturbed' = disturbed
  BY DEF AnnotateWrite
<1>3. Steps(c, {})
  BY <1>1, <1>2, AnnotationEndSteps
<1>4. NoTwins /\ Holders(atoms[i].content) \subseteq {i}
  BY <1>1, OnlyHolder DEF SlotInv
<1>5. /\ NoTwins'
      /\ \A text : Holders(text) \subseteq Holders(text)'
      /\ \A s : Values(s)' \subseteq Values(s) \cup {i}
  BY <1>1, <1>4, RewritesKeepApart
<1>6. own # NoSlot /\ atoms'[i].slot = own
  BY <1>1 DEF SlotInv, AnnotatesSlots, Rewrites
<1>7. \A s : i \in Values(s)' => s = own
  BY <1>6 DEF Values, Active, SlotOfRow
<1>8. Undisturbed(c) => Values(own) \cup InHand(calls[c]) \subseteq Holders(calls[c].input.text)
  BY <1>1 DEF SlotInv, OnlyTheText
<1>9. Undisturbed(c) => i \in Holders(calls[c].input.text) /\ Values(own) \subseteq {i}
  <2>1. i \in InHand(calls[c])
    BY <1>1 DEF InHand
  <2>2. Undisturbed(c) => atoms[i].content = calls[c].input.text
    BY <1>8, <2>1 DEF Holders
  <2> QED
    BY <1>4, <1>8, <2>1, <2>2
<1>10. OneValuePerSlot'
  <2>1. \A s \in Slots \ disturbed : \A j, k \in Values(s) : j = k
    BY DEF SlotInv, OneValuePerSlot
  <2>2. own \in Slots \ disturbed => Values(own) \subseteq {i}
    BY <1>1, <1>9 DEF Undisturbed
  <2> HIDE DEF own
  <2>3. \A s \in Slots \ disturbed' : \A j, k \in Values(s)' : j = k
    BY <1>2, <1>5, <1>7, <2>1, <2>2
  <2> QED
    BY <2>3 DEF OneValuePerSlot
<1>11. ASSUME NEW slot, NEW text, Undisturbed(c),
              slot = calls[c].input.slot, text = calls[c].input.text
       PROVE  Values(slot)' \cup InHand(calls[c]) \cup {} \subseteq Holders(text)'
  BY <1>5, <1>8, <1>9, <1>11
<1> QED
  BY <1>2, <1>3, <1>5, <1>10, <1>11, SlotMoved

\* A write from outside the calls: it adds no value to a slot it does not mark,
\* and does not change what an atom says that a call goes by.
LEMMA SlotAround ==
  ASSUME SlotInv, calls' = calls, disturbed \subseteq disturbed',
         NEW i \in Ids, NEW content, NEW status, NEW slot,
         Rewrites(i, content, status, slot), Exists(i), Holders(content) \subseteq {i},
         \A s \in Slots \ disturbed' : i \in Values(s)' => i \in Values(s),
         \/ content = atoms[i].content
         \/ /\ \A s \in Slots \ disturbed' : i \notin Values(s)
            /\ \A c \in Callers : i \in InHand(calls[c]) => ~Undisturbed(c)'
  PROVE  SlotInv'
<1>1. /\ NoTwins'
      /\ \A text : Holders(text) \ {i} \subseteq Holders(text)'
      /\ content = atoms[i].content => \A text : Holders(text) \subseteq Holders(text)'
      /\ \A s : Values(s)' \subseteq Values(s) \cup {i}
  BY RewritesKeepApart DEF SlotInv
<1>2. \A s \in Slots \ disturbed' : Values(s)' \subseteq Values(s)
  BY <1>1
<1>3. \A c \in Callers : Undisturbed(c)' => Undisturbed(c) /\ calls[c].input.slot \in Slots \ disturbed'
  BY DEF Undisturbed
<1>4. InputsFit' /\ AnnotatesSlots' /\ Alone'
  BY <1>3 DEF SlotInv, InputsFit, AnnotatesSlots, Alone
<1>5. OneValuePerSlot'
  <2>1. \A s \in Slots \ disturbed : \A j, k \in Values(s) : j = k
    BY DEF SlotInv, OneValuePerSlot
  <2>2. \A s \in Slots \ disturbed' : \A j, k \in Values(s)' : j = k
    BY <1>2, <2>1
  <2> QED
    BY <2>2 DEF OneValuePerSlot
<1>6. OnlyTheText'
  <2> SUFFICES ASSUME NEW c \in Callers, Undisturbed(c)',
                      NEW s, NEW text, s = calls[c].input.slot, text = calls[c].input.text
               PROVE  IF calls[c].op = "replace" THEN Values(s)' \subseteq {calls[c].old}
                      ELSE Values(s)' \cup InHand(calls[c]) \subseteq Holders(text)'
    BY DEF OnlyTheText
  <2>1. s \in Slots \ disturbed' /\ Undisturbed(c)
    BY <1>3
  <2>2. IF calls[c].op = "replace" THEN Values(s) \subseteq {calls[c].old}
        ELSE Values(s) \cup InHand(calls[c]) \subseteq Holders(text)
    BY <2>1 DEF SlotInv, OnlyTheText
  <2>3. Values(s)' \subseteq Values(s)
    BY <1>2, <2>1
  <2>4. CASE content = atoms[i].content
    BY <1>1, <2>2, <2>3, <2>4
  <2>5. CASE content # atoms[i].content
    <3>1. i \notin Values(s) /\ i \notin InHand(calls[c])
      BY <2>1, <2>5
    <3> QED
      BY <1>1, <2>2, <2>3, <3>1
  <2> QED
    BY <2>4, <2>5
<1> QED
  BY <1>1, <1>4, <1>5, <1>6 DEF SlotInv

LEMMA SlotUpdated ==
  ASSUME TypeInv, SlotInv, NEW i \in Ids, NEW content \in Contents, MemoryUpdate(i, content)
  PROVE  SlotInv'
<1>1. Exists(i) /\ Rewrites(i, content, atoms[i].status, atoms[i].slot) /\ Holders(content) \subseteq {i}
  BY UpdateWrites DEF MemoryUpdate
<1>2. PICK before, after \in Rows : before = atoms[i] /\ after = atoms'[i]
  BY <1>1 DEF Rewrites
<1>3. /\ calls' = calls
      /\ disturbed' = disturbed \cup Named({SlotOfRow(before), SlotOfRow(after)}
           \cup {calls[c].input.slot : c \in {d \in Callers : i \in InHand(calls[d])}})
  BY <1>2 DEF MemoryUpdate
<1>4. NoSlot \notin Slots
  BY SlotAssumption
<1>5. \A s \in Slots \ disturbed' : i \notin Values(s) /\ i \notin Values(s)'
  <2>1. \A s \in Slots \ disturbed' : s # SlotOfRow(before) /\ s # SlotOfRow(after)
    BY <1>3, <1>4 DEF Named
  <2> QED
    BY <1>2, <2>1 DEF Values, Active
<1>6. ASSUME NEW c \in Callers, i \in InHand(calls[c])
      PROVE  ~Undisturbed(c)'
  <2>1. calls[c].input.slot \in disturbed' \cup {NoSlot}
    BY <1>3, <1>6 DEF Named
  <2> QED
    BY <1>3, <1>4, <2>1 DEF Undisturbed
<1> QED
  BY <1>1, <1>3, <1>5, <1>6, SlotAround

LEMMA SlotForgotten ==
  ASSUME TypeInv, SlotInv, NEW i \in Ids, MemoryForget(i)
  PROVE  SlotInv'
<1>1. Exists(i) /\ Rewrites(i, atoms[i].content, "forgotten", atoms[i].slot)
  BY StatusWrites DEF MemoryForget, Statuses
<1>2. Holders(atoms[i].content) \subseteq {i}
  BY <1>1, OnlyHolder DEF SlotInv
<1>3. \A s : i \notin Values(s)'
  BY <1>1 DEF Rewrites, Values, Active
<1> QED
  BY <1>1, <1>2, <1>3, SlotAround DEF MemoryForget

LEMMA SlotRestored ==
  ASSUME TypeInv, SlotInv, NEW i \in Ids, MemoryRestore(i)
  PROVE  SlotInv'
<1>1. Exists(i) /\ Rewrites(i, atoms[i].content, "active", atoms[i].slot)
  BY StatusWrites DEF MemoryRestore, Statuses
<1>2. Holders(atoms[i].content) \subseteq {i}
  BY <1>1, OnlyHolder DEF SlotInv
<1>3. PICK before, after \in Rows : before = atoms[i] /\ after = atoms'[i]
  BY <1>1 DEF Rewrites
<1>4. SlotOfRow(after) = SlotOfRow(before)
  BY <1>1, <1>3 DEF Rewrites, SlotOfRow
<1>5. disturbed' = disturbed \cup Named({SlotOfRow(before)}) /\ calls' = calls
  BY <1>3 DEF MemoryRestore
<1>6. \A s \in Slots \ disturbed' : i \notin Values(s)'
  <2>1. \A s \in Slots \ disturbed' : s # SlotOfRow(after)
    BY <1>4, <1>5, SlotAssumption DEF Named
  <2> QED
    BY <1>3, <2>1 DEF Values, Active
<1> QED
  BY <1>1, <1>2, <1>5, <1>6, SlotAround

\* A call begins: it runs by itself and has seen all values of its slot, or
\* its slot is marked.
LEMMA SlotBegun ==
  ASSUME TypeInv, SlotInv, NEW c \in Callers, NEW in \in deployment.inputs,
         NEW slot \in Slots \cup {NoSlot}, NEW found \in SUBSET Ids,
         RememberBegin(c, in[1], in[2], slot, found)
  PROVE  SlotInv'
<1>1. PICK text \in Contents, tags \in SUBSET ExplicitSlots : text = in[1] /\ tags = in[2]
  BY CallInputs
<1>2. BeginsWith(c, text, tags, slot, found)
  BY <1>1, BeginSteps
<1>3. /\ slot \in SlotsOfCall(text, tags) /\ atoms' = atoms
      /\ disturbed' = disturbed \cup DisturbedBy(tags, slot, found)
  BY <1>1 DEF RememberBegin
<1>4. /\ \A d \in Callers \ {c} : calls'[d] = calls[d]
      /\ calls[c] = Idle /\ calls'[c] # Idle
      /\ calls'[c].input.text = text /\ calls'[c].input.tags = tags /\ calls'[c].input.slot = slot
  BY <1>2 DEF BeginsWith
<1>5. NoSlot \notin Slots /\ NoSlot \notin ExplicitSlots /\ ExplicitSlots \subseteq Slots
  BY SlotAssumption DEF Slots
<1>6. InputsFit'
  <2>1. tags \subseteq {slot} \/ tags \subseteq disturbed'
    BY <1>3, <1>5 DEF DisturbedBy, Named
  <2>2. disturbed \subseteq disturbed'
    BY <1>3
  <2> QED
    BY <1>3, <1>4, <2>1, <2>2 DEF SlotInv, InputsFit
<1>7. AnnotatesSlots'
  <2>1. calls'[c].op # "annotate"
    BY <1>2 DEF BeginsWith
  <2> QED
    BY <1>4, <2>1 DEF SlotInv, AnnotatesSlots
<1>8. ASSUME NEW d \in Callers, calls[d] # Idle
      PROVE  {calls[d].input.slot, slot} \subseteq disturbed' \cup {NoSlot}
  <2> DEFINE others == {calls[e].input.slot : e \in {f \in Callers : calls[f] # Idle}}
  <2>1. calls[d].input.slot \in others
    BY <1>8
  <2>2. DisturbedBy(tags, slot, found)
          = Named((IF others # {} THEN others \cup {slot} ELSE {})
                    \cup (IF found # Values(slot) THEN {slot} ELSE {})
                    \cup (IF tags \subseteq {slot} THEN {} ELSE tags))
    BY DEF DisturbedBy
  <2> HIDE DEF others
  <2> QED
    BY <1>3, <2>1, <2>2 DEF Named
<1>9. \A d \in Callers : Undisturbed(d)' => d = c
  BY <1>4, <1>5, <1>8 DEF Undisturbed
<1>10. Undisturbed(c)' => /\ slot \in Slots \ disturbed' /\ found = Values(slot)
                          /\ \A d \in Callers \ {c} : calls[d] = Idle
  <2>1. Undisturbed(c)' => slot \in Slots \ disturbed'
    BY <1>4 DEF Undisturbed
  <2>2. found # Values(slot) => slot \in disturbed' \cup {NoSlot}
    BY <1>3 DEF DisturbedBy, Named
  <2> QED
    BY <1>5, <1>8, <2>1, <2>2
<1>11. Alone'
  BY <1>4, <1>9, <1>10 DEF Alone
<1>12. OnlyTheText'
  <2> SUFFICES ASSUME Undisturbed(c)'
               PROVE  IF calls'[c].op = "replace" THEN Values(slot) \subseteq {calls'[c].old}
                      ELSE Values(slot) \cup InHand(calls'[c]) \subseteq Holders(text)
    BY <1>3, <1>4, <1>9 DEF OnlyTheText, Values, Active, Holders, Exists
  <2>1. found = Values(slot) /\ \A j, k \in found : j = k
    BY <1>3, <1>10 DEF SlotInv, OneValuePerSlot
  <2>2. CASE calls'[c].op = "replace"
    BY <1>2, <2>1, <2>2 DEF BeginsWith
  <2>3. CASE calls'[c].op = "search"
    <3>1. /\ calls'[c].exact = {i \in found : atoms[i].content = text}
          /\ calls'[c].exact = {} => \A i \in found : found # {i}
          /\ InHand(calls'[c]) = calls'[c].exact
      BY <1>2, <2>3 DEF BeginsWith, InHand
    <3>2. found \subseteq calls'[c].exact
      BY <2>1, <3>1
    <3>3. \A i \in found : i \in Ids /\ Exists(i)
      BY <2>1 DEF Values, Active, Exists, Statuses
    <3> QED
      BY <2>1, <2>3, <3>1, <3>2, <3>3 DEF Holders
  <2> QED
    BY <1>2, <2>2, <2>3 DEF BeginsWith
<1>13. NoTwins' /\ OneValuePerSlot'
  <2>1. \A s \in Slots \ disturbed : \A j, k \in Values(s) : j = k
    BY DEF SlotInv, OneValuePerSlot
  <2>2. \A s : Values(s)' = Values(s)
    BY <1>3 DEF Values, Active
  <2>3. \A s \in Slots \ disturbed' : \A j, k \in Values(s)' : j = k
    BY <1>3, <2>1, <2>2
  <2> QED
    BY <1>3, <2>3 DEF SlotInv, NoTwins, OneValuePerSlot, Exists
<1> QED
  BY <1>6, <1>7, <1>11, <1>12, <1>13 DEF SlotInv

LEMMA SlotCallStep ==
  ASSUME TypeInv, ReadInv, SlotInv, NEW c \in Callers, CallStep(c)
  PROVE  SlotInv'
<1>1. ASSUME NEW in \in deployment.inputs, NEW slot \in Slots \cup {NoSlot}, NEW found \in SUBSET Ids,
             RememberBegin(c, in[1], in[2], slot, found)
      PROVE  SlotInv'
  BY <1>1, SlotBegun
<1>2. ASSUME NEW i \in Ids, ReplaceCommit(c, i)
      PROVE  SlotInv'
  BY <1>2, SlotReplaced
<1>3. ASSUME NEW i \in Ids, ApplySupersede(c, i)
      PROVE  SlotInv'
  <2>1. /\ calls[c].op = "apply" /\ Next1(c).content \in Contents /\ Next1(c).target \in Ids
        /\ Stores(i, Next1(c).content, calls[c].input.tags, NoSlot, {Next1(c).target})
        /\ disturbed' = disturbed \cup DisturbedByStoring(c, atoms'[i])
    BY <1>3, SupersedeWrites
  <2>2. Steps(c, {i})
    BY <1>3, <2>1, AppliedSteps DEF ApplySupersede
  <2> QED
    BY <2>1, <2>2, SlotStored
<1>4. ASSUME NEW i \in Ids, ApplyCreate(c, i)
      PROVE  SlotInv'
  <2>1. /\ calls[c].op = "apply" /\ Next1(c).content \in Contents
        /\ Stores(i, Next1(c).content, calls[c].input.tags, NoSlot, {})
        /\ disturbed' = disturbed \cup DisturbedByStoring(c, atoms'[i])
    BY <1>4, CreateWrites
  <2>2. Steps(c, {i})
    BY <1>4, <2>1, AppliedSteps DEF ApplyCreate
  <2> QED
    BY <2>1, <2>2, SlotStored
<1>5. CASE DecideByRule(c)
  BY <1>5, RuleSteps, SlotQuiet DEF DecideByRule
<1>6. CASE Ask(c)
  BY <1>6, AskSteps, SlotQuiet DEF Ask, NeedsModel
<1>7. CASE ModelFails(c)
  BY <1>7, FailSteps, SlotQuiet DEF ModelFails
<1>8. ASSUME NEW n \in DOMAIN cache, DecideFromCache(c, n)
      PROVE  SlotInv'
  BY <1>8, CacheSteps, SlotQuiet DEF DecideFromCache, NeedsModel
<1>9. ASSUME NEW plan \in Plans, ModelAnswers(c, plan)
      PROVE  SlotInv'
  BY <1>9, AnswerSteps, SlotQuiet DEF ModelAnswers
<1>10. CASE ApplySkip(c)
  BY <1>10, AppliedSteps, SlotQuiet DEF ApplySkip
<1>11. CASE ApplyRetire(c)
  BY <1>11, SlotRetired
<1>12. ASSUME NEW i \in Ids, AnnotateRead(c, i)
       PROVE  SlotInv'
  BY <1>12, AnnotateReadSteps, SlotQuiet DEF AnnotateRead
<1>13. ASSUME NEW i \in Ids, AnnotateWrite(c, i)
       PROVE  SlotInv'
  BY <1>13, SlotAnnotated
<1>14. ASSUME NEW i \in Ids, AnnotateFails(c, i)
       PROVE  SlotInv'
  BY <1>14, AnnotationEndSteps, SlotQuiet DEF AnnotateFails
<1>15. CASE CallEnds(c)
  BY <1>15, EndSteps, SlotQuiet DEF CallEnds
<1> QED
  BY <1>1, <1>2, <1>3, <1>4, <1>5, <1>6, <1>7, <1>8, <1>9, <1>10, <1>11, <1>12, <1>13, <1>14,
     <1>15 DEF CallStep

\* Nothing changes but that calls may be cut off.
LEMMA SlotUntouched ==
  ASSUME SlotInv, atoms' = atoms, disturbed' = disturbed,
         calls' = calls \/ \A c \in Callers : calls'[c] = Idle
  PROVE  SlotInv'
<1>1. \A c \in Callers : calls'[c] = calls[c] \/ calls'[c] = Idle
  OBVIOUS
<1>2. /\ \A s : Values(s)' = Values(s)
      /\ \A text : Holders(text)' = Holders(text)
  BY DEF Values, Active, Holders, Exists
<1>3. NoTwins' /\ OneValuePerSlot'
  BY <1>2 DEF SlotInv, NoTwins, OneValuePerSlot, Exists
<1>4. CASE calls' = calls
  <2>1. InputsFit' /\ AnnotatesSlots' /\ Alone'
    BY <1>4 DEF SlotInv, InputsFit, AnnotatesSlots, Alone, Undisturbed
  <2>2. OnlyTheText'
    BY <1>2, <1>4 DEF SlotInv, OnlyTheText, Undisturbed
  <2> QED
    BY <1>3, <2>1, <2>2 DEF SlotInv
<1>5. CASE \A c \in Callers : calls'[c] = Idle
  <2>1. \A c \in Callers : calls'[c].op # "annotate" /\ ~Undisturbed(c)'
    BY <1>5 DEF Idle, Undisturbed
  <2> QED
    BY <1>3, <1>5, <2>1 DEF SlotInv, InputsFit, AnnotatesSlots, Alone, OnlyTheText
<1> QED
  BY <1>4, <1>5

LEMMA SlotStep ==
  ASSUME TypeInv, ReadInv, SlotInv, [Next]_vars
  PROVE  SlotInv'
<1>1. ASSUME NEW c \in Callers, CallStep(c)
      PROVE  SlotInv'
  BY <1>1, SlotCallStep
<1>2. ASSUME NEW i \in Ids, NEW content \in Contents, MemoryUpdate(i, content)
      PROVE  SlotInv'
  BY <1>2, SlotUpdated
<1>3. ASSUME NEW i \in Ids, MemoryForget(i) \/ MemoryRestore(i)
      PROVE  SlotInv'
  BY <1>3, SlotForgotten, SlotRestored
<1>4. CASE NewDay
  BY <1>4, SlotUntouched DEF NewDay
<1>5. ASSUME NEW n \in DOMAIN cache, CacheExpire(n)
      PROVE  SlotInv'
  BY <1>5, SlotUntouched DEF CacheExpire
<1>6. CASE Restart
  BY <1>6, SlotUntouched DEF Restart
<1>7. CASE UNCHANGED vars
  BY <1>7, SlotUntouched DEF vars
<1> QED
  BY <1>1, <1>2, <1>3, <1>4, <1>5, <1>6, <1>7 DEF Next

LEMMA SlotInit == Init => SlotInv
<1> SUFFICES ASSUME Init
             PROVE  SlotInv
  OBVIOUS
<1>1. \A c \in Callers : calls[c] = Idle /\ calls[c].op = "idle"
  BY DEF Init, Idle
<1>2. \A i \in Ids : ~Exists(i) /\ ~Active(i)
  BY DEF Init, Exists, Active, Unused, Statuses
<1>3. InputsFit /\ AnnotatesSlots /\ Alone /\ OnlyTheText
  BY <1>1 DEF InputsFit, AnnotatesSlots, Alone, OnlyTheText, Undisturbed
<1>4. NoTwins /\ OneValuePerSlot
  BY <1>2 DEF NoTwins, OneValuePerSlot, Values
<1> QED
  BY <1>3, <1>4 DEF SlotInv

\* Apart from the disturbances that are named, a slot never gets a second
\* value: a call whose slot is undisturbed runs alone, and the values of its
\* slot are at most the one it replaces or one that says what it says.
THEOREM OneValuePerSlotHolds == Spec => []OneValuePerSlot
<1>1. Init => SlotInv
  BY SlotInit
<1>2. TypeInv /\ ReadInv /\ SlotInv /\ [Next]_vars => SlotInv'
  BY SlotStep
<1>3. SlotInv => OneValuePerSlot
  BY DEF SlotInv
<1> QED
  BY <1>1, <1>2, <1>3, ReadingsInvariant, PTL DEF Spec
=============================================================================
