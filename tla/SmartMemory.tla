---------------------------- MODULE SmartMemory ----------------------------
(***************************************************************************)
(* memory_remember: the slot-aware smart memory over the atom store        *)
(* (src/src/smart-memory-slots.ts, src/src/smart-memory.ts).               *)
(*                                                                         *)
(* A call reads the current atoms of the memory slot its text belongs to;  *)
(* if there is exactly one, it supersedes it.  Otherwise it reads lexical  *)
(* candidates, decides (by rule, from the cache of decisions, or by asking *)
(* the model), applies the decision one atom at a time, each in its own    *)
(* transaction, and at last writes the slot into the atoms' metadata.      *)
(* Other calls run between any two of these steps.  What texts say and how *)
(* much they resemble each other is given by constants; there are so few   *)
(* atoms that the limits of the searches (4, 8 and 200 rows) cut nothing.  *)
(***************************************************************************)
EXTENDS Integers, Sequences

CONSTANTS
  Ids,
  Contents,          \* texts to remember, and what atoms say
  Callers,
  ExplicitSlots,     \* slots named by a tag
  TagOrder,          \* the order of those tags: pairs of a tag and one not before it
  InferredSlots,     \* slots inferred from the wording
  NoSlot,
  PiecesOf,          \* Contents -> Seq(Contents): obviousSplit
  SlotOfContent,     \* Contents -> InferredSlots \cup {NoSlot}: the wording rules
  Matches,           \* <<text, content>>: the lexical search for text finds content,
  NearlySame,        \* ... as a strong duplicate,
  Ambiguous,         \* ... or with a score in the range left to the model
  LifecycleTexts,    \* texts that say something is fixed, obsolete, ...
  LongTexts,         \* texts above the long-input threshold
  Deployments,       \* see the variable deployment
  TextTokens,        \* per text, its estimate when the budget is tested ...
  PromptTokens,      \* ... and the estimate charged for the whole prompt
  MaxOverhead,       \* bound of their difference
  CallBudget, TokenBudget,   \* per day; 0: unlimited
  CacheSize,
  MaxPlanned,        \* bound: atoms in one decision of the model (8 in the code)
  MaxVersion         \* bound: a row is not written beyond this version

Slots == ExplicitSlots \cup InferredSlots

ASSUME SlotAssumption == NoSlot \notin Slots /\ ExplicitSlots \cap InferredSlots = {}
ASSUME TagAssumption ==
  /\ \A t1, t2 \in ExplicitSlots : <<t1, t2>> \in TagOrder /\ <<t2, t1>> \in TagOrder => t1 = t2
  /\ \A tags \in (SUBSET ExplicitSlots) \ {{}} : \E t \in tags : {t} \X tags \subseteq TagOrder
ASSUME TextAssumption ==
  /\ PiecesOf \in [Contents -> Seq(Contents) \ {<<>>}]
  /\ SlotOfContent \in [Contents -> InferredSlots \cup {NoSlot}]
  /\ Matches \subseteq Contents \X Contents /\ NearlySame \cup Ambiguous \subseteq Matches
  /\ LifecycleTexts \cup LongTexts \subseteq Contents
ASSUME BudgetAssumption ==
  /\ CallBudget \in Nat /\ TokenBudget \in Nat /\ CacheSize \in Nat /\ MaxOverhead \in Nat
  /\ TextTokens \in [Contents -> Nat] /\ PromptTokens \in [Contents -> Nat]
  /\ \A t \in Contents : PromptTokens[t] <= TextTokens[t] + MaxOverhead
ASSUME BoundAssumption == MaxVersion \in Nat \ {0} /\ MaxPlanned \in Nat \ {0}
ASSUME DeploymentAssumption ==
  Deployments \subseteq [model : BOOLEAN, inputs : SUBSET (Contents \X SUBSET ExplicitSlots),
                         contents : SUBSET Contents, versions : 1 .. MaxVersion]

VARIABLES
  deployment, \* is a model configured, what do clients remember, what else do clients and
              \* the model write, and the bound of versions
  atoms,      \* the atoms of the namespace
  calls,      \* memory_remember calls under way
  cache,      \* decisions of the model, oldest first
  spent,      \* model calls and estimated tokens charged today
  disturbed   \* history: slots for which something happened that may leave two values

vars == <<deployment, atoms, calls, cache, spent, disturbed>>

\* slot: metadata.memory.slot; tags: the slot tags among the atom's tags;
\* retired: resolved or deprecated; forgotten: archived or deleted
Statuses == {"active", "superseded", "retired", "forgotten"}
Rows == [content : Contents, status : Statuses, version : 1 .. MaxVersion,
         slot : Slots \cup {NoSlot}, tags : SUBSET ExplicitSlots]
Unused == [status |-> "unused"]

\* retire: resolve or deprecate, the same up to the name of the status
Planned == [action : {"skip"}] \cup [action : {"create"}, content : Contents]
  \cup [action : {"supersede", "retire"}, content : Contents, target : Ids]
Plans == UNION {[1 .. n -> Planned] : n \in 1 .. MaxPlanned}

Inputs == [text : Contents, tags : SUBSET ExplicitSlots, slot : Slots \cup {NoSlot}]
Candidates == SUBSET (Ids \X Rows)     \* atoms as a search returned them
Keys == [text : Contents, versions : SUBSET (Ids \X (1 .. MaxVersion))]
Idle == [op |-> "idle"]
Calls == {Idle}
  \cup [op : {"replace"}, input : Inputs, old : Ids, seen : Rows]
  \cup [op : {"search"}, input : Inputs, exact : SUBSET Ids]
  \cup [op : {"ask"}, input : Inputs, exact : SUBSET Ids, candidates : Candidates]
  \cup [op : {"apply"}, input : Inputs, exact : SUBSET Ids, candidates : Candidates,
        plan : Seq(Planned), shown : Candidates, stored : SUBSET Ids]
  \cup [op : {"annotate"}, input : Inputs, todo : SUBSET Ids, checked : SUBSET Ids]

Init ==
  /\ deployment \in Deployments
  /\ atoms = [i \in Ids |-> Unused]
  /\ calls = [c \in Callers |-> Idle]
  /\ cache = <<>>
  /\ spent = [calls |-> 0, tokens |-> 0]
  /\ disturbed = {}

Exists(i) == atoms[i].status \in Statuses
Active(i) == atoms[i].status = "active"
HasRoom(i) == Exists(i) /\ atoms[i].version < deployment.versions
Holders(content) == {i \in Ids : Exists(i) /\ atoms[i].content = content}
Bump(row) == [row EXCEPT !.version = @ + 1]

Advance(c, call) == calls' = [calls EXCEPT ![c] = call]
Return(c) == Advance(c, Idle)

----------------------------------------------------------------------------
(* Slots *)

\* The first slot tag of an atom, whose tags are kept sorted.
FirstTag(tags) == CHOOSE t \in tags : {t} \X tags \subseteq TagOrder

\* inferMemorySlot: an explicit tag wins over the wording.
InferSlot(content, tags) == IF tags # {} THEN FirstTag(tags) ELSE SlotOfContent[content]

\* The same for a call, whose tags come in the order of the caller.
SlotsOfCall(text, tags) == IF tags # {} THEN tags ELSE {SlotOfContent[text]}

\* atomSlot: the metadata win over both.
SlotOfRow(row) == IF row.slot # NoSlot THEN row.slot ELSE InferSlot(row.content, row.tags)

Values(slot) == {i \in Ids : Active(i) /\ SlotOfRow(atoms[i]) = slot}

\* Mutant: every active atom the search finds is taken for a value of the slot.
SlotCandidatesUnfiltered(slot) == SUBSET {i \in Ids : Active(i)}

\* slotCandidates: an explicit slot is listed; the lexical search for an
\* inferred one may miss atoms.
SlotCandidates(slot) ==
  {found \in SUBSET Values(slot) : slot \in ExplicitSlots => found = Values(slot)}

Named(slots) == slots \ {NoSlot}

\* Calls that overlap another call, do not see all values of their slot, or
\* name several slots may leave two values.
DisturbedBy(tags, slot, found) ==
  LET others == {calls[c].input.slot : c \in {d \in Callers : calls[d] # Idle}}
  IN  Named((IF others # {} THEN others \cup {slot} ELSE {})
              \cup (IF found # Values(slot) THEN {slot} ELSE {})
              \cup (IF tags \subseteq {slot} THEN {} ELSE tags))

\* What follows the reading of the slot: replace its only value, unless that
\* says the same, or go on as for a text without a slot.
AfterCandidates(input, found) ==
  LET exact == {i \in found : atoms[i].content = input.text}
      old == CHOOSE i \in found : TRUE
  IN  IF exact = {} /\ \E i \in found : found = {i}
      THEN [op |-> "replace", input |-> input, old |-> old, seen |-> atoms[old]]
      ELSE [op |-> "search", input |-> input, exact |-> exact]

RememberBegin(c, text, tags, slot, found) ==
  /\ calls[c] = Idle
  /\ slot \in SlotsOfCall(text, tags)
  /\ found \in (IF slot = NoSlot THEN {{}} ELSE SlotCandidates(slot))
  /\ Advance(c, AfterCandidates([text |-> text, tags |-> tags, slot |-> slot], found))
  /\ disturbed' = disturbed \cup DisturbedBy(tags, slot, found)
  /\ UNCHANGED <<deployment, atoms, cache, spent>>

----------------------------------------------------------------------------
(* What AtomService makes of a row (see AtomStore) *)

\* Mutant: merging reactivates the atom.
MergedRowReactivating(i, content, tags, slot) ==
  IF Exists(i)
  THEN Bump([atoms[i] EXCEPT !.status = "active", !.tags = @ \cup tags,
                             !.slot = IF slot = NoSlot THEN @ ELSE slot])
  ELSE [content |-> content, status |-> "active", version |-> 1, slot |-> slot, tags |-> tags]

\* INSERT ... ON CONFLICT with dedupe = "merge": tags are united, metadata
\* overlaid, the status is kept.
MergedRow(i, content, tags, slot) ==
  IF Exists(i)
  THEN Bump([atoms[i] EXCEPT !.tags = @ \cup tags, !.slot = IF slot = NoSlot THEN @ ELSE slot])
  ELSE [content |-> content, status |-> "active", version |-> 1, slot |-> slot, tags |-> tags]

LandsOn(i, content) ==
  \/ atoms[i] = Unused /\ Holders(content) = {}
  \/ i \in Holders(content) /\ HasRoom(i)

\* AtomService.supersede with archiveOld
Replace(i, row, old) == [atoms EXCEPT ![i] = row, ![old] = Bump([@ EXCEPT !.status = "superseded"])]

MayReplace(i, content, old) == LandsOn(i, content) /\ HasRoom(old) /\ i # old

----------------------------------------------------------------------------
(* The only value of the slot is replaced *)

\* Tags and metadata come from the row as read; its status and version are
\* not looked at again.
ReplaceCommit(c, i) ==
  LET call == calls[c]
      row == MergedRow(i, call.input.text, call.seen.tags \cup call.input.tags, call.input.slot)
  IN  /\ call.op = "replace"
      /\ MayReplace(i, call.input.text, call.old)
      /\ atoms' = Replace(i, row, call.old)
      /\ Return(c)
      /\ UNCHANGED <<deployment, cache, spent, disturbed>>

----------------------------------------------------------------------------
(* The decision *)

Found(text) == {i \in Ids : Active(i) /\ <<text, atoms[i].content>> \in Matches}
ReadOf(ids) == {<<i, atoms[i]>> : i \in ids}
Some(relation, text, candidates) == \E p \in candidates : <<text, p[2].content>> \in relation

\* Mutant: the budget is tested before the candidates are awaited.
BudgetAllowsBefore(text) == TRUE

BudgetAllows(text) ==
  /\ CallBudget = 0 \/ spent.calls < CallBudget
  /\ TokenBudget = 0 \/ spent.tokens + TextTokens[text] <= TokenBudget

ShouldUseModel(text, candidates) ==
  /\ deployment.model
  /\ BudgetAllows(text)
  /\ \/ text \in LifecycleTexts /\ candidates # {}
     \/ Len(PiecesOf[text]) > 1 /\ Some(Ambiguous \cup NearlySame, text, candidates)
     \/ Len(PiecesOf[text]) = 1 /\ (text \in LongTexts \/ Some(Ambiguous, text, candidates))

IsDuplicate(text, candidates) ==
  Some(NearlySame, text, candidates) /\ Len(PiecesOf[text]) = 1 /\ text \notin LifecycleTexts

CreatePieces(text) ==
  [n \in DOMAIN PiecesOf[text] |-> [action |-> "create", content |-> PiecesOf[text][n]]]

\* Mutant: the versions of the candidates are not part of the key.
KeyOfIds(text, candidates) == [text |-> text, versions |-> {<<p[1], 1>> : p \in candidates}]

Key(text, candidates) ==
  [text |-> text, versions |-> {<<p[1], p[2].version>> : p \in candidates}]

\* When the plan is empty the slot is written into the metadata.
AfterPlan(call) ==
  LET todo == IF call.exact # {} THEN call.exact ELSE call.stored
  IN  IF call.plan # <<>> THEN call
      ELSE IF todo = {} \/ call.input.slot = NoSlot THEN Idle
      ELSE [op |-> "annotate", input |-> call.input, todo |-> todo, checked |-> {}]

\* shown: the candidates the decision was made for
Apply(call, candidates, plan, shown) ==
  AfterPlan([op |-> "apply", input |-> call.input, exact |-> call.exact,
             candidates |-> candidates, plan |-> plan, shown |-> shown, stored |-> {}])

\* The candidates are read, and up to the request to the model everything runs
\* without giving way to another call.
DecideByRule(c) ==
  LET call == calls[c]
      candidates == ReadOf(Found(call.input.text))
  IN  /\ call.op = "search"
      /\ \/ /\ IsDuplicate(call.input.text, candidates)
            /\ Advance(c, Apply(call, candidates, <<>>, candidates))
         \/ /\ ~IsDuplicate(call.input.text, candidates)
            /\ ~ShouldUseModel(call.input.text, candidates)
            /\ Advance(c, Apply(call, candidates, CreatePieces(call.input.text), candidates))
      /\ UNCHANGED <<deployment, atoms, cache, spent, disturbed>>

NeedsModel(call, candidates) ==
  /\ call.op = "search"
  /\ ~IsDuplicate(call.input.text, candidates)
  /\ ShouldUseModel(call.input.text, candidates)

DecideFromCache(c, n) ==
  LET call == calls[c]
      candidates == ReadOf(Found(call.input.text))
  IN  /\ NeedsModel(call, candidates)
      /\ cache[n].key = Key(call.input.text, candidates)
      /\ Advance(c, Apply(call, candidates, cache[n].plan, cache[n].shown))
      /\ UNCHANGED <<deployment, atoms, cache, spent, disturbed>>

Charge(text) == [calls |-> spent.calls + 1, tokens |-> spent.tokens + PromptTokens[text]]

Ask(c) ==
  LET call == calls[c]
      candidates == ReadOf(Found(call.input.text))
  IN  /\ NeedsModel(call, candidates)
      /\ \A n \in DOMAIN cache : cache[n].key # Key(call.input.text, candidates)
      /\ spent' = Charge(call.input.text)
      /\ Advance(c, [op |-> "ask", input |-> call.input, exact |-> call.exact,
                     candidates |-> candidates])
      /\ UNCHANGED <<deployment, atoms, cache, disturbed>>

\* Set an entry, in place or at the end, and drop the oldest beyond the limit.
Remembered(entry) ==
  LET known == {n \in DOMAIN cache : cache[n].key = entry.key}
      all == IF known = {} THEN Append(cache, entry)
             ELSE [n \in DOMAIN cache |-> IF n \in known THEN entry ELSE cache[n]]
  IN  IF Len(all) > CacheSize THEN SubSeq(all, Len(all) - CacheSize + 1, Len(all)) ELSE all

\* The answer may name any atom as target.
ModelAnswers(c, plan) ==
  LET call == calls[c]
  IN  /\ call.op = "ask"
      /\ \A n \in DOMAIN plan : plan[n].action # "skip" => plan[n].content \in deployment.contents
      /\ cache' = Remembered([key |-> Key(call.input.text, call.candidates), plan |-> plan,
                              shown |-> call.candidates])
      /\ Advance(c, Apply(call, call.candidates, plan, call.candidates))
      /\ UNCHANGED <<deployment, atoms, spent, disturbed>>

\* Timeout, HTTP error or unusable answer.
ModelFails(c) ==
  LET call == calls[c]
  IN  /\ call.op = "ask"
      /\ Advance(c, Apply(call, call.candidates, CreatePieces(call.input.text), call.candidates))
      /\ UNCHANGED <<deployment, atoms, cache, spent, disturbed>>

----------------------------------------------------------------------------
(* The decision is applied, atom by atom *)

Next1(c) == Head(calls[c].plan)
Applied(c, stored) ==
  Advance(c, AfterPlan([calls[c] EXCEPT !.plan = Tail(@), !.stored = @ \cup stored]))

\* Whatever is stored besides the text itself may be a second value of its own
\* slot, and of the call's, which is written into all that was stored.
DisturbedByStoring(c, row) ==
  IF row.content = calls[c].input.text THEN {} ELSE Named({SlotOfRow(row), calls[c].input.slot})

ApplySkip(c) ==
  /\ calls[c].op = "apply" /\ Next1(c).action = "skip"
  /\ Applied(c, {})
  /\ UNCHANGED <<deployment, atoms, cache, spent, disturbed>>

\* update: status and metadata, the latter from the row as the search read it.
ApplyRetire(c) ==
  /\ calls[c].op = "apply" /\ Next1(c).action = "retire"
  /\ \E p \in calls[c].candidates :
       /\ p[1] = Next1(c).target /\ HasRoom(p[1])
       /\ atoms' = [atoms EXCEPT ![p[1]] = Bump([@ EXCEPT !.status = "retired", !.slot = p[2].slot])]
  /\ Applied(c, {})
  /\ UNCHANGED <<deployment, cache, spent, disturbed>>

\* The target need not be a candidate.
ApplySupersede(c, i) ==
  LET row == MergedRow(i, Next1(c).content, calls[c].input.tags, NoSlot)
  IN  /\ calls[c].op = "apply" /\ Next1(c).action = "supersede"
      /\ MayReplace(i, Next1(c).content, Next1(c).target)
      /\ atoms' = Replace(i, row, Next1(c).target)
      /\ disturbed' = disturbed \cup DisturbedByStoring(c, row)
      /\ Applied(c, {i})
      /\ UNCHANGED <<deployment, cache, spent>>

\* create; also when the target is no candidate or its retirement failed.
ApplyCreate(c, i) ==
  LET row == MergedRow(i, Next1(c).content, calls[c].input.tags, NoSlot)
  IN  /\ calls[c].op = "apply" /\ Next1(c).action # "skip"
      /\ LandsOn(i, Next1(c).content)
      /\ atoms' = [atoms EXCEPT ![i] = row]
      /\ disturbed' = disturbed \cup DisturbedByStoring(c, row)
      /\ Applied(c, {i})
      /\ UNCHANGED <<deployment, cache, spent>>

\* annotateAtom: read the atom ...
AnnotateRead(c, i) ==
  LET left == calls[c].todo \ {i}
  IN  /\ calls[c].op = "annotate" /\ i \in calls[c].todo
      /\ IF Active(i) /\ atoms[i].slot # calls[c].input.slot
         THEN Advance(c, [calls[c] EXCEPT !.todo = left, !.checked = @ \cup {i}])
         ELSE IF left \cup calls[c].checked = {} THEN Return(c)
         ELSE Advance(c, [calls[c] EXCEPT !.todo = left])
      /\ UNCHANGED <<deployment, atoms, cache, spent, disturbed>>

AnnotationEnds(c, i) ==
  IF calls[c].todo \cup calls[c].checked = {i} THEN Return(c)
  ELSE Advance(c, [calls[c] EXCEPT !.checked = @ \ {i}])

\* ... and write its metadata, without looking at the version.
AnnotateWrite(c, i) ==
  /\ calls[c].op = "annotate" /\ i \in calls[c].checked
  /\ HasRoom(i)
  /\ atoms' = [atoms EXCEPT ![i] = Bump([@ EXCEPT !.slot = calls[c].input.slot])]
  /\ AnnotationEnds(c, i)
  /\ UNCHANGED <<deployment, cache, spent, disturbed>>

\* An error of the annotation is ignored.
AnnotateFails(c, i) ==
  /\ calls[c].op = "annotate" /\ i \in calls[c].checked
  /\ AnnotationEnds(c, i)
  /\ UNCHANGED <<deployment, atoms, cache, spent, disturbed>>

\* The call throws, or ends here because it was made with store = false.
CallEnds(c) ==
  /\ calls[c].op \in {"replace", "search", "apply"}
  /\ Return(c)
  /\ UNCHANGED <<deployment, atoms, cache, spent, disturbed>>

----------------------------------------------------------------------------
(* Around the calls *)

\* The atoms a call may annotate
InHand(call) ==
  CASE call.op \in {"search", "ask"} -> call.exact
    [] call.op = "apply" -> call.exact \cup call.stored
    [] call.op = "annotate" -> call.todo \cup call.checked
    [] OTHER -> {}

\* memory_update keeps metadata and tags, so the wording may leave the slot.
MemoryUpdate(i, content) ==
  /\ content \in deployment.contents
  /\ HasRoom(i) /\ Holders(content) \subseteq {i}
  /\ atoms' = [atoms EXCEPT ![i] = Bump([@ EXCEPT !.content = content])]
  /\ disturbed' = disturbed \cup Named({SlotOfRow(atoms[i]), SlotOfRow(atoms'[i])}
       \cup {calls[c].input.slot : c \in {d \in Callers : i \in InHand(calls[d])}})
  /\ UNCHANGED <<deployment, calls, cache, spent>>

MemoryForget(i) ==
  /\ HasRoom(i)
  /\ atoms' = [atoms EXCEPT ![i] = Bump([@ EXCEPT !.status = "forgotten"])]
  /\ UNCHANGED <<deployment, calls, cache, spent, disturbed>>

MemoryRestore(i) ==
  /\ HasRoom(i) /\ atoms[i].status = "forgotten"
  /\ atoms' = [atoms EXCEPT ![i] = Bump([@ EXCEPT !.status = "active"])]
  /\ disturbed' = disturbed \cup Named({SlotOfRow(atoms[i])})
  /\ UNCHANGED <<deployment, calls, cache, spent>>

\* resetBudgetWindow, at the next use
NewDay ==
  /\ spent' = [calls |-> 0, tokens |-> 0]
  /\ UNCHANGED <<deployment, atoms, calls, cache, disturbed>>

\* The TTL of an entry has passed.
CacheExpire(n) ==
  /\ cache' = SubSeq(cache, 1, n - 1) \o SubSeq(cache, n + 1, Len(cache))
  /\ UNCHANGED <<deployment, atoms, calls, spent, disturbed>>

\* The process ends and starts again.
Restart ==
  /\ calls' = [c \in Callers |-> Idle]
  /\ cache' = <<>>
  /\ spent' = [calls |-> 0, tokens |-> 0]
  /\ UNCHANGED <<deployment, atoms, disturbed>>

CallStep(c) ==
  \/ \E in \in deployment.inputs, slot \in Slots \cup {NoSlot}, found \in SUBSET Ids :
       RememberBegin(c, in[1], in[2], slot, found)
  \/ \E i \in Ids : ReplaceCommit(c, i) \/ ApplySupersede(c, i) \/ ApplyCreate(c, i)
  \/ DecideByRule(c) \/ Ask(c) \/ ModelFails(c)
  \/ \E n \in DOMAIN cache : DecideFromCache(c, n)
  \/ calls[c].op = "ask" /\ \E plan \in Plans : ModelAnswers(c, plan)
  \/ ApplySkip(c) \/ ApplyRetire(c)
  \/ \E i \in Ids : AnnotateRead(c, i) \/ AnnotateWrite(c, i) \/ AnnotateFails(c, i)
  \/ CallEnds(c)

Next ==
  \/ \E c \in Callers : CallStep(c)
  \/ \E i \in Ids, content \in Contents : MemoryUpdate(i, content)
  \/ \E i \in Ids : MemoryForget(i) \/ MemoryRestore(i)
  \/ NewDay
  \/ \E n \in DOMAIN cache : CacheExpire(n)
  \/ Restart

Spec == Init /\ [][Next]_vars

----------------------------------------------------------------------------
(* Properties *)

\* Every variable has its type.
TypeOK ==
  /\ deployment \in Deployments
  /\ atoms \in [Ids -> Rows \cup {Unused}]
  /\ calls \in [Callers -> Calls]
  /\ cache \in Seq([key : Keys, plan : Plans, shown : Candidates])
  /\ Len(cache) <= CacheSize
  /\ spent \in [calls : Nat, tokens : Nat]
  /\ disturbed \subseteq Slots

\* A slot has at most one value, however values are replaced, merged into old
\* atoms, taken over by other slots or forgotten, and wherever an annotation
\* fails -- unless calls overlapped, the search missed a value, a call named
\* several slots, an atom was edited or restored, or something other than the
\* text itself was stored (inferMemorySlot, slotCandidates, annotateResult).
OneValuePerSlot ==
  \A s \in Slots \ disturbed : \A i, j \in Values(s) : i = j

\* Replacing the value of a slot retires a value of that slot, whatever the
\* metadata, tags and wording of the atoms have been through, unless the atom
\* changed after it was read (SlotAwareSmartMemoryService.remember).
ReplacesOnlyItsSlot ==
  [][\A c \in Callers, i \in Ids :
       LET call == calls[c]
       IN  ReplaceCommit(c, i) /\ atoms[call.old].version = call.seen.version
             => SlotOfRow(atoms[call.old]) = call.input.slot]_vars

\* However many calls wait for the model at once, the requests of a day stay
\* within the budget, and their tokens exceed it by less than the overhead of
\* one prompt: no call gives way between the test and the charge, but the test
\* is made with the text and the charge with the prompt.
DailyBudgetAlmostHolds ==
  /\ CallBudget # 0 => spent.calls <= CallBudget
  /\ TokenBudget # 0 => spent.tokens <= TokenBudget + MaxOverhead

\* A decision taken from the cache was made for the same candidates saying
\* the same things: every write of an atom gives it a version under which no
\* decision is cached.
CachedDecisionFitsCandidates ==
  \A c \in Callers : calls[c].op = "apply" =>
    {<<p[1], p[2].content, p[2].slot>> : p \in calls[c].candidates}
      = {<<p[1], p[2].content, p[2].slot>> : p \in calls[c].shown}
=============================================================================
