-------------------------- MODULE MigrationsProofs --------------------------
(***************************************************************************)
(* Theorems about Migrations, for any processes, each with or without      *)
(* AUTO_MIGRATE: what is recorded is complete, nothing is applied twice,   *)
(* and processes serve only the latest schema.                             *)
(***************************************************************************)
EXTENDS Migrations, SequenceTheorems, TLAPS

----------------------------------------------------------------------------
(* The list of migrations *)

LEMMA SixMigrations == Latest = 6 /\ Versions = 1 .. 6
  BY DEF Latest, Versions, Creates

\* What versions up to v create, one version at a time.
LEMMA UpToCreates ==
  ASSUME NEW n \in Nat, NEW S
  PROVE  UpTo(n) \subseteq S <=> \A v \in 1 .. n : Creates[v] \subseteq S
  BY DEF UpTo

LEMMA UpToGrows ==
  ASSUME NEW m \in Nat, NEW n \in Nat, m <= n
  PROVE  UpTo(m) \subseteq UpTo(n)
  BY DEF UpTo

LEMMA CreatesUpTo ==
  ASSUME NEW v \in Versions
  PROVE  Creates[v] \subseteq UpTo(Latest)
  BY SixMigrations DEF UpTo

LEMMA CoreCreates == Creates[1] = {"atoms", "atom_relations", "atom_events"}
  BY DEF Creates

LEMMA AtomsAreCore ==
  ASSUME NEW v \in Versions, "atoms" \in Creates[v]
  PROVE  v = 1
<1>1. v \in {1, 2, 3, 4, 5, 6}
  BY SixMigrations
<1>2. /\ "atoms" \notin Creates[2] /\ "atoms" \notin Creates[3] /\ "atoms" \notin Creates[4]
      /\ "atoms" \notin Creates[5] /\ "atoms" \notin Creates[6]
  BY DEF Creates
<1> QED
  BY <1>1, <1>2

----------------------------------------------------------------------------
(* The queue *)

\* Whoever is first in the queue stays so when another leaves it.
LEMMA HeadStays ==
  ASSUME NEW p, queue \in Seq(Processes)
  PROVE  /\ Without(p) \in Seq(Processes)
         /\ \A q : Holds(q) /\ q # p => Without(p) # <<>> /\ Head(Without(p)) = q
<1>1. CASE \A k \in DOMAIN queue : queue[k] # p
  BY <1>1 DEF Without, Holds
<1>2. CASE \E k \in DOMAIN queue : queue[k] = p
  <2> DEFINE n == CHOOSE n \in DOMAIN queue : queue[n] = p
  <2>1. n \in DOMAIN queue /\ queue[n] = p
    BY <1>2
  <2>2. n \in 1 .. Len(queue) /\ Len(queue) \in Nat
    BY <2>1
  <2> DEFINE front == SubSeq(queue, 1, n - 1)
             back == SubSeq(queue, n + 1, Len(queue))
  <2>3. Without(p) = front \o back
    BY <1>2 DEF Without
  <2> HIDE DEF n
  <2>4. front \in Seq(Processes) /\ Len(front) = n - 1
        /\ \A k \in 1 .. n - 1 : front[k] = queue[k]
    BY <2>2
  <2>5. back \in Seq(Processes)
    BY <2>2
  <2> HIDE DEF front, back
  <2>6. Without(p) \in Seq(Processes)
    BY <2>3, <2>4, <2>5
  <2>7. ASSUME NEW q, Holds(q), q # p
        PROVE  Without(p) # <<>> /\ Head(Without(p)) = q
    <3>1. queue # <<>> /\ queue[1] = q
      BY <2>7 DEF Holds
    <3>2. n # 1
      BY <3>1, <2>1, <2>7
    <3>3. Len(front) >= 1 /\ front[1] = q
      BY <3>1, <3>2, <2>2, <2>4
    <3>4. Len(front \o back) >= 1 /\ (front \o back)[1] = q
      BY <3>3, <2>4, <2>5
    <3> QED
      BY <3>4, <2>3, <2>6
  <2> QED
    BY <2>6, <2>7
<1> QED
  BY <1>1, <1>2

----------------------------------------------------------------------------
(* The inductive invariant *)

\* Whoever migrates holds the lock: at most one process does.
LockHeld == \A p \in Processes : stage[p].at \in Migrating => Holds(p)

\* What the steps behind a process have established, and keep while it holds
\* the lock (or, for those that serve, for ever).
StageTells ==
  \A p \in Processes :
    /\ stage[p].at = "inferring oauth" => 1 \in recorded /\ Creates[2] \subseteq present
    /\ stage[p].at = "applying" => stage[p].seen = recorded
    /\ stage[p].at = "serving" => Latest \in recorded

\* A table atoms of this program comes with the other tables of version 1.
CoreIsWhole == "atoms" \in present => Creates[1] \subseteq present

\* What was applied is recorded, and was not applied before it was.
AppliedIsRecorded == \A v \in Versions : applied[v] <= 1 /\ (applied[v] # 0 => v \in recorded)

MigrationInv ==
  TypeOK /\ LockHeld /\ StageTells /\ CoreIsWhole /\ AppliedIsRecorded /\ RecordedIsComplete

LEMMA MigrationInit == Init => MigrationInv
<1> SUFFICES ASSUME Init PROVE MigrationInv
  OBVIOUS
<1>1. \A v \in Versions : Creates[v] \subseteq UpTo(Latest) /\ UpTo(v) \subseteq UpTo(Latest)
  BY CreatesUpTo, UpToGrows, SixMigrations
<1>2. "oauth_clients" \in UpTo(Latest)
  <2>1. "oauth_clients" \in Creates[2]
    BY DEF Creates
  <2> QED
    BY <2>1, <1>1, SixMigrations
<1>3. UpTo(1) \subseteq UpTo(2) /\ Creates[1] \subseteq UpTo(1)
  BY UpToGrows DEF UpTo
<1>4. present \subseteq UpTo(Latest) /\ recorded \subseteq Versions
  BY <1>1, <1>2, <1>3, SixMigrations DEF Init, Legacy
<1>5. RecordedIsComplete
  <2>1. ASSUME NEW v \in Versions, recorded = 1 .. v, present = UpTo(v)
        PROVE  RecordedIsComplete
    BY <2>1, UpToGrows, SixMigrations DEF RecordedIsComplete
  <2> QED
    BY <2>1 DEF Init, RecordedIsComplete
<1>6. CoreIsWhole
  <2>1. \A v \in Versions : Creates[1] \subseteq UpTo(v)
    BY UpToGrows, <1>3, SixMigrations
  <2> QED
    BY <2>1, <1>3 DEF Init, Legacy, CoreIsWhole
<1>7. TypeOK
  BY <1>4 DEF Init, TypeOK, Down, Stages
<1>8. LockHeld /\ StageTells
  BY DEF Init, LockHeld, StageTells, Down, Migrating
<1>9. AppliedIsRecorded
  BY DEF Init, AppliedIsRecorded
<1> QED
  BY <1>5, <1>6, <1>7, <1>8, <1>9 DEF MigrationInv

\* Steps that leave the schema alone keep what is said of the schema.
LEMMA SchemaStays ==
  ASSUME CoreIsWhole, AppliedIsRecorded, RecordedIsComplete, UNCHANGED <<recorded, present, applied>>
  PROVE  CoreIsWhole' /\ AppliedIsRecorded' /\ RecordedIsComplete'
  BY DEF CoreIsWhole, AppliedIsRecorded, RecordedIsComplete

\* A process that is at none of the stages above, when it moves, ...
LEMMA StageMoves ==
  ASSUME NEW p \in Processes, NEW s \in Stages, TypeOK, StageTells, MoveTo(p, s),
         UNCHANGED <<recorded, present>>,
         s.at \notin {"inferring oauth", "applying", "serving"}
  PROVE  StageTells'
  BY DEF TypeOK, StageTells, MoveTo

\* ... and when it leaves the queue.
LEMMA LeavingKeepsLock ==
  ASSUME NEW p \in Processes, NEW s \in Stages, TypeOK, LockHeld, MoveTo(p, s),
         queue' = Without(p), s.at \notin Migrating
  PROVE  LockHeld'
<1> SUFFICES ASSUME NEW q \in Processes, stage'[q].at \in Migrating
             PROVE  Holds(q)'
  BY DEF LockHeld
<1>1. q # p /\ stage[q].at \in Migrating
  BY DEF MoveTo, TypeOK
<1>2. Holds(q)
  BY <1>1 DEF LockHeld
<1> QED
  BY <1>1, <1>2, HeadStays DEF Holds, TypeOK

\* The lock has one holder.
LEMMA OneMigrates ==
  ASSUME LockHeld, NEW p \in Processes, NEW q \in Processes,
         stage[p].at \in Migrating, stage[q].at \in Migrating
  PROVE  p = q
  BY DEF LockHeld, Holds

----------------------------------------------------------------------------
(* The steps *)

LEMMA StartKeeps ==
  ASSUME MigrationInv, NEW p \in Processes, Start(p)
  PROVE  MigrationInv'
<1> USE DEF MigrationInv
<1>1. /\ At("waiting") \in Stages /\ At("waiting").at = "waiting"
      /\ At("checking") \in Stages /\ At("checking").at = "checking"
  BY DEF At, Stages
<1>2. PICK s \in Stages : s.at \in {"waiting", "checking"} /\ MoveTo(p, s)
                         /\ queue' \in {queue, Append(queue, p)}
  BY <1>1 DEF Start
<1>3. UNCHANGED <<recorded, present, foreign, applied>>
  BY DEF Start
<1>4. TypeOK'
  BY <1>2, <1>3 DEF TypeOK, MoveTo
<1>5. LockHeld'
  <2> SUFFICES ASSUME NEW q \in Processes, stage'[q].at \in Migrating
               PROVE  Holds(q)'
    BY DEF LockHeld
  <2>1. stage[q].at \in Migrating
    BY <1>2 DEF MoveTo, TypeOK, Migrating
  <2>2. Holds(q)
    BY <2>1 DEF LockHeld
  <2> QED
    BY <2>2, <1>2 DEF Holds, TypeOK
<1>6. StageTells'
  <2>1. s.at \notin {"inferring oauth", "applying", "serving"}
    BY <1>2
  <2> QED
    BY <2>1, <1>2, <1>3, StageMoves
<1> QED
  BY <1>3, <1>4, <1>5, <1>6, SchemaStays

LEMMA CheckKeeps ==
  ASSUME MigrationInv, NEW p \in Processes, Check(p)
  PROVE  MigrationInv'
<1> USE DEF MigrationInv
<1>1. PICK s \in Stages : MoveTo(p, s) /\ s.at \in {"serving", "down"}
                         /\ (s.at = "serving" => Latest \in recorded)
  <2>1. /\ At("serving") \in Stages /\ At("serving").at = "serving"
        /\ Down \in Stages /\ Down.at = "down"
    BY DEF At, Down, Stages
  <2> QED
    BY <2>1 DEF Check, MayServe
<1>2. UNCHANGED <<recorded, present, foreign, queue, applied>>
  BY DEF Check
<1>3. s.at \notin Migrating
  BY <1>1 DEF Migrating
<1>4. TypeOK'
  BY <1>1, <1>2 DEF TypeOK, MoveTo
<1>5. LockHeld'
  BY <1>1, <1>2, <1>3 DEF LockHeld, Holds, MoveTo, TypeOK
<1>6. StageTells'
  BY <1>1, <1>2, <1>3 DEF StageTells, MoveTo, TypeOK, Migrating
<1> QED
  BY <1>2, <1>4, <1>5, <1>6, SchemaStays

LEMMA LockGrantedKeeps ==
  ASSUME MigrationInv, NEW p \in Processes, LockGranted(p)
  PROVE  MigrationInv'
<1> USE DEF MigrationInv
<1>1. At("inferring") \in Stages /\ At("inferring").at = "inferring"
  BY DEF At, Stages
<1>2. TypeOK'
  BY <1>1 DEF LockGranted, TypeOK, MoveTo
<1>3. LockHeld'
  BY DEF LockGranted, LockHeld, Holds, MoveTo, TypeOK
<1>4. StageTells'
  BY <1>1, StageMoves DEF LockGranted
<1> QED
  BY <1>2, <1>3, <1>4, SchemaStays DEF LockGranted

\* The holder of the lock moves on, and keeps it.
LEMMA HolderKeepsLock ==
  ASSUME NEW p \in Processes, NEW s \in Stages, TypeOK, LockHeld, stage[p].at \in Migrating,
         MoveTo(p, s), UNCHANGED queue
  PROVE  LockHeld'
  BY DEF LockHeld, Holds, MoveTo, TypeOK

\* While the holder of the lock records more versions, what the others have
\* established stays: none of them migrates.
LEMMA OthersStay ==
  ASSUME NEW p \in Processes, NEW q \in Processes, NEW s \in Stages, q # p,
         TypeOK, LockHeld, StageTells, stage[p].at \in Migrating, MoveTo(p, s),
         recorded \subseteq recorded'
  PROVE  /\ stage'[q].at \notin {"inferring oauth", "applying"}
         /\ stage'[q].at = "serving" => Latest \in recorded'
<1>1. stage'[q] = stage[q]
  BY DEF MoveTo, TypeOK
<1>2. stage[q].at \notin Migrating
  BY OneMigrates
<1> QED
  BY <1>1, <1>2 DEF Migrating, StageTells

LEMMA InferCoreKeeps ==
  ASSUME MigrationInv, NEW p \in Processes, InferCore(p)
  PROVE  MigrationInv'
<1> USE DEF MigrationInv
<1>1. /\ At("reading") \in Stages /\ At("reading").at = "reading"
      /\ At("inferring oauth") \in Stages /\ At("inferring oauth").at = "inferring oauth"
  BY DEF At, Stages
<1>2. PICK s \in Stages :
        /\ MoveTo(p, s) /\ s.at \in {"reading", "inferring oauth"}
        /\ s.at = "inferring oauth" => 1 \in recorded' /\ Creates[2] \subseteq present
  BY <1>1 DEF InferCore
<1>3. /\ stage[p].at \in Migrating
      /\ UNCHANGED <<present, foreign, queue, applied>>
  BY DEF InferCore, Migrating
<1>4. recorded' = recorded \/ (IsBaseline /\ recorded' = {1})
  BY DEF InferCore, IsBaseline
<1>5. TypeOK'
  <2>1. 1 \in Versions
    BY SixMigrations
  <2>2. recorded' \subseteq Versions
    BY <2>1, <1>4 DEF TypeOK
  <2> QED
    BY <2>2, <1>2, <1>3 DEF TypeOK, MoveTo
<1>6. LockHeld'
  BY <1>2, <1>3, HolderKeepsLock
<1>7. StageTells'
  <2> SUFFICES ASSUME NEW q \in Processes
               PROVE  /\ stage'[q].at = "inferring oauth" => 1 \in recorded' /\ Creates[2] \subseteq present
                      /\ stage'[q].at = "applying" => stage'[q].seen = recorded'
                      /\ stage'[q].at = "serving" => Latest \in recorded'
    BY <1>3 DEF StageTells
  <2>1. CASE q = p
    BY <2>1, <1>2 DEF MoveTo, TypeOK
  <2>2. CASE q # p
    BY <2>2, <1>2, <1>3, <1>4, OthersStay DEF IsBaseline
  <2> QED
    BY <2>1, <2>2
<1>8. CoreIsWhole' /\ AppliedIsRecorded'
  BY <1>3, <1>4 DEF CoreIsWhole, AppliedIsRecorded, IsBaseline
<1>9. RecordedIsComplete'
  <2>1. CASE recorded' = recorded
    BY <2>1, <1>3 DEF RecordedIsComplete
  <2>2. CASE IsBaseline /\ recorded' = {1}
    <3>1. Creates[1] \subseteq present
      BY <2>2 DEF IsBaseline, CoreIsWhole
    <3>2. UpTo(1) \subseteq present /\ 1 .. 1 = {1}
      BY <3>1, UpToCreates
    <3> QED
      BY <2>2, <3>2, <1>3 DEF RecordedIsComplete
  <2> QED
    BY <2>1, <2>2, <1>4
<1> QED
  BY <1>5, <1>6, <1>7, <1>8, <1>9

LEMMA InferOAuthKeeps ==
  ASSUME MigrationInv, NEW p \in Processes, InferOAuth(p)
  PROVE  MigrationInv'
<1> USE DEF MigrationInv
<1>1. At("reading") \in Stages /\ At("reading").at = "reading"
  BY DEF At, Stages
<1>2. /\ stage[p].at = "inferring oauth" /\ stage[p].at \in Migrating
      /\ MoveTo(p, At("reading")) /\ recorded' = recorded \cup {2}
      /\ UNCHANGED <<present, foreign, queue, applied>>
  BY DEF InferOAuth, Migrating
<1>3. TypeOK'
  <2>1. 2 \in Versions
    BY SixMigrations
  <2>2. recorded' \subseteq Versions
    BY <2>1, <1>2 DEF TypeOK
  <2> QED
    BY <2>2, <1>1, <1>2 DEF TypeOK, MoveTo
<1>4. LockHeld'
  BY <1>1, <1>2, HolderKeepsLock
<1>5. StageTells'
  <2> SUFFICES ASSUME NEW q \in Processes
               PROVE  /\ stage'[q].at = "inferring oauth" => 1 \in recorded' /\ Creates[2] \subseteq present
                      /\ stage'[q].at = "applying" => stage'[q].seen = recorded'
                      /\ stage'[q].at = "serving" => Latest \in recorded'
    BY <1>2 DEF StageTells
  <2>1. CASE q = p
    BY <2>1, <1>1, <1>2 DEF MoveTo, TypeOK
  <2>2. CASE q # p
    BY <2>2, <1>1, <1>2, OthersStay
  <2> QED
    BY <2>1, <2>2
<1>6. CoreIsWhole' /\ AppliedIsRecorded'
  BY <1>2 DEF CoreIsWhole, AppliedIsRecorded
<1>7. RecordedIsComplete'
  <2>1. 1 \in recorded /\ Creates[2] \subseteq present
    BY <1>2 DEF StageTells
  <2>2. UpTo(1) \subseteq present
    BY <2>1 DEF RecordedIsComplete
  <2>3. Creates[1] \subseteq present
    BY <2>2, UpToCreates
  <2>4. \A v \in 1 .. 2 : v = 1 \/ v = 2
    OBVIOUS
  <2>5. UpTo(2) \subseteq present
    BY <2>1, <2>3, <2>4, UpToCreates
  <2>6. 1 .. 2 \subseteq recorded'
    BY <2>1, <2>4, <1>2
  <2> QED
    BY <2>5, <2>6, <1>2 DEF RecordedIsComplete
<1> QED
  BY <1>3, <1>4, <1>5, <1>6, <1>7

LEMMA ReadRecordedKeeps ==
  ASSUME MigrationInv, NEW p \in Processes, ReadRecorded(p)
  PROVE  MigrationInv'
<1> USE DEF MigrationInv
<1>1. /\ Applying(recorded) \in Stages
      /\ Applying(recorded).at = "applying" /\ Applying(recorded).seen = recorded
  BY DEF Applying, Stages, TypeOK
<1>2. /\ stage[p].at \in Migrating /\ MoveTo(p, Applying(recorded))
      /\ UNCHANGED <<recorded, present, foreign, queue, applied>>
  BY DEF ReadRecorded, Migrating
<1>3. TypeOK'
  BY <1>1, <1>2 DEF TypeOK, MoveTo
<1>4. LockHeld'
  BY <1>1, <1>2, HolderKeepsLock
<1>5. StageTells'
  BY <1>1, <1>2 DEF StageTells, MoveTo, TypeOK
<1> QED
  BY <1>2, <1>3, <1>4, <1>5, SchemaStays

LEMMA ApplyKeeps ==
  ASSUME MigrationInv, NEW p \in Processes, NEW v \in Versions, Apply(p, v)
  PROVE  MigrationInv'
<1> USE DEF MigrationInv
<1> DEFINE seen == stage[p].seen
           after == Applying(seen \cup {v})
<1>1. /\ stage[p].at = "applying" /\ stage[p].at \in Migrating
      /\ MoveTo(p, after) /\ UNCHANGED <<foreign, queue>>
      /\ recorded' = recorded \cup {v} /\ present' = present \cup Creates[v]
      /\ applied' = [applied EXCEPT ![v] = @ + 1]
  BY DEF Apply, Migrating
<1>2. seen = recorded
  BY <1>1 DEF StageTells
<1>3. v \notin recorded /\ \A w \in Versions \ recorded : v <= w
  BY <1>2 DEF Apply, Due
<1>4. after \in Stages /\ after.at = "applying" /\ after.seen = recorded'
  BY <1>1, <1>2 DEF Applying, Stages, TypeOK
<1> HIDE DEF seen, after
<1>5. TypeOK'
  <2>1. present' \subseteq UpTo(Latest)
    BY <1>1, CreatesUpTo DEF TypeOK
  <2> QED
    BY <1>1, <1>4, <2>1 DEF TypeOK, MoveTo
<1>6. LockHeld'
  BY <1>1, <1>4, HolderKeepsLock
<1>7. StageTells'
  <2> SUFFICES ASSUME NEW q \in Processes
               PROVE  /\ stage'[q].at = "inferring oauth" => 1 \in recorded' /\ Creates[2] \subseteq present'
                      /\ stage'[q].at = "applying" => stage'[q].seen = recorded'
                      /\ stage'[q].at = "serving" => Latest \in recorded'
    BY DEF StageTells
  <2>1. CASE q = p
    BY <2>1, <1>1, <1>4 DEF MoveTo, TypeOK
  <2>2. CASE q # p
    BY <2>2, <1>1, <1>4, OthersStay
  <2> QED
    BY <2>1, <2>2
<1>8. CoreIsWhole'
  BY <1>1, AtomsAreCore DEF CoreIsWhole
<1>9. AppliedIsRecorded'
  BY <1>1, <1>3 DEF AppliedIsRecorded, TypeOK
<1>10. RecordedIsComplete'
  <2>1. ASSUME NEW w \in recorded
        PROVE  1 .. w \subseteq recorded' /\ UpTo(w) \subseteq present'
    BY <2>1, <1>1 DEF RecordedIsComplete
  <2>2. 1 .. v \subseteq recorded'
    BY <1>1, <1>3, SixMigrations
  <2>3. \A u \in 1 .. v : Creates[u] \subseteq present'
    <3>1. ASSUME NEW u \in 1 .. v, u # v
          PROVE  Creates[u] \subseteq present
      <4>1. u \in recorded /\ u \in Nat /\ u \in 1 .. u
        BY <3>1, <2>2, <1>1, SixMigrations
      <4>2. UpTo(u) \subseteq present
        BY <4>1 DEF RecordedIsComplete
      <4> QED
        BY <4>1, <4>2, UpToCreates
    <3> QED
      BY <3>1, <1>1
  <2>4. UpTo(v) \subseteq present'
    BY <2>3, UpToCreates, SixMigrations
  <2> QED
    BY <2>1, <2>2, <2>4, <1>1 DEF RecordedIsComplete
<1> QED
  BY <1>5, <1>6, <1>7, <1>8, <1>9, <1>10

\* A process that goes down, in whatever way, ...
LEMMA DownKeeps ==
  ASSUME MigrationInv, NEW p \in Processes, MoveTo(p, Down), queue' = Without(p),
         UNCHANGED <<recorded, present, foreign, applied>>
  PROVE  MigrationInv'
<1> USE DEF MigrationInv
<1>1. Down \in Stages /\ Down.at = "down"
  BY DEF Down, Stages
<1>2. Down.at \notin Migrating /\ Down.at \notin {"inferring oauth", "applying", "serving"}
  BY <1>1 DEF Migrating
<1>3. TypeOK'
  BY <1>1, HeadStays DEF TypeOK, MoveTo
<1>4. LockHeld'
  BY <1>1, <1>2, LeavingKeepsLock
<1>5. StageTells'
  BY <1>1, <1>2, StageMoves
<1> QED
  BY <1>3, <1>4, <1>5, SchemaStays

\* ... and one that has applied every migration.
LEMMA FinishKeeps ==
  ASSUME MigrationInv, NEW p \in Processes, Finish(p)
  PROVE  MigrationInv'
<1> USE DEF MigrationInv
<1>1. At("serving") \in Stages /\ At("serving").at = "serving"
  BY DEF At, Stages
<1>2. At("serving").at \notin Migrating
  BY <1>1 DEF Migrating
<1>3. /\ MoveTo(p, At("serving")) /\ queue' = Without(p)
      /\ UNCHANGED <<recorded, present, foreign, applied>>
  BY DEF Finish
<1>4. Latest \in recorded
  <2>1. recorded = Versions
    BY DEF Finish, StageTells
  <2> QED
    BY <2>1, SixMigrations
<1>5. TypeOK'
  BY <1>1, <1>3, HeadStays DEF TypeOK, MoveTo
<1>6. LockHeld'
  BY <1>1, <1>2, <1>3, LeavingKeepsLock
<1>7. StageTells'
  BY <1>1, <1>3, <1>4 DEF StageTells, MoveTo, TypeOK
<1> QED
  BY <1>3, <1>5, <1>6, <1>7, SchemaStays

LEMMA NextKeeps == MigrationInv /\ [Next]_vars => MigrationInv'
<1> SUFFICES ASSUME MigrationInv, [Next]_vars PROVE MigrationInv'
  OBVIOUS
<1>1. CASE UNCHANGED vars
  BY <1>1 DEF vars, MigrationInv, TypeOK, LockHeld, Holds, StageTells, CoreIsWhole,
              AppliedIsRecorded, RecordedIsComplete
<1>2. CASE Next
  <2>1. PICK p \in Processes : Start(p) \/ Progress(p) \/ Crash(p)
    BY <1>2 DEF Next
  <2>2. CASE Start(p)
    BY <2>2, StartKeeps
  <2>3. CASE Crash(p) \/ Abandon(p)
    BY <2>3, DownKeeps DEF Crash, Abandon
  <2>4. CASE Check(p) \/ LockGranted(p)
    BY <2>4, CheckKeeps, LockGrantedKeeps
  <2>5. CASE InferCore(p) \/ InferOAuth(p) \/ ReadRecorded(p)
    BY <2>5, InferCoreKeeps, InferOAuthKeeps, ReadRecordedKeeps
  <2>6. CASE \E v \in Versions : Apply(p, v)
    BY <2>6, ApplyKeeps
  <2>7. CASE Finish(p)
    BY <2>7, FinishKeeps
  <2> QED
    BY <2>1, <2>2, <2>3, <2>4, <2>5, <2>6, <2>7 DEF Progress
<1> QED
  BY <1>1, <1>2

----------------------------------------------------------------------------
(* Theorems *)

\* The inductive invariant holds in every state of every start (Database.initialize).
THEOREM MigrationInvariant == Spec => []MigrationInv
  BY MigrationInit, NextKeeps, PTL DEF Spec

\* Every variable of the start has its type, whatever processes start and die.
THEOREM StartsTyped == Spec => []TypeOK
<1>1. MigrationInv => TypeOK
  BY DEF MigrationInv
<1> QED
  BY <1>1, MigrationInvariant, PTL

\* The versions in foundation_schema have no gap and are all really there,
\* wherever migrate was interrupted and from whatever baseline it began.
THEOREM RecordedStaysComplete == Spec => []RecordedIsComplete
<1>1. MigrationInv => RecordedIsComplete
  BY DEF MigrationInv
<1> QED
  BY <1>1, MigrationInvariant, PTL

\* However many processes run migrate at once, none of its transactions is
\* committed for a version that was committed before.
THEOREM NothingAppliedTwice == Spec => []AppliedOnce
<1>1. MigrationInv => AppliedOnce
  BY DEF MigrationInv, AppliedIsRecorded, AppliedOnce
<1> QED
  BY <1>1, MigrationInvariant, PTL

\* Reading only the largest version is enough: initialize lets a process serve
\* over the complete schema and over no other.
THEOREM ServedSchemaIsLatest == Spec => []ServesLatestSchema
<1>1. MigrationInv => ServesLatestSchema
  <2> SUFFICES ASSUME MigrationInv, NEW p \in Processes, stage[p].at = "serving"
               PROVE  present = UpTo(Latest)
    BY DEF ServesLatestSchema
  <2>1. Latest \in recorded
    BY DEF MigrationInv, StageTells
  <2> QED
    BY <2>1 DEF MigrationInv, RecordedIsComplete, TypeOK
<1> QED
  BY <1>1, MigrationInvariant, PTL
=============================================================================
