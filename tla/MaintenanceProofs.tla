------------------------ MODULE MaintenanceProofs ------------------------
(* Theorems about Maintenance, for any processes, jobs and configuration.     *)
EXTENDS Maintenance, TLAPS

-----------------------------------------------------------------------------
(* Types *)

LEMMA PhasesListed ==
  Phases = {"inserting", "inserted", "accepted", "marking", "executing", "recording",
            "failing", "caught", "dropped", "finished", "abandoned", "lost", "none"}
BY DEF Phases, Underway, Ended, Throwing, Inserting, Executing

LEMMA PhaseAfterType ==
  ASSUME NEW type, NEW done
  PROVE  PhaseAfter(type, done) \in {"recording", "executing"}
BY DEF PhaseAfter

LEMMA ProceedType ==
  ASSUME TypeOK, NEW j \in Jobs, NEW phase \in Phases, Proceed(j, phase)
  PROVE  job' \in [Jobs -> Calls]
BY DEF TypeOK, Proceed, Calls

LEMMA NewJobType ==
  ASSUME TypeOK, NEW p \in Processes, NEW j \in Jobs,
         NEW via \in {"enqueue", "run"}, NEW type \in JobTypes,
         job' = [job EXCEPT ![j] = NewJob(p, via, type)]
  PROVE  job' \in [Jobs -> Calls]
<1>1. NewJob(p, via, type) \in Calls
  BY PhasesListed DEF NewJob, Calls
<1> QED
  BY <1>1 DEF TypeOK

\* What an action may do to the flags of a process.
SetsFlags(p) ==
  \/ proc' = [proc EXCEPT ![p].running = TRUE]
  \/ proc' = [proc EXCEPT ![p].running = FALSE]
  \/ proc' = [proc EXCEPT ![p].queued = TRUE]
  \/ proc' = [proc EXCEPT ![p].queued = FALSE]
  \/ proc' = [proc EXCEPT ![p].sweeping = FALSE]
  \/ proc' = [proc EXCEPT ![p].timer = FALSE]
  \/ proc' = [proc EXCEPT ![p].up = TRUE]
  \/ proc' = [proc EXCEPT ![p].queued = FALSE, ![p].running = TRUE]

\* Each flag can be set on its own.
LEMMA FlagType ==
  ASSUME NEW s \in Services, NEW b \in BOOLEAN
  PROVE  /\ [s EXCEPT !.running = b] \in Services
         /\ [s EXCEPT !.queued = b] \in Services
         /\ [s EXCEPT !.sweeping = b] \in Services
         /\ [s EXCEPT !.timer = b] \in Services
         /\ [s EXCEPT !.up = b] \in Services
<1>1. [s EXCEPT !.running = b] \in Services
  BY DEF Services
<1>2. [s EXCEPT !.queued = b] \in Services
  BY DEF Services
<1>3. [s EXCEPT !.sweeping = b] \in Services
  BY DEF Services
<1>4. [s EXCEPT !.timer = b] \in Services
  BY DEF Services
<1>5. [s EXCEPT !.up = b] \in Services
  BY DEF Services
<1> QED
  BY <1>1, <1>2, <1>3, <1>4, <1>5

LEMMA FlagsType ==
  ASSUME TypeOK, NEW p \in Processes, SetsFlags(p)
  PROVE  proc' \in [Processes -> Services]
<1>1. CASE proc' = [proc EXCEPT ![p].queued = FALSE, ![p].running = TRUE]
  <2>1. [proc[p] EXCEPT !.queued = FALSE, !.running = TRUE] \in Services
    BY DEF TypeOK, Services
  <2>2. proc' = [proc EXCEPT ![p] = [proc[p] EXCEPT !.queued = FALSE, !.running = TRUE]]
    BY <1>1 DEF TypeOK
  <2> QED
    BY <2>1, <2>2 DEF TypeOK
<1>2. CASE proc' = [proc EXCEPT ![p].running = TRUE]
  BY <1>2, FlagType DEF TypeOK
<1>3. CASE proc' = [proc EXCEPT ![p].running = FALSE]
  BY <1>3, FlagType DEF TypeOK
<1>4. CASE proc' = [proc EXCEPT ![p].queued = TRUE]
  BY <1>4, FlagType DEF TypeOK
<1>5. CASE proc' = [proc EXCEPT ![p].queued = FALSE]
  BY <1>5, FlagType DEF TypeOK
<1>6. CASE proc' = [proc EXCEPT ![p].sweeping = FALSE]
  BY <1>6, FlagType DEF TypeOK
<1>7. CASE proc' = [proc EXCEPT ![p].timer = FALSE]
  BY <1>7, FlagType DEF TypeOK
<1>8. CASE proc' = [proc EXCEPT ![p].up = TRUE]
  BY <1>8, FlagType DEF TypeOK
<1> QED
  BY <1>1, <1>2, <1>3, <1>4, <1>5, <1>6, <1>7, <1>8 DEF SetsFlags

LEMMA RowType ==
  ASSUME TypeOK, NEW j \in Jobs,
         NEW status \in {"none", "queued", "running", "succeeded", "failed"},
         NEW error \in {"none", "restarted", "refused", "message"}
  PROVE  /\ Row(j, status, error) => row' \in [Jobs -> JobRows]
         /\ MarkRunning(j) => row' \in [Jobs -> JobRows]
         /\ MarkSucceeded(j) => row' \in [Jobs -> JobRows]
BY DEF TypeOK, Row, MarkRunning, MarkSucceeded, JobRows

\* A reservation keeps the types, whoever makes it.
LEMMA RequestType ==
  ASSUME TypeOK, NEW p \in Processes, NEW j \in Jobs,
         Request(p, j) \/ Tick(p, j) \/ Run(p, j)
  PROVE  TypeOK'
<1>1. PICK via \in {"enqueue", "run"}, type \in JobTypes :
        /\ job' = [job EXCEPT ![j] = NewJob(p, via, type)]
        /\ UNCHANGED <<row, stale>>
        /\ SetsFlags(p)
  <2>1. Requests \subseteq JobTypes /\ "full" \in JobTypes
    BY MaintenanceAssumption DEF JobTypes
  <2> QED
    BY <2>1 DEF Request, Tick, Run, Enqueue, SetsFlags
<1>2. job' \in [Jobs -> Calls]
  BY <1>1, NewJobType
<1>3. proc' \in [Processes -> Services]
  BY <1>1, FlagsType
<1> QED
  BY <1>1, <1>2, <1>3 DEF TypeOK

\* How a job advances when a step is done.
Advances(j) ==
  \E s \in JobSteps : job' = [job EXCEPT ![j].done = @ \cup {s},
                          ![j].phase = PhaseAfter(job[j].type, job[j].done \cup {s})]

\* An answer or a microtask moves one call to another phase.
LEMMA ProgressMoves ==
  ASSUME NEW j \in Jobs, Progress(j)
  PROVE  Advances(j) \/ \E phase \in Phases \ {"none"} : Proceed(j, phase)
<1>1. CASE InsertAnswered(j) \/ MarkAnswered(j)
  <2>1. PhaseAfter(job[j].type, {}) \in Phases \ {"none"}
         /\ "accepted" \in Phases \ {"none"}
    BY PhaseAfterType, PhasesListed
  <2>2. CASE Proceed(j, PhaseAfter(job[j].type, {}))
    BY <2>1, <2>2
  <2>3. CASE Proceed(j, "accepted")
    BY <2>1, <2>3
  <2> QED
    BY <1>1, <2>2, <2>3 DEF InsertAnswered, MarkAnswered
<1>2. CASE ~InsertAnswered(j) /\ ~MarkAnswered(j) /\ ~StepDone(j)
  <2>1. \/ Proceed(j, "inserted") \/ Proceed(j, "abandoned") \/ Proceed(j, "marking")
        \/ Proceed(j, "failing") \/ Proceed(j, "finished") \/ Proceed(j, "caught")
        \/ Proceed(j, "dropped")
    BY <1>2 DEF Progress, InsertCommits, InsertFails, ExecuteQueued, MarkFails, StepFails,
            SuccessRecorded, RecordFails, FailureRecorded, FailureUnrecorded, Caught
  <2>2. {"inserted", "abandoned", "marking", "failing", "finished", "caught", "dropped"}
          \subseteq Phases \ {"none"}
    BY PhasesListed
  <2> QED
    BY <2>1, <2>2
<1>3. CASE StepDone(j)
  BY <1>3 DEF StepDone, Advances
<1> QED
  BY <1>1, <1>2, <1>3

\* The owner of a call under way, or of an error on its way, is a process.
Owned == \A j \in Jobs : job[j].phase \in Underway \cup Throwing => job[j].owner \in Processes

\* Every answer and every microtask keeps the types.
LEMMA ProgressType ==
  ASSUME TypeOK, Owned, NEW j \in Jobs, Progress(j)
  PROVE  TypeOK'
<1> DEFINE p == job[j].owner
<1>1. Advances(j) \/ \E phase \in Phases \ {"none"} : Proceed(j, phase)
  BY ProgressMoves
<1>2. job' \in [Jobs -> Calls]
  <2>1. CASE \E phase \in Phases \ {"none"} : Proceed(j, phase)
    BY <2>1, ProceedType
  <2>2. CASE Advances(j)
    <3>1. PICK s \in JobSteps : job' = [job EXCEPT ![j].done = @ \cup {s},
                    ![j].phase = PhaseAfter(job[j].type, job[j].done \cup {s})]
      BY <2>2 DEF Advances
    <3>2. PhaseAfter(job[j].type, job[j].done \cup {s}) \in Phases
      BY PhaseAfterType, PhasesListed
    <3> DEFINE call == [job[j] EXCEPT !.done = @ \cup {s},
                    !.phase = PhaseAfter(job[j].type, job[j].done \cup {s})]
    <3>3. call \in Calls
      BY <3>2 DEF TypeOK, Calls
    <3>4. job' = [job EXCEPT ![j] = call]
      BY <3>1 DEF TypeOK
    <3> QED
      BY <3>3, <3>4 DEF TypeOK
  <2> QED
    BY <1>1, <2>1, <2>2
<1>3. p \in Processes /\ proc' \in [Processes -> Services]
  <2>1. p \in Processes
    BY DEF Owned, Underway, Throwing, Inserting, Executing, Progress, InsertCommits,
           InsertAnswered, InsertFails, ExecuteQueued, MarkAnswered, MarkFails, StepDone,
           StepFails, SuccessRecorded, RecordFails, FailureRecorded, FailureUnrecorded,
           Caught, Awaiting
  <2>2. UNCHANGED proc \/ SetsFlags(p)
    BY DEF Progress, InsertCommits, InsertAnswered, InsertFails, ExecuteQueued, MarkAnswered,
           MarkFails, StepDone, StepFails, SuccessRecorded, RecordFails, FailureRecorded,
           FailureUnrecorded, Caught, ReleaseRunning, SetsFlags
  <2> QED
    BY <2>1, <2>2, FlagsType DEF TypeOK
<1>4. row' \in [Jobs -> JobRows]
  <2>1. \/ UNCHANGED row \/ MarkRunning(j) \/ MarkSucceeded(j)
        \/ Row(j, IF job[j].via = "enqueue" THEN "queued" ELSE "running", "none")
        \/ Row(j, "failed", "refused") \/ Row(j, "failed", "message")
    BY DEF Progress, InsertCommits, InsertAnswered, InsertFails, ExecuteQueued, MarkAnswered,
           MarkFails, StepDone, StepFails, SuccessRecorded, RecordFails, FailureRecorded,
           FailureUnrecorded, Caught
  <2> QED
    BY <2>1, RowType DEF TypeOK
<1>5. UNCHANGED stale
  BY DEF Progress, InsertCommits, InsertAnswered, InsertFails, ExecuteQueued, MarkAnswered,
         MarkFails, StepDone, StepFails, SuccessRecorded, RecordFails, FailureRecorded,
         FailureUnrecorded, Caught
<1> QED
  BY <1>2, <1>3, <1>4, <1>5 DEF TypeOK

LEMMA BootType ==
  ASSUME TypeOK, NEW p \in Processes, Boot(p)
  PROVE  TypeOK'
<1>1. CASE proc' = [proc EXCEPT ![p].up = TRUE] /\ UNCHANGED <<job, row, stale>>
  BY <1>1, FlagsType DEF TypeOK, SetsFlags
<1>2. ASSUME NEW j \in Jobs,
             job' = [job EXCEPT ![j] = NewJob(p, "enqueue", "full")],
             proc' = [proc EXCEPT ![p] = [up |-> TRUE, timer |-> TRUE, sweeping |-> TRUE,
                                          running |-> FALSE, queued |-> TRUE]],
             UNCHANGED <<row, stale>>
      PROVE  TypeOK'
  <2>1. job' \in [Jobs -> Calls]
    BY <1>2, NewJobType DEF JobTypes
  <2>2. proc' \in [Processes -> Services]
    BY <1>2 DEF TypeOK, Services
  <2> QED
    BY <1>2, <2>1, <2>2 DEF TypeOK
<1> QED
  BY <1>1, <1>2 DEF Boot

LEMMA CrashType ==
  ASSUME TypeOK, NEW p \in Processes, Crash(p)
  PROVE  TypeOK'
<1>1. job' \in [Jobs -> Calls]
  <2>1. \A j \in Jobs : [job[j] EXCEPT !.phase = "lost"] \in Calls /\ job[j] \in Calls
    BY PhasesListed DEF TypeOK, Calls
  <2> QED
    BY <2>1 DEF Crash
<1>2. proc' \in [Processes -> Services]
  BY DEF Crash, TypeOK, Off, Services
<1> QED
  BY <1>1, <1>2 DEF Crash, TypeOK

LEMMA SweepType ==
  ASSUME TypeOK, NEW p \in Processes, Sweep(p)
  PROVE  TypeOK'
<1>1. \A j \in Jobs : row[j] \in JobRows /\ row[j].error \in {"none", "restarted", "refused", "message"}
  BY DEF TypeOK, JobRows
<1>2. row' \in [Jobs -> JobRows]
  BY <1>1 DEF Sweep, JobRows
<1>3. proc' \in [Processes -> Services]
  BY FlagsType DEF Sweep, SetsFlags
<1> QED
  BY <1>2, <1>3 DEF Sweep, TypeOK

-----------------------------------------------------------------------------
(* Every call has an owner *)

LEMMA OwnedStep == TypeOK /\ Owned /\ [Next]_vars => Owned'
<1> SUFFICES ASSUME TypeOK, Owned, [Next]_vars
             PROVE  Owned'
  OBVIOUS
<1> USE DEF Owned
<1>1. ASSUME NEW p \in Processes, NEW j \in Jobs, NEW via, NEW type,
             job' = [job EXCEPT ![j] = NewJob(p, via, type)]
      PROVE  Owned'
  BY <1>1 DEF TypeOK, NewJob
<1>2. ASSUME NEW j \in Jobs, Progress(j)
      PROVE  Owned'
  <2>1. job[j].owner \in Processes
    BY <1>2 DEF Underway, Throwing, Inserting, Executing, Progress, InsertCommits,
           InsertAnswered, InsertFails, ExecuteQueued, MarkAnswered, MarkFails, StepDone,
           StepFails, SuccessRecorded, RecordFails, FailureRecorded, FailureUnrecorded,
           Caught, Awaiting
  <2>2. \A k \in Jobs : job'[k].owner = job[k].owner /\ (k # j => job'[k] = job[k])
    <3>1. CASE Advances(j)
      BY <3>1 DEF TypeOK, Calls, Advances
    <3>2. CASE \E phase \in Phases \ {"none"} : Proceed(j, phase)
      BY <3>2 DEF TypeOK, Calls, Proceed
    <3> QED
      BY <1>2, <3>1, <3>2, ProgressMoves
  <2> QED
    BY <2>1, <2>2
<1>3. ASSUME NEW p \in Processes, Crash(p)
      PROVE  Owned'
  BY <1>3 DEF Crash, TypeOK, Calls, Underway, Throwing, Inserting, Executing
<1>4. CASE UNCHANGED job
  BY <1>4
<1>5. ASSUME NEW p \in Processes, NEW j \in Jobs, Request(p, j) \/ Tick(p, j) \/ Run(p, j)
      PROVE  Owned'
  BY <1>1, <1>5 DEF Request, Tick, Run, Enqueue
<1>6. ASSUME NEW p \in Processes, Boot(p)
      PROVE  Owned'
  BY <1>1, <1>4, <1>6 DEF Boot
<1> QED
  BY <1>2, <1>3, <1>4, <1>5, <1>6 DEF Next, vars, Stop, Sweep, SweepFails, Age

-----------------------------------------------------------------------------
(* The type invariant *)

LEMMA TypeStep == TypeOK /\ Owned /\ [Next]_vars => TypeOK'
<1> SUFFICES ASSUME TypeOK, Owned, [Next]_vars
             PROVE  TypeOK'
  OBVIOUS
<1>1. ASSUME NEW p \in Processes, Stop(p) \/ SweepFails(p)
      PROVE  TypeOK'
  BY <1>1, FlagsType DEF Stop, SweepFails, TypeOK, SetsFlags
<1>2. ASSUME NEW p \in Processes, NEW j \in Jobs, Request(p, j) \/ Tick(p, j) \/ Run(p, j)
      PROVE  TypeOK'
  BY <1>2, RequestType
<1>3. ASSUME NEW j \in Jobs, Age(j)
      PROVE  TypeOK'
  BY <1>3 DEF Age, TypeOK
<1>4. CASE UNCHANGED vars
  BY <1>4 DEF vars, TypeOK
<1> QED
  BY <1>1, <1>2, <1>3, <1>4, BootType, CrashType, SweepType, ProgressType DEF Next

LEMMA TypeInit == Init => TypeOK /\ Owned
BY PhasesListed DEF Init, TypeOK, Owned, Off, NoJob, NoRow, Services, Calls, JobRows, JobTypes,
   Underway, Throwing, Inserting, Executing

THEOREM JobsOwned == Spec => [](TypeOK /\ Owned)
BY TypeInit, TypeStep, OwnedStep, PTL DEF Spec

\* Types of the flags, the calls and the rows.
THEOREM JobsTyped == Spec => []TypeOK
BY JobsOwned, PTL

-----------------------------------------------------------------------------
(* The slot, for callers of run that are not eager *)

\* A call that enqueue accepted and that waits for the slot, and a call whose job
\* holds it.
Waits(c) == c.via = "enqueue" /\ c.phase \in Inserting \cup {"accepted"}
Holds(c) == c.phase \in Executing \/ (c.via = "run" /\ c.phase \in Inserting)

\* What a call under way knows about the flags of its process.
FlagsMatch ==
  \A j \in Jobs :
    /\ Waits(job[j]) => proc[job[j].owner].queued /\ ~proc[job[j].owner].running
    /\ Holds(job[j]) => proc[job[j].owner].running /\ ~proc[job[j].owner].queued
    /\ job[j].phase \in Underway => Waits(job[j]) \/ Holds(job[j])
    /\ job[j].phase \in Underway \cup Throwing => proc[job[j].owner].up

OneUnderway ==
  \A j, k \in Jobs :
    job[j].phase \in Underway /\ job[k].phase \in Underway /\ job[j].owner = job[k].owner => j = k

\* While an error is on its way to its catch clause, a later call has not yet
\* taken an answer: the catch clause cannot release a slot it does not own.
NoLateCatch ==
  \A j, k \in Jobs :
    job[j].phase \in Throwing /\ job[k].phase \in Underway /\ job[j].owner = job[k].owner
    => job[k].via = "enqueue" /\ job[k].phase \in Inserting

SlotInv == FlagsMatch /\ OneUnderway /\ NoLateCatch /\ SlotNeverLeaks

\* A step of a call within the slot: the flags stay, and so does what they mean.
LEMMA StayStep ==
  ASSUME TypeOK, Owned, SlotInv, NEW j \in Jobs, UNCHANGED proc,
         \A k \in Jobs \ {j} : job'[k] = job[k],
         job'[j].owner = job[j].owner,
         \/ Waits(job[j]) /\ Waits(job'[j])
         \/ Holds(job[j]) /\ Holds(job'[j]),
         (job'[j].via = job[j].via /\ job'[j].phase \in Inserting) \/ Drained(job[j].owner)
  PROVE  SlotInv'
<1> USE DEF Waits, Holds, Underway, Throwing, Inserting, Executing
<1>1. job[j].phase \in Underway /\ job'[j].phase \in Underway
  OBVIOUS
<1>2. FlagsMatch'
  BY DEF SlotInv, FlagsMatch
<1>3. OneUnderway'
  BY <1>1 DEF SlotInv, OneUnderway
<1>4. NoLateCatch'
  BY <1>1 DEF SlotInv, NoLateCatch, Drained, Microtasks
<1>5. SlotNeverLeaks'
  BY <1>1 DEF SlotInv, SlotNeverLeaks, SlotFree
<1> QED
  BY <1>2, <1>3, <1>4, <1>5 DEF SlotInv

\* A call that leaves the slot clears the flag it had set.
LEMMA LeaveStep ==
  ASSUME TypeOK, Owned, SlotInv, NEW j \in Jobs, job[j].phase \in Underway,
         \A k \in Jobs \ {j} : job'[k] = job[k],
         job'[j].owner = job[j].owner,
         job'[j].phase \in Ended,
         \/ Waits(job[j]) /\ proc' = [proc EXCEPT ![job[j].owner].queued = FALSE]
         \/ Holds(job[j]) /\ proc' = [proc EXCEPT ![job[j].owner].running = FALSE]
  PROVE  SlotInv'
<1> DEFINE p == job[j].owner
<1>1. p \in Processes
  BY DEF Owned
<1>2. /\ ~proc'[p].running /\ ~proc'[p].queued /\ proc'[p].up = proc[p].up
      /\ \A q \in Processes \ {p} : proc'[q] = proc[q]
  BY <1>1 DEF SlotInv, FlagsMatch, TypeOK, Services
<1>3. \A k \in Jobs : job'[k].phase \in Underway => job'[k] = job[k] /\ job[k].owner # p
  BY DEF SlotInv, OneUnderway, Ended, Underway, Throwing, Inserting, Executing
<1>4. \A k \in Jobs : job'[k].owner = job[k].owner
  OBVIOUS
<1>5. FlagsMatch'
  <2> SUFFICES ASSUME NEW k \in Jobs
               PROVE  FlagsMatch!(k)'
    BY DEF FlagsMatch
  <2>1. CASE k = j
    BY <2>1, <1>1, <1>2, <1>3 DEF SlotInv, FlagsMatch, Waits, Holds, Underway, Ended, Throwing, Inserting, Executing
  <2>2. CASE k # j
    BY SMTT(30), <2>2, <1>1, <1>2, <1>3 DEF Owned, SlotInv, FlagsMatch, Waits, Holds, Underway, Throwing, Inserting, Executing
  <2> QED
    BY <2>1, <2>2
<1>6. OneUnderway'
  BY <1>3 DEF SlotInv, OneUnderway
<1>7. NoLateCatch'
  BY <1>3, <1>4 DEF SlotInv, NoLateCatch
<1>8. SlotNeverLeaks'
  BY <1>1, <1>2 DEF SlotInv, SlotNeverLeaks, SlotFree
<1> QED
  BY <1>5, <1>6, <1>7, <1>8 DEF SlotInv

\* The microtask of an accepted job finds the slot free and takes it.
LEMMA ExecuteQueuedStep ==
  ASSUME TypeOK, Owned, SlotInv, NEW j \in Jobs, ExecuteQueued(j)
  PROVE  SlotInv' /\ Proceed(j, "marking") /\ UNCHANGED row
<1> DEFINE p == job[j].owner
<1> USE DEF Waits, Holds, Underway, Throwing, Inserting, Executing
<1>1. p \in Processes /\ job[j].phase = "accepted" /\ ~proc[p].running
  BY DEF ExecuteQueued, Owned, SlotInv, FlagsMatch
<1>2. Proceed(j, "marking") /\ UNCHANGED row
  BY <1>1 DEF ExecuteQueued
<1>3. /\ \A k \in Jobs \ {j} : job'[k] = job[k]
      /\ job'[j].owner = p /\ job'[j].phase = "marking"
  BY <1>2 DEF Proceed, TypeOK, Calls
<1>4. /\ proc'[p].running /\ ~proc'[p].queued /\ proc'[p].up = proc[p].up
      /\ \A q \in Processes \ {p} : proc'[q] = proc[q]
  BY <1>1 DEF ExecuteQueued, TypeOK, Services
<1>5. \A k \in Jobs \ {j} : job[k].phase \in Underway => job[k].owner # p
  BY <1>1 DEF SlotInv, OneUnderway
<1>6. \A k \in Jobs : job[k].phase \in Throwing => job[k].owner # p
  BY <1>1 DEF SlotInv, NoLateCatch
<1>7. FlagsMatch'
  BY <1>1, <1>3, <1>4, <1>5, <1>6 DEF Owned, SlotInv, FlagsMatch
<1>8. OneUnderway'
  BY <1>1, <1>3 DEF SlotInv, OneUnderway
<1>9. NoLateCatch'
  BY <1>1, <1>3, <1>6 DEF SlotInv, NoLateCatch
<1>10. SlotNeverLeaks'
  BY <1>1, <1>3, <1>4 DEF SlotInv, SlotNeverLeaks, SlotFree
<1> QED
  BY <1>2, <1>7, <1>8, <1>9, <1>10 DEF SlotInv

\* The catch clause releases a slot that is free already.
LEMMA CaughtStep ==
  ASSUME TypeOK, Owned, SlotInv, NEW j \in Jobs, Caught(j)
  PROVE  SlotInv' /\ UNCHANGED proc
<1> DEFINE p == job[j].owner
<1> USE DEF Waits, Holds, Underway, Throwing, Inserting, Executing
<1>1. p \in Processes /\ job[j].phase \in Throwing
  BY DEF Caught, Owned
<1>2. ~proc[p].running
  BY <1>1 DEF SlotInv, FlagsMatch, NoLateCatch, SlotNeverLeaks, SlotFree
<1>3. UNCHANGED proc
  <2>1. [proc[p] EXCEPT !.running = FALSE] = proc[p]
    BY <1>1, <1>2 DEF TypeOK, Services
  <2>2. proc' = [proc EXCEPT ![p] = [proc[p] EXCEPT !.running = FALSE]]
    BY DEF Caught, ReleaseRunning
  <2> QED
    BY <1>1, <2>1, <2>2 DEF TypeOK
<1>4. /\ \A k \in Jobs \ {j} : job'[k] = job[k]
      /\ job'[j].owner = p /\ job'[j].phase \in {"finished", "abandoned"}
  BY DEF Caught, Proceed, TypeOK, Calls
<1>5. FlagsMatch'
  BY <1>1, <1>3, <1>4 DEF SlotInv, FlagsMatch
<1>6. OneUnderway'
  BY <1>4 DEF SlotInv, OneUnderway
<1>7. NoLateCatch'
  BY <1>4 DEF SlotInv, NoLateCatch
<1>8. SlotNeverLeaks'
  BY <1>1, <1>3, <1>4 DEF SlotInv, SlotNeverLeaks, SlotFree
<1> QED
  BY <1>3, <1>5, <1>6, <1>7, <1>8 DEF SlotInv

\* A reservation finds no call of its process under way and, if it takes the slot
\* at once, no error on its way.
LEMMA ReserveStep ==
  ASSUME TypeOK, Owned, SlotInv, NEW p \in Processes, NEW j \in Jobs, NEW type,
         NEW via \in {"enqueue", "run"},
         SlotFree(p), job[j].phase = "none",
         job' = [job EXCEPT ![j] = NewJob(p, via, type)],
         via = "enqueue" \/ Drained(p),
         \A q \in Processes \ {p} : proc'[q] = proc[q],
         proc'[p].up, proc'[p].queued = (via = "enqueue"), proc'[p].running = (via = "run")
  PROVE  SlotInv'
<1> USE DEF Waits, Holds, Underway, Throwing, Inserting, Executing
<1>1. /\ \A k \in Jobs \ {j} : job'[k] = job[k]
      /\ job'[j].owner = p /\ job'[j].phase = "inserting" /\ job'[j].via = via
  BY DEF NewJob, TypeOK
<1>2. \A k \in Jobs : job[k].phase \in Underway => job[k].owner # p
  BY DEF SlotInv, FlagsMatch, SlotFree
<1>3. FlagsMatch'
  <2>1. proc'[p].up /\ (via = "enqueue" => proc'[p].queued /\ ~proc'[p].running)
                    /\ (via = "run" => proc'[p].running /\ ~proc'[p].queued)
    OBVIOUS
  <2> SUFFICES ASSUME NEW k \in Jobs
               PROVE  FlagsMatch!(k)'
    BY DEF FlagsMatch
  <2>2. CASE k = j
    BY <1>1, <2>1, <2>2
  <2>3. CASE k # j
    BY <1>1, <1>2, <2>1, <2>3 DEF Owned, SlotInv, FlagsMatch
  <2> QED
    BY <2>2, <2>3
<1>4. OneUnderway'
  BY <1>1, <1>2 DEF SlotInv, OneUnderway
<1>5. NoLateCatch'
  BY <1>1, <1>2 DEF SlotInv, NoLateCatch, Drained, Microtasks
<1>6. SlotNeverLeaks'
  BY <1>1, <1>2 DEF SlotInv, SlotNeverLeaks, SlotFree
<1> QED
  BY <1>3, <1>4, <1>5, <1>6 DEF SlotInv

LEMMA RequestStep ==
  ASSUME ~EagerCallers, TypeOK, Owned, SlotInv, NEW p \in Processes, NEW j \in Jobs,
         Request(p, j) \/ Tick(p, j) \/ Run(p, j)
  PROVE  SlotInv'
<1>1. ASSUME NEW type, Enqueue(p, j, type)
      PROVE  SlotInv'
  <2>1. /\ \A q \in Processes \ {p} : proc'[q] = proc[q]
        /\ proc'[p].up /\ proc'[p].queued /\ ~proc'[p].running
    BY <1>1 DEF Enqueue, SlotFree, TypeOK, Services
  <2>2. proc'[p].queued = TRUE /\ proc'[p].running = FALSE
    BY <2>1, <1>1 DEF Enqueue, SlotFree, TypeOK, Services
  <2>3. SlotFree(p) /\ job[j].phase = "none" /\ job' = [job EXCEPT ![j] = NewJob(p, "enqueue", type)]
    BY <1>1 DEF Enqueue
  <2> QED
    BY <2>1, <2>2, <2>3, ReserveStep
<1>2. ASSUME Run(p, j)
      PROVE  SlotInv'
  <2>1. PICK type \in Requests : job' = [job EXCEPT ![j] = NewJob(p, "run", type)]
    BY <1>2 DEF Run
  <2>2. /\ \A q \in Processes \ {p} : proc'[q] = proc[q]
        /\ proc'[p].up /\ proc'[p].queued = FALSE /\ proc'[p].running = TRUE
    BY <1>2 DEF Run, SlotFree, TypeOK, Services
  <2>3. SlotFree(p) /\ job[j].phase = "none" /\ Drained(p)
    BY <1>2 DEF Run
  <2> QED
    BY <2>1, <2>2, <2>3, ReserveStep
<1> QED
  BY <1>1, <1>2 DEF Request, Tick

LEMMA BootStep ==
  ASSUME TypeOK, Owned, SlotInv, NEW p \in Processes, Boot(p)
  PROVE  SlotInv'
<1>1. \A k \in Jobs : job[k].phase \in Underway \cup Throwing => job[k].owner # p
  BY DEF Boot, SlotInv, FlagsMatch
<1>2. SlotFree(p)
  BY <1>1 DEF SlotInv, SlotNeverLeaks
<1>3. CASE ~Scheduled
  <2>1. /\ \A q \in Processes : proc'[q].running = proc[q].running /\ proc'[q].queued = proc[q].queued
        /\ \A q \in Processes : proc[q].up => proc'[q].up
        /\ UNCHANGED job
    BY <1>3 DEF Boot, TypeOK, Services
  <2>2. FlagsMatch'
    BY <2>1 DEF SlotInv, FlagsMatch, Owned, Waits, Holds, Underway, Throwing, Inserting, Executing
  <2> QED
    BY <2>1, <2>2 DEF SlotInv, OneUnderway, NoLateCatch, SlotNeverLeaks, SlotFree
<1>4. CASE Scheduled
  <2>1. PICK j \in Jobs : /\ job[j].phase = "none"
                          /\ job' = [job EXCEPT ![j] = NewJob(p, "enqueue", "full")]
    BY <1>4 DEF Boot
  <2>2. /\ \A q \in Processes \ {p} : proc'[q] = proc[q]
        /\ proc'[p].up /\ proc'[p].queued = TRUE /\ proc'[p].running = FALSE
    BY <1>4 DEF Boot, TypeOK
  <2> QED
    BY <1>2, <2>1, <2>2, ReserveStep
<1> QED
  BY <1>3, <1>4

LEMMA CrashStep ==
  ASSUME TypeOK, Owned, SlotInv, NEW p \in Processes, Crash(p)
  PROVE  SlotInv'
<1> USE DEF Waits, Holds, Underway, Throwing, Inserting, Executing
<1>1. \A k \in Jobs : job'[k].owner = job[k].owner
  BY DEF Crash, TypeOK, Calls
<1>2. \A k \in Jobs : job'[k].phase \in Underway \cup Throwing => job'[k] = job[k] /\ job[k].owner # p
  BY DEF Crash, TypeOK, Calls
<1>3. \A k \in Jobs : job[k].phase \in Underway /\ job[k].owner # p => job'[k] = job[k]
  BY DEF Crash
<1>4. \A q \in Processes \ {p} : proc'[q] = proc[q]
  BY DEF Crash, TypeOK
<1>5. FlagsMatch'
  BY <1>2, <1>4 DEF SlotInv, FlagsMatch, Owned
<1>6. OneUnderway' /\ NoLateCatch'
  BY <1>1, <1>2 DEF SlotInv, OneUnderway, NoLateCatch
<1>7. SlotNeverLeaks'
  <2>1. ~proc'[p].running /\ ~proc'[p].queued
    BY DEF Crash, Off, TypeOK
  <2> QED
    BY <1>1, <1>3, <1>4, <2>1 DEF SlotInv, SlotNeverLeaks, SlotFree
<1> QED
  BY <1>5, <1>6, <1>7 DEF SlotInv

\* Every answer and every microtask keeps the slot exclusive.
LEMMA ProgressStep ==
  ASSUME TypeOK, Owned, SlotInv, NEW j \in Jobs, Progress(j)
  PROVE  SlotInv'
<1> DEFINE c == job[j]
<1> USE DEF Waits, Holds, Underway, Ended, Throwing, Inserting, Executing, Awaiting
<1>1. ASSUME NEW phase, Proceed(j, phase)
      PROVE  /\ \A k \in Jobs \ {j} : job'[k] = job[k]
             /\ job'[j].owner = c.owner /\ job'[j].via = c.via /\ job'[j].phase = phase
  BY <1>1 DEF Proceed, TypeOK, Calls
<1>2. c.phase \in Underway => Waits(c) \/ Holds(c)
  BY DEF SlotInv, FlagsMatch
<1>3. CASE InsertCommits(j)
  <2>1. Proceed(j, "inserted") /\ c.phase = "inserting" /\ UNCHANGED proc
    BY <1>3 DEF InsertCommits
  <2> QED
    BY <1>1, <1>2, <2>1, StayStep
<1>4. CASE InsertAnswered(j)
  <2>1. CASE c.via = "enqueue"
    <3>1. Proceed(j, "accepted") /\ Drained(c.owner) /\ UNCHANGED proc /\ c.phase = "inserted"
      BY <1>4, <2>1 DEF InsertAnswered
    <3> QED
      BY <1>1, <2>1, <3>1, StayStep
  <2>2. CASE c.via # "enqueue"
    <3>1. PICK phase \in {"recording", "executing"} : Proceed(j, phase)
      BY <1>4, <2>2, PhaseAfterType DEF InsertAnswered
    <3>2. Drained(c.owner) /\ UNCHANGED proc /\ c.phase = "inserted" /\ c.via = "run"
      BY <1>4, <2>2 DEF InsertAnswered, TypeOK, Calls
    <3> QED
      BY <1>1, <3>1, <3>2, StayStep
  <2> QED
    BY <2>1, <2>2
<1>5. CASE MarkAnswered(j) \/ StepFails(j) \/ RecordFails(j)
  <2>1. PICK phase \in {"recording", "executing", "failing"} : Proceed(j, phase)
    BY <1>5, PhaseAfterType DEF MarkAnswered, StepFails, RecordFails
  <2>2. UNCHANGED proc /\ Drained(c.owner) /\ c.phase \in Executing
    BY <1>5 DEF MarkAnswered, StepFails, RecordFails
  <2> QED
    BY <1>1, <2>1, <2>2, StayStep
<1>6. CASE StepDone(j)
  <2>1. PICK s \in JobSteps : job' = [job EXCEPT ![j].done = @ \cup {s},
                  ![j].phase = PhaseAfter(job[j].type, job[j].done \cup {s})]
    BY <1>6 DEF StepDone
  <2>2. /\ \A k \in Jobs \ {j} : job'[k] = job[k]
        /\ job'[j].owner = c.owner /\ job'[j].phase \in {"recording", "executing"}
    BY <2>1, PhaseAfterType DEF TypeOK, Calls
  <2>3. UNCHANGED proc /\ Drained(c.owner) /\ c.phase \in Executing
    BY <1>6 DEF StepDone
  <2> QED
    BY <2>2, <2>3, StayStep
<1>7. CASE InsertFails(j)
  <2>1. c.phase \in Inserting /\ Proceed(j, "abandoned") /\ c.via \in {"enqueue", "run"}
    BY <1>7 DEF InsertFails, TypeOK, Calls
  <2>2. \/ Waits(c) /\ proc' = [proc EXCEPT ![c.owner].queued = FALSE]
        \/ Holds(c) /\ proc' = [proc EXCEPT ![c.owner].running = FALSE]
    BY <1>7, <2>1 DEF InsertFails
  <2> QED
    BY <1>1, <2>1, <2>2, LeaveStep
<1>8. CASE MarkFails(j) \/ SuccessRecorded(j) \/ FailureRecorded(j) \/ FailureUnrecorded(j)
  <2>1. PICK phase \in {"abandoned", "finished", "caught", "dropped"} : Proceed(j, phase)
    BY <1>8 DEF MarkFails, SuccessRecorded, FailureRecorded, FailureUnrecorded
  <2>2. c.phase \in Executing /\ proc' = [proc EXCEPT ![c.owner].running = FALSE]
    BY <1>8 DEF MarkFails, SuccessRecorded, FailureRecorded, FailureUnrecorded, ReleaseRunning
  <2> QED
    BY <1>1, <2>1, <2>2, LeaveStep
<1> QED
  BY <1>3, <1>4, <1>5, <1>6, <1>7, <1>8, ExecuteQueuedStep, CaughtStep DEF Progress

LEMMA SlotStep ==
  ASSUME ~EagerCallers, TypeOK, Owned, SlotInv, [Next]_vars
  PROVE  SlotInv'
<1>1. ASSUME NEW p \in Processes, Stop(p) \/ Sweep(p) \/ SweepFails(p)
      PROVE  SlotInv'
  <2>1. /\ UNCHANGED job
        /\ \A q \in Processes : /\ proc'[q].running = proc[q].running
                                /\ proc'[q].queued = proc[q].queued
                                /\ proc'[q].up = proc[q].up
    BY <1>1 DEF Stop, Sweep, SweepFails, TypeOK, Services
  <2>2. FlagsMatch'
    BY <2>1 DEF SlotInv, FlagsMatch, Owned, Waits, Holds, Underway, Throwing, Inserting, Executing
  <2> QED
    BY <2>1, <2>2 DEF SlotInv, OneUnderway, NoLateCatch, SlotNeverLeaks, SlotFree
<1>2. ASSUME UNCHANGED <<proc, job>>
      PROVE  SlotInv'
  BY <1>2 DEF SlotInv, FlagsMatch, OneUnderway, NoLateCatch, SlotNeverLeaks, SlotFree
<1> QED
  BY <1>1, <1>2, BootStep, CrashStep, RequestStep, ProgressStep DEF Next, Age, vars

LEMMA SlotStart == Init => SlotInv
BY DEF Init, SlotInv, FlagsMatch, OneUnderway, NoLateCatch, SlotNeverLeaks, SlotFree, Off, NoJob,
   Waits, Holds, Underway, Throwing, Inserting, Executing

THEOREM SlotSafe ==
  ASSUME ~EagerCallers
  PROVE  Spec => [](TypeOK /\ Owned /\ SlotInv)
<1>1. TypeOK /\ Owned /\ SlotInv /\ [Next]_vars => (TypeOK /\ Owned /\ SlotInv)'
  BY TypeStep, OwnedStep, SlotStep
<1> QED
  BY <1>1, TypeInit, SlotStart, PTL DEF Spec

\* While run is not called between two microtasks, no process ever executes two
\* jobs at a time.
THEOREM MutualExclusion ==
  ASSUME ~EagerCallers
  PROVE  Spec => []OneJobAtATime
<1>1. SlotInv => OneJobAtATime
  BY DEF SlotInv, OneUnderway, OneJobAtATime, Underway
<1> QED
  BY <1>1, SlotSafe, PTL

\* Under the same condition a reserved slot always belongs to a call under way.
THEOREM SlotIsOwned ==
  ASSUME ~EagerCallers
  PROVE  Spec => []SlotNeverLeaks
<1>1. SlotInv => SlotNeverLeaks
  BY DEF SlotInv
<1> QED
  BY <1>1, SlotSafe, PTL

-----------------------------------------------------------------------------
(* Refinement of the exclusive slot *)

\* A call that advances without leaving the slot, and one that leaves it.
LEMMA LeaseMoves ==
  ASSUME TypeOK, Owned, NEW j \in Jobs, job[j].phase \in Underway,
         \A k \in Jobs \ {j} : job'[k] = job[k],
         job'[j].owner = job[j].owner,
         job'[j].phase \in Underway \cup Ended
  PROVE  UNCHANGED Lease \/ Slot!Give(j)
<1>1. job[j].owner \in Processes /\ Lease[j] = job[j].owner
  BY DEF Owned, Lease
<1>2. CASE job'[j].phase \in Underway
  BY <1>2 DEF Lease
<1>3. CASE job'[j].phase \in Ended
  <2>1. Lease' = [Lease EXCEPT ![j] = "over"]
    BY <1>3 DEF Lease, Ended, Underway, Throwing, Inserting, Executing
  <2> QED
    BY <1>1, <2>1 DEF Slot!Give
<1> QED
  BY <1>2, <1>3

LEMMA LeaseTaken ==
  ASSUME TypeOK, SlotInv, NEW p \in Processes, NEW j \in Jobs, NEW via, NEW type,
         job[j].phase = "none", \A k \in Jobs : job[k].phase \in Underway => job[k].owner # p,
         job' = [job EXCEPT ![j] = NewJob(p, via, type)]
  PROVE  Slot!Take(p, j)
<1>1. job'[j].phase = "inserting" /\ job'[j].owner = p /\ \A k \in Jobs \ {j} : job'[k] = job[k]
  BY DEF NewJob, TypeOK
<1>2. Lease[j] = "new"
  BY DEF Lease, Underway, Inserting, Executing
<1>3. Lease' = [Lease EXCEPT ![j] = p]
  <2>1. job'[j].phase \in Underway
    BY <1>1 DEF Underway, Inserting
  <2>2. Lease'[j] = p
    BY <1>1, <2>1 DEF Lease
  <2>3. \A k \in Jobs \ {j} : Lease'[k] = Lease[k]
    BY <1>1 DEF Lease
  <2>4. Lease = [k \in Jobs |-> Lease[k]] /\ Lease' = [k \in Jobs |-> Lease'[k]]
    BY DEF Lease
  <2> QED
    BY <2>2, <2>3, <2>4
<1>4. \A k \in Jobs : Lease[k] # p
  BY MaintenanceAssumption DEF Lease
<1> QED
  BY <1>2, <1>3, <1>4 DEF Slot!Take, Slot!Idle

LEMMA ProgressLease ==
  ASSUME TypeOK, Owned, NEW j \in Jobs, Progress(j)
  PROVE  UNCHANGED Lease \/ Slot!Give(j)
<1> USE DEF Underway, Ended, Throwing, Inserting, Executing
<1>1. CASE Caught(j)
  <2>1. /\ \A k \in Jobs \ {j} : job'[k] = job[k]
        /\ job[j].phase \in Throwing /\ job'[j].phase \in {"finished", "abandoned"}
    BY <1>1 DEF Caught, Proceed, TypeOK, Calls
  <2> QED
    BY <2>1 DEF Lease
<1>2. CASE ~Caught(j)
  <2>1. job[j].phase \in Underway
    BY <1>2 DEF Progress, InsertCommits, InsertAnswered, InsertFails, ExecuteQueued,
           MarkAnswered, MarkFails, StepDone, StepFails, SuccessRecorded, RecordFails,
           FailureRecorded, FailureUnrecorded, Awaiting
  <2>2. /\ \A k \in Jobs \ {j} : job'[k] = job[k]
        /\ job'[j].owner = job[j].owner
        /\ job'[j].phase \in Phases \ {"none"}
    <3>1. CASE Advances(j)
      <4>1. PICK s \in JobSteps : job' = [job EXCEPT ![j].done = @ \cup {s},
                      ![j].phase = PhaseAfter(job[j].type, job[j].done \cup {s})]
        BY <3>1 DEF Advances
      <4> QED
        BY <4>1, PhaseAfterType, PhasesListed DEF TypeOK, Calls
    <3>2. CASE \E phase \in Phases \ {"none"} : Proceed(j, phase)
      BY <3>2 DEF Proceed, TypeOK, Calls
    <3> QED
      BY <3>1, <3>2, ProgressMoves
  <2>3. job'[j].phase \in Underway \cup Ended
    BY <2>2 DEF Phases
  <2> QED
    BY <2>1, <2>2, <2>3, LeaseMoves
<1> QED
  BY <1>1, <1>2

LEMMA CrashLease ==
  ASSUME TypeOK, Owned, SlotInv, NEW p \in Processes, Crash(p)
  PROVE  UNCHANGED Lease \/ \E j \in Jobs : Slot!Give(j)
<1>1. /\ \A k \in Jobs : job[k].owner # p \/ job[k].phase \notin Underway \cup Throwing => job'[k] = job[k]
      /\ \A k \in Jobs : job[k].owner = p /\ job[k].phase \in Underway \cup Throwing
                           => job'[k].phase = "lost"
  BY DEF Crash, TypeOK, Calls
<1>2. CASE \E j \in Jobs : job[j].owner = p /\ job[j].phase \in Underway
  <2>1. PICK j \in Jobs : job[j].owner = p /\ job[j].phase \in Underway
    BY <1>2
  <2>2. \A k \in Jobs \ {j} : job[k].phase \in Underway => job[k].owner # p
    BY <2>1 DEF SlotInv, OneUnderway
  <2>3. Lease' = [Lease EXCEPT ![j] = "over"]
    BY <1>1, <2>1, <2>2 DEF Lease, Underway, Throwing, Inserting, Executing
  <2>4. Lease[j] \in Processes
    BY <2>1 DEF Lease
  <2> QED
    BY <2>3, <2>4 DEF Slot!Give
<1>3. CASE \A j \in Jobs : job[j].phase \in Underway => job[j].owner # p
  BY <1>1, <1>3 DEF Lease, Underway, Throwing, Inserting, Executing
<1> QED
  BY <1>2, <1>3

LEMMA RequestLease ==
  ASSUME TypeOK, SlotInv, NEW p \in Processes,
         Boot(p) \/ \E j \in Jobs : Request(p, j) \/ Tick(p, j) \/ Run(p, j)
  PROVE  UNCHANGED Lease \/ \E j \in Jobs : Slot!Take(p, j)
<1>1. ASSUME SlotFree(p) \/ ~proc[p].up
      PROVE  \A k \in Jobs : job[k].phase \in Underway => job[k].owner # p
  BY <1>1 DEF SlotInv, FlagsMatch, SlotFree
<1>2. ASSUME NEW j \in Jobs, NEW type, Enqueue(p, j, type)
      PROVE  Slot!Take(p, j)
  BY <1>1, <1>2, LeaseTaken DEF Enqueue
<1>3. ASSUME NEW j \in Jobs, Run(p, j)
      PROVE  Slot!Take(p, j)
  <2>1. PICK type \in Requests : job' = [job EXCEPT ![j] = NewJob(p, "run", type)]
    BY <1>3 DEF Run
  <2>2. SlotFree(p) /\ job[j].phase = "none"
    BY <1>3 DEF Run
  <2> QED
    BY <1>1, <2>1, <2>2, LeaseTaken
<1>4. CASE Boot(p)
  BY <1>1, <1>4, LeaseTaken DEF Boot, Lease
<1> QED
  BY <1>2, <1>3, <1>4 DEF Request, Tick

\* While run is not called between two microtasks, the two flags of a process are
\* one exclusive slot: the service implements MaintenanceSlot.
THEOREM SlotRefined ==
  ASSUME ~EagerCallers
  PROVE  Spec => SlotIsExclusive
<1>1. Init => Slot!SlotInit
  BY DEF Init, NoJob, Lease, Slot!SlotInit, Underway, Inserting, Executing
<1>2. TypeOK /\ Owned /\ SlotInv /\ [Next]_vars => [Slot!SlotNext]_Lease
  <2> SUFFICES ASSUME TypeOK, Owned, SlotInv, [Next]_vars
               PROVE  Slot!SlotNext \/ UNCHANGED Lease
    OBVIOUS
  <2>1. ASSUME UNCHANGED job
        PROVE  UNCHANGED Lease
    BY <2>1 DEF Lease
  <2>2. ASSUME NEW j \in Jobs, Slot!Give(j)
        PROVE  Slot!SlotNext
    BY <2>2 DEF Slot!SlotNext
  <2>3. ASSUME NEW p \in Processes, NEW j \in Jobs, Slot!Take(p, j)
        PROVE  Slot!SlotNext
    BY <2>3 DEF Slot!SlotNext
  <2> QED
    BY <2>1, <2>2, <2>3, ProgressLease, CrashLease, RequestLease
       DEF Next, vars, Stop, Sweep, SweepFails, Age
<1> QED
  BY <1>1, <1>2, SlotSafe, PTL DEF Spec, SlotIsExclusive, Slot!SlotSpec

-----------------------------------------------------------------------------
(* What a row says about its job *)

\* The call for job j leaves every other call alone and keeps owner, kind and type.
LEMMA OneCallMoves ==
  ASSUME TypeOK, NEW j \in Jobs, Progress(j)
  PROVE  /\ \A k \in Jobs \ {j} : job'[k] = job[k]
         /\ job'[j].type = job[j].type
         /\ \/ job'[j].done = job[j].done
            \/ /\ job[j].phase = "executing" /\ UNCHANGED row
               /\ job'[j].phase = PhaseAfter(job[j].type, job'[j].done)
<1>1. CASE StepDone(j)
  BY <1>1 DEF StepDone, Awaiting, TypeOK, Calls
<1>2. ASSUME NEW phase \in Phases, Proceed(j, phase)
      PROVE  /\ \A k \in Jobs \ {j} : job'[k] = job[k]
             /\ job'[j].type = job[j].type /\ job'[j].done = job[j].done
  BY <1>2 DEF Proceed, TypeOK, Calls
<1>3. StepDone(j) \/ \E phase \in Phases : Proceed(j, phase)
  BY PhaseAfterType, PhasesListed
     DEF Progress, InsertCommits, InsertAnswered, InsertFails, ExecuteQueued, MarkAnswered,
         MarkFails, StepFails, SuccessRecorded, RecordFails, FailureRecorded,
         FailureUnrecorded, Caught
<1> QED
  BY <1>1, <1>2, <1>3

\* A call and the row of its job agree: nothing is recorded before it happened, and
\* a call that ends has recorded its outcome.
Agree(c, r) ==
  /\ c.phase \in {"none", "inserting"} => r = NoRow
  /\ c.phase \in {"none", "accepted", "marking"} \cup Inserting => c.done = {}
  /\ c.phase = "recording" => c.done = StepsOf(c.type)
  /\ r.status = "succeeded" => c.done = StepsOf(c.type) /\ c.phase \in {"failing"} \cup Ended
  /\ c.phase = "caught" => r.status = "failed"
  /\ c.phase = "finished" => r.status \in {"succeeded", "failed"}

WorkInv == \A j \in Jobs : Agree(job[j], row[j])

LEMMA ProgressAgrees ==
  ASSUME TypeOK, WorkInv, NEW j \in Jobs, Progress(j)
  PROVE  WorkInv'
<1> USE DEF Agree, Awaiting, Ended, Throwing, Inserting
<1>1. \A k \in Jobs \ {j} : job'[k] = job[k] /\ row'[k] = row[k]
  <2>1. \A k \in Jobs \ {j} : row'[k] = row[k]
    BY DEF Progress, InsertCommits, InsertAnswered, InsertFails, ExecuteQueued, MarkAnswered,
           MarkFails, StepDone, StepFails, SuccessRecorded, RecordFails, FailureRecorded,
           FailureUnrecorded, Caught, Row, MarkRunning, MarkSucceeded, TypeOK
  <2> QED
    BY <2>1, OneCallMoves
<1>2. ASSUME NEW phase, Proceed(j, phase)
      PROVE  job'[j].phase = phase /\ job'[j].type = job[j].type /\ job'[j].done = job[j].done
  BY <1>2 DEF Proceed, TypeOK, Calls
<1>3. ASSUME NEW status, NEW error, Row(j, status, error)
      PROVE  row'[j].status = status
  BY <1>3 DEF Row, TypeOK
<1>4. /\ MarkRunning(j) => row'[j].status = IF row[j].status = "queued" THEN "running" ELSE row[j].status
      /\ MarkSucceeded(j) => row'[j].status = "succeeded"
  BY DEF Row, MarkRunning, MarkSucceeded, TypeOK, JobRows
<1>5. Agree(job[j], row[j])
  BY DEF WorkInv
<1>6. Agree(job[j], row[j])'
  <2>1. CASE InsertCommits(j)
    <3>1. Proceed(j, "inserted") /\ job[j].phase = "inserting"
      BY <2>1 DEF InsertCommits
    <3>2. row'[j].status \in {"queued", "running"}
      BY <2>1, <1>3 DEF InsertCommits
    <3> QED
      BY <1>2, <1>5, <3>1, <3>2
  <2>2. CASE InsertAnswered(j) \/ MarkAnswered(j)
    <3>1. \/ Proceed(j, "accepted")
          \/ Proceed(j, PhaseAfter(job[j].type, {}))
      BY <2>2 DEF InsertAnswered, MarkAnswered
    <3>2. /\ job[j].phase \in {"inserted", "marking"}
          /\ row'[j].status = "succeeded" => row[j].status = "succeeded"
      BY <2>2, <1>4, <1>3 DEF InsertAnswered, MarkAnswered
    <3> QED
      BY SMTT(30), <1>2, <1>5, <3>1, <3>2 DEF PhaseAfter
  <2>3. CASE InsertFails(j) \/ MarkFails(j) \/ ExecuteQueued(j)
    <3>1. /\ Proceed(j, "abandoned") \/ Proceed(j, "marking") \/ Proceed(j, "finished")
          /\ job[j].phase \in Inserting \cup {"marking", "accepted"}
      BY <2>3 DEF InsertFails, MarkFails, ExecuteQueued
    <3>2. row'[j].status = "succeeded" => row[j].status = "succeeded"
      BY <2>3, <1>4, <1>3 DEF InsertFails, MarkFails, ExecuteQueued
    <3>3. Proceed(j, "finished") => row'[j].status = "failed" \/ Proceed(j, "marking") \/ Proceed(j, "abandoned")
      BY <2>3, <1>4, <1>3 DEF InsertFails, MarkFails, ExecuteQueued
    <3>4. Proceed(j, "marking") => job[j].phase = "accepted" \/ Proceed(j, "abandoned")
      BY <2>3 DEF InsertFails, MarkFails, ExecuteQueued
    <3> QED
      BY <1>2, <1>5, <3>1, <3>2, <3>3, <3>4
  <2>4. CASE StepDone(j)
    <3>1. /\ job[j].phase = "executing" /\ UNCHANGED row /\ job'[j].type = job[j].type
          /\ job'[j].phase = PhaseAfter(job[j].type, job'[j].done)
      BY <2>4 DEF StepDone, TypeOK, Calls
    <3> QED
      BY <1>5, <3>1 DEF PhaseAfter
  <2>5. CASE StepFails(j) \/ RecordFails(j)
    <3>1. Proceed(j, "failing") /\ job[j].phase \in {"executing", "recording"}
      BY <2>5 DEF StepFails, RecordFails
    <3>2. row'[j].status = "succeeded" => job[j].phase = "recording" \/ row[j].status = "succeeded"
      BY <2>5 DEF StepFails, RecordFails
    <3> QED
      BY <1>2, <1>5, <3>1, <3>2
  <2>6. CASE SuccessRecorded(j)
    <3>1. Proceed(j, "finished") /\ job[j].phase = "recording" /\ row'[j].status = "succeeded"
      BY <2>6, <1>4 DEF SuccessRecorded
    <3> QED
      BY <1>2, <1>5, <3>1
  <2>7. CASE FailureRecorded(j)
    <3>1. Proceed(j, "caught") /\ row'[j].status = "failed"
      BY <2>7, <1>3 DEF FailureRecorded
    <3> QED
      BY <1>2, <3>1
  <2>8. CASE FailureUnrecorded(j)
    <3>1. Proceed(j, "dropped") /\ job[j].phase = "failing" /\ UNCHANGED row
      BY <2>8 DEF FailureUnrecorded
    <3> QED
      BY <1>2, <1>5, <3>1
  <2>9. CASE Caught(j)
    <3>1. /\ UNCHANGED row
          /\ \/ job[j].phase = "caught" /\ Proceed(j, "finished")
             \/ job[j].phase = "dropped" /\ Proceed(j, "abandoned")
      BY <2>9 DEF Caught
    <3> QED
      BY <1>2, <1>5, <3>1
  <2> QED
    BY <2>1, <2>2, <2>3, <2>4, <2>5, <2>6, <2>7, <2>8, <2>9 DEF Progress
<1> QED
  BY <1>1, <1>6 DEF WorkInv

LEMMA WorkStep == TypeOK /\ WorkInv /\ [Next]_vars => WorkInv'
<1> SUFFICES ASSUME TypeOK, WorkInv, [Next]_vars
             PROVE  WorkInv'
  OBVIOUS
<1> USE DEF Agree, Ended, Throwing, Inserting
<1>1. ASSUME NEW p, NEW j \in Jobs, NEW via, NEW type, job[j].phase = "none", UNCHANGED row,
             job' = [job EXCEPT ![j] = NewJob(p, via, type)]
      PROVE  WorkInv'
  <2>1. /\ \A k \in Jobs \ {j} : job'[k] = job[k]
        /\ job'[j].phase = "inserting" /\ job'[j].done = {}
    BY <1>1 DEF NewJob, TypeOK
  <2>2. row'[j] = NoRow /\ NoRow.status = "none"
    BY <1>1 DEF WorkInv, NoRow
  <2> QED
    BY <1>1, <2>1, <2>2 DEF WorkInv
<1>2. ASSUME NEW p \in Processes, Crash(p)
      PROVE  WorkInv'
  <2>1. \A k \in Jobs : \/ job'[k] = job[k]
                        \/ /\ job[k].phase \in Underway \cup Throwing
                           /\ job'[k].phase = "lost" /\ job'[k].type = job[k].type
                           /\ job'[k].done = job[k].done
    BY <1>2 DEF Crash, TypeOK, Calls
  <2> QED
    BY <1>2, <2>1 DEF Crash, WorkInv
<1>3. ASSUME NEW p \in Processes, Sweep(p)
      PROVE  WorkInv'
  <2>1. \A k \in Jobs : \/ row'[k] = row[k]
                        \/ row[k].status = "queued" /\ row'[k].status = "failed"
    BY <1>3 DEF Sweep, Swept, TypeOK, JobRows
  <2>2. NoRow.status = "none"
    BY DEF NoRow
  <2> QED
    BY <1>3, <2>1, <2>2 DEF Sweep, WorkInv
<1>4. CASE UNCHANGED <<job, row>>
  BY <1>4 DEF WorkInv
<1>5. ASSUME NEW p \in Processes, NEW j \in Jobs, Request(p, j) \/ Tick(p, j) \/ Run(p, j)
      PROVE  WorkInv'
  BY <1>1, <1>5 DEF Request, Tick, Run, Enqueue
<1>6. ASSUME NEW p \in Processes, Boot(p)
      PROVE  WorkInv'
  BY <1>1, <1>4, <1>6 DEF Boot
<1> QED
  BY <1>2, <1>3, <1>4, <1>5, <1>6, ProgressAgrees DEF Next, vars, Stop, SweepFails, Age

\* A row says "succeeded" only when every step has been done, and a call whose
\* queries are answered leaves its outcome in the row.
THEOREM OutcomesTold == Spec => []RowsTellTheOutcome
<1>1. Init => WorkInv
  BY DEF Init, WorkInv, Agree, NoJob, NoRow, Inserting
<1>2. WorkInv => RowsTellTheOutcome
  BY DEF WorkInv, Agree, RowsTellTheOutcome
<1>3. TypeOK /\ Owned /\ WorkInv /\ [Next]_vars => WorkInv'
  BY WorkStep
<1> QED
  BY <1>1, <1>2, <1>3, JobsOwned, PTL DEF Spec

-----------------------------------------------------------------------------
(* An accepted job is executed *)

LEMMA RefusedStep ==
  ASSUME TypeOK, Owned, SlotInv, AcceptedIsNeverRefused, [Next]_vars
  PROVE  AcceptedIsNeverRefused'
<1> USE DEF AcceptedIsNeverRefused
<1>1. ASSUME NEW j \in Jobs, Progress(j)
      PROVE  AcceptedIsNeverRefused'
  <2>1. UNCHANGED row \/ MarkRunning(j) \/ MarkSucceeded(j) \/ Row(j, "failed", "message")
        \/ \E status : Row(j, status, "none")
    BY <1>1, ExecuteQueuedStep
       DEF Progress, InsertCommits, InsertAnswered, InsertFails, MarkAnswered, MarkFails,
           StepDone, StepFails, SuccessRecorded, RecordFails, FailureRecorded,
           FailureUnrecorded, Caught
  <2>2. ASSUME NEW status, NEW error \in {"none", "message"}, Row(j, status, error)
        PROVE  AcceptedIsNeverRefused'
    BY <2>2 DEF Row, TypeOK
  <2>3. CASE MarkRunning(j) \/ MarkSucceeded(j)
    BY <2>3 DEF MarkRunning, MarkSucceeded, TypeOK, JobRows
  <2> QED
    BY <2>1, <2>2, <2>3
<1>2. ASSUME NEW p \in Processes, Sweep(p)
      PROVE  AcceptedIsNeverRefused'
  BY <1>2 DEF Sweep
<1>3. CASE UNCHANGED row
  BY <1>3
<1> QED
  BY <1>1, <1>2, <1>3 DEF Next, vars, Boot, Stop, Crash, SweepFails, Request, Tick, Run, Enqueue, Age

\* While run is not called between two microtasks, a job whose caller was told
\* "accepted" never finds the slot taken.
THEOREM AcceptedIsExecuted ==
  ASSUME ~EagerCallers
  PROVE  Spec => []AcceptedIsNeverRefused
<1>1. Init => AcceptedIsNeverRefused
  BY DEF Init, NoRow, AcceptedIsNeverRefused
<1>2. TypeOK /\ Owned /\ SlotInv /\ AcceptedIsNeverRefused /\ [Next]_vars => AcceptedIsNeverRefused'
  BY RefusedStep
<1> QED
  BY <1>1, <1>2, SlotSafe, PTL DEF Spec

-----------------------------------------------------------------------------
(* Failed jobs, for processes that start a job within five minutes *)

\* A job under way has not been reported failed, a row old enough to be swept has
\* lost its call, and a swept job has done nothing.
Final(c, r, old) ==
  /\ c.phase \in Underway \cup {"none"} => r.status # "failed"
  /\ old => c.phase \in {"abandoned", "lost"}
  /\ r.status = "queued" =>
       /\ c.done = {}
       /\ c.phase \in Underway => c.via = "enqueue" /\ c.phase \in {"inserted", "accepted", "marking"}
  /\ r.error = "restarted" => c.phase \in {"abandoned", "lost"} /\ c.done = {}

FinalInv == \A j \in Jobs : Final(job[j], row[j], j \in stale)

\* What an answer or a microtask may do to the row of a job.
LEMMA ProgressRow ==
  ASSUME TypeOK, NEW j \in Jobs, Progress(j)
  PROVE  /\ UNCHANGED stale
         /\ \A k \in Jobs \ {j} : row'[k] = row[k]
         /\ \/ row'[j] = row[j]
            \/ /\ job[j].phase \in Underway
               /\ row'[j].error \in {row[j].error, "none", "message", "refused"}
<1>1. UNCHANGED stale
  BY DEF Progress, InsertCommits, InsertAnswered, InsertFails, ExecuteQueued, MarkAnswered,
         MarkFails, StepDone, StepFails, SuccessRecorded, RecordFails, FailureRecorded,
         FailureUnrecorded, Caught
<1>2. \/ UNCHANGED row
      \/ /\ job[j].phase \in Underway
         /\ \/ MarkRunning(j) \/ MarkSucceeded(j)
            \/ Row(j, "failed", "refused") \/ Row(j, "failed", "message")
            \/ Row(j, IF job[j].via = "enqueue" THEN "queued" ELSE "running", "none")
  BY DEF Progress, InsertCommits, InsertAnswered, InsertFails, ExecuteQueued, MarkAnswered,
         MarkFails, StepDone, StepFails, SuccessRecorded, RecordFails, FailureRecorded,
         FailureUnrecorded, Caught, Awaiting, Underway, Inserting, Executing
<1>3. ASSUME NEW status, NEW error, Row(j, status, error)
      PROVE  row'[j].error = error /\ \A k \in Jobs \ {j} : row'[k] = row[k]
  BY <1>3 DEF Row, TypeOK
<1>4. ASSUME MarkRunning(j) \/ MarkSucceeded(j)
      PROVE  row'[j].error = row[j].error /\ \A k \in Jobs \ {j} : row'[k] = row[k]
  BY <1>4 DEF MarkRunning, MarkSucceeded, TypeOK, JobRows
<1> QED
  BY <1>1, <1>2, <1>3, <1>4

\* Where a call stands after an answer or a microtask, and what its row says then.
LEMMA ProgressPhase ==
  ASSUME TypeOK, NEW j \in Jobs, Progress(j)
  PROVE  /\ job'[j].via = job[j].via
         /\ job[j].phase \in Underway \cup Throwing
         /\ job'[j].phase \in Underway /\ row'[j].status = "failed" => row[j].status = "failed"
         /\ row'[j].status = "queued" =>
              \/ row[j].status = "queued" /\ job'[j].phase \notin Underway
              \/ job[j].phase = "inserting" /\ job[j].via = "enqueue" /\ job'[j].phase = "inserted"
              \/ row[j].status = "queued" /\ job[j].phase = "accepted"
                 /\ job'[j].phase = "marking"
              \/ row[j].status = "queued" /\ job[j].phase = "inserted"
                 /\ (job[j].via = "enqueue" => job'[j].phase = "accepted")
              \/ row[j].status = "queued" /\ job[j].phase \in {"executing", "recording", "failing"}
<1> USE DEF Awaiting, Underway, Throwing, Inserting, Executing
<1>1. ASSUME NEW phase, Proceed(j, phase)
      PROVE  job'[j].phase = phase /\ job'[j].via = job[j].via
  BY <1>1 DEF Proceed, TypeOK, Calls
<1>2. ASSUME NEW status, NEW error, Row(j, status, error)
      PROVE  row'[j].status = status
  BY <1>2 DEF Row, TypeOK
<1>3. /\ MarkRunning(j) => row'[j].status = IF row[j].status = "queued" THEN "running" ELSE row[j].status
      /\ MarkSucceeded(j) => row'[j].status = "succeeded"
  BY DEF MarkRunning, MarkSucceeded, TypeOK, JobRows
<1>4. CASE InsertCommits(j)
  BY <1>4, <1>1, <1>2 DEF InsertCommits
<1>5. CASE InsertAnswered(j)
  BY <1>5, <1>1 DEF InsertAnswered
<1>6. CASE InsertFails(j)
  BY <1>6, <1>1 DEF InsertFails
<1>7. CASE ExecuteQueued(j)
  BY <1>7, <1>1, <1>2 DEF ExecuteQueued
<1>8. CASE MarkAnswered(j)
  BY <1>8, <1>1, <1>3, PhaseAfterType DEF MarkAnswered
<1>9. CASE MarkFails(j)
  BY <1>9, <1>1, <1>3 DEF MarkFails
<1>10. CASE StepDone(j)
  BY <1>10 DEF StepDone, TypeOK, Calls
<1>11. CASE StepFails(j) \/ RecordFails(j) \/ SuccessRecorded(j)
  BY <1>11, <1>1, <1>3 DEF StepFails, RecordFails, SuccessRecorded
<1>12. CASE FailureRecorded(j)
  BY <1>12, <1>1, <1>2 DEF FailureRecorded
<1>13. CASE FailureUnrecorded(j) \/ Caught(j)
  BY <1>13, <1>1 DEF FailureUnrecorded, Caught
<1> QED
  BY <1>4, <1>5, <1>6, <1>7, <1>8, <1>9, <1>10, <1>11, <1>12, <1>13 DEF Progress

LEMMA FinalStep ==
  ASSUME Prompt, TypeOK, WorkInv, FinalInv, [Next]_vars
  PROVE  FinalInv'
<1> USE DEF Underway, Throwing, Inserting, Executing
<1>1. ASSUME NEW j \in Jobs, Progress(j)
      PROVE  FinalInv'
  <2>1. \A k \in Jobs \ {j} : job'[k] = job[k] /\ row'[k] = row[k] /\ (k \in stale' <=> k \in stale)
    BY <1>1, OneCallMoves, ProgressRow
  <2>2. Agree(job[j], row[j]) /\ Final(job[j], row[j], j \in stale)
    BY DEF WorkInv, FinalInv
  <2>3. j \notin stale' /\ row[j].error # "restarted"
    BY <1>1, <2>2, ProgressRow, ProgressPhase DEF Final
  <2>4. row'[j].error # "restarted"
    BY <1>1, <2>3, ProgressRow
  <2>5. job'[j].phase \in Underway \cup {"none"} => row'[j].status # "failed"
    <3>1. job'[j].phase # "none"
      <4>1. CASE Advances(j)
        <5>1. PICK s \in JobSteps :
                job' = [job EXCEPT ![j].done = @ \cup {s},
                                   ![j].phase = PhaseAfter(job[j].type, job[j].done \cup {s})]
          BY <4>1 DEF Advances
        <5>2. job'[j].phase = PhaseAfter(job[j].type, job[j].done \cup {s})
          BY <5>1 DEF TypeOK, Calls
        <5> QED
          BY <5>2, PhaseAfterType
      <4>2. CASE \E phase \in Phases \ {"none"} : Proceed(j, phase)
        BY <4>2 DEF Proceed, TypeOK, Calls
      <4> QED
        BY <1>1, <4>1, <4>2, ProgressMoves
    <3>2. CASE job[j].phase \in Underway
      BY <1>1, <2>2, <3>1, <3>2, ProgressPhase DEF Final
    <3>3. CASE job[j].phase \in Throwing
      BY SMTT(30), <1>1, <3>3 DEF Progress, InsertCommits, InsertAnswered, InsertFails, ExecuteQueued,
             MarkAnswered, MarkFails, StepDone, StepFails, SuccessRecorded, RecordFails,
             FailureRecorded, FailureUnrecorded, Caught, Awaiting, Proceed, TypeOK, Calls
    <3> QED
      BY <1>1, <3>2, <3>3, ProgressPhase
  <2>6. row'[j].status = "queued" =>
          /\ job'[j].done = {}
          /\ job'[j].phase \in Underway => /\ job'[j].via = "enqueue"
                                           /\ job'[j].phase \in {"inserted", "accepted", "marking"}
    <3>1. row'[j].status = "queued" => job[j].done = {}
      BY <1>1, <2>2, ProgressPhase DEF Final, Agree
    <3>2. row'[j].status = "queued" => job'[j].done = {}
      BY <1>1, <2>2, <3>1, OneCallMoves DEF Final
    <3> QED
      BY <1>1, <2>2, <3>2, ProgressPhase DEF Final
  <2>7. Final(job[j], row[j], j \in stale)'
    BY <2>3, <2>4, <2>5, <2>6 DEF Final
  <2> QED
    BY <2>1, <2>7 DEF FinalInv
<1>2. ASSUME NEW p, NEW j \in Jobs, NEW via, NEW type, job[j].phase = "none",
             UNCHANGED <<row, stale>>, job' = [job EXCEPT ![j] = NewJob(p, via, type)]
      PROVE  FinalInv'
  <2>1. /\ \A k \in Jobs \ {j} : job'[k] = job[k]
        /\ job'[j].phase = "inserting" /\ job'[j].done = {}
    BY <1>2 DEF NewJob, TypeOK
  <2>2. row[j].status = "none" /\ row[j].error = "none"
    BY <1>2 DEF WorkInv, Agree, NoRow
  <2> QED
    BY <1>2, <2>1, <2>2 DEF FinalInv, Final
<1>3. ASSUME NEW p \in Processes, Crash(p)
      PROVE  FinalInv'
  <2>1. \A k \in Jobs : \/ job'[k] = job[k]
                        \/ /\ job[k].phase \in Underway \cup Throwing
                           /\ job'[k].phase = "lost" /\ job'[k].done = job[k].done
    BY <1>3 DEF Crash, TypeOK, Calls
  <2> QED
    BY <1>3, <2>1 DEF Crash, FinalInv, Final
<1>4. ASSUME NEW p \in Processes, Sweep(p)
      PROVE  FinalInv'
  <2>1. \A k \in Jobs : \/ row'[k] = row[k]
                        \/ /\ k \in stale /\ row[k].status = "queued"
                           /\ row'[k].status = "failed"
    BY <1>4 DEF Sweep, Swept, TypeOK, JobRows
  <2> QED
    BY <1>4, <2>1 DEF Sweep, FinalInv, Final
<1>5. ASSUME NEW j \in Jobs, Age(j)
      PROVE  FinalInv'
  BY <1>5 DEF Age, FinalInv, Final
<1>6. CASE UNCHANGED <<job, row, stale>>
  BY <1>6 DEF FinalInv
<1>7. ASSUME NEW p \in Processes, NEW j \in Jobs, Request(p, j) \/ Tick(p, j) \/ Run(p, j)
      PROVE  FinalInv'
  BY <1>2, <1>7 DEF Request, Tick, Run, Enqueue
<1>8. ASSUME NEW p \in Processes, Boot(p)
      PROVE  FinalInv'
  BY <1>2, <1>6, <1>8 DEF Boot
<1> QED
  BY <1>1, <1>3, <1>4, <1>5, <1>6, <1>7, <1>8 DEF Next, vars, Stop, SweepFails

\* A step changes only rows that do not say "failed".
LEMMA FailedKept ==
  ASSUME TypeOK, FinalInv, [Next]_vars
  PROVE  FailedStep
<1>1. ASSUME NEW j \in Jobs, Progress(j)
      PROVE  FailedStep
  BY <1>1, ProgressRow DEF FailedStep, FinalInv, Final
<1>2. ASSUME NEW p \in Processes, Sweep(p)
      PROVE  FailedStep
  BY <1>2 DEF Sweep, Swept, FailedStep
<1>3. CASE UNCHANGED row
  BY <1>3 DEF FailedStep
<1> QED
  BY <1>1, <1>2, <1>3 DEF Next, vars, Boot, Stop, Crash, SweepFails, Request, Tick, Run, Enqueue, Age

THEOREM FinalSafe ==
  ASSUME Prompt
  PROVE  Spec => [](TypeOK /\ Owned /\ WorkInv /\ FinalInv)
<1>1. Init => WorkInv /\ FinalInv
  BY DEF Init, WorkInv, Agree, FinalInv, Final, NoJob, NoRow, Underway, Inserting, Executing
<1>2. TypeOK /\ Owned /\ WorkInv /\ FinalInv /\ [Next]_vars
        => (TypeOK /\ Owned /\ WorkInv /\ FinalInv)'
  BY TypeStep, OwnedStep, WorkStep, FinalStep
<1> QED
  BY <1>1, <1>2, TypeInit, PTL DEF Spec

\* Where a process starts a job within five minutes, a failed job never comes back.
THEOREM FailedStaysFailed ==
  ASSUME Prompt
  PROVE  Spec => FailedIsFinal
<1>1. TypeOK /\ FinalInv /\ [Next]_vars => [FailedStep]_vars
  BY FailedKept
<1> QED
  BY <1>1, FinalSafe, PTL DEF Spec, FailedIsFinal

\* Under the same condition a swept job is not executed: slowness of a live process
\* is the only way to SweptJobRuns.
THEOREM SweptStaysIdle ==
  ASSUME Prompt
  PROVE  Spec => []SweptIsNotExecuted
<1>1. FinalInv => SweptIsNotExecuted
  BY DEF FinalInv, Final, SweptIsNotExecuted, Executing
<1> QED
  BY <1>1, FinalSafe, PTL
=============================================================================
