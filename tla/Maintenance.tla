--------------------------- MODULE Maintenance ---------------------------
(* The maintenance service: server processes that accept, persist and execute *)
(* maintenance jobs. Every process has one slot for a job, kept in two flags;  *)
(* all processes share the table of jobs.                                      *)
(*                                                                             *)
(* A process runs one piece of code at a time, until the next await. An answer *)
(* of the database is delivered when no microtask is left to run.              *)
EXTENDS Naturals

CONSTANTS
  Processes,      \* server processes
  Jobs,           \* ids of rows in maintenance_jobs
  Nobody,         \* the owner of an unused id
  Requests,       \* job types clients ask for
  Enabled,        \* optional steps the configuration enables
  Scheduled,      \* MAINTENANCE_ENABLED
  RunCallers,     \* processes whose callers use run(): CLI and tests
  EagerCallers,   \* whether run() may be called between two microtasks
  Prompt          \* whether a process starts a job within five minutes

OptionalSteps == {"reembed", "consolidate", "archive_expired"}
JobTypes == OptionalSteps \cup {"oauth_cleanup", "full"}
JobSteps == OptionalSteps \cup {"oauth_cleanup"}

ASSUME MaintenanceAssumption ==
  /\ {"new", "over"} \cap Processes = {}
  /\ Nobody \notin Processes
  /\ Requests \subseteq JobTypes
  /\ Enabled \subseteq OptionalSteps
  /\ RunCallers \subseteq Processes
  /\ Scheduled \in BOOLEAN /\ EagerCallers \in BOOLEAN /\ Prompt \in BOOLEAN

VARIABLES
  proc,    \* process -> the fields of its MaintenanceService
  job,     \* id -> the call that works on the job, and the steps it did
  row,     \* id -> the row in maintenance_jobs
  stale    \* ids of rows created more than five minutes ago

vars == <<proc, job, row, stale>>

-----------------------------------------------------------------------------
(* Execution of a job *)

\* The steps of a job type under the configuration. A skipped step does nothing.
StepsOf(type) ==
  (IF type = "full" THEN JobSteps ELSE {type}) \cap (Enabled \cup {"oauth_cleanup"})

\* A full job executes its steps in this order.
Rank == [oauth_cleanup |-> 1, reembed |-> 2, consolidate |-> 3, archive_expired |-> 4]

IsNextStep(j, s) ==
  LET left == StepsOf(job[j].type) \ job[j].done
  IN s \in left /\ \A t \in left : Rank[s] <= Rank[t]

\* Mutant: the steps of a full job are started but not awaited.
PhaseAfterUnawaited(type, done) == "recording"

\* Where executePersisted stands once the given steps are done.
PhaseAfter(type, done) == IF done = StepsOf(type) THEN "recording" ELSE "executing"

-----------------------------------------------------------------------------
(* Calls *)

\* Phases in which a call awaits its INSERT, and in which its job holds the slot.
Inserting == {"inserting", "inserted"}
Executing == {"marking", "executing", "recording", "failing"}
Underway == Inserting \cup Executing \cup {"accepted"}
\* An error on its way to the caller, with the failure recorded or not.
Throwing == {"caught", "dropped"}
\* "abandoned": the outcome could not be recorded; "lost": the process died.
Ended == Throwing \cup {"finished", "abandoned", "lost"}
Phases == Underway \cup Ended \cup {"none"}

Services == [up : BOOLEAN, timer : BOOLEAN, sweeping : BOOLEAN,
             running : BOOLEAN, queued : BOOLEAN]
Calls == [phase : Phases, owner : Processes \cup {Nobody}, via : {"enqueue", "run"},
          type : JobTypes, done : SUBSET JobSteps]
JobRows == [status : {"none", "queued", "running", "succeeded", "failed"},
            error : {"none", "restarted", "refused", "message"}]

Microtasks == Throwing \cup {"accepted"}

\* No microtask of the process is waiting: it takes the next answer.
Drained(p) == \A j \in Jobs : job[j].owner = p => job[j].phase \notin Microtasks

Off == [up |-> FALSE, timer |-> FALSE, sweeping |-> FALSE, running |-> FALSE, queued |-> FALSE]
NoJob == [phase |-> "none", owner |-> Nobody, via |-> "enqueue", type |-> "full", done |-> {}]
NoRow == [status |-> "none", error |-> "none"]

Init ==
  /\ proc = [p \in Processes |-> Off]
  /\ job = [j \in Jobs |-> NoJob]
  /\ row = [j \in Jobs |-> NoRow]
  /\ stale = {}

SlotFree(p) == ~proc[p].running /\ ~proc[p].queued

\* The call for a job goes on in another phase.
Proceed(j, phase) == job' = [job EXCEPT ![j].phase = phase]
Row(j, status, error) == row' = [row EXCEPT ![j] = [status |-> status, error |-> error]]
NewJob(p, via, type) == [phase |-> "inserting", owner |-> p, via |-> via, type |-> type, done |-> {}]

ReleaseRunning(p) == proc' = [proc EXCEPT ![p].running = FALSE]

-----------------------------------------------------------------------------
(* Requests *)

\* enqueue up to its INSERT. A busy process refuses and nothing changes.
Enqueue(p, j, type) ==
  /\ proc[p].up
  /\ SlotFree(p)
  /\ job[j].phase = "none"
  /\ proc' = [proc EXCEPT ![p].queued = TRUE]
  /\ job' = [job EXCEPT ![j] = NewJob(p, "enqueue", type)]
  /\ UNCHANGED <<row, stale>>

\* The tool foundation_maintenance_run.
Request(p, j) == \E type \in Requests : Enqueue(p, j, type)

\* The interval timer of start.
Tick(p, j) == proc[p].timer /\ Enqueue(p, j, "full")

\* Mutant: run reserves the slot after its INSERT only.
RunUnreserved(p, j) ==
  \E type \in Requests :
    /\ p \in RunCallers
    /\ EagerCallers \/ Drained(p)
    /\ proc[p].up
    /\ SlotFree(p)
    /\ job[j].phase = "none"
    /\ job' = [job EXCEPT ![j] = NewJob(p, "run", type)]
    /\ UNCHANGED <<proc, row, stale>>

\* run up to its INSERT.
Run(p, j) ==
  \E type \in Requests :
    /\ p \in RunCallers
    /\ EagerCallers \/ Drained(p)
    /\ proc[p].up
    /\ SlotFree(p)
    /\ job[j].phase = "none"
    /\ proc' = [proc EXCEPT ![p].running = TRUE]
    /\ job' = [job EXCEPT ![j] = NewJob(p, "run", type)]
    /\ UNCHANGED <<row, stale>>

\* A process starts: start() sends the clean-up of stale rows, sets the timer and
\* enqueues the first job.
Boot(p) ==
  /\ ~proc[p].up
  /\ \/ /\ ~Scheduled
        /\ proc' = [proc EXCEPT ![p].up = TRUE]
        /\ UNCHANGED <<job, row, stale>>
     \/ /\ Scheduled
        /\ proc' = [proc EXCEPT ![p] = [up |-> TRUE, timer |-> TRUE, sweeping |-> TRUE,
                                        running |-> FALSE, queued |-> TRUE]]
        /\ \E j \in Jobs : /\ job[j].phase = "none"
                           /\ job' = [job EXCEPT ![j] = NewJob(p, "enqueue", "full")]
        /\ UNCHANGED <<row, stale>>

\* stop, called by the shutdown handler before the pool closes.
Stop(p) ==
  /\ proc[p].timer
  /\ proc' = [proc EXCEPT ![p].timer = FALSE]
  /\ UNCHANGED <<job, row, stale>>

\* The process dies, at the end of a shutdown or at any other point. A query it
\* has sent is executed before this step or not at all.
Crash(p) ==
  /\ proc[p].up
  /\ proc' = [proc EXCEPT ![p] = Off]
  /\ job' = [j \in Jobs |-> IF job[j].owner = p /\ job[j].phase \in Underway \cup Throwing
                            THEN [job[j] EXCEPT !.phase = "lost"]
                            ELSE job[j]]
  /\ UNCHANGED <<row, stale>>

-----------------------------------------------------------------------------
(* Answers of the database, and the microtasks they lead to *)

\* The call for a job takes the answer of the query it sent in one of the phases.
Awaiting(j, phases) == job[j].phase \in phases /\ Drained(job[j].owner)

\* The database executes the INSERT; its answer is still on its way.
InsertCommits(j) ==
  /\ job[j].phase = "inserting"
  /\ Row(j, IF job[j].via = "enqueue" THEN "queued" ELSE "running", "none")
  /\ Proceed(j, "inserted")
  /\ UNCHANGED <<proc, stale>>

\* enqueue answers its caller and leaves executeQueued to a microtask; run goes on.
InsertAnswered(j) ==
  /\ Awaiting(j, {"inserted"})
  /\ Proceed(j, IF job[j].via = "enqueue" THEN "accepted" ELSE PhaseAfter(job[j].type, {}))
  /\ UNCHANGED <<proc, row, stale>>

\* Mutant: no catch clause around the INSERT.
InsertFailsKeepingSlot(j) ==
  /\ Awaiting(j, Inserting)
  /\ Proceed(j, "abandoned")
  /\ UNCHANGED <<proc, row, stale>>

\* The INSERT, or its answer, is lost: the caller gets an error.
InsertFails(j) ==
  /\ Awaiting(j, Inserting)
  /\ proc' = IF job[j].via = "enqueue"
             THEN [proc EXCEPT ![job[j].owner].queued = FALSE]
             ELSE [proc EXCEPT ![job[j].owner].running = FALSE]
  /\ Proceed(j, "abandoned")
  /\ UNCHANGED <<row, stale>>

\* Mutant: the slot is not reserved before the first await.
ExecuteQueuedUnreserved(j) ==
  /\ job[j].phase = "accepted"
  /\ proc' = [proc EXCEPT ![job[j].owner].queued = FALSE]
  /\ IF proc[job[j].owner].running
     THEN Row(j, "failed", "refused") /\ Proceed(j, "finished")
     ELSE Proceed(j, "marking") /\ UNCHANGED row
  /\ UNCHANGED stale

\* executeQueued up to its first await. The branch of a busy process is never
\* taken (AcceptedIsNeverRefused); the failure of its UPDATE is left out.
ExecuteQueued(j) ==
  /\ job[j].phase = "accepted"
  /\ proc' = [proc EXCEPT ![job[j].owner].queued = FALSE, ![job[j].owner].running = TRUE]
  /\ IF proc[job[j].owner].running
     THEN Row(j, "failed", "refused") /\ Proceed(j, "finished")
     ELSE Proceed(j, "marking") /\ UNCHANGED row
  /\ UNCHANGED stale

\* UPDATE ... SET status='running' WHERE status='queued'.
MarkRunning(j) ==
  row' = [row EXCEPT ![j].status = IF @ = "queued" THEN "running" ELSE @]

\* The job is executed whether or not a row was updated.
MarkAnswered(j) ==
  /\ Awaiting(j, {"marking"})
  /\ MarkRunning(j)
  /\ Proceed(j, PhaseAfter(job[j].type, {}))
  /\ UNCHANGED <<proc, stale>>

MarkFails(j) ==
  /\ Awaiting(j, {"marking"})
  /\ MarkRunning(j) \/ UNCHANGED row
  /\ ReleaseRunning(job[j].owner)
  /\ Proceed(j, "abandoned")
  /\ UNCHANGED stale

StepDone(j) ==
  /\ Awaiting(j, {"executing"})
  /\ \E s \in JobSteps :
       /\ IsNextStep(j, s)
       /\ job' = [job EXCEPT ![j].done = @ \cup {s},
                             ![j].phase = PhaseAfter(job[j].type, job[j].done \cup {s})]
  /\ UNCHANGED <<proc, row, stale>>

\* A step throws: the steps after it are not executed.
StepFails(j) ==
  /\ Awaiting(j, {"executing"})
  /\ Proceed(j, "failing")
  /\ UNCHANGED <<proc, row, stale>>

MarkSucceeded(j) == row' = [row EXCEPT ![j].status = "succeeded"]

\* Mutant: the slot is released on failure only.
SuccessRecordedKeepingSlot(j) ==
  /\ Awaiting(j, {"recording"})
  /\ MarkSucceeded(j)
  /\ Proceed(j, "finished")
  /\ UNCHANGED <<proc, stale>>

\* The slot is free when the outcome is recorded.
SuccessRecorded(j) ==
  /\ Awaiting(j, {"recording"})
  /\ MarkSucceeded(j)
  /\ ReleaseRunning(job[j].owner)
  /\ Proceed(j, "finished")
  /\ UNCHANGED stale

\* The UPDATE, or its answer, is lost: the job counts as failed.
RecordFails(j) ==
  /\ Awaiting(j, {"recording"})
  /\ MarkSucceeded(j) \/ UNCHANGED row
  /\ Proceed(j, "failing")
  /\ UNCHANGED <<proc, stale>>

\* Mutant: an error is thrown on without being recorded.
FailureSwallowed(j) ==
  /\ Awaiting(j, {"failing"})
  /\ ReleaseRunning(job[j].owner)
  /\ Proceed(j, "caught")
  /\ UNCHANGED <<row, stale>>

\* The slot is free and the caller of executePersisted gets the error in a
\* microtask.
FailureRecorded(j) ==
  /\ Awaiting(j, {"failing"})
  /\ Row(j, "failed", "message")
  /\ ReleaseRunning(job[j].owner)
  /\ Proceed(j, "caught")
  /\ UNCHANGED stale

\* The UPDATE is lost, which is ignored.
FailureUnrecorded(j) ==
  /\ Awaiting(j, {"failing"})
  /\ ReleaseRunning(job[j].owner)
  /\ Proceed(j, "dropped")
  /\ UNCHANGED <<row, stale>>

\* The catch clause of executeQueued and of run.
Caught(j) ==
  /\ job[j].phase \in Throwing
  /\ ReleaseRunning(job[j].owner)
  /\ Proceed(j, IF job[j].phase = "caught" THEN "finished" ELSE "abandoned")
  /\ UNCHANGED <<row, stale>>

-----------------------------------------------------------------------------
(* Stale rows *)

\* Five minutes have passed since the row was created.
Age(j) ==
  /\ row[j].status = "queued"
  /\ j \notin stale
  /\ Prompt => job[j].phase \in {"abandoned", "lost"}
  /\ stale' = stale \cup {j}
  /\ UNCHANGED <<proc, job, row>>

\* Mutant: the clean-up ignores the age of a row.
SweptOfAnyAge == {j \in Jobs : row[j].status = "queued"}

\* The rows the UPDATE of start fails.
Swept == {j \in stale : row[j].status = "queued"}

Sweep(p) ==
  /\ proc[p].sweeping
  /\ proc' = [proc EXCEPT ![p].sweeping = FALSE]
  /\ row' = [j \in Jobs |->
               IF j \in Swept
               THEN [status |-> "failed",
                     error |-> IF row[j].error = "none" THEN "restarted" ELSE row[j].error]
               ELSE row[j]]
  /\ UNCHANGED <<job, stale>>

\* The UPDATE is lost, which is ignored.
SweepFails(p) ==
  /\ proc[p].sweeping
  /\ proc' = [proc EXCEPT ![p].sweeping = FALSE]
  /\ UNCHANGED <<job, row, stale>>

-----------------------------------------------------------------------------

\* What happens without a client: answers arrive and microtasks run.
Progress(j) ==
  \/ InsertCommits(j) \/ InsertAnswered(j) \/ InsertFails(j)
  \/ ExecuteQueued(j)
  \/ MarkAnswered(j) \/ MarkFails(j)
  \/ StepDone(j) \/ StepFails(j)
  \/ SuccessRecorded(j) \/ RecordFails(j)
  \/ FailureRecorded(j) \/ FailureUnrecorded(j) \/ Caught(j)

Next ==
  \/ \E p \in Processes :
       \/ Boot(p) \/ Stop(p) \/ Crash(p) \/ Sweep(p) \/ SweepFails(p)
       \/ \E j \in Jobs : Request(p, j) \/ Tick(p, j) \/ Run(p, j)
  \/ \E j \in Jobs : Progress(j) \/ Age(j)

Spec == Init /\ [][Next]_vars

\* Every query is answered or fails, and microtasks run.
FairSpec == Spec /\ \A j \in Jobs : WF_vars(Progress(j))

-----------------------------------------------------------------------------
(* Properties *)

\* Types of the fields, the calls and the rows.
TypeOK ==
  /\ proc \in [Processes -> Services]
  /\ job \in [Jobs -> Calls]
  /\ row \in [Jobs -> JobRows]
  /\ stale \subseteq Jobs

\* A process never executes two jobs at a time, whatever happens between the
\* reservation of the slot and its release.
OneJobAtATime ==
  \A j, k \in Jobs :
    job[j].phase \in Executing /\ job[k].phase \in Executing /\ job[j].owner = job[k].owner
    => j = k

\* A reserved slot belongs to a call under way: no failure leaves a flag set,
\* which would refuse all maintenance until the next start.
SlotNeverLeaks ==
  \A p \in Processes :
    ~SlotFree(p) => \E j \in Jobs : job[j].owner = p /\ job[j].phase \in Underway

\* A job whose caller was told "accepted" is executed; executeQueued never finds
\* the slot taken.
AcceptedIsNeverRefused == \A j \in Jobs : row[j].error # "refused"

\* A row says "succeeded" only when every step of the job has been done, and a
\* call that ends with its queries answered leaves an outcome in the row.
RowsTellTheOutcome ==
  \A j \in Jobs :
    /\ row[j].status = "succeeded" => job[j].done = StepsOf(job[j].type)
    /\ job[j].phase = "finished" => row[j].status \in {"succeeded", "failed"}

\* A row the clean-up of start failed with 'server_restarted_before_execution'
\* belongs to a job that was not and will not be executed (checked where Prompt).
SweptIsNotExecuted ==
  \A j \in Jobs :
    row[j].error = "restarted" => job[j].phase \notin Executing /\ job[j].done = {}

\* A client that has read "failed" may retry: the row, and so the job, never
\* changes again (holds where Prompt).
FailedStep == \A j \in Jobs : row[j].status = "failed" => row'[j] = row[j]
FailedIsFinal == [][FailedStep]_vars

\* The slot of a process is always released again, through success, failure of a
\* step, failure of any query or the end of the process.
SlotIsReleased == \A p \in Processes : ~SlotFree(p) ~> SlotFree(p)

\* An accepted job gets its outcome recorded unless its process dies or the queries
\* that record it fail.
AcceptedIsSettled ==
  \A j \in Jobs :
    job[j].phase = "accepted" ~>
      \/ row[j].status \in {"succeeded", "failed"}
      \/ job[j].phase \in {"abandoned", "lost"}

-----------------------------------------------------------------------------
(* Refinement: both flags together are one exclusive slot, from the reservation *)
(* in enqueue or run to the release in executePersisted.                        *)

Lease == [j \in Jobs |-> IF job[j].phase \in Underway THEN job[j].owner
                        ELSE IF job[j].phase = "none" THEN "new" ELSE "over"]

Slot == INSTANCE MaintenanceSlot WITH lease <- Lease

\* Every behaviour of the service is one of the exclusive slot.
SlotIsExclusive == Slot!SlotSpec
=============================================================================
