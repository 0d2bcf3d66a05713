------------------------- MODULE DatasetGeneration -------------------------
(* Jobs that generate a dataset: a durable row moved by compare-and-set, and  *)
(* one task in the process that accepted the request                          *)
(* (datasets/generation_service.py over datasets/generation_jobs.py).  The    *)
(* task registers what it has generated as a client of the registry.          *)
EXTENDS DatasetRegistry, FiniteSets

CONSTANTS
    Job,            \* generation requests: clients of the registry
    Replica,        \* API processes
    Target,         \* [Job -> Name], the dataset name each request asks for
    Slots,          \* dataset_generation_max_concurrent_jobs
    MaxStops,       \* bound: process stops
    MaxMutes        \* bound: spells of 900 s in which a live task's heartbeat fails

ASSUME GenerationAssumption ==
    /\ Job \subseteq Client
    /\ Job \cap (Reviewer \cup Editor) = {}
    /\ Replica # {}
    /\ Target \in [Job -> Name]
    /\ Slots \in Nat \ {0}
    /\ MaxStops \in Nat
    /\ MaxMutes \in Nat

VARIABLES
    jobs,       \* the rows of dataset_generation_jobs
    tasks,      \* the asyncio task of each job
    written,    \* history: the dataset that holds a job's records, 0 before
    faults      \* stops and mutes so far

genVars == <<jobs, tasks, written, faults>>
vars == <<datasets, clients, jobs, tasks, written, faults>>

Phase == {"absent", "queued", "generating", "validating", "completed",
          "failed", "cancelled"}
Active == {"queued", "generating", "validating"}

(* Where the task stands: the await it is at.                                 *)
Before == {"waiting", "claim", "synthesize", "generated"}
Registering == {"create", "created", "replace"}
After == {"complete", "fail"}

JobRow == [phase: Phase, error: {"none", "own", "interrupted"},
           result: 0..MaxName, stale: BOOLEAN]
Task == [pc: {"none"} \cup Before \cup Registering \cup After,
         at: Replica, name: 0..MaxName]

NoTask == [pc |-> "none", at |-> CHOOSE r \in Replica : TRUE, name |-> 0]

Live(j) == tasks[j].pc # "none"

(* A slot of the semaphore is held from `claim` to the end.                   *)
Busy(r) == {j \in Job : tasks[j].at = r /\ tasks[j].pc \notin {"none", "waiting"}}

(* Mutant: the transition does not look at the phase it leaves.                *)
AdvanceBlindly(row, from, to) == [row EXCEPT !.phase = to, !.stale = FALSE]

(* The compare-and-set of every transition; it also renews updated_at.        *)
Advance(row, from, to) ==
    IF row.phase \in from THEN [row EXCEPT !.phase = to, !.stale = FALSE] ELSE row

(* Mutant: the phase is stored as the error.                                   *)
AdvanceMixedUp(row, from, error) ==
    IF row.phase \in from THEN [Advance(row, from, "failed") EXCEPT !.error = "failed"]
                          ELSE row

AdvanceFailed(row, from, error) ==
    IF row.phase \in from THEN [Advance(row, from, "failed") EXCEPT !.error = error]
                          ELSE row

Goto(j, pc) == tasks' = [tasks EXCEPT ![j].pc = pc]
End(j) == tasks' = [tasks EXCEPT ![j] = NoTask]

GenInit ==
    /\ jobs = [j \in Job |-> [phase |-> "absent", error |-> "none", result |-> 0,
                              stale |-> FALSE]]
    /\ tasks = [j \in Job |-> NoTask]
    /\ written = [j \in Job |-> 0]
    /\ faults = [stops |-> 0, mutes |-> 0]

Init == RegistryInit /\ GenInit

----------------------------------------------------------------------------
(* The request and the task                                                    *)

(* The row is committed and its task created, in whichever process answers.   *)
StartGeneration(j) ==
    /\ jobs[j].phase = "absent"
    /\ jobs' = [jobs EXCEPT ![j].phase = "queued"]
    /\ \E r \in Replica :
          tasks' = [tasks EXCEPT ![j].pc = "waiting", ![j].at = r]
    /\ UNCHANGED <<registryVars, written, faults>>

AcquireSlot(j) ==
    /\ tasks[j].pc = "waiting"
    /\ Cardinality(Busy(tasks[j].at)) < Slots
    /\ Goto(j, "claim")
    /\ UNCHANGED <<registryVars, jobs, written, faults>>

(* An `advance` that finds another phase ends the task.                       *)
Move(j, at, from, to, next) ==
    /\ tasks[j].pc = at
    /\ jobs' = [jobs EXCEPT ![j] = Advance(@, {from}, to)]
    /\ IF jobs[j].phase = from THEN Goto(j, next) ELSE End(j)
    /\ UNCHANGED <<registryVars, written, faults>>

Claim(j) == Move(j, "claim", "queued", "generating", "synthesize")

Synthesize(j) ==
    /\ tasks[j].pc = "synthesize"
    /\ Goto(j, "generated")
    /\ UNCHANGED <<registryVars, jobs, written, faults>>

(* From here on the phase keeps cancellation out.                             *)
OwnCommit(j) == Move(j, "generated", "generating", "validating", "create")

(* create_dataset: reuse a draft of that name, or create it, or a version.    *)
ReuseDraft(j) ==
    /\ tasks[j].pc = "create"
    /\ clients[j].op = "idle"
    /\ Mutable(Target[j])
    /\ tasks' = [tasks EXCEPT ![j].pc = "created", ![j].name = Target[j]]
    /\ UNCHANGED <<registryVars, jobs, written, faults>>

FindTarget(j) ==
    /\ tasks[j].pc = "create"
    /\ \/ BeginCreate(j, Target[j])
       \/ Exists(Target[j]) /\ ~Mutable(Target[j])
             /\ \E tip, n \in Name : BeginVersion(j, tip, n)
    /\ UNCHANGED genVars

CreateTarget(j) ==
    /\ tasks[j].pc = "create"
    /\ CreateDataset(j, "empty")
    /\ tasks' = [tasks EXCEPT ![j].pc = "created", ![j].name = clients[j].new]
    /\ UNCHANGED <<jobs, written, faults>>

(* replace_records: the status is read, then checked again under the lock.    *)
BeginReplace(j) ==
    /\ tasks[j].pc = "created"
    /\ BeginWrite(j, tasks[j].name)
    /\ Goto(j, "replace")
    /\ UNCHANGED <<jobs, written, faults>>

ReplaceRecords(j) ==
    /\ tasks[j].pc = "replace"
    /\ \E records \in Content : MergeRecords(j, records)
    /\ written' = [written EXCEPT ![j] = tasks[j].name]
    /\ Goto(j, "complete")
    /\ UNCHANGED <<jobs, faults>>

(* Registration is refused, or raises: nothing of this step is committed.     *)
RegistrationRaises(j) ==
    /\ tasks[j].pc \in Registering
    /\ clients' = [clients EXCEPT ![j] = Idle]
    /\ Goto(j, "fail")
    /\ UNCHANGED <<datasets, jobs, written, faults>>

Complete(j) ==
    /\ tasks[j].pc = "complete"
    /\ jobs' = [jobs EXCEPT ![j] =
          IF @.phase = "validating"
          THEN [Advance(@, {"validating"}, "completed") EXCEPT !.result = tasks[j].name]
          ELSE @]
    /\ End(j)
    /\ UNCHANGED <<registryVars, written, faults>>

(* The two handlers that record a failure, each from its own phase.           *)
SynthesisFails(j) ==
    /\ tasks[j].pc = "synthesize"
    /\ jobs' = [jobs EXCEPT ![j] = AdvanceFailed(@, {"generating"}, "own")]
    /\ End(j)
    /\ UNCHANGED <<registryVars, written, faults>>

RecordFailure(j) ==
    /\ tasks[j].pc = "fail"
    /\ jobs' = [jobs EXCEPT ![j] = AdvanceFailed(@, {"validating"}, "own")]
    /\ End(j)
    /\ UNCHANGED <<registryVars, written, faults>>

(* A transaction of the task itself fails: nobody catches that, the task ends *)
(* and the row stays as it is.                                                 *)
TaskDies(j) ==
    /\ tasks[j].pc \in {"waiting", "claim", "generated"} \cup After
    /\ End(j)
    /\ UNCHANGED <<registryVars, jobs, written, faults>>

----------------------------------------------------------------------------
(* Cancellation, heartbeats, the sweep, the process                            *)

(* Mutant: cancellation of any active phase.                                   *)
CancelActive(j) ==
    /\ jobs[j].phase \in Active
    /\ jobs' = [jobs EXCEPT ![j] = Advance(@, Active, "cancelled")]
    /\ UNCHANGED <<registryVars, tasks, written, faults>>

Cancel(j) ==
    /\ jobs[j].phase \in {"queued", "generating"}
    /\ jobs' = [jobs EXCEPT ![j] = Advance(@, {"queued", "generating"}, "cancelled")]
    /\ UNCHANGED <<registryVars, tasks, written, faults>>

(* The process that answered the cancellation interrupts the task if it is    *)
(* its own; elsewhere the task goes on to its next compare-and-set.           *)
InterruptTask(j) ==
    /\ Live(j)
    /\ jobs[j].phase = "cancelled"
    /\ End(j)
    /\ clients' = [clients EXCEPT ![j] = Idle]
    /\ UNCHANGED <<datasets, jobs, written, faults>>

(* A stop cancels the tasks of the process; one that is synthesizing may      *)
(* still record that as a cancellation.                                       *)
StopProcess(r) ==
    /\ faults.stops < MaxStops
    /\ \E recorded \in SUBSET {j \in Job : tasks[j].at = r /\ tasks[j].pc = "synthesize"} :
          jobs' = [j \in Job |-> IF j \in recorded
                                 THEN Advance(jobs[j], {"generating"}, "cancelled")
                                 ELSE jobs[j]]
    /\ tasks' = [j \in Job |-> IF tasks[j].at = r THEN NoTask ELSE tasks[j]]
    /\ clients' = [c \in Client |-> IF c \in Job /\ tasks[c].at = r
                                    THEN Idle ELSE clients[c]]
    /\ faults' = [faults EXCEPT !.stops = @ + 1]
    /\ UNCHANGED <<datasets, written>>

(* Mutant: only synthesis is covered by a heartbeat.                           *)
BeatingInSynthesis(j) == tasks[j].pc = "synthesize"

(* One heartbeat from the creation of the task to its end.                    *)
Beating(j) == Live(j)

(* 900 s without a touch.                                                      *)
GoStale(j) ==
    /\ jobs[j].phase \in Active
    /\ ~jobs[j].stale
    /\ Beating(j) => faults.mutes < MaxMutes
    /\ faults' = IF Beating(j) THEN [faults EXCEPT !.mutes = @ + 1] ELSE faults
    /\ jobs' = [jobs EXCEPT ![j].stale = TRUE]
    /\ UNCHANGED <<registryVars, tasks, written>>

Touch(j) ==
    /\ Beating(j)
    /\ jobs[j].phase \in Active
    /\ jobs[j].stale
    /\ jobs' = [jobs EXCEPT ![j].stale = FALSE]
    /\ UNCHANGED <<registryVars, tasks, written, faults>>

(* Mutant: the sweep leaves a registration alone.                              *)
AbandonedBeforeCommit(row) == row.phase \in {"queued", "generating"} /\ row.stale

Abandoned(row) == row.phase \in Active /\ row.stale

(* mark_interrupted: at a process's first use of the store and at every poll. *)
Sweep ==
    /\ \E j \in Job : Abandoned(jobs[j])
    /\ jobs' = [j \in Job |-> IF Abandoned(jobs[j])
                              THEN AdvanceFailed(jobs[j], Active, "interrupted")
                              ELSE jobs[j]]
    /\ UNCHANGED <<registryVars, tasks, written, faults>>

----------------------------------------------------------------------------
TaskStep(j) ==
    \/ AcquireSlot(j) \/ Claim(j) \/ Synthesize(j) \/ OwnCommit(j)
    \/ ReuseDraft(j) \/ FindTarget(j) \/ CreateTarget(j)
    \/ BeginReplace(j) \/ ReplaceRecords(j) \/ RegistrationRaises(j)
    \/ Complete(j) \/ SynthesisFails(j) \/ RecordFailure(j)

Next ==
    \/ RegistryNext /\ UNCHANGED genVars
    \/ \E j \in Job : \/ StartGeneration(j) \/ TaskStep(j) \/ TaskDies(j)
                      \/ Cancel(j) \/ InterruptTask(j) \/ GoStale(j) \/ Touch(j)
    \/ \E r \in Replica : StopProcess(r)
    \/ Sweep

Safety == Init /\ [][Next]_vars

(* Tasks go on; the semaphore serves its waiters in turn; an untouched row    *)
(* grows old; and whoever asked for the dataset polls the job.                 *)
Fairness ==
    /\ \A j \in Job : /\ WF_vars(TaskStep(j))
                      /\ SF_vars(AcquireSlot(j))
                      /\ WF_vars(GoStale(j) /\ ~Live(j))
    /\ WF_vars(Sweep)

Spec == Safety /\ Fairness

----------------------------------------------------------------------------
(* Properties                                                                  *)

(* Rows, tasks and histories have their types.                                *)
GenTypeOK ==
    /\ RegistryTypeOK
    /\ jobs \in [Job -> JobRow]
    /\ tasks \in [Job -> Task]
    /\ written \in [Job -> 0..MaxName]
    /\ faults \in [stops: 0..MaxStops, mutes: 0..MaxMutes]

(* What a job tells its user is what became of its records. A cancellation     *)
(* that was answered is honoured: from then on the job writes no dataset,      *)
(* whichever process its task runs in and wherever it was (request_cancel:     *)
(* VALIDATING owns the registration commit). A job that says completed has had *)
(* its records committed to the dataset it names, reused or newly minted. And  *)
(* one that failed for a reason of its own has written no records.             *)
OutcomeTellsWhatWasWritten ==
    \A j \in Job :
        /\ jobs[j].phase = "cancelled" =>
               written[j] = 0 /\ tasks[j].pc \notin Registering \cup After
        /\ jobs[j].phase = "completed" => jobs[j].result # 0 /\ jobs[j].result = written[j]
        /\ jobs[j].error = "own" => written[j] = 0

(* While its heartbeat gets through, a live task's job is not failed as       *)
(* interrupted: queued, synthesizing or registering, and whichever process    *)
(* sweeps.                                                                      *)
LiveJobIsNotSwept ==
    \A j \in Job : jobs[j].error = "interrupted" /\ faults.mutes = 0 => ~Live(j)

(* The phases follow the diagram of generation_jobs.py: terminal ones stay,   *)
(* and registration can no longer be cancelled.                                *)
PhasesFollowDiagram ==
    [][\A j \in Job : jobs'[j].phase # jobs[j].phase =>
          <<jobs[j].phase, jobs'[j].phase>> \in
              {"absent"} \X {"queued"} \cup {<<"queued", "generating">>,
               <<"generating", "validating">>, <<"validating", "completed">>}
              \cup {"queued", "generating"} \X {"cancelled"}
              \cup Active \X {"failed"}]_vars

(* Every job that was accepted ends, whatever stops or dies on the way.       *)
EventuallyEnds ==
    \A j \in Job : jobs[j].phase \in Active ~> jobs[j].phase \notin Active
=============================================================================
