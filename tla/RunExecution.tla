----------------------------- MODULE RunExecution -----------------------------
(* What one executor does with one claimed run job, whichever runtime drives   *)
(* it: execute_dataset_run, execute_rescore, execute_deferred_telemetry_score  *)
(* (evaluation/run_service.py) over the store, one action per database         *)
(* transaction or external call, so that every await is an interleaving point. *)
(* LocalRuns and TemporalRuns say who executes, when, and what becomes of a    *)
(* returned value or an exception.                                             *)
EXTENDS RunJobStore

CONSTANTS
    Job,        \* run ids
    Proc,       \* executors: worker replicas, or activity attempts
    NoJob,      \* an idle executor's job
    Kinds,      \* the kinds of job that are created
    MaxTrace    \* bound: how often a run's archived trace may change

ASSUME NoJobAssumption == NoJob \notin Job
ASSUME KindsAssumption == Kinds \subseteq JobKind
ASSUME MaxTraceAssumption == MaxTrace \in Nat

VARIABLES
    jobs,        \* table run_jobs
    results,     \* table evaluation_runs: what is published for the job
    stops,       \* the user's stop request and whether it was answered 200
    trace,       \* archive: settled revisions of the run's trace, 0 = incomplete
    age,         \* time since the snapshot's deferred_since
    invocations, \* history: how often the target was invoked
    procs        \* each executor's program counter and local variables

execVars == <<jobs, results, stops, trace, age, invocations, procs>>

Label == {"idle",
    "read_run", "read_job", "claim", "await", "await_run",   \* Temporal only
    "task", "readiness", "invoke", "hydrate_first", "park", "publish_partial",
    "watch", "publish",                             \* execute_dataset_run
    "reread", "deferred", "hydrate", "publish_deferred", "record", \* ..deferred..
    "returned", "parked", "blocked", "stopped", "raised",    \* how a call ends
    "succeeded", "errored", "refused", "lost"}               \* Temporal only

Mode == {"job", "deferred", "watch"}
Rows == [awaiting: BOOLEAN, version: Nat]
AwaitingRows == [awaiting |-> TRUE, version |-> 0]
CaptureRows  == [awaiting |-> FALSE, version |-> 0]

Process == [pc: Label, mode: Mode, job: Job \cup {NoJob},
            seen: JobRow, run: ResultStatus, rows: Rows]
Idle == [pc |-> "idle", mode |-> "job", job |-> NoJob,
         seen |-> NoJobRow, run |-> "none", rows |-> CaptureRows]

ExecTypeOK ==
    /\ jobs \in [Job -> JobRow]
    /\ results \in [Job -> Result]
    /\ stops \in [Job -> {"none", "checked", "stopped"}]
    /\ trace \in [Job -> Nat]
    /\ age \in [Job -> {"fresh", "grace_over", "expired"}]
    /\ invocations \in [Job -> Nat]
    /\ procs \in [Proc -> Process]

ExecInit ==
    /\ jobs = [j \in Job |-> NoJobRow]
    /\ results = [j \in Job |-> NoResult]
    /\ stops = [j \in Job |-> "none"]
    /\ trace = [j \in Job |-> 0]
    /\ age = [j \in Job |-> "fresh"]
    /\ invocations = [j \in Job |-> 0]

-----------------------------------------------------------------------------
(* The API: create a run job, stop it *)

CreateRun(j, kind) ==
    /\ jobs[j].status = "absent"
    /\ kind \in Kinds
    /\ jobs' = [jobs EXCEPT ![j] = CreateRunJob(kind)]
    /\ UNCHANGED <<results, stops, trace, age, invocations, procs>>

\* cancel_run up to its tests; every other outcome is a 404 or a 409.
CancelCheck(j) ==
    /\ stops[j] = "none"
    /\ jobs[j].kind \in EvalKind /\ jobs[j].status \in Active
    /\ results[j].status = "none"
    /\ stops' = [stops EXCEPT ![j] = "checked"]
    /\ UNCHANGED <<jobs, results, trace, age, invocations, procs>>

\* ... then cancel_run_job; a job settled meanwhile is an honest 409.
CancelWrite(j) ==
    /\ stops[j] = "checked"
    /\ jobs' = [jobs EXCEPT ![j] = CancelRunJob(@)]
    /\ stops' = [stops EXCEPT ![j] =
                   IF CancelRunJob(jobs[j]).status = "cancelled" THEN "stopped" ELSE "none"]
    /\ UNCHANGED <<results, trace, age, invocations, procs>>

-----------------------------------------------------------------------------
(* Executor steps *)

At(p, label) == procs[p].pc = label
JobOf(p)     == procs[p].job
Become(p, label) == procs' = [procs EXCEPT ![p].pc = label]

WriteJob(p, row) == jobs' = [jobs EXCEPT ![JobOf(p)] = row]

\* Mutant of EntryPoint: a rescore is dispatched like span scoring.
TaskUnlessEval(kind) == IF kind \in EvalKind THEN "readiness" ELSE "task"

\* The branch on job.kind after a claim.
EntryPoint(kind) ==
    CASE kind \in EvalKind -> "readiness"
      [] kind = "rescore" -> "publish"
      [] OTHER -> "task"

\* generate_and_register or execute_span_scoring: no evaluation run is published.
RunTask(p) ==
    /\ At(p, "task")
    /\ Become(p, "returned")
    /\ UNCHANGED <<jobs, results, stops, trace, age, invocations>>

AssessReadiness(p) ==
    /\ At(p, "readiness")
    /\ \/ Become(p, "blocked")
       \/ jobs[JobOf(p)].kind = "live" /\ Become(p, "invoke")
       \/ jobs[JobOf(p)].kind = "static" /\ Become(p, "publish")
    /\ UNCHANGED <<jobs, results, stops, trace, age, invocations>>

InvokeTarget(p) ==
    /\ At(p, "invoke")
    /\ invocations' = [invocations EXCEPT ![JobOf(p)] = @ + 1]
    /\ Become(p, "hydrate_first")
    /\ UNCHANGED <<jobs, results, stops, trace, age>>

\* A read of the archive finds the settled trace, or gives up (deadline, error,
\* still incomplete) with the given rows.
HydratedRows(j, otherwise) ==
    otherwise \cup (IF trace[j] > 0 THEN {[awaiting |-> FALSE, version |-> trace[j]]} ELSE {})

\* Rows of a scope that does not need the trace are scored on the captured reply.
HydrateFirst(p) ==
    /\ At(p, "hydrate_first")
    /\ \E rows \in HydratedRows(JobOf(p), {AwaitingRows, CaptureRows}) :
         procs' = [procs EXCEPT ![p].rows = rows, ![p].pc =
                     IF rows.awaiting THEN "park"
                     ELSE IF rows.version > 0 THEN "watch" ELSE "publish"]
    /\ UNCHANGED <<jobs, results, stops, trace, age, invocations>>

ParkFirst(p) ==
    /\ At(p, "park")
    /\ WriteJob(p, ParkRunJob(jobs[JobOf(p)], jobs[JobOf(p)], [NoSnapshot EXCEPT !.held = TRUE]))
    /\ Become(p, "publish_partial")
    /\ UNCHANGED <<results, stops, trace, age, invocations>>

\* Persisted before scoring, so that a retry resumes without invoking again.
ActivateWatch(p) ==
    /\ At(p, "watch")
    /\ WriteJob(p, UpdateTelemetryWatch(jobs[JobOf(p)], jobs[JobOf(p)],
                     [held |-> TRUE, watch |-> TRUE, stale |-> FALSE,
                      version |-> procs[p].rows.version]))
    /\ Become(p, "publish")
    /\ UNCHANGED <<results, stops, trace, age, invocations>>

\* Score and save_run: commits, or RunCancelledError, or ValueError.
SaveRun(p, result, replace, refresh, finalize, next) ==
    LET j == JobOf(p) IN
    /\ \/ /\ SaveCommits(jobs[j], results[j], replace, refresh, finalize)
          /\ results' = [results EXCEPT ![j] = result]
          /\ jobs' = [jobs EXCEPT ![j] = FinalizeRow(@, finalize)]
          /\ Become(p, next)
       \/ /\ SaveStopped(jobs[j], results[j], replace, refresh, finalize)
          /\ Become(p, "stopped")
          /\ UNCHANGED <<jobs, results>>
       \/ /\ SaveRaises(results[j], replace, refresh)
          /\ Become(p, "raised")
          /\ UNCHANGED <<jobs, results>>
    /\ UNCHANGED <<stops, trace, age, invocations>>

PublishPartial(p) ==
    /\ At(p, "publish_partial")
    /\ SaveRun(p, [status |-> "partial", version |-> 0], FALSE, FALSE, FALSE, "parked")

Publish(p) ==
    /\ At(p, "publish")
    /\ SaveRun(p, [status |-> "complete", version |-> procs[p].rows.version],
               FALSE, FALSE, TRUE, "returned")

-----------------------------------------------------------------------------
(* execute_deferred_telemetry_score; procs[p].seen is the job row it read *)

Watching(p)  == procs[p].seen.snapshot.watch
Published(p) == procs[p].run # "none"
Expired(p)   == age[JobOf(p)] = "expired"
GraceOver(p) == age[JobOf(p)] # "fresh"

\* The second read, of the published run, and the early returns.
StartDeferred(p) ==
    LET run == results[JobOf(p)].status IN
    /\ At(p, "deferred")
    /\ \/ /\ run = "complete" /\ ~Watching(p)
          /\ Become(p, "returned")
          /\ UNCHANGED jobs
       \/ /\ run # "none" /\ Watching(p) /\ Expired(p)
          /\ WriteJob(p, DisableTelemetryWatch(jobs[JobOf(p)], procs[p].seen))
          /\ Become(p, "returned")
       \/ /\ ~(run = "complete" /\ ~Watching(p))
          /\ ~(run # "none" /\ Watching(p) /\ Expired(p))
          /\ procs' = [procs EXCEPT ![p].run = run, ![p].pc = "hydrate"]
          /\ UNCHANGED jobs
    /\ UNCHANGED <<results, stops, trace, age, invocations>>

\* "defer" while a result is out or the grace window runs, else capture only.
\* Mutant of IncompleteRows: a published score may be replaced by capture only.
IncompleteRowsByGrace(p) == IF ~GraceOver(p) THEN {AwaitingRows} ELSE {CaptureRows}

IncompleteRows(p) ==
    IF Published(p) \/ ~GraceOver(p) THEN {AwaitingRows} ELSE {CaptureRows}

KeepWatch(p, rows) ==
    /\ rows.awaiting /\ Published(p) /\ Watching(p)
    /\ WriteJob(p, UpdateTelemetryWatch(jobs[JobOf(p)], procs[p].seen, procs[p].seen.snapshot))
    /\ Become(p, "returned")

ParkAgain(p, rows) ==
    /\ rows.awaiting /\ ~(Published(p) /\ Watching(p))
    /\ ~GraceOver(p) \/ (Published(p) /\ ~Expired(p))
    /\ WriteJob(p, ParkRunJob(jobs[JobOf(p)], procs[p].seen,
                              [procs[p].seen.snapshot EXCEPT !.version = 0]))
    /\ Become(p, "parked")

\* Mutant of GiveUp: an expired partial run is parked once more.
NeverGiveUp(p, rows) ==
    /\ rows.awaiting /\ Published(p) /\ ~Watching(p) /\ Expired(p)
    /\ WriteJob(p, ParkRunJob(jobs[JobOf(p)], procs[p].seen, procs[p].seen.snapshot))
    /\ Become(p, "parked")

GiveUp(p, rows) ==
    /\ rows.awaiting /\ Published(p) /\ ~Watching(p) /\ Expired(p)
    /\ WriteJob(p, DisableTelemetryWatch(jobs[JobOf(p)], procs[p].seen))
    /\ Become(p, "returned")

SameEvidence(p, rows) ==
    /\ Published(p) /\ Watching(p)
    /\ ~procs[p].seen.snapshot.stale
    /\ rows.version = procs[p].seen.snapshot.version

SkipUnchanged(p, rows) ==
    /\ ~rows.awaiting /\ SameEvidence(p, rows)
    /\ WriteJob(p, UpdateTelemetryWatch(jobs[JobOf(p)], procs[p].seen, procs[p].seen.snapshot))
    /\ Become(p, "returned")

Rescoring(p, rows) ==
    procs' = [procs EXCEPT ![p].rows = rows, ![p].pc = "publish_deferred"]

\* Mutant of MarkStale: the new rows are persisted as if already scored.
PersistRowsOnly(p, rows) ==
    /\ ~rows.awaiting /\ Watching(p) /\ ~SameEvidence(p, rows)
    /\ WriteJob(p, UpdateTelemetryWatch(jobs[JobOf(p)], procs[p].seen,
                     [procs[p].seen.snapshot EXCEPT !.version = rows.version]))
    /\ Rescoring(p, rows)

MarkStale(p, rows) ==
    /\ ~rows.awaiting /\ Watching(p) /\ ~SameEvidence(p, rows)
    /\ WriteJob(p, UpdateTelemetryWatch(jobs[JobOf(p)], procs[p].seen,
                     [procs[p].seen.snapshot EXCEPT !.stale = TRUE, !.version = rows.version]))
    /\ Rescoring(p, rows)

ActivateLateWatch(p, rows) ==
    /\ ~rows.awaiting /\ ~Watching(p) /\ procs[p].run = "partial" /\ rows.version > 0
    /\ WriteJob(p, UpdateTelemetryWatch(jobs[JobOf(p)], procs[p].seen,
                     [procs[p].seen.snapshot EXCEPT !.watch = TRUE, !.version = rows.version]))
    /\ Rescoring(p, rows)

ScoreOnce(p, rows) ==
    /\ ~rows.awaiting /\ ~Watching(p)
    /\ ~(procs[p].run = "partial" /\ rows.version > 0)
    /\ UNCHANGED jobs
    /\ Rescoring(p, rows)

Hydrate(p) ==
    /\ At(p, "hydrate")
    /\ \E rows \in HydratedRows(JobOf(p), IncompleteRows(p)) :
         \/ KeepWatch(p, rows)      \/ ParkAgain(p, rows)  \/ GiveUp(p, rows)
         \/ SkipUnchanged(p, rows)  \/ MarkStale(p, rows)
         \/ ActivateLateWatch(p, rows) \/ ScoreOnce(p, rows)
    /\ UNCHANGED <<results, stops, trace, age, invocations>>

PublishDeferred(p) ==
    LET refresh == Published(p) /\ Watching(p) IN
    /\ At(p, "publish_deferred")
    /\ SaveRun(p, [status |-> "complete", version |-> procs[p].rows.version],
               Published(p), refresh, ~refresh, IF Watching(p) THEN "record" ELSE "returned")

\* record_telemetry_enrichment, then score_stale is cleared.
RecordRescore(p) ==
    /\ At(p, "record")
    /\ WriteJob(p, UpdateTelemetryWatch(jobs[JobOf(p)], procs[p].seen,
                     [procs[p].seen.snapshot EXCEPT !.stale = FALSE,
                                                    !.version = procs[p].rows.version]))
    /\ Become(p, "returned")
    /\ UNCHANGED <<results, stops, trace, age, invocations>>

-----------------------------------------------------------------------------
\* An unexpected exception out of any call above (judge, archive, database).
Raising == {"task", "readiness", "invoke", "hydrate_first", "park", "publish_partial",
            "watch", "publish", "reread", "deferred", "hydrate", "publish_deferred",
            "record", "returned"}
Raise(p) ==
    /\ procs[p].pc \in Raising
    /\ ~(At(p, "returned") /\ procs[p].mode = "watch")
    /\ Become(p, "raised")
    /\ UNCHANGED <<jobs, results, stops, trace, age, invocations>>

ExecStep(p) ==
    \/ RunTask(p) \/ AssessReadiness(p) \/ InvokeTarget(p) \/ HydrateFirst(p)
    \/ ParkFirst(p) \/ ActivateWatch(p) \/ PublishPartial(p) \/ Publish(p)
    \/ StartDeferred(p) \/ Hydrate(p) \/ PublishDeferred(p) \/ RecordRescore(p)

\* The archive settles on a first or a changed trace of an invoked target.
TraceLands(j) ==
    /\ invocations[j] > 0 /\ trace[j] < MaxTrace
    /\ trace' = [trace EXCEPT ![j] = @ + 1]
    /\ UNCHANGED <<jobs, results, stops, age, invocations, procs>>

\* trace_archive_score_grace_seconds, then trace_archive_late_enrichment_seconds
TimePasses(j) ==
    /\ jobs[j].snapshot.held /\ age[j] # "expired"
    /\ age' = [age EXCEPT ![j] = IF @ = "fresh" THEN "grace_over" ELSE "expired"]
    /\ UNCHANGED <<jobs, results, stops, trace, invocations, procs>>

\* The tables as RunLifecycle sees them
Lifecycle == INSTANCE RunLifecycle WITH
    NeedsResult <- Publishes,
    kind <- [j \in Job |-> jobs[j].kind],
    status <- [j \in Job |-> jobs[j].status],
    result <- [j \in Job |-> results[j].status]

-----------------------------------------------------------------------------
(* Properties of either runtime *)

\* What an executor goes by stays true of the tables however others write them:
\* its job exists, a task is not an evaluation, a result it has read is not lost.
ExecutorAttendsJob(p) ==
    /\ JobOf(p) \in Job /\ jobs[JobOf(p)].status # "absent"
    /\ At(p, "task") => jobs[JobOf(p)].kind \notin Publishes
    /\ Published(p) => results[JobOf(p)].status # "none"

\* The call that executes an evaluation only returns when a result is published:
\* so the job completion that follows cannot complete a job without its result.
ReturnHasResult(p) ==
    (At(p, "returned") \/ At(p, "record")) /\ jobs[JobOf(p)].kind \in Publishes
        => results[JobOf(p)].status # "none"

ExecutorsConsistent ==
    \A p \in Proc : ~At(p, "idle") => ExecutorAttendsJob(p) /\ ReturnHasResult(p)

\* A live target is never asked twice for one job: not by a retry, a recovery,
\* a rescore of late telemetry or a second executor.
TargetInvokedAtMostOnce == \A j \in Job : invocations[j] <= 1

\* A stop that was acknowledged to the user stands.
StopIsFinal == \A j \in Job : stops[j] = "stopped" => jobs[j].status = "cancelled"

Unattended(j) == \A p \in Proc : procs[p].job # j

\* A late-telemetry watch that is not marked stale vouches for a score at
\* least as recent as its snapshot: otherwise the next check compares the
\* archive with evidence that no published score has used, and skips it.
VouchedScoreIsCurrent(status) ==
    \A j \in Job :
        /\ jobs[j].status = "completed" /\ Unattended(j)
        /\ jobs[j].snapshot.watch /\ ~jobs[j].snapshot.stale
        /\ results[j].status = status
        => results[j].version >= jobs[j].snapshot.version

CompleteScoreIsCurrent == VouchedScoreIsCurrent("complete")
PartialScoreIsProvisional == VouchedScoreIsCurrent("partial")

\* Late evidence only improves a published score.
EvidenceNeverRegresses ==
    [][\A j \in Job : results'[j].version >= results[j].version]_results
=============================================================================
