----------------------------- MODULE RunJobStore -----------------------------
(* The rows of run_jobs and evaluation_runs, and what each statement of        *)
(* EvaluationStore (db/store.py) does to one row.  A conditional UPDATE is an  *)
(* operator that returns the row unchanged when its predicate does not match.  *)
(* Data is abstract: the telemetry snapshot keeps the revision of the archived *)
(* trace its rows were hydrated from, a published run the revision it scored.  *)
EXTENDS Naturals

Active   == {"pending", "running", "awaiting_trace"}
Terminal == {"completed", "blocked", "failed", "cancelled"}
JobStatus == {"absent"} \cup Active \cup Terminal

\* "live" and "static" are the two sorts of eval job: response_source agent or
\* llm invokes the target, a golden data set does not.
JobKind   == {"live", "static", "rescore", "span_score", "generate"}
EvalKind  == {"live", "static"}
Publishes == {"live", "static", "rescore"}

\* params["telemetry_score_snapshot"]; version 0 is "no completed trace".
Snapshot   == [held: BOOLEAN, watch: BOOLEAN, stale: BOOLEAN, version: Nat]
NoSnapshot == [held |-> FALSE, watch |-> FALSE, stale |-> FALSE, version |-> 0]

JobRow == [status: JobStatus, kind: JobKind, submitted: BOOLEAN,
           deferred: BOOLEAN, snapshot: Snapshot]
NoJobRow == [status |-> "absent", kind |-> "static", submitted |-> FALSE,
             deferred |-> FALSE, snapshot |-> NoSnapshot]

ResultStatus == {"none", "partial", "complete"}
Result   == [status: ResultStatus, version: Nat]
NoResult == [status |-> "none", version |-> 0]

-----------------------------------------------------------------------------
(* Transitions of run_jobs.status *)

CreateRunJob(kind) == [NoJobRow EXCEPT !.status = "pending", !.kind = kind]

\* Mutant of SettleRunJob: a late worker's status write is unconditional.
SettleUnconditionally(row, status) == [row EXCEPT !.status = status]

\* The compare-and-set shared by complete, fail, block and cancel.
SettleRunJob(row, status) ==
    IF row.status \in Active THEN [row EXCEPT !.status = status] ELSE row

CompleteRunJob(row) == SettleRunJob(row, "completed")
\* Mutant of FailRunJob: only a job that an attempt has claimed is failed.
FailClaimedJob(row) ==
    IF row.status = "running" THEN SettleRunJob(row, "failed") ELSE row

FailRunJob(row)     == SettleRunJob(row, "failed")
BlockRunJob(row)    == SettleRunJob(row, "blocked")
CancelRunJob(row)   ==
    IF row.kind \in EvalKind THEN SettleRunJob(row, "cancelled") ELSE row

\* Mutant of ClaimPendingJob: a status outside the enumeration.
ClaimUnderNewStatus(row) == [row EXCEPT !.status = "claimed"]

\* claim_next_pending_job reads and writes under one row lock.
ClaimPendingJob(row) == [row EXCEPT !.status = "running"]

\* claim_run_job tests the row as the session cached it and then writes the
\* status with no predicate; the ORM emits no UPDATE for an unchanged value.
Claimable(seen) == seen.status \in Active
\* Mutant of ClaimRunJob: the claim also rewrites the kind from its entry point.
ClaimRewritesKind(row, seen) == [row EXCEPT !.status = "running", !.kind = "eval"]

ClaimRunJob(row, seen) ==
    IF seen.status = "running" THEN row ELSE [row EXCEPT !.status = "running"]

MarkRunJobSubmitted(row) ==
    IF row.status = "pending" THEN [row EXCEPT !.submitted = TRUE] ELSE row

\* Mutant of ReclaimRunJob: interrupted jobs are queued again.
RequeueRunJob(row) == IF row.status = "running" THEN [row EXCEPT !.status = "pending"] ELSE row

\* Mutant of ReclaimRunJob: only evaluations are recovered.
ReclaimEvaluation(row) ==
    IF row.status = "running" /\ row.kind \in EvalKind
    THEN [row EXCEPT !.status = "failed"] ELSE row

\* reclaim_running_jobs, with stale_after_seconds = 0
ReclaimRunJob(row) ==
    IF row.status # "running" THEN row
    ELSE [row EXCEPT !.status = IF row.deferred THEN "awaiting_trace" ELSE "failed"]

-----------------------------------------------------------------------------
(* The telemetry snapshot.  params is one JSON column written whole from the   *)
(* copy the session holds ("seen"), so its other keys go back to what was read *)

ParkRunJob(row, seen, snapshot) ==
    IF row.status \in Active
    THEN [row EXCEPT !.status = "awaiting_trace", !.deferred = TRUE,
                     !.submitted = seen.submitted, !.snapshot = snapshot]
    ELSE row

UpdateTelemetryWatch(row, seen, snapshot) ==
    [row EXCEPT !.deferred = seen.deferred, !.submitted = seen.submitted,
                !.snapshot = snapshot]

DisableTelemetryWatch(row, seen) ==
    UpdateTelemetryWatch(row, seen, [seen.snapshot EXCEPT !.held = TRUE, !.watch = FALSE])

-----------------------------------------------------------------------------
(* save_run: the tests made before the rows are written, and the final        *)
(* compare-and-set that commits or rolls back the whole transaction.          *)

Replaceable(result, replace, refresh) ==
    \/ result.status = "none"
    \/ replace /\ result.status = "partial"
    \/ replace /\ refresh /\ result.status = "complete"

\* Mutant of Writable: only a cancellation stops a publication.
WritableUnlessCancelled(refresh, finalize) == JobStatus \ {"cancelled"}

Writable(refresh, finalize) ==
    Active \cup (IF refresh /\ ~finalize THEN {"completed"} ELSE {})

SaveStopped(row, result, replace, refresh, finalize) ==
    \/ row.status = "cancelled"
    \/ /\ Replaceable(result, replace, refresh)
       /\ row.status \notin Writable(refresh, finalize)

\* Also on a cancelled row, when the session holds it from before the stop.
SaveRaises(result, replace, refresh) == ~Replaceable(result, replace, refresh)

\* Mutant of SaveCommits: trusts what the caller read instead of the published row.
SaveTrustsCaller(row, result, replace, refresh, finalize) ==
    /\ result.status = "none" \/ replace
    /\ row.status \in Active \cup {"completed"}

SaveCommits(row, result, replace, refresh, finalize) ==
    /\ Replaceable(result, replace, refresh)
    /\ row.status \in Writable(refresh, finalize)

FinalizeRow(row, finalize) ==
    IF finalize THEN [row EXCEPT !.status = "completed"] ELSE row
=============================================================================
