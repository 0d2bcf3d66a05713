----------------------------- MODULE TemporalRuns -----------------------------
(* The durable runtime (orchestrator/, process_run_job): a committed run job   *)
(* is handed to Temporal under a stable workflow id by the API request and, if *)
(* that outcome is unknown, by the reconciliation loop.  The workflow tries    *)
(* the activity MaxAttempts times and then records the failure.  Temporal      *)
(* abandons an attempt whose heartbeats stop; the attempt may be dead, or it   *)
(* may only be cut off and still run against the database and the target.      *)
EXTENDS RunExecution

CONSTANTS
    MaxAttempts,  \* RetryPolicy(maximum_attempts=3)
    MaxCrashes,   \* bound on worker deaths
    MaxZombies    \* bound on attempts abandoned while they still run

ASSUME ProcAssumption == Proc = Job \X (1..MaxAttempts)
ASSUME BoundsAssumption ==
    MaxAttempts \in Nat \ {0} /\ MaxCrashes \in Nat /\ MaxZombies \in Nat

VARIABLES
    workflow,   \* Temporal's record of the workflow proofgrove-run-<run_id>
    submit,     \* who is handing the job to Temporal
    faults

temporalVars == <<workflow, submit, faults>>
vars == <<jobs, results, stops, trace, age, invocations, procs, workflow, submit, faults>>

Submitter == {"request", "reconciler"}
Attempt(j) == <<j, workflow[j].attempt>>

TypeOK ==
    /\ ExecTypeOK
    /\ workflow \in [Job -> [phase: {"none", "running", "failing", "closed"},
                             attempt: 0..MaxAttempts, live: BOOLEAN]]
    /\ submit \in [Job -> [Submitter -> {"idle", "starting", "stamping"}]]
    /\ faults \in [crashes: Nat, zombies: Nat]

Init ==
    /\ ExecInit
    /\ procs = [p \in Proc |-> [Idle EXCEPT !.job = p[1]]]
    /\ workflow = [j \in Job |-> [phase |-> "none", attempt |-> 0, live |-> FALSE]]
    /\ submit = [j \in Job |-> [s \in Submitter |-> "idle"]]
    /\ faults = [crashes |-> 0, zombies |-> 0]

-----------------------------------------------------------------------------
(* Submission: the row is committed first, then the workflow is started *)

SubmitterBecomes(j, s, state) == submit' = [submit EXCEPT ![j][s] = state]

CreateAndSubmit(j, kind) ==
    /\ CreateRun(j, kind)
    /\ SubmitterBecomes(j, "request", "starting")
    /\ UNCHANGED <<workflow, faults>>

\* Mutant of ReconcileRead: the test of the stamp is inverted.
ReconcileStamped(j) ==
    /\ jobs[j].status = "pending" /\ jobs[j].submitted
    /\ submit[j]["reconciler"] = "idle"
    /\ SubmitterBecomes(j, "reconciler", "starting")
    /\ UNCHANGED <<execVars, workflow, faults>>

\* A pass of the reconciliation loop reaches an unstamped pending job.
ReconcileRead(j) ==
    /\ jobs[j].status = "pending" /\ ~jobs[j].submitted
    /\ submit[j]["reconciler"] = "idle"
    /\ SubmitterBecomes(j, "reconciler", "starting")
    /\ UNCHANGED <<execVars, workflow, faults>>

WorkflowOpens(j) ==
    /\ workflow[j].phase = "none"
    /\ workflow' = [workflow EXCEPT ![j].phase = "running"]

StartAccepted(j, s) ==
    /\ submit[j][s] = "starting"
    /\ WorkflowOpens(j)
    /\ SubmitterBecomes(j, s, "stamping")
    /\ UNCHANGED <<execVars, faults>>

\* The outcome is unknown to the submitter: the start request or its reply is lost.
StartUnknown(j, s) ==
    /\ submit[j][s] = "starting"
    /\ WorkflowOpens(j) \/ UNCHANGED workflow
    /\ SubmitterBecomes(j, s, "idle")
    /\ UNCHANGED <<execVars, faults>>

\* WorkflowIDReusePolicy.REJECT_DUPLICATE: the workflow exists, or existed.
StartRefused(j, s) ==
    /\ submit[j][s] = "starting" /\ workflow[j].phase # "none"
    /\ SubmitterBecomes(j, s, "stamping")
    /\ UNCHANGED <<execVars, workflow, faults>>

Stamp(j, s) ==
    /\ submit[j][s] = "stamping"
    /\ jobs' = [jobs EXCEPT ![j] = MarkRunJobSubmitted(@)]
    /\ SubmitterBecomes(j, s, "idle")
    /\ UNCHANGED <<results, stops, trace, age, invocations, procs, workflow, faults>>

StampFails(j, s) ==
    /\ submit[j][s] = "stamping"
    /\ SubmitterBecomes(j, s, "idle")
    /\ UNCHANGED <<execVars, workflow, faults>>

-----------------------------------------------------------------------------
(* DatasetRunWorkflow, as the Temporal server runs it *)

ScheduleAttempt(j) ==
    LET a == workflow[j].attempt + 1 IN
    /\ workflow[j].phase = "running" /\ ~workflow[j].live /\ a <= MaxAttempts
    /\ workflow' = [workflow EXCEPT ![j].attempt = a, ![j].live = TRUE]
    /\ procs' = [procs EXCEPT ![<<j, a>>].pc = "read_run"]
    /\ UNCHANGED <<jobs, results, stops, trace, age, invocations, submit, faults>>

Current(j, label) == workflow[j].live /\ At(Attempt(j), label)

Retry(j) ==
    workflow' = [workflow EXCEPT ![j].live = FALSE, ![j].phase =
                   IF workflow[j].attempt = MaxAttempts THEN "failing" ELSE "running"]

WorkflowBecomes(j, phase) ==
    workflow' = [workflow EXCEPT ![j].live = FALSE, ![j].phase = phase]

\* The activity's result, its failure, or (lost) no heartbeat within the timeout.
AttemptEnds(j) ==
    /\ \/ Current(j, "succeeded") /\ WorkflowBecomes(j, "closed")
       \/ Current(j, "errored") /\ Retry(j)
       \/ Current(j, "lost") /\ Retry(j)
       \/ Current(j, "refused") /\ WorkflowBecomes(j, "failing")
    /\ UNCHANGED <<execVars, submit, faults>>

Ended == {"idle", "succeeded", "errored", "refused", "lost"}

\* The heartbeats of a running attempt do not reach Temporal.
HeartbeatTimeout(j) ==
    /\ workflow[j].live /\ procs[Attempt(j)].pc \notin Ended
    /\ faults.zombies < MaxZombies
    /\ Retry(j)
    /\ faults' = [faults EXCEPT !.zombies = @ + 1]
    /\ UNCHANGED <<execVars, submit>>

\* cancel_dataset_run; the workflow gets ActivityError without waiting for the
\* attempt, which hears of it on a later heartbeat.
CancelWorkflow(j) ==
    /\ stops[j] = "stopped" /\ workflow[j].phase = "running"
    /\ WorkflowBecomes(j, IF workflow[j].attempt = 0 THEN "closed" ELSE "failing")
    /\ UNCHANGED <<execVars, submit, faults>>

\* fail_dataset_run_job
FailAfterRetries(j) ==
    /\ workflow[j].phase = "failing"
    /\ jobs' = [jobs EXCEPT ![j] = FailRunJob(@)]
    /\ WorkflowBecomes(j, "closed")
    /\ UNCHANGED <<results, stops, trace, age, invocations, procs, submit, faults>>

-----------------------------------------------------------------------------
(* process_run_job: one attempt *)

\* Go on at the label with no local variable but the job row.
Fresh(p, label, row) ==
    procs' = [procs EXCEPT ![p] = [Idle EXCEPT !.job = p[1], !.pc = label, !.seen = row]]

End(p, label) == Fresh(p, label, NoJobRow)

\* A full result was persisted by an earlier attempt: only complete the job.
ReadRun(p) ==
    /\ At(p, "read_run")
    /\ \/ /\ results[JobOf(p)].status = "complete"
          /\ WriteJob(p, CompleteRunJob(jobs[JobOf(p)]))
          /\ End(p, "succeeded")
       \/ /\ results[JobOf(p)].status # "complete"
          /\ Become(p, "read_job")
          /\ UNCHANGED jobs
    /\ UNCHANGED <<results, stops, trace, age, invocations, temporalVars>>

\* Mutant of Interrupted: every interrupted job may be tried again.
NeverInterrupted(row) == FALSE

\* The target may have accepted a previous attempt's request.
Interrupted(row) ==
    row.status = "running" /\ row.kind = "live" /\ ~row.snapshot.held

ReadJob(p) ==
    LET row == jobs[JobOf(p)] IN
    /\ At(p, "read_job")
    /\ \/ /\ Interrupted(row)
          /\ WriteJob(p, FailRunJob(row))
          /\ End(p, "refused")
       \/ /\ ~Interrupted(row) /\ Claimable(row)
          /\ Fresh(p, "claim", row)
          /\ UNCHANGED jobs
       \/ /\ ~Claimable(row)
          /\ End(p, IF row.kind = "span_score" /\ row.status = "completed"
                    THEN "succeeded" ELSE "errored")
          /\ UNCHANGED jobs
    /\ UNCHANGED <<results, stops, trace, age, invocations, temporalVars>>

Resumable(row) == row.kind \in EvalKind /\ (row.deferred \/ row.snapshot.held)

\* The claim is written from the row that ReadJob saw.
Claim(p) ==
    /\ At(p, "claim")
    /\ WriteJob(p, ClaimRunJob(jobs[JobOf(p)], procs[p].seen))
    /\ Fresh(p, IF Resumable(procs[p].seen) THEN "await" ELSE EntryPoint(procs[p].seen.kind),
             NoJobRow)
    /\ UNCHANGED <<results, stops, trace, age, invocations, temporalVars>>

\* _await_deferred_telemetry_score: one turn of the loop per poll.
AwaitJob(p) ==
    /\ At(p, "await") \/ At(p, "parked")
    /\ IF jobs[JobOf(p)].status = "cancelled" THEN Fresh(p, "returned", NoJobRow)
       ELSE Fresh(p, "await_run", jobs[JobOf(p)])
    /\ UNCHANGED <<jobs, results, stops, trace, age, invocations, temporalVars>>

AwaitRun(p) ==
    /\ At(p, "await_run")
    /\ Become(p, IF results[JobOf(p)].status = "complete" THEN "returned"
                 ELSE IF procs[p].seen.snapshot.held THEN "deferred" ELSE "raised")
    /\ UNCHANGED <<jobs, results, stops, trace, age, invocations, temporalVars>>

\* Mutant of FinishAttempt: the job is completed in a finally block.
CompleteFinally(p) ==
    /\ procs[p].pc \in {"returned", "blocked", "stopped", "raised"}
    /\ WriteJob(p, CompleteRunJob(jobs[JobOf(p)]))
    /\ End(p, "succeeded")
    /\ UNCHANGED <<results, stops, trace, age, invocations, temporalVars>>

FinishAttempt(p) ==
    /\ \/ At(p, "returned") /\ WriteJob(p, CompleteRunJob(jobs[JobOf(p)]))
          /\ End(p, "succeeded")
       \/ At(p, "blocked") /\ WriteJob(p, BlockRunJob(jobs[JobOf(p)]))
          /\ End(p, "succeeded")
       \/ At(p, "stopped") /\ UNCHANGED jobs /\ End(p, "succeeded")
       \/ At(p, "raised") /\ UNCHANGED jobs /\ End(p, "errored")
    /\ UNCHANGED <<results, stops, trace, age, invocations, temporalVars>>

\* A database error before the try block or in its handlers fails the attempt.
AttemptErrs(p) ==
    /\ procs[p].pc \in {"read_run", "read_job", "claim", "await", "await_run", "blocked"}
    /\ End(p, "errored")
    /\ UNCHANGED <<jobs, results, stops, trace, age, invocations, temporalVars>>

WorkerDies(p) ==
    /\ procs[p].pc \notin Ended /\ faults.crashes < MaxCrashes
    /\ End(p, "lost")
    /\ faults' = [faults EXCEPT !.crashes = @ + 1]
    /\ UNCHANGED <<jobs, results, stops, trace, age, invocations, workflow, submit>>

\* The watcher of the durable status starts after the claim; a heartbeat of an
\* attempt that Temporal no longer runs is answered with a cancellation.
Interrupt(p) ==
    /\ procs[p].pc \notin Ended
    /\ \/ procs[p].pc \notin {"read_run", "read_job", "claim"}
          /\ jobs[JobOf(p)].status = "cancelled"
       \/ ~workflow[p[1]].live \/ workflow[p[1]].attempt # p[2]
    /\ End(p, "errored")
    /\ UNCHANGED <<jobs, results, stops, trace, age, invocations, temporalVars>>

-----------------------------------------------------------------------------
AttemptStep(p) ==
    \/ ExecStep(p) /\ UNCHANGED temporalVars
    \/ ReadRun(p) \/ ReadJob(p) \/ Claim(p) \/ AwaitJob(p) \/ AwaitRun(p)
    \/ FinishAttempt(p)

ApiAndEnvironment(j) ==
    \/ \E kind \in Kinds : CreateAndSubmit(j, kind)
    \/ CancelCheck(j) /\ UNCHANGED temporalVars
    \/ CancelWrite(j) /\ UNCHANGED temporalVars
    \/ TraceLands(j) /\ UNCHANGED temporalVars
    \/ TimePasses(j) /\ UNCHANGED temporalVars

Submission(j) ==
    \/ ReconcileRead(j)
    \/ \E s \in Submitter : StartAccepted(j, s) \/ StartUnknown(j, s) \/ StartRefused(j, s)
                            \/ Stamp(j, s) \/ StampFails(j, s)

Server(j) ==
    ScheduleAttempt(j) \/ AttemptEnds(j) \/ HeartbeatTimeout(j) \/ CancelWorkflow(j)
    \/ FailAfterRetries(j)

Next ==
    \/ \E j \in Job : \/ ApiAndEnvironment(j)
                      \/ Submission(j)
                      \/ Server(j)
    \/ \E p \in Proc : \/ AttemptStep(p)
                       \/ AttemptErrs(p)
                       \/ WorkerDies(p)
                       \/ Interrupt(p)
                       \/ Raise(p) /\ UNCHANGED temporalVars

\* Temporal schedules and times out, attempts run, time passes, and the loop
\* that retries for ever is heard by Temporal at some pass.
Fairness ==
    /\ \A j \in Job : /\ WF_vars(ScheduleAttempt(j)) /\ WF_vars(AttemptEnds(j))
                      /\ WF_vars(FailAfterRetries(j)) /\ WF_vars(ReconcileRead(j))
                      /\ WF_vars(StartRefused(j, "reconciler"))
                      /\ SF_vars(StartAccepted(j, "reconciler"))
                      /\ WF_vars(TimePasses(j) /\ UNCHANGED temporalVars)
    /\ \A p \in Proc : WF_vars(AttemptStep(p))

Safety == Init /\ [][Next]_vars
Spec == Safety /\ Fairness

-----------------------------------------------------------------------------
(* Properties *)

\* Unless a stop raced with a claim (see StopIsFinal) a job lives as RunLifecycle promises:
\* once it has completed, failed or been blocked it stays so, although claim_run_job writes
\* "running" without a predicate on the row, and it completes only with its result.
RunsFollowLifecycle ==
    [][\A j \in Job : stops[j] # "stopped" => Lifecycle!LifeStep(j)]_<<jobs, results>>

\* A job and its workflow answer for each other. A job that carries the stamp has a
\* workflow, so the reconciler may pass it by; and once the workflow has closed
\* nothing is left to finish the job: it must have settled (unless a stop raced with
\* the claim, see StopIsFinal).
WorkflowAnswersForJob ==
    \A j \in Job :
        /\ jobs[j].submitted => workflow[j].phase # "none"
        /\ workflow[j].phase = "closed" /\ stops[j] # "stopped" => jobs[j].status \in Terminal

\* A completed evaluation has a published result, unless a stop raced with a claim: an
\* attempt that saw the stop returns with no result, a later attempt's claim overwrites
\* the stop, and the first then completes the job (see StopIsFinal).
CompletedHasResult ==
    \A j \in Job : /\ jobs[j].status = "completed" /\ jobs[j].kind \in Publishes
                   /\ stops[j] # "stopped"
                   => results[j].status # "none"

\* Nothing is published for a job that was stopped, failed or blocked.
NoPublicationAfterStop ==
    [][\A j \in Job : jobs[j].status \in {"cancelled", "failed", "blocked"}
                        => results'[j] = results[j]]_results

\* A complete result is only replaced by a recheck of late evidence: of several
\* attempts that set out to finish one parked run, the first to publish wins.
OnlyRecheckReplaces ==
    [][\A j \in Job : results[j].status = "complete" /\ results'[j] # results[j] =>
         \E p \in Proc : /\ JobOf(p) = j /\ At(p, "publish_deferred") /\ Watching(p)
                         /\ procs'[p] # procs[p]]_results

\* A committed job is never forgotten, whatever becomes of the start request.
EventuallySettled ==
    \A j \in Job : jobs[j].status \in Active
                     ~> jobs[j].status \in Terminal \/ stops[j] # "none"
=============================================================================
