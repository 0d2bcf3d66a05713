------------------------------ MODULE LocalRuns ------------------------------
(* The compatibility runtime (runs_worker.py, run_worker_loop and below): any  *)
(* number of replicas, one of which holds a PostgreSQL advisory lock, recovers *)
(* interrupted jobs and then executes persisted jobs one at a time.  Replicas  *)
(* crash, and a replica can lose the ownership connection while its worker     *)
(* goes on until the next keepalive.                                           *)
EXTENDS RunExecution, FiniteSets

CONSTANTS
    NoReplica,      \* nobody holds the ownership lock
    MaxCrashes,     \* bound on replica crashes and restarts
    MaxLockLosses,  \* bound on ownership connections lost under a live worker
    MaxWriteFaults  \* bound on failed writes inside an exception handler

Replica == Proc

ASSUME NoReplicaAssumption == NoReplica \notin Replica
ASSUME FaultsAssumption ==
    MaxCrashes \in Nat /\ MaxLockLosses \in Nat /\ MaxWriteFaults \in Nat

VARIABLES
    lock,    \* holder of pg_try_advisory_xact_lock(1129271892, 1)
    worker,  \* each replica's _run_owned_worker task
    faults   \* how many of each fault have happened

localVars == <<lock, worker, faults>>
vars == <<jobs, results, stops, trace, age, invocations, procs, lock, worker, faults>>

TypeOK ==
    /\ ExecTypeOK
    /\ lock \in Replica \cup {NoReplica}
    /\ worker \in [Replica -> {"standby", "reclaiming", "polling"}]
    /\ faults \in [crashes: Nat, losses: Nat, writes: Nat]

Init ==
    /\ ExecInit
    /\ procs = [r \in Replica |-> Idle]
    /\ lock = NoReplica
    /\ worker = [r \in Replica |-> "standby"]
    /\ faults = [crashes |-> 0, losses |-> 0, writes |-> 0]

\* Replicas whose worker goes on while the lock is another's or nobody's
Unowned == {r \in Replica : worker[r] # "standby" /\ lock # r}

Pending == {j \in Job : jobs[j].status = "pending"}
Awaiting == {j \in Job : jobs[j].status = "awaiting_trace"}

-----------------------------------------------------------------------------
(* Ownership *)

\* Mutant of Acquire: the worker starts whether or not the lock was obtained.
AcquireAnyway(r) ==
    /\ worker[r] = "standby"
    /\ lock' = r
    /\ worker' = [worker EXCEPT ![r] = "reclaiming"]
    /\ UNCHANGED <<execVars, faults>>

Acquire(r) ==
    /\ lock = NoReplica /\ worker[r] = "standby"
    /\ lock' = r
    /\ worker' = [worker EXCEPT ![r] = "reclaiming"]
    /\ UNCHANGED <<execVars, faults>>

\* The only recovery pass of this ownership, in one transaction, with an age of
\* zero: every running row.  Left out: its limit of 500 rows, and the skipping of
\* rows that another transaction has locked at that moment.
ReclaimInterrupted(r) ==
    /\ worker[r] = "reclaiming"
    /\ jobs' = [j \in Job |-> ReclaimRunJob(jobs[j])]
    /\ worker' = [worker EXCEPT ![r] = "polling"]
    /\ UNCHANGED <<results, stops, trace, age, invocations, procs, lock, faults>>

\* The database ends the ownership transaction; the worker task runs on.
LoseLock(r) ==
    /\ lock = r /\ faults.losses < MaxLockLosses
    /\ lock' = NoReplica
    /\ faults' = [faults EXCEPT !.losses = @ + 1]
    /\ UNCHANGED <<execVars, worker>>

\* The keepalive fails and the worker task is cancelled where it stands.
NoticeLoss(r) ==
    /\ worker[r] # "standby" /\ lock # r
    /\ worker' = [worker EXCEPT ![r] = "standby"]
    /\ procs' = [procs EXCEPT ![r] = Idle]
    /\ UNCHANGED <<jobs, results, stops, trace, age, invocations, lock, faults>>

\* A process death or a shutdown: the lock goes with the connection.
Crash(r) ==
    /\ worker[r] # "standby" /\ faults.crashes < MaxCrashes
    /\ worker' = [worker EXCEPT ![r] = "standby"]
    /\ procs' = [procs EXCEPT ![r] = Idle]
    /\ lock' = IF lock = r THEN NoReplica ELSE lock
    /\ faults' = [faults EXCEPT !.crashes = @ + 1]
    /\ UNCHANGED <<jobs, results, stops, trace, age, invocations>>

-----------------------------------------------------------------------------
(* process_one_job: pending jobs first, then one parked run, then one watch *)

Begin(r, label, mode, j) ==
    procs' = [procs EXCEPT ![r] = [Idle EXCEPT !.pc = label, !.mode = mode,
                                               !.job = j, !.seen = jobs[j]]]

ClaimNextPending(r, j) ==
    /\ worker[r] = "polling" /\ At(r, "idle")
    /\ j \in Pending
    /\ jobs' = [jobs EXCEPT ![j] = ClaimPendingJob(@)]
    /\ Begin(r, EntryPoint(jobs[j].kind), "job", j)
    /\ UNCHANGED <<results, stops, trace, age, invocations, localVars>>

\* A parked run whose full result is out only needs its job completed.
PollDeferred(r, j) ==
    /\ worker[r] = "polling" /\ At(r, "idle")
    /\ Pending = {} /\ j \in Awaiting
    /\ \/ /\ results[j].status = "complete"
          /\ jobs' = [jobs EXCEPT ![j] = CompleteRunJob(@)]
          /\ UNCHANGED procs
       \/ /\ results[j].status # "complete"
          /\ Begin(r, "reread", "deferred", j)
          /\ UNCHANGED jobs
    /\ UNCHANGED <<results, stops, trace, age, invocations, localVars>>

\* execute_deferred_telemetry_score reads the job again in a session of its own.
RereadJob(r) ==
    /\ At(r, "reread")
    /\ IF jobs[JobOf(r)].snapshot.held
       THEN procs' = [procs EXCEPT ![r].seen = jobs[JobOf(r)], ![r].pc = "deferred"]
       ELSE Become(r, "raised")
    /\ UNCHANGED <<jobs, results, stops, trace, age, invocations, localVars>>

\* Reached when nothing is parked, or the parked run is still incomplete.
PollCompletedWatch(r, j) ==
    /\ worker[r] = "polling"
    /\ \/ At(r, "idle") /\ Pending = {} /\ Awaiting = {}
       \/ At(r, "parked") /\ procs[r].mode = "deferred"
    /\ jobs[j].status = "completed" /\ jobs[j].kind \in EvalKind
    /\ jobs[j].snapshot.watch
    /\ Begin(r, "deferred", "watch", j)
    /\ UNCHANGED <<jobs, results, stops, trace, age, invocations, localVars>>

-----------------------------------------------------------------------------
(* How an iteration ends *)

End(r) == procs' = [procs EXCEPT ![r] = Idle]

Finish(r) ==
    /\ \/ At(r, "returned") /\ procs[r].mode # "watch"
          /\ WriteJob(r, CompleteRunJob(jobs[JobOf(r)]))
       \/ At(r, "returned") /\ procs[r].mode = "watch" /\ UNCHANGED jobs
       \/ At(r, "parked") /\ UNCHANGED jobs
       \/ At(r, "stopped") /\ procs[r].mode # "watch" /\ UNCHANGED jobs
       \/ At(r, "blocked") /\ WriteJob(r, BlockRunJob(jobs[JobOf(r)]))
       \/ At(r, "raised") /\ procs[r].mode # "watch"
          /\ WriteJob(r, FailRunJob(jobs[JobOf(r)]))
    /\ End(r)
    /\ UNCHANGED <<results, stops, trace, age, invocations, localVars>>

\* A failed recheck rolls back and restores the snapshot it was listed with.
RestoreWatch(r) ==
    /\ procs[r].pc \in {"raised", "stopped"} /\ procs[r].mode = "watch"
    /\ WriteJob(r, UpdateTelemetryWatch(jobs[JobOf(r)], jobs[JobOf(r)], procs[r].seen.snapshot))
    /\ End(r)
    /\ UNCHANGED <<results, stops, trace, age, invocations, localVars>>

\* The handler's own write fails: the loop logs it and polls on.
HandlerFails(r) ==
    /\ procs[r].pc \in {"raised", "blocked"} \/ (At(r, "stopped") /\ procs[r].mode = "watch")
    /\ faults.writes < MaxWriteFaults
    /\ faults' = [faults EXCEPT !.writes = @ + 1]
    /\ End(r)
    /\ UNCHANGED <<jobs, results, stops, trace, age, invocations, lock, worker>>

\* cancel_active_run, or the watcher of the durable status, cancels the task.
Interrupt(r) ==
    /\ ~At(r, "idle") /\ procs[r].mode = "job"
    /\ jobs[JobOf(r)].status = "cancelled"
    /\ End(r)
    /\ UNCHANGED <<jobs, results, stops, trace, age, invocations, localVars>>

-----------------------------------------------------------------------------
ReplicaStep(r) ==
    \/ ReclaimInterrupted(r)
    \/ ExecStep(r) /\ UNCHANGED localVars
    \/ RereadJob(r) \/ Finish(r) \/ RestoreWatch(r)

Environment ==
    \/ \E j \in Job : \/ \E kind \in Kinds : CreateRun(j, kind) /\ UNCHANGED localVars
                      \/ CancelCheck(j) /\ UNCHANGED localVars
                      \/ CancelWrite(j) /\ UNCHANGED localVars
                      \/ TraceLands(j) /\ UNCHANGED localVars
                      \/ TimePasses(j) /\ UNCHANGED localVars

Next ==
    \/ Environment
    \/ \E r \in Replica :
         \/ Acquire(r) \/ LoseLock(r) \/ NoticeLoss(r) \/ Crash(r)
         \/ ReplicaStep(r)
         \/ Raise(r) /\ UNCHANGED localVars
         \/ HandlerFails(r) \/ Interrupt(r)
         \/ \E j \in Job : ClaimNextPending(r, j) \/ PollDeferred(r, j)
                           \/ PollCompletedWatch(r, j)

\* A worker task makes progress, a standby retries the lock, a lost lock is
\* noticed, and time passes.  Pending jobs are claimed oldest first and parked
\* runs polled least recently updated first, so none is passed over for ever.
Fairness ==
    /\ \A r \in Replica : /\ WF_vars(Acquire(r))
                          /\ WF_vars(NoticeLoss(r))
                          /\ WF_vars(ReplicaStep(r))
    /\ \A j \in Job : /\ WF_vars(TimePasses(j) /\ UNCHANGED localVars)
                      /\ SF_vars(\E r \in Replica : ClaimNextPending(r, j))
                      /\ SF_vars(\E r \in Replica : PollDeferred(r, j))

Safety == Init /\ [][Next]_vars
Spec == Safety /\ Fairness

-----------------------------------------------------------------------------
(* Properties *)

\* The executors and the API keep the promises of RunLifecycle, whatever
\* replicas do: a settled job stays settled, a stopped, failed or blocked job
\* publishes nothing more, a result only goes from none to partial to complete.
LifecycleSpec == Lifecycle!LifeSpec

\* A job that is marked running is in some executor's hands, or an owner that
\* has yet to make its recovery pass will find it: no interruption orphans a job.
RunningHasExecutor ==
    \A j \in Job : jobs[j].status = "running" =>
        \/ \E r \in Replica : procs[r].job = j
        \/ \A r \in Replica : worker[r] # "polling"

\* No iteration outlives its worker, and a worker without the lock lost it and has
\* yet to notice (the keepalive in run_worker_loop): those beside the owner are no
\* more than connections were lost, and with none lost the owner executes alone.
EachOverlapIsALostLock ==
    /\ \A r \in Replica : worker[r] # "polling" => At(r, "idle")
    /\ Cardinality(Unowned) <= faults.losses

\* Every job that is created ends, and its executor lets go of it.
EventuallySettled ==
    \A j \in Job : jobs[j].status \in Active ~> jobs[j].status \in Terminal
=============================================================================
