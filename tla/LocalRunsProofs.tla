--------------------------- MODULE LocalRunsProofs ---------------------------
(* Proofs about the compatibility runtime for any jobs, any replicas and any   *)
(* number of crashes, lost locks and failed writes.  The inductive invariant   *)
(* adds to the types that every executor's program counter and local reads     *)
(* stay true of the tables (ExecutorsConsistent): from it each step is a step  *)
(* of RunLifecycle for every job, and what was stopped stays stopped.  Further *)
(* invariants say who may still invoke a target (InvokesOnce), how many work   *)
(* beside the owner of the lock (CountedOverlap), and, when the lock outlives  *)
(* its worker, who works (HolderWorks), that each running job is in hand       *)
(* (Accounted), and what the tables and the executors say of the evidence      *)
(* (Evident).                                                                  *)
EXTENDS LocalRuns, RunExecutionProofs, FiniteSetTheorems

IInv == TypeOK /\ ExecutorsConsistent

\* What is proved of each action
StepPreserves ==
    /\ \A j \in Job : Lifecycle!LifeStep(j)
    /\ TypeOK'
    /\ ExecutorsConsistent'

\* The invariant holds before any job is created.
LEMMA InitIInv == Init => IInv
  <1> SUFFICES ASSUME Init PROVE IInv
    OBVIOUS
  <1>1. TypeOK
    BY EmptyRows DEF Init, ExecInit, TypeOK, ExecTypeOK, Replica
  <1>2. ExecutorsConsistent
    BY DEF Init, ExecutorsConsistent, At, Idle, Replica
  <1>3. QED
    BY <1>1, <1>2 DEF IInv

\* A job that no step mentions keeps its place.
LEMMA KeepLives ==
    ASSUME NEW j \in Job, jobs'[j] = jobs[j], results'[j] = results[j]
    PROVE  Lifecycle!LifeStep(j)
  BY DEF Lifecycle!LifeStep, Lifecycle!Keep

-----------------------------------------------------------------------------
(* The API and the environment: no executor moves *)

\* The API, the archive and the passing of time keep the invariant.
LEMMA EnvironmentPreserves ==
    ASSUME IInv, Environment
    PROVE  StepPreserves
  <1> USE DEF IInv
  <1>1. PICK j \in Job :
          \/ \E kind \in Kinds : CreateRun(j, kind)
          \/ CancelCheck(j) \/ CancelWrite(j) \/ TraceLands(j) \/ TimePasses(j)
    BY DEF Environment
  <1>2. UNCHANGED <<results, procs, localVars>>
    BY DEF Environment, CreateRun, CancelCheck, CancelWrite, TraceLands, TimePasses
  <1>3. /\ ExecTypeOK'
        /\ \A i \in Job : Lifecycle!LifeStep(i)
    <2>0. ExecTypeOK
      BY DEF TypeOK
    <2>1. CASE \E kind \in Kinds : CreateRun(j, kind)
      <3>1. PICK kind \in Kinds : CreateRun(j, kind)
        BY <2>1
      <3>2. CreateRunJob(kind) \in JobRow /\ CreateRunJob(kind).status = "pending"
        BY KindsAssumption DEF CreateRunJob, NoJobRow, JobRow, JobStatus, Active, JobKind,
                               Snapshot, NoSnapshot
      <3>3. ExecTypeOK'
        BY <1>2, <2>0, <3>1, <3>2 DEF CreateRun, ExecTypeOK
      <3>4. \A i \in Job : Lifecycle!LifeStep(i)
        BY <1>2, <2>0, <3>1, <3>2, KeepLives
           DEF CreateRun, ExecTypeOK, Lifecycle!LifeStep, Lifecycle!Create
      <3>. QED
        BY <3>3, <3>4
    <2>2. CASE CancelWrite(j)
      <3>1. /\ CancelRunJob(jobs[j]) \in JobRow
            /\ CancelRunJob(jobs[j]).kind = jobs[j].kind
            /\ CancelRunJob(jobs[j]).status \in
                 {jobs[j].status} \cup (IF jobs[j].status \in Active THEN {"cancelled"} ELSE {})
        BY <2>0, SettleRow DEF CancelRunJob, ExecTypeOK, Terminal
      <3>2. ExecTypeOK'
        BY <1>2, <2>0, <2>2, <3>1 DEF CancelWrite, ExecTypeOK
      <3>3. \A i \in Job : Lifecycle!LifeStep(i)
        <4> SUFFICES ASSUME NEW i \in Job PROVE Lifecycle!LifeStep(i)
          OBVIOUS
        <4>1. jobs'[i] = IF i = j THEN CancelRunJob(jobs[i]) ELSE jobs[i]
          BY <2>0, <2>2 DEF CancelWrite, ExecTypeOK
        <4>2. jobs' \in [Job -> JobRow] /\ results' \in [Job -> Result] /\ results'[i] = results[i]
          BY <1>2, <3>2 DEF ExecTypeOK
        <4>. QED
          BY <2>0, <3>1, <4>1, <4>2, RowLives
      <3>. QED
        BY <3>2, <3>3
    <2>3. CASE CancelCheck(j) \/ TraceLands(j) \/ TimePasses(j)
      <3>1. UNCHANGED jobs
        BY <2>3 DEF CancelCheck, TraceLands, TimePasses
      <3>2. ExecTypeOK'
        BY <1>2, <2>0, <2>3 DEF CancelCheck, TraceLands, TimePasses, ExecTypeOK
      <3>. QED
        BY <1>2, <3>1, <3>2, KeepLives
    <2>. QED
      BY <1>1, <2>1, <2>2, <2>3
  <1>4. TypeOK'
    BY <1>2, <1>3 DEF TypeOK, localVars
  <1>5. ExecutorsConsistent'
    <2> SUFFICES ASSUME NEW q \in Proc, ~At(q, "idle")'
                 PROVE  ExecutorAttendsJob(q)' /\ ReturnHasResult(q)'
      BY DEF ExecutorsConsistent
    <2>. QED
      BY <1>2, <1>3, OtherStaysConsistent DEF ExecutorsConsistent, At
  <1>6. QED
    BY <1>3, <1>4, <1>5 DEF StepPreserves

-----------------------------------------------------------------------------
(* Ownership: executors are only dropped, rows only recovered *)

\* Dropping the work of one replica leaves every executor consistent.
LEMMA ReplicaDropped ==
    ASSUME IInv, NEW r \in Replica, procs' = [procs EXCEPT ![r] = Idle]
    PROVE  procs' \in [Proc -> Process] /\ Others(r) /\ procs'[r].pc = "idle"
  BY EmptyRows DEF IInv, TypeOK, ExecTypeOK, Replica, Others, Idle

\* Ownership of the lock, recovery, its loss and a crash keep the invariant.
LEMMA OwnershipPreserves ==
    ASSUME IInv, NEW r \in Replica,
           Acquire(r) \/ LoseLock(r) \/ NoticeLoss(r) \/ Crash(r) \/ ReclaimInterrupted(r)
    PROVE  StepPreserves
  <1> USE DEF IInv
  <1>0. ExecTypeOK /\ r \in Proc
    BY DEF TypeOK, Replica
  <1>1. CASE Acquire(r) \/ LoseLock(r)
    <2>1. UNCHANGED execVars
      BY <1>1 DEF Acquire, LoseLock
    <2>2. ExecTypeOK' /\ \A j \in Job : Lifecycle!LifeStep(j)
      BY <1>0, <2>1, KeepLives DEF execVars, ExecTypeOK
    <2>3. TypeOK'
      BY <1>0, <1>1, <2>2 DEF TypeOK, Acquire, LoseLock, Replica
    <2>4. ExecutorsConsistent'
      BY <1>0, <2>1, <2>2, StaysConsistent DEF execVars, Others
    <2>. QED
      BY <2>2, <2>3, <2>4 DEF StepPreserves
  <1>2. CASE NoticeLoss(r) \/ Crash(r)
    <2>1. /\ UNCHANGED <<jobs, results, stops, trace, age, invocations>>
          /\ procs' = [procs EXCEPT ![r] = Idle]
      BY <1>2 DEF NoticeLoss, Crash
    <2>2. ExecTypeOK' /\ \A j \in Job : Lifecycle!LifeStep(j)
      BY <1>0, <2>1, KeepLives, ReplicaDropped DEF ExecTypeOK
    <2>3. TypeOK'
      BY <1>0, <1>2, <2>2 DEF TypeOK, NoticeLoss, Crash, Replica
    <2>4. ExecutorsConsistent'
      BY <1>0, <2>1, <2>2, ReplicaDropped, StaysConsistent
    <2>. QED
      BY <2>2, <2>3, <2>4 DEF StepPreserves
  <1>3. CASE ReclaimInterrupted(r)
    <2>1. ASSUME NEW j \in Job
          PROVE  /\ ReclaimRunJob(jobs[j]) \in JobRow
                 /\ ReclaimRunJob(jobs[j]).kind = jobs[j].kind
                 /\ \/ ReclaimRunJob(jobs[j]).status = jobs[j].status
                    \/ /\ jobs[j].status \in Active
                       /\ ReclaimRunJob(jobs[j]).status \in {"awaiting_trace", "failed"}
      BY <1>0 DEF ExecTypeOK, ReclaimRunJob, JobRow, JobStatus, Active, Terminal
    <2>2. /\ \A j \in Job : jobs'[j] = ReclaimRunJob(jobs[j])
          /\ jobs' \in [Job -> JobRow]
          /\ UNCHANGED <<results, stops, trace, age, invocations, procs>>
      BY <1>3, <2>1 DEF ReclaimInterrupted
    <2>3. ExecTypeOK'
      BY <1>0, <2>2 DEF ExecTypeOK
    <2>4. \A j \in Job : Lifecycle!LifeStep(j)
      <3> SUFFICES ASSUME NEW j \in Job PROVE Lifecycle!LifeStep(j)
        OBVIOUS
      <3>1. results' \in [Job -> Result]
        BY <2>3 DEF ExecTypeOK
      <3>. QED
        BY <1>0, <2>1, <2>2, <3>1, RowLives
    <2>5. TypeOK'
      BY <1>3, <2>3 DEF TypeOK, ReclaimInterrupted
    <2>6. ExecutorsConsistent'
      BY <1>0, <2>2, <2>4, StaysConsistent DEF Others
    <2>. QED
      BY <2>4, <2>5, <2>6 DEF StepPreserves
  <1>4. QED
    BY <1>1, <1>2, <1>3

-----------------------------------------------------------------------------
(* The iterations of the worker loop *)

\* An executor that begins on a job: its local state is new.
LEMMA BeginTyped ==
    ASSUME IInv, NEW r \in Replica, NEW label \in Label, NEW mode \in Mode, NEW j \in Job,
           Begin(r, label, mode, j)
    PROVE  /\ procs' \in [Proc -> Process] /\ Others(r)
           /\ procs'[r].pc = label /\ procs'[r].job = j /\ procs'[r].run = "none"
  <1>1. [Idle EXCEPT !.pc = label, !.mode = mode, !.job = j, !.seen = jobs[j]] \in Process
    BY EmptyRows DEF IInv, TypeOK, ExecTypeOK, Process
  <1>2. QED
    BY <1>1 DEF Begin, IInv, TypeOK, ExecTypeOK, Replica, Others, Idle

\* A step that writes one row (or none) and leaves its executor idle.
LEMMA EndingPreserves ==
    ASSUME IInv, NEW r \in Replica, NEW j \in Job, NEW row \in JobRow,
           jobs' = [jobs EXCEPT ![j] = row],
           procs' = [procs EXCEPT ![r] = Idle] \/ UNCHANGED procs,
           row.kind = jobs[j].kind,
           \/ row.status = jobs[j].status
           \/ jobs[j].status \in Active /\ row.status \in {"blocked", "failed"}
           \/ /\ jobs[j].status \in Active /\ row.status = "completed"
              /\ jobs[j].kind \in Publishes => results[j].status # "none",
           UNCHANGED <<results, stops, trace, age, invocations, lock, worker>>,
           faults' \in [crashes: Nat, losses: Nat, writes: Nat]
    PROVE  StepPreserves
  <1>0. ExecTypeOK /\ r \in Proc
    BY DEF IInv, TypeOK, Replica
  <1>1. jobs' \in [Job -> JobRow] /\ \A i \in Job : jobs'[i] = IF i = j THEN row ELSE jobs[i]
    BY <1>0 DEF ExecTypeOK
  <1>2. procs' \in [Proc -> Process] /\ Others(r) /\ (procs'[r] = procs[r] \/ procs'[r].pc = "idle")
    BY <1>0, ReplicaDropped DEF ExecTypeOK, Others
  <1>3. ExecTypeOK'
    BY <1>0, <1>1, <1>2 DEF ExecTypeOK
  <1>4. \A i \in Job : Lifecycle!LifeStep(i)
    <2> SUFFICES ASSUME NEW i \in Job PROVE Lifecycle!LifeStep(i)
      OBVIOUS
    <2>1. results' \in [Job -> Result] /\ results'[i] = results[i]
      BY <1>3 DEF ExecTypeOK
    <2>. QED
      BY <1>0, <1>1, <2>1, RowLives
  <1>5. TypeOK'
    BY <1>3 DEF IInv, TypeOK
  <1>6. ExecutorsConsistent'
    BY <1>0, <1>2, <1>4, StaysConsistent DEF IInv
  <1>7. QED
    BY <1>4, <1>5, <1>6 DEF StepPreserves

\* Taking up a job (pending, parked or watched) keeps the invariant.
LEMMA PollPreserves ==
    ASSUME IInv, NEW r \in Replica, NEW j \in Job,
           ClaimNextPending(r, j) \/ PollDeferred(r, j) \/ PollCompletedWatch(r, j)
    PROVE  StepPreserves
  <1>0. /\ ExecTypeOK /\ TypeOK /\ r \in Proc /\ jobs[j] \in JobRow /\ ExecutorsConsistent
        /\ faults \in [crashes: Nat, losses: Nat, writes: Nat]
    BY DEF IInv, TypeOK, ExecTypeOK, Replica
  <1>1. UNCHANGED <<results, stops, trace, age, invocations, lock, worker, faults>>
    BY DEF ClaimNextPending, PollDeferred, PollCompletedWatch, localVars
  <1>2. CASE ClaimNextPending(r, j)
    <2> DEFINE label == EntryPoint(jobs[j].kind)
               row == ClaimPendingJob(jobs[j])
    <2>1. /\ label \in Label /\ label \notin {"idle", "returned", "record"}
          /\ label = "task" => jobs[j].kind \notin Publishes
      BY <1>0 DEF EntryPoint, Label, EvalKind, Publishes, JobRow, JobKind
    <2>2. /\ row \in JobRow /\ row.kind = jobs[j].kind /\ row.status = "running"
          /\ jobs[j].status = "pending"
      BY <1>0, <1>2 DEF ClaimPendingJob, ClaimNextPending, Pending, JobRow, JobStatus, Active
    <2>3. /\ procs' \in [Proc -> Process] /\ Others(r)
          /\ procs'[r].pc = label /\ procs'[r].job = j /\ procs'[r].run = "none"
      <3>1. Begin(r, label, "job", j)
        BY <1>2 DEF ClaimNextPending
      <3>2. "job" \in Mode
        BY DEF Mode
      <3> HIDE DEF label
      <3>. QED
        BY <2>1, <3>1, <3>2, BeginTyped
    <2>4. jobs' = [jobs EXCEPT ![j] = row]
      BY <1>2 DEF ClaimNextPending
    <2> HIDE DEF label, row
    <2>5. jobs' \in [Job -> JobRow] /\ \A i \in Job : jobs'[i] = IF i = j THEN row ELSE jobs[i]
      BY <1>0, <2>2, <2>4 DEF ExecTypeOK
    <2>6. ExecTypeOK' /\ TypeOK'
      BY <1>0, <1>1, <2>3, <2>5 DEF ExecTypeOK, TypeOK
    <2>7. \A i \in Job : Lifecycle!LifeStep(i)
      <3> SUFFICES ASSUME NEW i \in Job PROVE Lifecycle!LifeStep(i)
        OBVIOUS
      <3>1. results' \in [Job -> Result] /\ results'[i] = results[i]
        BY <1>1, <2>6 DEF ExecTypeOK
      <3>. QED
        BY <1>0, <2>2, <2>5, <3>1, RowLives DEF Active
    <2>8. ExecutorAttendsJob(r)' /\ ReturnHasResult(r)'
      BY <2>1, <2>2, <2>3, <2>5 DEF ExecutorAttendsJob, ReturnHasResult, At, JobOf, Published
    <2>9. ExecutorsConsistent'
      BY <1>0, <2>3, <2>7, <2>8, StaysConsistent
    <2>. QED
      BY <2>6, <2>7, <2>9 DEF StepPreserves
  <1>3. ASSUME NEW label \in {"reread", "deferred"}, NEW mode \in Mode, Begin(r, label, mode, j),
               UNCHANGED jobs, jobs[j].status # "absent"
        PROVE  StepPreserves
    <2>1. label \in Label
      BY DEF Label
    <2>2. /\ procs' \in [Proc -> Process] /\ Others(r)
          /\ procs'[r].pc = label /\ procs'[r].job = j /\ procs'[r].run = "none"
      BY <1>3, <2>1, BeginTyped
    <2>3. ExecTypeOK' /\ TypeOK'
      BY <1>0, <1>1, <1>3, <2>2 DEF ExecTypeOK, TypeOK
    <2>4. \A i \in Job : Lifecycle!LifeStep(i)
      BY <1>1, <1>3, KeepLives
    <2>5. ExecutorAttendsJob(r)' /\ ReturnHasResult(r)'
      BY <1>3, <2>2 DEF ExecutorAttendsJob, ReturnHasResult, At, JobOf, Published
    <2>6. ExecutorsConsistent'
      BY <1>0, <2>2, <2>4, <2>5, StaysConsistent
    <2>. QED
      BY <2>3, <2>4, <2>6 DEF StepPreserves
  <1>4. CASE PollDeferred(r, j)
    <2>1. CASE /\ results[j].status = "complete" /\ UNCHANGED procs
               /\ jobs' = [jobs EXCEPT ![j] = CompleteRunJob(@)]
      <3> DEFINE row == CompleteRunJob(jobs[j])
      <3>1. /\ row \in JobRow /\ row.kind = jobs[j].kind
            /\ row.status = IF jobs[j].status \in Active THEN "completed" ELSE jobs[j].status
        BY <1>0, SettleRow DEF CompleteRunJob, Terminal
      <3>2. jobs' = [jobs EXCEPT ![j] = row]
        BY <2>1
      <3> HIDE DEF row
      <3>. QED
        BY <1>0, <1>1, <2>1, <3>1, <3>2, EndingPreserves
    <2>2. CASE Begin(r, "reread", "deferred", j) /\ UNCHANGED jobs
      BY <1>3, <1>4, <2>2 DEF PollDeferred, Awaiting, Mode
    <2>. QED
      BY <1>4, <2>1, <2>2 DEF PollDeferred
  <1>5. CASE PollCompletedWatch(r, j)
    BY <1>3, <1>5 DEF PollCompletedWatch, Mode
  <1>6. QED
    BY <1>2, <1>4, <1>5

\* Each step of the execution of a job keeps the invariant.
LEMMA ExecutionPreserves ==
    ASSUME IInv, NEW r \in Replica,
           (ExecStep(r) \/ Raise(r)) /\ UNCHANGED localVars
    PROVE  StepPreserves
  <1>0. r \in Proc /\ ExecTypeOK /\ ExecutorsConsistent
    BY DEF Replica, IInv, TypeOK
  <1>1. ~At(r, "idle")
    BY DEF ExecStep, Raise, Raising, RunTask, AssessReadiness, InvokeTarget, HydrateFirst,
           ParkFirst, ActivateWatch, PublishPartial, Publish, StartDeferred, Hydrate,
           PublishDeferred, RecordRescore, At
  <1>2. StepKeeps(r)
    BY <1>0, <1>1, ExecStepKeeps DEF Working, ExecutorsConsistent
  <1>3. TypeOK'
    BY <1>2 DEF IInv, TypeOK, StepKeeps, localVars
  <1>4. ExecutorsConsistent'
    BY <1>0, <1>2, StaysConsistent DEF StepKeeps
  <1>5. QED
    BY <1>2, <1>3, <1>4 DEF StepPreserves, StepKeeps

\* The second read of the job row keeps the invariant.
LEMMA RereadPreserves ==
    ASSUME IInv, NEW r \in Replica, RereadJob(r)
    PROVE  StepPreserves
  <1>0. /\ r \in Proc /\ ExecTypeOK /\ ExecutorsConsistent /\ At(r, "reread")
        /\ ExecutorAttendsJob(r) /\ ReturnHasResult(r)
    BY DEF Replica, IInv, TypeOK, RereadJob, ExecutorsConsistent, At
  <1>1. UNCHANGED <<jobs, results, stops, trace, age, invocations, localVars>>
    BY DEF RereadJob
  <1>2. /\ procs' \in [Proc -> Process] /\ Others(r)
        /\ procs'[r].job = JobOf(r) /\ procs'[r].run = procs[r].run
        /\ procs'[r].pc \in {"deferred", "raised"}
    BY <1>0 DEF RereadJob, ExecutorAttendsJob, ExecTypeOK, Become, Process, Label, Others, JobOf
  <1>3. StepKeeps(r)
    <2>1. Working(r)
      BY <1>0 DEF Working, At
    <2>2. invocations' \in [Job -> Nat]
      BY <1>0, <1>1 DEF ExecTypeOK
    <2>. QED
      BY <1>0, <1>1, <1>2, <2>1, <2>2, ReadStepKeeps DEF ExecutorAttendsJob, Published
  <1>4. TypeOK'
    BY <1>1, <1>3 DEF IInv, TypeOK, StepKeeps, localVars
  <1>5. ExecutorsConsistent'
    BY <1>0, <1>3, StaysConsistent DEF StepKeeps
  <1>6. QED
    BY <1>3, <1>4, <1>5 DEF StepPreserves, StepKeeps

\* Each way in which an iteration ends keeps the invariant.
LEMMA EndPreserves ==
    ASSUME IInv, NEW r \in Replica,
           Finish(r) \/ RestoreWatch(r) \/ HandlerFails(r) \/ Interrupt(r)
    PROVE  StepPreserves
  <1>0. /\ r \in Proc /\ ExecTypeOK /\ ExecutorsConsistent
        /\ faults \in [crashes: Nat, losses: Nat, writes: Nat]
    BY DEF Replica, IInv, TypeOK
  <1>1. /\ ~At(r, "idle") /\ procs' = [procs EXCEPT ![r] = Idle]
        /\ UNCHANGED <<results, stops, trace, age, invocations, lock, worker>>
        /\ faults' \in [crashes: Nat, losses: Nat, writes: Nat]
    BY <1>0 DEF Finish, RestoreWatch, HandlerFails, Interrupt, At, End, localVars
  <1>2. /\ JobOf(r) \in Job /\ jobs[JobOf(r)] \in JobRow /\ procs[r].seen \in JobRow
        /\ ReturnHasResult(r)
    BY <1>0, <1>1 DEF ExecutorsConsistent, ExecutorAttendsJob, ExecTypeOK, Process
  <1> DEFINE j == JobOf(r)
  <1>3. ASSUME NEW row \in JobRow, WriteJob(r, row), row.kind = jobs[j].kind,
               \/ row.status = jobs[j].status
               \/ jobs[j].status \in Active /\ row.status \in {"blocked", "failed"}
               \/ /\ jobs[j].status \in Active /\ row.status = "completed"
                  /\ At(r, "returned")
        PROVE  StepPreserves
    BY <1>0, <1>1, <1>2, <1>3, EndingPreserves DEF WriteJob, ReturnHasResult
  <1>4. CASE UNCHANGED jobs
    <2>1. WriteJob(r, jobs[j])
      BY <1>0, <1>2, <1>4 DEF WriteJob, ExecTypeOK
    <2>. QED
      BY <1>2, <1>3, <2>1
  <1>5. ASSUME NEW status \in {"completed", "blocked", "failed"},
               WriteJob(r, SettleRunJob(jobs[j], status)),
               status = "completed" => At(r, "returned")
        PROVE  StepPreserves
    <2> DEFINE row == SettleRunJob(jobs[j], status)
    <2>1. /\ row \in JobRow /\ row.kind = jobs[j].kind
          /\ row.status = IF jobs[j].status \in Active THEN status ELSE jobs[j].status
      BY <1>2, SettleRow DEF Terminal
    <2>2. WriteJob(r, row)
      BY <1>5
    <2> HIDE DEF row
    <2>. QED
      BY <1>3, <1>5, <2>1, <2>2
  <1>6. CASE Finish(r)
    <2>1. CASE At(r, "returned") /\ WriteJob(r, CompleteRunJob(jobs[j]))
      BY <1>5, <2>1 DEF CompleteRunJob
    <2>2. CASE WriteJob(r, BlockRunJob(jobs[j]))
      BY <1>5, <2>2 DEF BlockRunJob
    <2>3. CASE WriteJob(r, FailRunJob(jobs[j]))
      BY <1>5, <2>3 DEF FailRunJob
    <2>. QED
      BY <1>4, <1>6, <2>1, <2>2, <2>3 DEF Finish
  <1>7. CASE RestoreWatch(r)
    <2> DEFINE row == UpdateTelemetryWatch(jobs[j], jobs[j], procs[r].seen.snapshot)
    <2>1. procs[r].seen.snapshot \in Snapshot
      BY <1>2 DEF JobRow
    <2>2. row \in JobRow /\ row.kind = jobs[j].kind /\ row.status = jobs[j].status
      BY <1>2, <2>1, WatchRow
    <2>3. WriteJob(r, row)
      BY <1>7 DEF RestoreWatch
    <2> HIDE DEF row
    <2>. QED
      BY <1>3, <2>2, <2>3
  <1>8. CASE HandlerFails(r) \/ Interrupt(r)
    BY <1>4, <1>8 DEF HandlerFails, Interrupt
  <1>9. QED
    BY <1>6, <1>7, <1>8

-----------------------------------------------------------------------------
(* Every step, and the theorems *)

\* Every action of Next keeps the invariant.
LEMMA NextPreserves ==
    ASSUME IInv, Next
    PROVE  StepPreserves
  <1>1. CASE Environment
    BY <1>1, EnvironmentPreserves
  <1>2. ASSUME NEW r \in Replica,
               \/ Acquire(r) \/ LoseLock(r) \/ NoticeLoss(r) \/ Crash(r)
               \/ ReplicaStep(r)
               \/ Raise(r) /\ UNCHANGED localVars
               \/ HandlerFails(r) \/ Interrupt(r)
               \/ \E j \in Job : ClaimNextPending(r, j) \/ PollDeferred(r, j)
                                 \/ PollCompletedWatch(r, j)
        PROVE  StepPreserves
    BY <1>2, OwnershipPreserves, PollPreserves, ExecutionPreserves, RereadPreserves, EndPreserves
       DEF ReplicaStep
  <1>3. QED
    BY <1>1, <1>2 DEF Next

\* The invariant is inductive.
LEMMA InductiveStep == IInv /\ [Next]_vars => IInv'
  <1> SUFFICES ASSUME IInv, [Next]_vars PROVE IInv'
    OBVIOUS
  <1>1. CASE Next
    BY <1>1, NextPreserves DEF StepPreserves, IInv
  <1>2. CASE UNCHANGED vars
    BY <1>2 DEF vars, IInv, TypeOK, ExecTypeOK, ExecutorsConsistent, ExecutorAttendsJob,
                ReturnHasResult, At, JobOf, Published
  <1>3. QED
    BY <1>1, <1>2

\* The invariant holds in every reachable state.
LEMMA Invariance == Safety => []IInv
  BY InitIInv, InductiveStep, PTL DEF Safety

\* The store, the lock and every executor's local state keep their types.
THEOREM TypesCorrect == Safety => []TypeOK
  BY Invariance, PTL DEF IInv

\* An executor never acts on a job or a result that the tables have lost, and it
\* returns from an evaluation only when its result is published.
THEOREM ExecutorsStayConsistent == Safety => []ExecutorsConsistent
  BY Invariance, PTL DEF IInv

\* The compatibility runtime keeps every promise of RunLifecycle.
THEOREM LocalRunsRefinesLifecycle == Safety => LifecycleSpec
  <1>1. Init => Lifecycle!LifeInit
    BY DEF Init, ExecInit, Lifecycle!LifeInit, NoJobRow, NoResult
  <1>2. IInv /\ [Next]_vars => [Lifecycle!LifeNext]_Lifecycle!lifeVars
    <2> SUFFICES ASSUME IInv, [Next]_vars PROVE [Lifecycle!LifeNext]_Lifecycle!lifeVars
      OBVIOUS
    <2>1. CASE Next
      BY <2>1, NextPreserves DEF StepPreserves, Lifecycle!LifeNext
    <2>2. CASE UNCHANGED vars
      BY <2>2 DEF vars, Lifecycle!lifeVars
    <2>. QED
      BY <2>1, <2>2
  <1>3. QED
    BY <1>1, <1>2, Invariance, PTL DEF Safety, LifecycleSpec, Lifecycle!LifeSpec

-----------------------------------------------------------------------------
(* A stop that was acknowledged *)

\* Only cancel_run_job acknowledges a stop, and only on a cancelled row.
LEMMA OnlyCancelAcknowledges ==
    ASSUME IInv, Next, NEW j \in Job, stops'[j] = "stopped"
    PROVE  stops[j] = "stopped" \/ jobs'[j].status = "cancelled"
  <1>0. ExecTypeOK
    BY DEF IInv, TypeOK
  <1>1. CASE UNCHANGED stops
    BY <1>1
  <1>2. ASSUME NEW i \in Job, CancelCheck(i) PROVE stops[j] = "stopped"
    BY <1>0, <1>2 DEF CancelCheck, ExecTypeOK
  <1>3. ASSUME NEW i \in Job, CancelWrite(i)
        PROVE  stops[j] = "stopped" \/ jobs'[j].status = "cancelled"
    BY <1>0, <1>3 DEF CancelWrite, ExecTypeOK
  <1>4. ASSUME NEW i \in Job, NEW kind, CreateRun(i, kind) \/ TraceLands(i) \/ TimePasses(i)
        PROVE  UNCHANGED stops
    BY <1>4 DEF CreateRun, TraceLands, TimePasses
  <1>5. ASSUME NEW r \in Replica,
               \/ Acquire(r) \/ LoseLock(r) \/ NoticeLoss(r) \/ Crash(r) \/ ReclaimInterrupted(r)
               \/ RereadJob(r) \/ Finish(r) \/ RestoreWatch(r) \/ HandlerFails(r) \/ Interrupt(r)
               \/ \E i \in Job : ClaimNextPending(r, i) \/ PollDeferred(r, i)
                                 \/ PollCompletedWatch(r, i)
        PROVE  UNCHANGED stops
    BY <1>5 DEF Acquire, LoseLock, NoticeLoss, Crash, ReclaimInterrupted, RereadJob, Finish,
                RestoreWatch, HandlerFails, Interrupt, ClaimNextPending, PollDeferred,
                PollCompletedWatch, execVars
  <1>6. ASSUME NEW r \in Replica, ExecStep(r) \/ Raise(r)
        PROVE  UNCHANGED stops
    BY <1>6 DEF ExecStep, Raise, RunTask, AssessReadiness, InvokeTarget, HydrateFirst,
                ParkFirst, ActivateWatch, PublishPartial, Publish, StartDeferred, Hydrate,
                PublishDeferred, RecordRescore, SaveRun
  <1>7. CASE Environment
    BY <1>1, <1>2, <1>3, <1>4, <1>7 DEF Environment
  <1>8. CASE \E r \in Replica :
               \/ Acquire(r) \/ LoseLock(r) \/ NoticeLoss(r) \/ Crash(r)
               \/ ReplicaStep(r)
               \/ Raise(r) /\ UNCHANGED localVars
               \/ HandlerFails(r) \/ Interrupt(r)
               \/ \E i \in Job : ClaimNextPending(r, i) \/ PollDeferred(r, i)
                                 \/ PollCompletedWatch(r, i)
    BY <1>1, <1>5, <1>6, <1>8 DEF ReplicaStep
  <1>9. QED
    BY <1>7, <1>8 DEF Next

\* cancel_run_job's promise holds in the compatibility runtime: the API answers
\* "stopped" only for a job that no worker, recovery or rescore will ever move.
THEOREM StopsAreFinal == Safety => []StopIsFinal
  <1>1. Init => StopIsFinal
    BY DEF Init, ExecInit, StopIsFinal
  <1>2. IInv /\ StopIsFinal /\ [Next]_vars => StopIsFinal'
    <2> SUFFICES ASSUME IInv, StopIsFinal, [Next]_vars, NEW j \in Job, stops'[j] = "stopped"
                 PROVE  jobs'[j].status = "cancelled"
      BY DEF StopIsFinal
    <2>1. CASE Next
      <3>1. Lifecycle!LifeStep(j)
        BY <2>1, NextPreserves DEF StepPreserves
      <3>2. stops[j] = "stopped" => jobs[j].status = "cancelled"
        BY DEF StopIsFinal
      <3>. QED
        BY <2>1, <3>1, <3>2, OnlyCancelAcknowledges, LifeMonotone
    <2>2. CASE UNCHANGED vars
      BY <2>2 DEF vars, StopIsFinal
    <2>. QED
      BY <2>1, <2>2
  <1>3. QED
    BY <1>1, <1>2, Invariance, PTL DEF Safety

-----------------------------------------------------------------------------
(* One invocation of the target *)

\* Who is about to invoke a target is the only one for its job, and the first.
InvokesOnce ==
    /\ TargetInvokedAtMostOnce
    /\ \A j \in Job : Untried(j) => invocations[j] = 0
    /\ \A p \in Proc : procs[p].pc \in Asking =>
         invocations[JobOf(p)] = 0 /\ ~Untried(JobOf(p))
    /\ \A p, q \in Proc :
         procs[p].pc \in Asking /\ procs[q].pc \in Asking /\ JobOf(p) = JobOf(q) => p = q

\* A step that invokes nothing and sends no executor to do so.
LEMMA NoneAskAnew ==
    ASSUME IInv, InvokesOnce, \A j \in Job : Lifecycle!LifeStep(j),
           invocations' = invocations,
           \A q \in Proc : procs'[q].pc \in Asking =>
             procs[q].pc \in Asking /\ procs'[q].job = procs[q].job
    PROVE  InvokesOnce'
  <1>1. \A q \in Proc : procs[q].pc \in Asking => JobOf(q) \in Job
    BY DEF IInv, ExecutorsConsistent, ExecutorAttendsJob, At, Asking
  <1>2. \A j \in Job : Untried(j)' => Untried(j)
    BY TriedOnce
  <1>3. \A j \in Job : invocations'[j] = invocations[j]
    OBVIOUS
  <1>4. TargetInvokedAtMostOnce'
    BY <1>3 DEF InvokesOnce, TargetInvokedAtMostOnce
  <1>5. \A j \in Job : Untried(j)' => invocations'[j] = 0
    BY <1>2, <1>3 DEF InvokesOnce
  <1>6. ASSUME NEW q \in Proc, procs'[q].pc \in Asking
        PROVE  /\ procs[q].pc \in Asking /\ JobOf(q)' = JobOf(q)
               /\ invocations'[JobOf(q)'] = 0 /\ ~Untried(JobOf(q))'
    <2>1. /\ procs[q].pc \in Asking /\ JobOf(q)' = JobOf(q) /\ JobOf(q) \in Job
          /\ invocations[JobOf(q)] = 0 /\ ~Untried(JobOf(q))
      BY <1>1, <1>6 DEF InvokesOnce, JobOf
    <2>. QED
      BY <1>2, <1>3, <2>1 DEF Untried
  <1>7. ASSUME NEW p \in Proc, NEW q \in Proc, procs'[p].pc \in Asking, procs'[q].pc \in Asking,
               JobOf(p)' = JobOf(q)'
        PROVE  p = q
    BY <1>6, <1>7 DEF InvokesOnce
  <1>8. QED
    BY <1>4, <1>5, <1>6, <1>7 DEF InvokesOnce

\* Every step of the compatibility runtime keeps the invariant.
LEMMA InvokesOnceStep ==
    ASSUME IInv, InvokesOnce, Next
    PROVE  InvokesOnce'
  <1>0. /\ ExecTypeOK /\ ExecTypeOK' /\ ExecutorsConsistent
        /\ \A j \in Job : Lifecycle!LifeStep(j)
    BY NextPreserves DEF IInv, TypeOK, StepPreserves
  <1>1. ASSUME NEW r \in Proc, Others(r), invocations' = invocations, procs'[r].pc \notin Asking
        PROVE  InvokesOnce'
    BY <1>0, <1>1, NoneAskAnew DEF Others
  <1>2. ASSUME UNCHANGED <<procs, invocations>> PROVE InvokesOnce'
    BY <1>0, <1>2, NoneAskAnew
  <1>3. CASE Environment
    BY <1>2, <1>3 DEF Environment, CreateRun, CancelCheck, CancelWrite, TraceLands, TimePasses
  <1>4. ASSUME NEW r \in Proc, Acquire(r) \/ LoseLock(r) \/ ReclaimInterrupted(r)
        PROVE  InvokesOnce'
    BY <1>2, <1>4 DEF Acquire, LoseLock, ReclaimInterrupted, execVars
  <1>5. ASSUME NEW r \in Proc,
               \/ NoticeLoss(r) \/ Crash(r)
               \/ Finish(r) \/ RestoreWatch(r) \/ HandlerFails(r) \/ Interrupt(r)
        PROVE  InvokesOnce'
    <2>1. procs' = [procs EXCEPT ![r] = Idle] /\ invocations' = invocations
      BY <1>5 DEF NoticeLoss, Crash, Finish, RestoreWatch, HandlerFails, Interrupt, End
    <2>2. Others(r) /\ procs'[r].pc \notin Asking
      BY <1>0, <2>1, ReplicaDropped DEF IInv, Replica, Asking
    <2>. QED
      BY <1>1, <2>1, <2>2
  <1>6. ASSUME NEW r \in Proc, RereadJob(r) PROVE InvokesOnce'
    <2>1. Others(r) /\ procs'[r].pc \in {"deferred", "raised"} /\ invocations' = invocations
      BY <1>0, <1>6 DEF RereadJob, ExecTypeOK, Become, Process, Others
    <2>. QED
      BY <1>1, <2>1 DEF Asking
  <1>7. ASSUME NEW r \in Proc, NEW j \in Job, PollDeferred(r, j) \/ PollCompletedWatch(r, j)
        PROVE  InvokesOnce'
    <2>1. invocations' = invocations
      BY <1>7 DEF PollDeferred, PollCompletedWatch
    <2>2. CASE UNCHANGED procs
      BY <1>2, <2>1, <2>2
    <2>3. ASSUME NEW label \in {"reread", "deferred"}, NEW mode \in Mode, Begin(r, label, mode, j)
          PROVE  InvokesOnce'
      <3>1. Others(r) /\ procs'[r].pc = label
        BY <2>3, BeginTyped DEF Replica, Label
      <3>. QED
        BY <1>1, <2>1, <2>3, <3>1 DEF Asking
    <2>. QED
      BY <1>7, <2>2, <2>3 DEF PollDeferred, PollCompletedWatch, Mode
  <1>8. ASSUME NEW r \in Proc, NEW j \in Job, ClaimNextPending(r, j) PROVE InvokesOnce'
    <2> DEFINE label == EntryPoint(jobs[j].kind)
    <2>1. jobs[j].status = "pending" /\ invocations' = invocations
      BY <1>8 DEF ClaimNextPending, Pending
    <2>2. Others(r) /\ procs'[r].pc = label /\ procs'[r].job = j
      <3>1. label \in Label /\ "job" \in Mode /\ Begin(r, label, "job", j)
        BY <1>0, <1>8 DEF ClaimNextPending, EntryPoint, Label, Mode
      <3> HIDE DEF label
      <3>. QED
        BY <3>1, BeginTyped DEF Replica
    <2>3. ~Untried(j)' /\ invocations[j] = 0 /\ Untried(j)
      <3>1. jobs'[j].status = "running"
        BY <1>0, <1>8 DEF ClaimNextPending, ClaimPendingJob, ExecTypeOK, JobRow
      <3>. QED
        BY <2>1, <3>1 DEF Untried, InvokesOnce
    <2>4. \A q \in Proc \ {r} : procs'[q].pc \in Asking => JobOf(q)' # j /\ procs[q].pc \in Asking
      BY <2>2, <2>3 DEF InvokesOnce, Others, JobOf
    <2>5. \A i \in Job : Untried(i)' => Untried(i)
      BY <1>0, TriedOnce
    <2>6. ASSUME NEW q \in Proc, procs'[q].pc \in Asking
          PROVE  invocations'[JobOf(q)'] = 0 /\ ~Untried(JobOf(q))'
      <3>1. CASE q = r
        BY <2>1, <2>2, <2>3, <3>1 DEF JobOf, Untried
      <3>2. CASE q # r
        <4>1. procs'[q] = procs[q] /\ procs[q].pc \in Asking
          BY <2>2, <2>6, <3>2 DEF Others
        <4>2. JobOf(q) \in Job /\ invocations[JobOf(q)] = 0 /\ ~Untried(JobOf(q))
          BY <1>0, <4>1 DEF InvokesOnce, ExecutorsConsistent, ExecutorAttendsJob, At, Asking
        <4>. QED
          BY <2>1, <2>5, <4>1, <4>2 DEF JobOf, Untried
      <3>. QED
        BY <3>1, <3>2
    <2>7. ASSUME NEW p \in Proc, NEW q \in Proc, procs'[p].pc \in Asking,
                 procs'[q].pc \in Asking, JobOf(p)' = JobOf(q)'
          PROVE  p = q
      <3>1. CASE p # r /\ q # r
        BY <2>2, <2>7, <3>1 DEF Others, InvokesOnce, JobOf
      <3>. QED
        BY <2>2, <2>4, <2>7, <3>1 DEF JobOf
    <2>8. (\A i \in Job : Untried(i)' => invocations'[i] = 0) /\ TargetInvokedAtMostOnce'
      BY <2>1, <2>5 DEF InvokesOnce, TargetInvokedAtMostOnce
    <2>. QED
      BY <2>6, <2>7, <2>8 DEF InvokesOnce
  <1>9. ASSUME NEW r \in Proc, ExecStep(r) \/ Raise(r) PROVE InvokesOnce'
    <2>0. ~At(r, "idle")
      BY <1>9 DEF ExecStep, Raise, Raising, RunTask, AssessReadiness, InvokeTarget, HydrateFirst,
                  ParkFirst, ActivateWatch, PublishPartial, Publish, StartDeferred, Hydrate,
                  PublishDeferred, RecordRescore, At
    <2>1. Working(r)
      BY <1>0, <2>0 DEF Working, ExecutorsConsistent
    <2>2. Others(r) /\ Frame(r)
      BY <1>9, <2>1, ExecStepKeeps, ExecStepFrame DEF StepKeeps
    <2>3. CASE invocations' = invocations /\ (procs'[r].pc \in Asking => procs[r].pc \in Asking)
      BY <1>0, <2>2, <2>3, NoneAskAnew DEF Others, Frame
    <2>4. CASE /\ procs[r].pc = "invoke" /\ procs'[r].pc \notin Asking
               /\ invocations'[JobOf(r)] = invocations[JobOf(r)] + 1
      <3>1. /\ invocations[JobOf(r)] = 0 /\ ~Untried(JobOf(r)) /\ JobOf(r) \in Job
            /\ \A q \in Proc \ {r} : procs[q].pc \in Asking => JobOf(q) # JobOf(r)
        BY <2>1, <2>4 DEF InvokesOnce, Asking, Working, ExecutorAttendsJob
      <3>2. \A i \in Job : /\ Untried(i)' => Untried(i)
                           /\ i # JobOf(r) => invocations'[i] = invocations[i]
        BY <1>0, <2>2, TriedOnce DEF Frame
      <3>3. ASSUME NEW q \in Proc, procs'[q].pc \in Asking
            PROVE  /\ procs'[q] = procs[q] /\ invocations'[JobOf(q)'] = 0 /\ ~Untried(JobOf(q))'
        <4>1. q # r /\ procs'[q] = procs[q] /\ procs[q].pc \in Asking
          BY <2>2, <2>4, <3>3 DEF Others
        <4>2. JobOf(q) \in Job /\ invocations[JobOf(q)] = 0 /\ ~Untried(JobOf(q))
          BY <1>0, <4>1 DEF InvokesOnce, ExecutorsConsistent, ExecutorAttendsJob, At, Asking
        <4>. QED
          BY <3>1, <3>2, <4>1, <4>2 DEF JobOf, Untried
      <3>4. ASSUME NEW p \in Proc, NEW q \in Proc, procs'[p].pc \in Asking,
                   procs'[q].pc \in Asking, JobOf(p)' = JobOf(q)'
            PROVE  p = q
        BY <3>3, <3>4 DEF InvokesOnce, JobOf
      <3>5. \A i \in Job : Untried(i)' => invocations'[i] = 0
        BY <3>1, <3>2 DEF InvokesOnce
      <3>6. TargetInvokedAtMostOnce'
        BY <2>4, <3>1, <3>2 DEF InvokesOnce, TargetInvokedAtMostOnce
      <3>. QED
        BY <3>3, <3>4, <3>5, <3>6 DEF InvokesOnce
    <2>. QED
      BY <1>9, <2>1, <2>3, <2>4, ExecStepAsks
  <1>10. QED
    BY <1>3, <1>4, <1>5, <1>6, <1>7, <1>8, <1>9 DEF Next, ReplicaStep, Replica

\* However replicas crash, lose their lock, overlap or fail to write, the target of
\* a live evaluation is asked at most once for a job.
THEOREM InvokedAtMostOnce == Safety => []TargetInvokedAtMostOnce
  <1>1. Init => InvokesOnce
    <2> SUFFICES ASSUME Init PROVE InvokesOnce
      OBVIOUS
    <2>1. \A j \in Job : invocations[j] = 0
      BY DEF Init, ExecInit
    <2>2. \A p \in Proc : procs[p].pc \notin Asking
      BY DEF Init, Idle, Asking, Replica
    <2>. QED
      BY <2>1, <2>2 DEF InvokesOnce, TargetInvokedAtMostOnce
  <1>2. IInv /\ InvokesOnce /\ [Next]_vars => InvokesOnce'
    <2> SUFFICES ASSUME IInv, InvokesOnce, UNCHANGED vars PROVE InvokesOnce'
      BY InvokesOnceStep
    <2>. QED
      BY DEF vars, InvokesOnce, TargetInvokedAtMostOnce, Untried, JobOf
  <1>3. InvokesOnce => TargetInvokedAtMostOnce
    BY DEF InvokesOnce
  <1>4. QED
    BY <1>1, <1>2, <1>3, Invariance, PTL DEF Safety

-----------------------------------------------------------------------------
(* Exclusive ownership, as long as the lock outlives its worker *)

\* Without lost locks only the holder has a worker, and only a worker executes.
HolderWorks ==
    \A r \in Replica : /\ worker[r] # "standby" => lock = r
                       /\ worker[r] # "polling" => At(r, "idle")

\* While no lock is lost, each step leaves all work with the holder of the lock.
LEMMA HolderWorksStep ==
    ASSUME MaxLockLosses = 0, IInv, HolderWorks, Next, faults.losses \in Nat
    PROVE  HolderWorks'
  <1>0. /\ procs \in [Replica -> Process]
        /\ worker \in [Replica -> {"standby", "reclaiming", "polling"}]
        /\ IInv' /\ procs' \in [Replica -> Process]
    BY NextPreserves DEF IInv, TypeOK, ExecTypeOK, StepPreserves, Replica
  <1> USE DEF HolderWorks
  <1>1. CASE UNCHANGED <<procs, lock, worker>>
    BY <1>1 DEF At
  \* A working replica steps within its iteration: lock and workers stay.
  <1>2. ASSUME NEW r \in Replica, UNCHANGED <<lock, worker>>, Others(r),
               worker[r] = "polling" \/ ~At(r, "idle") \/ procs'[r].pc = "idle"
        PROVE  HolderWorks'
    BY <1>0, <1>2 DEF Others, At, Replica
  <1>3. CASE Environment
    BY <1>1, <1>3 DEF Environment, CreateRun, CancelCheck, CancelWrite, TraceLands, TimePasses,
                      localVars
  <1>4. ASSUME NEW r \in Replica, Acquire(r) PROVE HolderWorks'
    BY <1>0, <1>4, NoReplicaAssumption DEF Acquire, At, execVars
  <1>5. ASSUME NEW r \in Replica, LoseLock(r) PROVE HolderWorks'
    BY <1>5 DEF LoseLock
  <1>6. ASSUME NEW r \in Replica, NoticeLoss(r) PROVE HolderWorks'
    BY <1>6 DEF NoticeLoss
  <1>7. ASSUME NEW r \in Replica, Crash(r) PROVE HolderWorks'
    <2>1. /\ worker[r] # "standby" /\ lock = r /\ lock' = NoReplica
          /\ worker' = [worker EXCEPT ![r] = "standby"]
          /\ procs' = [procs EXCEPT ![r] = Idle]
      BY <1>7 DEF Crash
    <2>2. ASSUME NEW s \in Replica PROVE worker'[s] = "standby" /\ procs'[s].pc = "idle"
      BY <1>0, <2>1, <2>2 DEF Idle, At
    <2>. QED
      BY <2>2 DEF At
  <1>8. ASSUME NEW r \in Replica, ReclaimInterrupted(r) PROVE HolderWorks'
    BY <1>0, <1>8 DEF ReclaimInterrupted, At
  <1>9. ASSUME NEW r \in Replica, (ExecStep(r) \/ Raise(r)) /\ UNCHANGED localVars
        PROVE  HolderWorks'
    <2>1. ~At(r, "idle")
      BY <1>9 DEF ExecStep, Raise, Raising, RunTask, AssessReadiness, InvokeTarget, HydrateFirst,
                  ParkFirst, ActivateWatch, PublishPartial, Publish, StartDeferred, Hydrate,
                  PublishDeferred, RecordRescore, At
    <2>2. Working(r)
      BY <2>1 DEF IInv, TypeOK, Working, ExecutorsConsistent, Replica
    <2>3. Others(r)
      BY <1>9, <2>2, ExecStepKeeps DEF StepKeeps, Replica
    <2>. QED
      BY <1>2, <1>9, <2>1, <2>3 DEF localVars
  <1>10. ASSUME NEW r \in Replica,
                RereadJob(r) \/ Finish(r) \/ RestoreWatch(r) \/ HandlerFails(r) \/ Interrupt(r)
         PROVE  HolderWorks'
    <2>1. Others(r) /\ ~At(r, "idle") /\ UNCHANGED <<lock, worker>>
      BY <1>0, <1>10 DEF RereadJob, Finish, RestoreWatch, HandlerFails, Interrupt, End, Become,
                         Others, At, localVars, Replica
    <2>. QED
      BY <1>2, <2>1
  <1>11. ASSUME NEW r \in Replica, NEW j \in Job,
                ClaimNextPending(r, j) \/ PollDeferred(r, j) \/ PollCompletedWatch(r, j)
         PROVE  HolderWorks'
    <2>1. worker[r] = "polling" /\ UNCHANGED <<lock, worker>> /\ Others(r)
      BY <1>0, <1>11 DEF ClaimNextPending, PollDeferred, PollCompletedWatch, Begin, Others,
                         localVars, Replica
    <2>. QED
      BY <1>2, <2>1
  <1>12. QED
    BY <1>3, <1>4, <1>5, <1>6, <1>7, <1>8, <1>9, <1>10, <1>11 DEF Next, ReplicaStep

\* At all times: by induction over the steps.
LEMMA HolderWorksAlways == Safety => [](MaxLockLosses = 0 => HolderWorks)
  <1>1. Init => HolderWorks
    BY DEF Init, HolderWorks, At, Idle
  <1>2. IInv /\ (MaxLockLosses = 0 => HolderWorks) /\ [Next]_vars
          => (MaxLockLosses = 0 => HolderWorks)'
    <2> SUFFICES ASSUME IInv, MaxLockLosses = 0, HolderWorks, [Next]_vars PROVE HolderWorks'
      OBVIOUS
    <2>1. CASE Next
      BY <2>1, HolderWorksStep DEF IInv, TypeOK
    <2>2. CASE UNCHANGED vars
      BY <2>2 DEF vars, HolderWorks, At
    <2>. QED
      BY <2>1, <2>2
  <1>3. QED
    BY <1>1, <1>2, Invariance, PTL DEF Safety

\* With losses, too: only a worker that polls has an iteration, and the workers
\* without the lock are finitely many, at most one for each lost connection.
CountedOverlap ==
    /\ \A r \in Replica : worker[r] # "polling" => At(r, "idle")
    /\ IsFiniteSet(Unowned)
    /\ Cardinality(Unowned) <= faults.losses

\* One replica more, one loss more: the only step that adds to the overlap.
LEMMA CountsOneMore ==
    ASSUME NEW S, IsFiniteSet(S), NEW T, NEW r, T \subseteq S \cup {r},
           NEW n \in Nat, Cardinality(S) <= n
    PROVE  IsFiniteSet(T) /\ Cardinality(T) <= n + 1
  <1>0. Cardinality(S) \in Nat
    BY FS_CardinalityType
  <1>1. /\ IsFiniteSet(S \cup {r})
        /\ Cardinality(S \cup {r}) <= Cardinality(S) + 1
    <2>1. /\ IsFiniteSet(S \cup {r})
          /\ Cardinality(S \cup {r}) = Cardinality(S) \/ Cardinality(S \cup {r}) = Cardinality(S) + 1
      BY FS_AddElement, Zenon
    <2>. QED
      BY <1>0, <2>1
  <1>2. /\ IsFiniteSet(T) /\ Cardinality(T) <= Cardinality(S \cup {r})
        /\ Cardinality(T) \in Nat /\ Cardinality(S \cup {r}) \in Nat
    BY <1>1, FS_Subset, FS_CardinalityType
  <1>3. QED
    BY <1>0, <1>1, <1>2

\* Every other step keeps or shrinks it.
LEMMA CountsNoMore ==
    ASSUME NEW S, IsFiniteSet(S), NEW T, T \subseteq S, NEW n \in Nat, Cardinality(S) <= n
    PROVE  IsFiniteSet(T) /\ Cardinality(T) <= n
  <1>1. /\ IsFiniteSet(T) /\ Cardinality(T) <= Cardinality(S)
        /\ Cardinality(T) \in Nat /\ Cardinality(S) \in Nat
    BY FS_Subset, FS_CardinalityType
  <1>2. QED
    BY <1>1

\* Acquiring, losing and letting go of the lock, crashes and iterations keep the count.
LEMMA CountedOverlapStep ==
    ASSUME IInv, CountedOverlap, [Next]_vars
    PROVE  CountedOverlap'
  <1>0. /\ procs \in [Replica -> Process] /\ faults.losses \in Nat
        /\ worker \in [Replica -> {"standby", "reclaiming", "polling"}]
        /\ lock \in Replica \cup {NoReplica}
    BY DEF IInv, TypeOK, ExecTypeOK, Replica
  <1>00. faults \in [crashes: Nat, losses: Nat, writes: Nat]
    BY DEF IInv, TypeOK
  <1> USE DEF CountedOverlap
  \* It is enough that iterations stay with polling workers and nobody joins the overlap.
  <1>1. ASSUME \A r \in Replica : worker'[r] # "polling" => procs'[r].pc = "idle",
               Unowned' \subseteq Unowned, faults'.losses = faults.losses
        PROVE  CountedOverlap'
    BY <1>0, <1>1, CountsNoMore DEF At
  \* A working replica steps within its iteration: lock and workers stay.
  <1>2. ASSUME NEW r \in Replica, UNCHANGED <<lock, worker>>, faults'.losses = faults.losses,
               Others(r), worker[r] = "polling" \/ ~At(r, "idle") \/ procs'[r].pc = "idle"
        PROVE  CountedOverlap'
    <2>1. \A s \in Replica : worker'[s] # "polling" => procs'[s].pc = "idle"
      BY <1>0, <1>2 DEF Others, At, Replica
    <2>. QED
      BY <1>1, <1>2, <2>1 DEF Unowned
  <1>3. CASE Environment \/ UNCHANGED vars
    <2>1. UNCHANGED <<procs, lock, worker, faults>>
      BY <1>3 DEF Environment, CreateRun, CancelCheck, CancelWrite, TraceLands, TimePasses,
                  localVars, vars
    <2>. QED
      BY <1>1, <2>1 DEF At, Unowned
  <1>4. ASSUME NEW r \in Replica, Acquire(r) PROVE CountedOverlap'
    <2>1. /\ lock = NoReplica /\ lock' = r /\ worker[r] = "standby"
          /\ worker' = [worker EXCEPT ![r] = "reclaiming"] /\ UNCHANGED <<procs, faults>>
      BY <1>4 DEF Acquire, execVars
    <2>2. Unowned' \subseteq Unowned
      BY <1>0, <2>1, NoReplicaAssumption DEF Unowned
    <2>3. \A s \in Replica : worker'[s] # "polling" => procs'[s].pc = "idle"
      BY <1>0, <2>1 DEF At
    <2>. QED
      BY <1>1, <2>1, <2>2, <2>3
  <1>5. ASSUME NEW r \in Replica, LoseLock(r) PROVE CountedOverlap'
    <2>1. /\ lock = r /\ UNCHANGED <<procs, worker>>
          /\ faults'.losses = faults.losses + 1
      BY <1>00, <1>5 DEF LoseLock, execVars
    <2>2. Unowned' \subseteq Unowned \cup {r}
      BY <2>1 DEF Unowned
    <2>3. IsFiniteSet(Unowned') /\ Cardinality(Unowned') <= faults.losses + 1
      BY <1>0, <2>2, CountsOneMore
    <2>. QED
      BY <2>1, <2>3 DEF At
  <1>6. ASSUME NEW r \in Replica, NoticeLoss(r) \/ Crash(r) PROVE CountedOverlap'
    <2>1. /\ worker' = [worker EXCEPT ![r] = "standby"]
          /\ procs' = [procs EXCEPT ![r] = Idle]
          /\ faults'.losses = faults.losses
          /\ lock' = lock \/ (lock = r /\ lock' = NoReplica)
      BY <1>00, <1>6 DEF NoticeLoss, Crash
    <2>2. Unowned' \subseteq Unowned
      BY <1>0, <2>1 DEF Unowned
    <2>3. \A s \in Replica : worker'[s] # "polling" => procs'[s].pc = "idle"
      BY <1>0, <2>1 DEF At, Idle
    <2>. QED
      BY <1>1, <2>1, <2>2, <2>3
  <1>8. ASSUME NEW r \in Replica, ReclaimInterrupted(r) PROVE CountedOverlap'
    <2>1. /\ worker[r] = "reclaiming" /\ worker' = [worker EXCEPT ![r] = "polling"]
          /\ UNCHANGED <<procs, lock, faults>>
      BY <1>8 DEF ReclaimInterrupted
    <2>2. Unowned' \subseteq Unowned
      BY <1>0, <2>1 DEF Unowned
    <2>3. \A s \in Replica : worker'[s] # "polling" => procs'[s].pc = "idle"
      BY <1>0, <2>1 DEF At
    <2>. QED
      BY <1>1, <2>1, <2>2, <2>3
  <1>9. ASSUME NEW r \in Replica, (ExecStep(r) \/ Raise(r)) /\ UNCHANGED localVars
        PROVE  CountedOverlap'
    <2>1. ~At(r, "idle")
      BY <1>9 DEF ExecStep, Raise, Raising, RunTask, AssessReadiness, InvokeTarget, HydrateFirst,
                  ParkFirst, ActivateWatch, PublishPartial, Publish, StartDeferred, Hydrate,
                  PublishDeferred, RecordRescore, At
    <2>2. Working(r)
      BY <2>1 DEF IInv, TypeOK, Working, ExecutorsConsistent, Replica
    <2>3. Others(r)
      BY <1>9, <2>2, ExecStepKeeps DEF StepKeeps, Replica
    <2>. QED
      BY <1>2, <1>9, <2>1, <2>3 DEF localVars
  <1>10. ASSUME NEW r \in Replica,
                RereadJob(r) \/ Finish(r) \/ RestoreWatch(r) \/ HandlerFails(r) \/ Interrupt(r)
         PROVE  CountedOverlap'
    <2>1. Others(r) /\ ~At(r, "idle") /\ UNCHANGED <<lock, worker>>
      BY <1>0, <1>10 DEF RereadJob, Finish, RestoreWatch, HandlerFails, Interrupt, End, Become,
                         Others, At, localVars, Replica
    <2>2. faults'.losses = faults.losses
      BY <1>00, <1>10 DEF RereadJob, Finish, RestoreWatch, HandlerFails, Interrupt, localVars
    <2>. QED
      BY <1>2, <2>1, <2>2
  <1>11. ASSUME NEW r \in Replica, NEW j \in Job,
                ClaimNextPending(r, j) \/ PollDeferred(r, j) \/ PollCompletedWatch(r, j)
         PROVE  CountedOverlap'
    <2>1. worker[r] = "polling" /\ UNCHANGED <<lock, worker, faults>> /\ Others(r)
      BY <1>0, <1>11 DEF ClaimNextPending, PollDeferred, PollCompletedWatch, Begin, Others,
                         localVars, Replica
    <2>. QED
      BY <1>2, <2>1
  <1>12. QED
    BY <1>3, <1>4, <1>5, <1>6, <1>8, <1>9, <1>10, <1>11 DEF Next, ReplicaStep

\* However often the database ends an ownership transaction under a live worker,
\* no more workers run beside the owner than it did so; with no such loss the
\* previous executor is really gone when an owner recovers (run_worker_loop).
THEOREM OverlapsAreLostLocks == Safety => []EachOverlapIsALostLock
  <1>1. Init => CountedOverlap
    <2>1. ASSUME Init PROVE Unowned = {}
      BY <2>1 DEF Init, Unowned
    <2>. QED
      BY <2>1, FS_EmptySet DEF Init, CountedOverlap, At, Idle
  <1>2. IInv /\ CountedOverlap /\ [Next]_vars => CountedOverlap'
    BY CountedOverlapStep
  <1>3. CountedOverlap => EachOverlapIsALostLock
    BY DEF CountedOverlap, EachOverlapIsALostLock
  <1>4. QED
    BY <1>1, <1>2, <1>3, Invariance, PTL DEF Safety

-----------------------------------------------------------------------------
(* No job is orphaned *)

\* The strengthening of RunningHasExecutor that is inductive
Accounted ==
    /\ RunningHasExecutor
    /\ \A p \in Proc : /\ At(p, "idle") => JobOf(p) = NoJob
                       /\ ~At(p, "idle") => Attends(p)

\* While no lock is lost, a replica that works finds every other executor idle.
LEMMA OthersIdle ==
    ASSUME HolderWorks, NEW r \in Replica, worker[r] = "polling" \/ ~At(r, "idle")
    PROVE  /\ worker[r] = "polling" /\ lock = r
           /\ \A q \in Replica \ {r} : At(q, "idle") /\ worker[q] = "standby"
  BY DEF HolderWorks

\* With no lost lock and no failed handler write, no step orphans a running job.
LEMMA AccountedStep ==
    ASSUME MaxLockLosses = 0, MaxWriteFaults = 0, IInv, HolderWorks, Accounted, Next
    PROVE  Accounted'
  <1>0. /\ ExecTypeOK /\ ExecTypeOK' /\ ExecutorsConsistent /\ Replica = Proc
        /\ faults.losses \in Nat /\ faults.writes \in Nat
        /\ worker \in [Replica -> {"standby", "reclaiming", "polling"}]
    BY NextPreserves DEF IInv, TypeOK, StepPreserves, Replica
  \* The holder moves: a job that is marked running afterwards is in its hands.
  <1>1. ASSUME NEW r \in Proc, worker[r] = "polling", UNCHANGED worker, Others(r),
               \A j \in Job : jobs'[j].status = "running" => procs'[r].job = j,
               At(r, "idle")' => JobOf(r)' = NoJob,
               ~At(r, "idle")' => Attends(r)'
        PROVE  Accounted'
    <2>1. RunningHasExecutor'
      BY <1>0, <1>1 DEF RunningHasExecutor
    <2>2. ASSUME NEW q \in Proc \ {r} PROVE At(q, "idle")' /\ JobOf(q)' = NoJob
      BY <1>0, <1>1, <2>2, OthersIdle DEF Others, Accounted, At, JobOf
    <2>. QED
      BY <1>1, <2>1, <2>2 DEF Accounted
  \* While the holder is idle no job is marked running.
  <1>2. ASSUME NEW r \in Proc, worker[r] = "polling", NEW j \in Job, jobs[j].status = "running"
        PROVE  JobOf(r) = j /\ ~At(r, "idle")
    <2>1. PICK q \in Proc : procs[q].job = j
      BY <1>0, <1>2 DEF Accounted, RunningHasExecutor
    <2>2. ~At(q, "idle")
      BY <2>1, NoJobAssumption DEF Accounted, JobOf
    <2>3. q = r
      BY <1>0, <1>2, <2>2, OthersIdle
    <2>. QED
      BY <2>1, <2>2, <2>3 DEF JobOf
  <1>3. CASE Environment
    <2>1. PICK j \in Job : \/ \E kind \in Kinds : CreateRun(j, kind)
                           \/ CancelCheck(j) \/ CancelWrite(j) \/ TraceLands(j) \/ TimePasses(j)
      BY <1>3 DEF Environment
    <2>2. UNCHANGED <<procs, worker>>
      BY <1>3 DEF Environment, CreateRun, CancelCheck, CancelWrite, TraceLands, TimePasses,
                  localVars
    <2>3. ASSUME NEW i \in Job, jobs'[i].status = "running" PROVE jobs[i].status = "running"
      <3>1. CASE \E kind \in Kinds : CreateRun(j, kind)
        BY <1>0, <2>3, <3>1 DEF CreateRun, CreateRunJob, NoJobRow, ExecTypeOK
      <3>2. CASE CancelWrite(j)
        BY <1>0, <2>3, <3>2 DEF CancelWrite, CancelRunJob, SettleRunJob, ExecTypeOK, JobRow
      <3>3. CASE UNCHANGED jobs
        BY <2>3, <3>3
      <3>. QED
        BY <2>1, <3>1, <3>2, <3>3 DEF CancelCheck, TraceLands, TimePasses
    <2>4. RunningHasExecutor'
      BY <2>2, <2>3 DEF Accounted, RunningHasExecutor
    <2>5. ASSUME NEW q \in Proc, ~At(q, "idle")' PROVE Attends(q)'
      <3>1. JobOf(q) \in Job /\ Attends(q)
        BY <2>2, <2>5 DEF Accounted, At, IInv, ExecutorsConsistent, ExecutorAttendsJob
      <3>. QED
        BY <2>2, <2>3, <3>1 DEF Attends, JobOf
    <2>. QED
      BY <2>2, <2>4, <2>5 DEF Accounted, At, JobOf
  <1>4. ASSUME NEW r \in Proc, Acquire(r) PROVE Accounted'
    <2>1. UNCHANGED <<jobs, procs>>
      BY <1>4 DEF Acquire, execVars
    <2>2. \A q \in Replica : worker'[q] = "polling" => worker[q] = "polling"
      BY <1>0, <1>4 DEF Acquire
    <2>. QED
      BY <2>1, <2>2 DEF Accounted, RunningHasExecutor, Attends, At, JobOf
  <1>5. ASSUME NEW r \in Proc, LoseLock(r) \/ NoticeLoss(r) PROVE Accounted'
    BY <1>0, <1>5 DEF LoseLock, NoticeLoss, HolderWorks
  <1>6. ASSUME NEW r \in Proc, Crash(r) PROVE Accounted'
    <2>1. /\ procs' = [procs EXCEPT ![r] = Idle] /\ UNCHANGED jobs
          /\ worker' = [worker EXCEPT ![r] = "standby"]
      BY <1>6 DEF Crash
    <2>2. \A q \in Proc \ {r} : worker[q] = "standby" /\ At(q, "idle")
      BY <1>0, <1>6 DEF Crash, HolderWorks
    <2>3. ASSUME NEW q \in Proc PROVE worker'[q] = "standby" /\ At(q, "idle")' /\ JobOf(q)' = NoJob
      BY <1>0, <2>1, <2>2 DEF ExecTypeOK, Idle, At, JobOf, Accounted
    <2>. QED
      BY <1>0, <2>3 DEF Accounted, RunningHasExecutor
  <1>7. ASSUME NEW r \in Proc, ReclaimInterrupted(r) PROVE Accounted'
    <2>1. UNCHANGED procs /\ \A j \in Job : jobs'[j] = ReclaimRunJob(jobs[j])
      BY <1>7 DEF ReclaimInterrupted
    <2>2. ASSUME NEW j \in Job PROVE jobs'[j].status # "running"
      <3>1. jobs[j] \in JobRow
        BY <1>0 DEF ExecTypeOK
      <3>. QED
        BY <2>1, <3>1 DEF ReclaimRunJob, JobRow
    <2>3. \A q \in Proc : At(q, "idle")
      BY <1>0, <1>7 DEF ReclaimInterrupted, HolderWorks
    <2>. QED
      BY <2>1, <2>2, <2>3 DEF Accounted, RunningHasExecutor, At, JobOf
  <1>8. ASSUME NEW r \in Proc, (ExecStep(r) \/ Raise(r)) /\ UNCHANGED localVars
        PROVE  Accounted'
    <2>0. ~At(r, "idle")
      BY <1>8 DEF ExecStep, Raise, Raising, RunTask, AssessReadiness, InvokeTarget, HydrateFirst,
                  ParkFirst, ActivateWatch, PublishPartial, Publish, StartDeferred, Hydrate,
                  PublishDeferred, RecordRescore, At
    <2>1. Working(r) /\ Attends(r) /\ worker[r] = "polling"
      BY <1>0, <2>0, OthersIdle DEF Working, ExecutorsConsistent, Accounted
    <2>2. Others(r) /\ Frame(r) /\ Attends(r)' /\ ~At(r, "idle")'
      BY <1>8, <2>1, ExecStepKeeps, ExecStepFrame, ExecStepAttends DEF StepKeeps
    <2>3. ASSUME NEW j \in Job, jobs'[j].status = "running" PROVE procs'[r].job = j
      <3>1. jobs[j].status = "running"
        BY <2>2, <2>3 DEF Frame, RowMoves
      <3>. QED
        BY <1>2, <2>1, <2>2, <3>1 DEF Frame, JobOf
    <2>. QED
      BY <1>1, <1>8, <2>1, <2>2, <2>3 DEF localVars
  <1>9. ASSUME NEW r \in Proc, RereadJob(r) PROVE Accounted'
    <2>1. ~At(r, "idle") /\ UNCHANGED <<jobs, worker>>
      BY <1>9 DEF RereadJob, At, localVars
    <2>2. /\ Others(r) /\ procs'[r].pc \in {"deferred", "raised"}
          /\ procs'[r].job = procs[r].job /\ procs'[r].mode = procs[r].mode
      BY <1>0, <1>9 DEF RereadJob, ExecTypeOK, Become, Process, Others
    <2>3. Attends(r) /\ worker[r] = "polling"
      BY <1>0, <2>1, OthersIdle DEF Accounted
    <2>4. Attends(r)' /\ ~At(r, "idle")'
      BY <2>1, <2>2, <2>3 DEF Attends, At, JobOf
    <2>. QED
      BY <1>1, <1>2, <2>1, <2>2, <2>3, <2>4 DEF JobOf
  <1>10. ASSUME NEW r \in Proc, Finish(r) \/ RestoreWatch(r) \/ HandlerFails(r) \/ Interrupt(r)
         PROVE  Accounted'
    <2>0. /\ ~At(r, "idle") /\ procs' = [procs EXCEPT ![r] = Idle] /\ ~HandlerFails(r)
          /\ UNCHANGED worker
      BY <1>0, <1>10 DEF Finish, RestoreWatch, HandlerFails, Interrupt, End, At, localVars
    <2>1. /\ Attends(r) /\ worker[r] = "polling" /\ JobOf(r) \in Job
          /\ jobs[JobOf(r)] \in JobRow /\ procs[r] \in Process /\ procs[r].seen \in JobRow
      BY <1>0, <2>0, OthersIdle
         DEF Accounted, ExecutorsConsistent, ExecutorAttendsJob, ExecTypeOK, Process
    <2>2. Others(r) /\ procs'[r] = Idle
      BY <1>0, <2>0 DEF ExecTypeOK, Others
    <2>3. \A j \in Job \ {JobOf(r)} : jobs'[j] = jobs[j]
      BY <1>0, <1>10, <2>0, <2>1 DEF Finish, RestoreWatch, Interrupt, WriteJob, ExecTypeOK
    <2>4. ASSUME NEW status \in Terminal,
                 WriteJob(r, SettleRunJob(jobs[JobOf(r)], status))
          PROVE  jobs'[JobOf(r)].status # "running"
      BY <1>0, <2>1, <2>4 DEF WriteJob, SettleRunJob, ExecTypeOK, JobRow, Active, Terminal
    <2>5. ASSUME UNCHANGED jobs, jobs[JobOf(r)].status # "running"
          PROVE  jobs'[JobOf(r)].status # "running"
      BY <2>5
    <2>6. ASSUME Finish(r) PROVE jobs'[JobOf(r)].status # "running"
      <3>1. CASE WriteJob(r, CompleteRunJob(jobs[JobOf(r)]))
        BY <2>4, <3>1 DEF CompleteRunJob, Terminal
      <3>2. CASE WriteJob(r, BlockRunJob(jobs[JobOf(r)]))
        BY <2>4, <3>2 DEF BlockRunJob, Terminal
      <3>3. CASE WriteJob(r, FailRunJob(jobs[JobOf(r)]))
        BY <2>4, <3>3 DEF FailRunJob, Terminal
      <3>4. CASE UNCHANGED jobs /\ (At(r, "parked") \/ At(r, "stopped") \/ procs[r].mode = "watch")
        BY <2>1, <2>5, <3>4 DEF Attends, At
      <3>. QED
        BY <2>6, <3>1, <3>2, <3>3, <3>4 DEF Finish
    <2>7. ASSUME RestoreWatch(r) PROVE jobs'[JobOf(r)].status # "running"
      <3>1. jobs[JobOf(r)].status # "running"
        BY <2>1, <2>7 DEF RestoreWatch, Attends
      <3>2. procs[r].seen.snapshot \in Snapshot
        BY <2>1 DEF JobRow
      <3> DEFINE row == UpdateTelemetryWatch(jobs[JobOf(r)], jobs[JobOf(r)], procs[r].seen.snapshot)
      <3>3. row \in JobRow /\ row.status = jobs[JobOf(r)].status
        BY <2>1, <3>2, WatchRow
      <3>4. WriteJob(r, row)
        BY <2>7 DEF RestoreWatch
      <3> HIDE DEF row
      <3>. QED
        BY <1>0, <2>1, <3>1, <3>3, <3>4, RowWritten
    <2>8. ASSUME Interrupt(r) PROVE jobs'[JobOf(r)].status # "running"
      BY <2>5, <2>8 DEF Interrupt
    <2>9. ASSUME NEW j \in Job, jobs'[j].status = "running" PROVE FALSE
      <3>1. jobs'[JobOf(r)].status # "running"
        BY <1>10, <2>0, <2>6, <2>7, <2>8
      <3>2. j # JobOf(r) /\ jobs[j].status = "running"
        BY <2>3, <2>9, <3>1
      <3>. QED
        BY <1>2, <2>1, <3>2
    <2>10. At(r, "idle")' /\ JobOf(r)' = NoJob
      BY <2>2 DEF Idle, At, JobOf
    <2>. QED
      BY <1>1, <2>0, <2>1, <2>2, <2>9, <2>10
  <1>11. ASSUME NEW r \in Proc, NEW j \in Job,
                ClaimNextPending(r, j) \/ PollDeferred(r, j) \/ PollCompletedWatch(r, j)
         PROVE  Accounted'
    <2>0. worker[r] = "polling" /\ UNCHANGED worker
      BY <1>11 DEF ClaimNextPending, PollDeferred, PollCompletedWatch, localVars
    <2>1. \A i \in Job : jobs[i].status # "running"
      <3> SUFFICES ASSUME NEW i \in Job, jobs[i].status = "running" PROVE FALSE
        OBVIOUS
      <3>1. JobOf(r) = i /\ ~At(r, "idle")
        BY <1>2, <2>0
      <3>. QED
        BY <1>11, <3>1 DEF ClaimNextPending, PollDeferred, PollCompletedWatch, Accounted,
                           Attends, At
    <2>2. ASSUME NEW label \in Label \ {"idle", "publish_partial", "parked", "stopped"},
                 NEW mode \in Mode, Begin(r, label, mode, j),
                 \A i \in Job \ {j} : jobs'[i] = jobs[i],
                 jobs'[j].status = "running" => mode = "job"
          PROVE  Accounted'
      <3>1. /\ Others(r) /\ procs'[r].pc = label /\ procs'[r].mode = mode /\ procs'[r].job = j
        <4> DEFINE me == [Idle EXCEPT !.pc = label, !.mode = mode, !.job = j, !.seen = jobs[j]]
        <4>1. me.mode = mode
          BY EmptyRows DEF Process
        <4>2. procs' = [procs EXCEPT ![r] = me]
          BY <2>2 DEF Begin
        <4> HIDE DEF me
        <4>3. procs'[r].mode = mode
          BY <1>0, <4>1, <4>2 DEF ExecTypeOK
        <4>. QED
          BY <1>0, <2>2, <4>3, BeginTyped
      <3>2. Attends(r)' /\ ~At(r, "idle")'
        BY <2>2, <3>1 DEF Attends, At, JobOf
      <3>. QED
        BY <1>1, <2>0, <2>1, <2>2, <3>1, <3>2
    <2>3. CASE ClaimNextPending(r, j)
      <3> DEFINE label == EntryPoint(jobs[j].kind)
      <3>1. label \in Label \ {"idle", "publish_partial", "parked", "stopped"} /\ "job" \in Mode
        BY DEF EntryPoint, Label, Mode
      <3>2. Begin(r, label, "job", j) /\ \A i \in Job \ {j} : jobs'[i] = jobs[i]
        BY <1>0, <2>3 DEF ClaimNextPending, ExecTypeOK
      <3> HIDE DEF label
      <3>. QED
        BY <2>2, <3>1, <3>2
    <2>4. CASE PollDeferred(r, j)
      <3>1. CASE UNCHANGED procs
        <4>1. \A i \in Job : jobs'[i].status # "running"
          BY <1>0, <2>1, <2>4, <3>1, SMTT(30)
             DEF PollDeferred, CompleteRunJob, SettleRunJob, ExecTypeOK, JobRow
        <4>. QED
          BY <1>0, <2>0, <3>1, <4>1
             DEF Accounted, RunningHasExecutor, Attends, At, JobOf, ExecutorsConsistent,
                 ExecutorAttendsJob
      <3>2. CASE Begin(r, "reread", "deferred", j) /\ UNCHANGED jobs
        BY <2>1, <2>2, <3>2 DEF Label, Mode
      <3>. QED
        BY <2>4, <3>1, <3>2 DEF PollDeferred
    <2>5. CASE PollCompletedWatch(r, j)
      BY <2>1, <2>2, <2>5 DEF PollCompletedWatch, Label, Mode
    <2>. QED
      BY <1>11, <2>3, <2>4, <2>5
  <1>12. QED
    BY <1>3, <1>4, <1>5, <1>6, <1>7, <1>8, <1>9, <1>10, <1>11 DEF Next, ReplicaStep, Replica

\* When neither the lock nor a write of an exception handler is lost, no crash at any
\* point orphans a job that is marked running: an executor holds it, or the next owner
\* has its recovery pass to make.
THEOREM RunningStaysAttended ==
    Safety => [](MaxLockLosses = 0 /\ MaxWriteFaults = 0 => RunningHasExecutor)
  <1> DEFINE Reliable == MaxLockLosses = 0 /\ MaxWriteFaults = 0
  <1>1. Init => (Reliable => Accounted)
    <2> SUFFICES ASSUME Init PROVE Accounted
      OBVIOUS
    <2>1. \A p \in Proc : procs[p] = Idle
      BY DEF Init, Replica
    <2>2. \A j \in Job : jobs[j].status # "running"
      BY DEF Init, ExecInit, NoJobRow
    <2>. QED
      BY <2>1, <2>2 DEF Accounted, RunningHasExecutor, Idle, At, JobOf
  <1>2. IInv /\ (MaxLockLosses = 0 => HolderWorks) /\ (Reliable => Accounted) /\ [Next]_vars
          => (Reliable => Accounted)'
    <2> SUFFICES ASSUME IInv, HolderWorks, MaxLockLosses = 0, MaxWriteFaults = 0, Accounted,
                        [Next]_vars
                 PROVE  Accounted'
      OBVIOUS
    <2>1. CASE Next
      BY <2>1, AccountedStep
    <2>2. CASE UNCHANGED vars
      BY <2>2 DEF vars, Accounted, RunningHasExecutor, Attends, At, JobOf
    <2>. QED
      BY <2>1, <2>2
  <1>3. (Reliable => Accounted) => (MaxLockLosses = 0 /\ MaxWriteFaults = 0 => RunningHasExecutor)
    BY DEF Accounted
  <1> HIDE DEF Reliable
  <1>4. QED
    BY <1>1, <1>2, <1>3, Invariance, HolderWorksAlways, PTL DEF Safety

-----------------------------------------------------------------------------
(* Late telemetry, as long as no lock is lost under a live worker: a published *)
(* score is never replaced by one of older evidence, and a watch that is not   *)
(* marked stale vouches for a score at least as recent as its snapshot.  The   *)
(* invariant relates the job row, the published result and the archive (Sound) *)
(* and, for the replica that works, what it read a transaction or more ago     *)
(* (Knows).                                                                    *)

(* What the tables and the executors say of late evidence *)

\* What the tables say of a job's evidence: a score and a snapshot are of revisions
\* that the archive has had, only a complete result scores one, and a watch that is
\* not marked stale vouches for a score at least as recent.
SoundRow(row, result, revision) ==
    /\ result.version <= revision /\ row.snapshot.version <= revision
    /\ result.status # "complete" => result.version = 0
    /\ row.status \in {"absent", "pending"} => result.status = "none" /\ ~row.snapshot.watch
    /\ row.status = "completed" /\ row.kind \in Publishes => result.status # "none"
    /\ row.snapshot.watch /\ ~row.snapshot.stale /\ result.status = "complete"
         => result.version >= row.snapshot.version

\* A first run has published nothing, and watches nothing until it has the rows.
KnowsFirstRun(me, row, result) ==
    /\ me.pc \in {"readiness", "invoke", "hydrate_first", "park", "watch"}
         => result.status = "none" /\ ~row.snapshot.watch
    /\ me.pc = "publish" /\ row.snapshot.watch => row.snapshot.version <= me.rows.version

\* What a recheck has read is still so when it acts on it.
KnowsWhatItRead(me, row, result) ==
    /\ me.pc \in {"deferred", "hydrate"} => me.seen.snapshot = row.snapshot
    /\ me.pc = "hydrate" => me.run = result.status

\* While a recheck scores, the watch does not vouch for the rows it has yet to publish.
KnowsRescore(me, row, result) ==
    /\ me.pc = "publish_deferred" /\ me.seen.snapshot.watch =>
         /\ row.snapshot.stale
         /\ me.run # "none" => me.rows.version >= result.version
         /\ me.mode = "watch" => me.rows.version >= me.seen.snapshot.version
    /\ me.pc = "publish_deferred" /\ ~me.seen.snapshot.watch /\ row.snapshot.watch =>
         result.status # "complete" /\ row.snapshot.version <= me.rows.version
    /\ me.pc = "record" => result.version >= me.rows.version

\* A failed recheck may put back the snapshot it was listed with.
KnowsHowToRestore(me, result, revision) ==
    me.mode = "watch" =>
      /\ result.status # "none" /\ me.seen.snapshot.version <= revision
      /\ me.seen.snapshot.watch /\ ~me.seen.snapshot.stale /\ result.status = "complete"
           => result.version >= me.seen.snapshot.version

KnowsRow(me, row, result, revision) ==
    /\ row.status \notin {"absent", "pending"}
    /\ me.rows.version <= revision
    /\ KnowsFirstRun(me, row, result) /\ KnowsWhatItRead(me, row, result)
    /\ KnowsRescore(me, row, result) /\ KnowsHowToRestore(me, result, revision)

Sound(j) == SoundRow(jobs[j], results[j], trace[j])
Knows(p) == KnowsRow(procs[p], jobs[JobOf(p)], results[JobOf(p)], trace[JobOf(p)])

\* No step of a job's life completes an evaluation without its result.
LEMMA CompletionHasResult ==
    ASSUME NEW j \in Job, Lifecycle!LifeStep(j),
           jobs[j].status = "completed" /\ jobs[j].kind \in Publishes => results[j].status # "none"
    PROVE  jobs'[j].status = "completed" /\ jobs'[j].kind \in Publishes
             => results'[j].status # "none"
  BY DEF Lifecycle!LifeStep, Lifecycle!Create, Lifecycle!Proceed,
         Lifecycle!PublishPart, Lifecycle!PublishWhole, Lifecycle!Settle, Lifecycle!Keep,
         Lifecycle!Open, Lifecycle!Settled

\* The life of the job goes on under a step of its executor: it stays created and
\* out of the queue, and it completes only with a result.
LEMMA ExecStepLives ==
    ASSUME NEW p \in Proc, Working(p), ExecStep(p) \/ Raise(p),
           jobs[JobOf(p)].status \notin {"absent", "pending"},
           SoundRow(jobs[JobOf(p)], results[JobOf(p)], trace[JobOf(p)])
    PROVE  /\ jobs'[JobOf(p)].status \notin {"absent", "pending"}
           /\ jobs'[JobOf(p)].status = "completed" /\ jobs'[JobOf(p)].kind \in Publishes
                => results'[JobOf(p)].status # "none"
  <1>1. JobOf(p) \in Job
    BY DEF Working, ExecutorAttendsJob
  <1>2. StepKeeps(p)
    BY ExecStepKeeps
  <1>3. \A j \in Job : Lifecycle!LifeStep(j)
    BY <1>2 DEF StepKeeps
  <1>4. jobs[JobOf(p)].status = "completed" /\ jobs[JobOf(p)].kind \in Publishes
          => results[JobOf(p)].status # "none"
    BY DEF SoundRow
  <1>5. \A j \in Job : ~Untried(j) => ~Untried(j)'
    BY <1>3, TriedOnce
  <1>6. jobs'[JobOf(p)].status \notin {"absent", "pending"}
    BY <1>1, <1>5 DEF Untried
  <1>7. \A j \in Job :
          (jobs[j].status = "completed" /\ jobs[j].kind \in Publishes => results[j].status # "none")
            => (jobs'[j].status = "completed" /\ jobs'[j].kind \in Publishes
                  => results'[j].status # "none")
    BY <1>3, CompletionHasResult
  <1>. QED
    BY <1>1, <1>4, <1>6, <1>7

\* Every step of an executor that works alone keeps the books on the evidence, and
\* does not replace a score by an older one.
LEMMA ExecStepSound ==
    ASSUME NEW p \in Proc, Working(p), ExecStep(p) \/ Raise(p), Sound(JobOf(p)), Knows(p)
    PROVE  /\ Sound(JobOf(p))' /\ Knows(p)'
           /\ results'[JobOf(p)].version >= results[JobOf(p)].version
  <1> DEFINE j == JobOf(p)
             me == procs[p]
             row == jobs[j]
             res == results[j]
             t == trace[j]
             me2 == procs'[p]
             row2 == jobs'[j]
             res2 == results'[j]
             Kept == /\ SoundRow(row2, res2, t) /\ KnowsRow(me2, row2, res2, t)
                     /\ res2.version >= res.version
  <1>0. /\ ExecTypeOK /\ ExecTypeOK' /\ j \in Job
    BY ExecStepKeeps DEF Working, ExecutorAttendsJob, StepKeeps
  <1>1. /\ me \in Process /\ me2 \in Process /\ row \in JobRow /\ row2 \in JobRow
        /\ res \in Result /\ res2 \in Result /\ t \in Nat
        /\ me.seen \in JobRow /\ me.rows \in Rows /\ me2.rows \in Rows
        /\ me.seen.snapshot \in Snapshot
        /\ row.snapshot \in Snapshot /\ row2.snapshot \in Snapshot
    BY <1>0 DEF ExecTypeOK, Process, JobRow
  <1>2. /\ t = trace'[j] /\ me2.job = me.job /\ me2.mode = me.mode /\ me2.seen = me.seen
        /\ row2.status \notin {"absent", "pending"}
        /\ row2.kind = row.kind
        /\ row2.status = "completed" /\ row2.kind \in Publishes => res2.status # "none"
    <2>1. t = trace'[j] /\ me2.job = me.job /\ me2.mode = me.mode /\ me2.seen = me.seen
          /\ row2.kind = row.kind
      BY ExecStepFrame DEF Frame, RowMoves
    <2>2. /\ row2.status \notin {"absent", "pending"}
          /\ row2.status = "completed" /\ row2.kind \in Publishes => res2.status # "none"
      BY ExecStepLives DEF Knows, KnowsRow, Sound
    <2>. QED
      BY <2>1, <2>2
  <1>3. SoundRow(row, res, t) /\ KnowsRow(me, row, res, t)
    BY DEF Sound, Knows
  <1>4. SUFFICES Kept
    BY <1>2 DEF Sound, Knows, JobOf
  <1>5. ASSUME NEW label, Become(p, label)
        PROVE  me2.pc = label /\ me2.rows = me.rows /\ me2.run = me.run
    BY <1>0, <1>5 DEF Become, ExecTypeOK, Process
  <1>6. ASSUME NEW new, WriteJob(p, new) PROVE row2 = new
    BY <1>0, <1>6 DEF WriteJob, ExecTypeOK
  <1> HIDE DEF j, me, row, res, t, me2, row2, res2
  <1>7. CASE RunTask(p) \/ Raise(p) \/ AssessReadiness(p) \/ InvokeTarget(p)
    <2>1. row2 = row /\ res2 = res
      BY <1>7 DEF RunTask, Raise, AssessReadiness, InvokeTarget, row, row2, res, res2
    <2>2. me2.rows = me.rows /\ me2.run = me.run
      BY <1>5, <1>7 DEF RunTask, Raise, AssessReadiness, InvokeTarget
    <2>3. \/ me2.pc \in {"returned", "raised", "blocked"}
          \/ /\ me.pc \in {"readiness", "invoke"}
             /\ me2.pc \in {"invoke", "hydrate_first", "publish"}
      BY <1>5, <1>7 DEF RunTask, Raise, AssessReadiness, InvokeTarget, At, me
    <2>. QED
      BY <1>1, <1>2, <1>3, <2>1, <2>2, <2>3
         DEF SoundRow, KnowsRow, KnowsFirstRun, KnowsWhatItRead, KnowsRescore, KnowsHowToRestore,
             Result
  <1>8. CASE HydrateFirst(p)
    <2>1. PICK rows \in HydratedRows(j, {AwaitingRows, CaptureRows}) :
            procs' = [procs EXCEPT ![p].rows = rows, ![p].pc =
                        IF rows.awaiting THEN "park"
                        ELSE IF rows.version > 0 THEN "watch" ELSE "publish"]
      BY <1>8 DEF HydrateFirst, j
    <2>2. rows.version <= t
      BY <1>1, <2>1 DEF HydratedRows, AwaitingRows, CaptureRows, t
    <2>3. me2.pc \in {"park", "watch", "publish"} /\ me2.rows = rows /\ me2.run = me.run
      BY <1>0, <2>1 DEF ExecTypeOK, Process, me, me2
    <2>4. row2 = row /\ res2 = res /\ me.pc = "hydrate_first"
      BY <1>8 DEF HydrateFirst, row, row2, res, res2, me, At
    <2>. QED
      BY <1>1, <1>2, <1>3, <2>2, <2>3, <2>4
         DEF SoundRow, KnowsRow, KnowsFirstRun, KnowsWhatItRead, KnowsRescore, KnowsHowToRestore,
             Result
  <1>9. CASE ParkFirst(p)
    <2>1. me.pc = "park" /\ me2.pc = "publish_partial" /\ me2.rows = me.rows /\ res2 = res
      BY <1>5, <1>9 DEF ParkFirst, At, me, res, res2
    <2>2. row2 = ParkRunJob(row, row, [NoSnapshot EXCEPT !.held = TRUE])
      BY <1>6, <1>9 DEF ParkFirst, row, j
    <2>3. row2.snapshot = row.snapshot \/ (~row2.snapshot.watch /\ row2.snapshot.version = 0)
      BY <1>1, <2>2 DEF ParkRunJob, NoSnapshot, JobRow
    <2>. QED
      BY <1>1, <1>2, <1>3, <2>1, <2>3
         DEF SoundRow, KnowsRow, KnowsFirstRun, KnowsWhatItRead, KnowsRescore, KnowsHowToRestore,
             Result
  <1>10. CASE ActivateWatch(p)
    <2>1. me.pc = "watch" /\ me2.pc = "publish" /\ me2.rows = me.rows /\ res2 = res
      BY <1>5, <1>10 DEF ActivateWatch, At, me, res, res2
    <2> DEFINE snapshot == [held |-> TRUE, watch |-> TRUE, stale |-> FALSE,
                            version |-> me.rows.version]
    <2>2. row2 = UpdateTelemetryWatch(row, row, snapshot)
      BY <1>6, <1>10 DEF ActivateWatch, row, j, me
    <2>3. row2.snapshot.version = me.rows.version
      BY <1>1, <2>2 DEF UpdateTelemetryWatch, JobRow
    <2>. QED
      BY <1>1, <1>2, <1>3, <2>1, <2>3
         DEF SoundRow, KnowsRow, KnowsFirstRun, KnowsWhatItRead, KnowsRescore, KnowsHowToRestore,
             Result, Rows
  <1>11. ASSUME NEW result \in Result, NEW replace, NEW refresh, NEW finalize, NEW next,
                SaveRun(p, result, replace, refresh, finalize, next)
         PROVE  /\ row2.snapshot = row.snapshot /\ me2.rows = me.rows /\ me2.run = me.run
                /\ \/ res2 = res /\ me2.pc \in {"stopped", "raised"}
                   \/ /\ res2 = result /\ me2.pc = next
                      /\ Replaceable(res, replace, refresh)
    <2>1. CASE /\ SaveCommits(jobs[j], results[j], replace, refresh, finalize)
               /\ results' = [results EXCEPT ![j] = result]
               /\ jobs' = [jobs EXCEPT ![j] = FinalizeRow(@, finalize)]
               /\ Become(p, next)
      <3>1. row2 = FinalizeRow(row, finalize) /\ res2 = result
        BY <1>0, <2>1 DEF ExecTypeOK, row, row2, res2
      <3>2. row2.snapshot = row.snapshot
        BY <1>1, <3>1 DEF FinalizeRow, JobRow
      <3>. QED
        BY <1>5, <2>1, <3>1, <3>2 DEF SaveCommits, res
    <2>2. CASE UNCHANGED <<jobs, results>> /\ (Become(p, "stopped") \/ Become(p, "raised"))
      BY <1>5, <2>2 DEF row, row2, res, res2
    <2>. QED
      BY <1>11, <2>1, <2>2 DEF SaveRun, j
  <1>12. CASE PublishPartial(p)
    <2>1. [status |-> "partial", version |-> 0] \in Result
      BY DEF Result, ResultStatus
    <2>2. /\ row2.snapshot = row.snapshot /\ me2.rows = me.rows
          /\ \/ res2 = res /\ me2.pc \in {"stopped", "raised"}
             \/ /\ res2 = [status |-> "partial", version |-> 0]
                /\ me2.pc = "parked" /\ res.status = "none"
      BY <1>11, <1>12, <2>1 DEF PublishPartial, Replaceable
    <2>. QED
      BY <1>1, <1>2, <1>3, <2>2
         DEF SoundRow, KnowsRow, KnowsFirstRun, KnowsWhatItRead, KnowsRescore, KnowsHowToRestore,
             Result
  <1>13. [status |-> "complete", version |-> me.rows.version] \in Result
    BY <1>1 DEF Result, ResultStatus, Rows
  <1>14. CASE Publish(p)
    <2>1. /\ row2.snapshot = row.snapshot /\ me2.rows = me.rows /\ me.pc = "publish"
          /\ \/ res2 = res /\ me2.pc \in {"stopped", "raised"}
             \/ /\ res2 = [status |-> "complete", version |-> me.rows.version]
                /\ me2.pc = "returned" /\ res.status = "none"
      BY <1>11, <1>13, <1>14 DEF Publish, Replaceable, At, me
    <2>. QED
      BY <1>1, <1>2, <1>3, <2>1
         DEF SoundRow, KnowsRow, KnowsFirstRun, KnowsWhatItRead, KnowsRescore, KnowsHowToRestore,
             Result
  <1>15. CASE PublishDeferred(p)
    <2> DEFINE watching == me.seen.snapshot.watch
    <2>1. /\ row2.snapshot = row.snapshot /\ me2.rows = me.rows /\ me2.run = me.run
          /\ me.pc = "publish_deferred"
          /\ \/ res2 = res /\ me2.pc \in {"stopped", "raised"}
             \/ /\ res2 = [status |-> "complete", version |-> me.rows.version]
                /\ me2.pc = IF watching THEN "record" ELSE "returned"
                /\ Replaceable(res, me.run # "none", me.run # "none" /\ watching)
      BY <1>11, <1>13, <1>15 DEF PublishDeferred, At, me, Published, Watching
    <2>. QED
      BY <1>1, <1>2, <1>3, <2>1
         DEF SoundRow, KnowsRow, KnowsFirstRun, KnowsWhatItRead, KnowsRescore, KnowsHowToRestore,
             Result, Replaceable
  <1>16. CASE RecordRescore(p)
    <2>1. me.pc = "record" /\ me2.pc = "returned" /\ me2.rows = me.rows /\ res2 = res
      BY <1>5, <1>16 DEF RecordRescore, At, me, res, res2
    <2> DEFINE snapshot == [me.seen.snapshot EXCEPT !.stale = FALSE, !.version = me.rows.version]
    <2>2. row2 = UpdateTelemetryWatch(row, me.seen, snapshot)
      BY <1>6, <1>16 DEF RecordRescore, row, j, me
    <2>3. row2.snapshot.version = me.rows.version
      BY <1>1, <2>2 DEF UpdateTelemetryWatch, JobRow, Snapshot
    <2>. QED
      BY <1>1, <1>2, <1>3, <2>1, <2>3
         DEF SoundRow, KnowsRow, KnowsFirstRun, KnowsWhatItRead, KnowsRescore, KnowsHowToRestore,
             Result
  <1>17. CASE StartDeferred(p)
    <2>1. res2 = res /\ me2.rows = me.rows /\ me.pc = "deferred"
      BY <1>0, <1>5, <1>17 DEF StartDeferred, ExecTypeOK, Process, res, res2, me, me2, At
    <2>2. \/ row2 = row /\ me2.pc = "returned"
          \/ row2 = DisableTelemetryWatch(row, me.seen) /\ me2.pc = "returned"
          \/ row2 = row /\ me2.pc = "hydrate" /\ me2.run = res.status
      BY <1>0, <1>5, <1>6, <1>17 DEF StartDeferred, ExecTypeOK, Process, res, me, me2, row, row2, j
    <2>3. \/ row2.snapshot = row.snapshot
          \/ row2.snapshot.version = me.seen.snapshot.version /\ ~row2.snapshot.watch
      <3> DEFINE snapshot == [me.seen.snapshot EXCEPT !.held = TRUE, !.watch = FALSE]
      <3>1. snapshot.version = me.seen.snapshot.version /\ ~snapshot.watch
        BY <1>1 DEF Snapshot
      <3>2. UpdateTelemetryWatch(row, me.seen, snapshot).snapshot = snapshot
        BY <1>1 DEF UpdateTelemetryWatch, JobRow
      <3>3. DisableTelemetryWatch(row, me.seen) = UpdateTelemetryWatch(row, me.seen, snapshot)
        BY DEF DisableTelemetryWatch
      <3> HIDE DEF snapshot
      <3>. QED
        BY <2>2, <3>1, <3>2, <3>3
    <2>. QED
      BY <1>1, <1>2, <1>3, <2>1, <2>2, <2>3
         DEF SoundRow, KnowsRow, KnowsFirstRun, KnowsWhatItRead, KnowsRescore, KnowsHowToRestore,
             Result
  <1>18. CASE Hydrate(p)
    <2>1. PICK rows \in HydratedRows(j, IncompleteRows(p)) :
          \/ KeepWatch(p, rows)      \/ ParkAgain(p, rows)  \/ GiveUp(p, rows)
          \/ SkipUnchanged(p, rows)  \/ MarkStale(p, rows)
          \/ ActivateLateWatch(p, rows) \/ ScoreOnce(p, rows)
      BY <1>18 DEF Hydrate, j
    <2>2. /\ rows \in Rows /\ rows.version <= t
          /\ me.run # "none" /\ ~rows.awaiting => rows.version = t
      <3>1. rows \in IncompleteRows(p) \/ rows = [awaiting |-> FALSE, version |-> t]
        BY <2>1 DEF HydratedRows, t
      <3>2. ASSUME rows \in IncompleteRows(p)
            PROVE  rows \in Rows /\ rows.version = 0 /\ (me.run # "none" => rows.awaiting)
        <4>1. rows = AwaitingRows \/ (rows = CaptureRows /\ me.run = "none")
          BY <3>2 DEF IncompleteRows, Published, me
        <4>2. /\ AwaitingRows \in Rows /\ AwaitingRows.version = 0 /\ AwaitingRows.awaiting
              /\ CaptureRows \in Rows /\ CaptureRows.version = 0
          BY DEF AwaitingRows, CaptureRows, Rows
        <4>. QED
          BY <4>1, <4>2
      <3>3. ASSUME rows = [awaiting |-> FALSE, version |-> t]
            PROVE  rows \in Rows /\ rows.version = t
        BY <1>1, <3>3 DEF Rows
      <3>. QED
        BY <1>1, <3>1, <3>2, <3>3
    <2>3. res2 = res /\ me.pc = "hydrate" /\ me.seen.snapshot = row.snapshot /\ me.run = res.status
      BY <1>3, <1>18 DEF Hydrate, res, res2, At, me, KnowsRow, KnowsWhatItRead
    <2>4. ASSUME Rescoring(p, rows)
          PROVE  me2.pc = "publish_deferred" /\ me2.rows = rows /\ me2.run = me.run
      BY <1>0, <2>4 DEF Rescoring, ExecTypeOK, Process, me, me2
    <2>5. ASSUME NEW seen \in JobRow, NEW snapshot \in Snapshot,
                 WriteJob(p, UpdateTelemetryWatch(row, seen, snapshot))
          PROVE  row2.snapshot = snapshot
      BY <1>1, <1>6, <2>5 DEF UpdateTelemetryWatch, JobRow
    <2>6. me.seen.snapshot.version <= t
      BY <1>3, <2>3 DEF SoundRow
    <2>7. ASSUME me2.pc \in {"returned", "parked"}, me2.rows = me.rows,
                 \/ row2.snapshot = row.snapshot
                 \/ row2.snapshot.version <= t /\ ~row2.snapshot.watch
                 \/ row2.snapshot.version = 0
          PROVE  Kept
      BY <1>1, <1>2, <1>3, <2>3, <2>7
         DEF SoundRow, KnowsRow, KnowsFirstRun, KnowsWhatItRead, KnowsRescore, KnowsHowToRestore,
             Result, Snapshot, Rows
    <2>8. CASE KeepWatch(p, rows) \/ SkipUnchanged(p, rows)
      <3>1. /\ WriteJob(p, UpdateTelemetryWatch(row, me.seen, me.seen.snapshot))
            /\ me2.pc = "returned" /\ me2.rows = me.rows
        BY <1>5, <2>8 DEF KeepWatch, SkipUnchanged, row, j, me
      <3>. QED
        BY <1>1, <2>3, <2>5, <2>7, <3>1
    <2>9. CASE ParkAgain(p, rows)
      <3> DEFINE snapshot == [me.seen.snapshot EXCEPT !.version = 0]
      <3>1. /\ row2 = ParkRunJob(row, me.seen, snapshot)
            /\ me2.pc = "parked" /\ me2.rows = me.rows
        BY <1>5, <1>6, <2>9 DEF ParkAgain, row, j, me
      <3>2. snapshot.version = 0
        BY <1>1 DEF Snapshot
      <3>3. row2.snapshot = row.snapshot \/ row2.snapshot = snapshot
        BY <1>1, <3>1 DEF ParkRunJob, JobRow
      <3> HIDE DEF snapshot
      <3>. QED
        BY <2>7, <3>1, <3>2, <3>3
    <2>10. CASE GiveUp(p, rows)
      <3> DEFINE snapshot == [me.seen.snapshot EXCEPT !.held = TRUE, !.watch = FALSE]
      <3>1. snapshot.version = me.seen.snapshot.version /\ ~snapshot.watch /\ snapshot \in Snapshot
        BY <1>1 DEF Snapshot
      <3>2. /\ WriteJob(p, UpdateTelemetryWatch(row, me.seen, snapshot))
            /\ me2.pc = "returned" /\ me2.rows = me.rows
        BY <1>5, <2>10 DEF GiveUp, DisableTelemetryWatch, row, j, me
      <3> HIDE DEF snapshot
      <3>. QED
        BY <1>1, <2>5, <2>6, <2>7, <3>1, <3>2
    <2>11. CASE MarkStale(p, rows)
      <3> DEFINE snapshot == [me.seen.snapshot EXCEPT !.stale = TRUE, !.version = rows.version]
      <3>1. snapshot \in Snapshot /\ snapshot.stale /\ snapshot.version = rows.version
        BY <1>1, <2>2 DEF Snapshot, Rows
      <3>2. /\ WriteJob(p, UpdateTelemetryWatch(row, me.seen, snapshot))
            /\ me2.pc = "publish_deferred" /\ me2.rows = rows /\ me2.run = me.run
            /\ me.seen.snapshot.watch /\ ~rows.awaiting
        BY <2>4, <2>11 DEF MarkStale, Watching, row, j, me
      <3> HIDE DEF snapshot
      <3>3. row2.snapshot = snapshot
        BY <1>1, <2>5, <3>1, <3>2
      <3>. QED
        BY <1>1, <1>2, <1>3, <2>2, <2>3, <2>6, <3>1, <3>2, <3>3
           DEF SoundRow, KnowsRow, KnowsFirstRun, KnowsWhatItRead, KnowsRescore, KnowsHowToRestore,
               Result, Snapshot, Rows
    <2>12. CASE ActivateLateWatch(p, rows)
      <3> DEFINE snapshot == [me.seen.snapshot EXCEPT !.watch = TRUE, !.version = rows.version]
      <3>1. snapshot \in Snapshot /\ snapshot.watch /\ snapshot.version = rows.version
        BY <1>1, <2>2 DEF Snapshot, Rows
      <3>2. /\ WriteJob(p, UpdateTelemetryWatch(row, me.seen, snapshot))
            /\ me2.pc = "publish_deferred" /\ me2.rows = rows /\ me2.run = me.run
            /\ ~me.seen.snapshot.watch /\ me.run = "partial"
        BY <2>4, <2>12 DEF ActivateLateWatch, Watching, row, j, me
      <3> HIDE DEF snapshot
      <3>3. row2.snapshot = snapshot
        BY <1>1, <2>5, <3>1, <3>2
      <3>. QED
        BY <1>1, <1>2, <1>3, <2>2, <2>3, <3>1, <3>2, <3>3
           DEF SoundRow, KnowsRow, KnowsFirstRun, KnowsWhatItRead, KnowsRescore, KnowsHowToRestore,
               Result, Snapshot, Rows
    <2>13. CASE ScoreOnce(p, rows)
      <3>1. /\ row2 = row
            /\ me2.pc = "publish_deferred" /\ me2.rows = rows /\ me2.run = me.run
            /\ ~me.seen.snapshot.watch
        BY <2>4, <2>13 DEF ScoreOnce, Watching, row, row2, me
      <3>. QED
        BY <1>1, <1>2, <1>3, <2>2, <2>3, <3>1
           DEF SoundRow, KnowsRow, KnowsFirstRun, KnowsWhatItRead, KnowsRescore, KnowsHowToRestore,
               Result, Snapshot, Rows
    <2>. QED
      BY <2>1, <2>8, <2>9, <2>10, <2>11, <2>12, <2>13
  <1>19. QED
    BY <1>7, <1>8, <1>9, <1>10, <1>12, <1>14, <1>15, <1>16, <1>17, <1>18 DEF ExecStep

\* What keeps CompleteScoreIsCurrent while one replica works at a time
Evident ==
    /\ \A j \in Job : Sound(j)
    /\ \A p \in Proc : ~At(p, "idle") => Knows(p)

\* A status write that completes no evaluation without its result, or a new revision
\* in the archive, leaves what is said of the evidence true.
LEMMA SoundMoves ==
    ASSUME NEW row \in JobRow, NEW new \in JobRow, NEW result \in Result,
           NEW t \in Nat, NEW u \in Nat, t <= u, SoundRow(row, result, t),
           new.snapshot = row.snapshot, new.kind = row.kind,
           new.status \in {"absent", "pending"} => row.status \in {"absent", "pending"},
           new.status = "completed" /\ new.kind \in Publishes => result.status # "none"
    PROVE  SoundRow(new, result, u)
  <1>1. row.snapshot.version \in Nat /\ result.version \in Nat
    BY DEF JobRow, Snapshot, Result
  <1>. QED
    BY <1>1 DEF SoundRow

\* ... and so does what an executor knows.
LEMMA KnowsMoves ==
    ASSUME NEW me \in Process, NEW row \in JobRow, NEW new \in JobRow, NEW result \in Result,
           NEW t \in Nat, NEW u \in Nat, t <= u, KnowsRow(me, row, result, t),
           new.snapshot = row.snapshot, new.status \notin {"absent", "pending"}
    PROVE  KnowsRow(me, new, result, u)
  <1>1. me.rows.version \in Nat /\ me.seen.snapshot.version \in Nat
    BY DEF Process, Rows, JobRow, Snapshot
  <1>. QED
    BY <1>1 DEF KnowsRow, KnowsFirstRun, KnowsWhatItRead, KnowsRescore, KnowsHowToRestore

\* Settling a row changes nothing but its status.
LEMMA SettleKeepsSnapshot ==
    ASSUME NEW row \in JobRow, NEW status \in Terminal
    PROVE  SettleRunJob(row, status).snapshot = row.snapshot
  BY DEF SettleRunJob, JobRow

\* While no lock is lost, every step keeps the books on the evidence, and none
\* replaces a score by an older one.
LEMMA EvidentStep ==
    ASSUME MaxLockLosses = 0, IInv, HolderWorks, Evident, Next
    PROVE  Evident' /\ \A j \in Job : results'[j].version >= results[j].version
  <1> DEFINE Better == \A j \in Job : results'[j].version >= results[j].version
  <1>0. /\ ExecTypeOK /\ ExecTypeOK' /\ ExecutorsConsistent /\ Replica = Proc
        /\ faults.losses \in Nat
    BY NextPreserves DEF IInv, TypeOK, StepPreserves, Replica
  <1>1. ASSUME NEW j \in Job
        PROVE  /\ jobs[j] \in JobRow /\ jobs'[j] \in JobRow /\ results[j] \in Result
               /\ trace[j] \in Nat /\ trace'[j] \in Nat
    BY <1>0 DEF ExecTypeOK
  <1>2. ASSUME NEW p \in Proc, ~At(p, "idle") PROVE JobOf(p) \in Job /\ procs[p] \in Process
    BY <1>0, <1>2 DEF ExecTypeOK, ExecutorsConsistent, ExecutorAttendsJob
  <1>3. ASSUME results' = results PROVE Better
    BY <1>1, <1>3 DEF Result
  \* The replica that works moves, over one job.
  <1>4. ASSUME NEW r \in Proc, worker[r] = "polling" \/ ~At(r, "idle"), Others(r),
               NEW j \in Job,
               \A i \in Job \ {j} : jobs'[i] = jobs[i] /\ results'[i] = results[i],
               trace' = trace, Sound(j)', ~At(r, "idle")' => Knows(r)'
        PROVE  Evident'
    <2>1. ASSUME NEW q \in Proc, q # r PROVE At(q, "idle")'
      BY <1>0, <1>4, <2>1, OthersIdle DEF Others, At
    <2>2. ASSUME NEW i \in Job, i # j PROVE Sound(i)'
      BY <1>4, <2>2 DEF Evident, Sound
    <2>. QED
      BY <1>4, <2>1, <2>2 DEF Evident
  <1>5. CASE Environment
    <2>1. PICK j \in Job : \/ \E kind \in Kinds : CreateRun(j, kind)
                           \/ CancelCheck(j) \/ CancelWrite(j) \/ TraceLands(j) \/ TimePasses(j)
      BY <1>5 DEF Environment
    <2>2. UNCHANGED <<procs, results>>
      BY <1>5 DEF Environment, CreateRun, CancelCheck, CancelWrite, TraceLands, TimePasses
    <2>3. ASSUME NEW i \in Job PROVE trace[i] <= trace'[i]
      BY <1>0, <2>1 DEF CreateRun, CancelCheck, CancelWrite, TraceLands, TimePasses, ExecTypeOK
    <2>4. ASSUME NEW i \in Job, jobs[i].status # "absent"
          PROVE  /\ jobs'[i].snapshot = jobs[i].snapshot /\ jobs'[i].kind = jobs[i].kind
                 /\ jobs'[i].status \in {jobs[i].status, "cancelled"}
      <3>1. CASE \E kind \in Kinds : CreateRun(j, kind)
        BY <1>0, <2>4, <3>1 DEF CreateRun, ExecTypeOK
      <3>2. CASE CancelWrite(j)
        BY <1>0, <1>1, <2>4, <3>2 DEF CancelWrite, CancelRunJob, SettleRunJob, ExecTypeOK, JobRow
      <3>3. CASE UNCHANGED jobs
        BY <3>3
      <3>. QED
        BY <2>1, <3>1, <3>2, <3>3 DEF CancelCheck, TraceLands, TimePasses
    <2>5. ASSUME NEW i \in Job PROVE Sound(i)'
      <3>1. CASE jobs[i].status # "absent"
        BY <1>1, <2>2, <2>3, <2>4, <3>1, SoundMoves DEF Evident, Sound, SoundRow
      <3>2. CASE jobs[i].status = "absent" /\ jobs'[i] = jobs[i]
        BY <1>1, <2>2, <2>3, <3>2, SoundMoves DEF Evident, Sound, SoundRow
      <3>3. CASE jobs[i].status = "absent" /\ jobs'[i] # jobs[i]
        <4>1. PICK kind \in Kinds : jobs'[i] = CreateRunJob(kind)
          <5>1. ~CancelWrite(j) \/ i # j
            BY <1>0, <1>1, <3>3
               DEF CancelWrite, CancelRunJob, SettleRunJob, ExecTypeOK, Active
          <5>. QED
            BY <1>0, <2>1, <3>3, <5>1
               DEF CreateRun, CancelCheck, CancelWrite, TraceLands, TimePasses, ExecTypeOK
        <4>2. jobs'[i].status = "pending" /\ jobs'[i].snapshot = NoSnapshot
          BY <4>1 DEF CreateRunJob, NoJobRow
        <4>3. results[i].status = "none" /\ results[i].version = 0
          BY <3>3 DEF Evident, Sound, SoundRow
        <4>. QED
          BY <1>1, <2>2, <4>2, <4>3 DEF Sound, SoundRow, NoSnapshot
      <3>. QED
        BY <3>1, <3>2, <3>3
    <2>6. ASSUME NEW p \in Proc, ~At(p, "idle")' PROVE Knows(p)'
      <3>1. JobOf(p) \in Job /\ procs[p] \in Process /\ Knows(p)
        BY <1>2, <2>2, <2>6 DEF Evident, At
      <3>2. jobs[JobOf(p)].status \notin {"absent", "pending"}
        BY <3>1 DEF Knows, KnowsRow
      <3>. QED
        BY <1>1, <2>2, <2>3, <2>4, <3>1, <3>2, KnowsMoves DEF Knows, JobOf
    <2>. QED
      BY <1>3, <2>2, <2>5, <2>6 DEF Evident
  <1>6. ASSUME NEW r \in Proc, Acquire(r) \/ LoseLock(r) \/ NoticeLoss(r) \/ Crash(r)
        PROVE  Evident' /\ Better
    <2>1. /\ UNCHANGED <<jobs, results, trace>>
          /\ UNCHANGED procs \/ procs' = [procs EXCEPT ![r] = Idle]
      BY <1>6 DEF Acquire, LoseLock, NoticeLoss, Crash, execVars
    <2>2. \A q \in Proc : procs'[q] = procs[q] \/ procs'[q].pc = "idle"
      BY <1>0, <2>1 DEF ExecTypeOK, Idle
    <2>. QED
      BY <1>3, <2>1, <2>2 DEF Evident, Sound, Knows, JobOf, At
  <1>7. ASSUME NEW r \in Proc, ReclaimInterrupted(r) PROVE Evident' /\ Better
    <2>1. /\ UNCHANGED <<results, trace, procs>>
          /\ \A j \in Job : jobs'[j] = ReclaimRunJob(jobs[j])
      BY <1>7 DEF ReclaimInterrupted
    <2>2. \A q \in Proc : At(q, "idle")
      BY <1>0, <1>7 DEF ReclaimInterrupted, HolderWorks
    <2>3. ASSUME NEW j \in Job PROVE Sound(j)'
      <3>1. /\ jobs'[j].snapshot = jobs[j].snapshot /\ jobs'[j].kind = jobs[j].kind
            /\ jobs'[j].status \in {jobs[j].status, "awaiting_trace", "failed"}
        BY <1>1, <2>1 DEF ReclaimRunJob, JobRow
      <3>. QED
        BY <1>1, <2>1, <3>1, SoundMoves DEF Evident, Sound, SoundRow
    <2>. QED
      BY <1>3, <2>1, <2>2, <2>3 DEF Evident, At
  <1>8. ASSUME NEW r \in Proc, (ExecStep(r) \/ Raise(r)) /\ UNCHANGED localVars
        PROVE  Evident' /\ Better
    <2>0. ~At(r, "idle")
      BY <1>8 DEF ExecStep, Raise, Raising, RunTask, AssessReadiness, InvokeTarget, HydrateFirst,
                  ParkFirst, ActivateWatch, PublishPartial, Publish, StartDeferred, Hydrate,
                  PublishDeferred, RecordRescore, At
    <2>1. Working(r) /\ JobOf(r) \in Job /\ Sound(JobOf(r)) /\ Knows(r)
      BY <1>0, <1>2, <2>0 DEF Working, ExecutorsConsistent, Evident
    <2>2. Others(r) /\ Frame(r)
      BY <1>8, <2>1, ExecStepKeeps, ExecStepFrame DEF StepKeeps
    <2>3. /\ Sound(JobOf(r))' /\ Knows(r)' /\ JobOf(r)' = JobOf(r)
          /\ results'[JobOf(r)].version >= results[JobOf(r)].version
      BY <1>8, <2>1, <2>2, ExecStepSound DEF Frame, JobOf
    <2>4. /\ trace' = trace
          /\ \A i \in Job \ {JobOf(r)} : jobs'[i] = jobs[i] /\ results'[i] = results[i]
      BY <2>2 DEF Frame
    <2>5. Better
      BY <1>1, <2>3, <2>4 DEF Result
    <2>6. Sound(JobOf(r))' = SoundRow(jobs'[JobOf(r)], results'[JobOf(r)], trace'[JobOf(r)])
      BY <2>3 DEF Sound
    <2>7. ASSUME NEW j, j = JobOf(r) PROVE Sound(j)'
      BY <2>3, <2>6, <2>7 DEF Sound
    <2>. QED
      BY <1>4, <2>0, <2>1, <2>2, <2>3, <2>4, <2>5, <2>7
  <1>9. ASSUME NEW r \in Proc, RereadJob(r) PROVE Evident' /\ Better
    <2>1. ~At(r, "idle") /\ UNCHANGED <<jobs, results, trace>>
      BY <1>9 DEF RereadJob, At
    <2>2. /\ JobOf(r) \in Job /\ procs[r] \in Process /\ Knows(r) /\ Sound(JobOf(r))
      BY <1>2, <2>1 DEF Evident
    <2>3. /\ Others(r) /\ procs'[r].job = procs[r].job /\ procs'[r].mode = procs[r].mode
          /\ procs'[r].rows = procs[r].rows
          /\ \/ procs'[r].pc = "raised" /\ procs'[r].seen = procs[r].seen
             \/ procs'[r].pc = "deferred" /\ procs'[r].seen = jobs[JobOf(r)]
      BY <1>0, <1>9 DEF RereadJob, ExecTypeOK, Become, Process, Others
    <2>4. Knows(r)'
      BY <1>1, <2>1, <2>2, <2>3
         DEF Knows, KnowsRow, KnowsFirstRun, KnowsWhatItRead, KnowsRescore, KnowsHowToRestore,
             Sound, SoundRow, JobOf
    <2>5. ASSUME NEW j \in Job PROVE Sound(j)'
      BY <2>1 DEF Evident, Sound
    <2>. QED
      BY <1>3, <1>4, <2>1, <2>2, <2>3, <2>4, <2>5
  <1>10. ASSUME NEW r \in Proc, Finish(r) \/ RestoreWatch(r) \/ HandlerFails(r) \/ Interrupt(r)
         PROVE  Evident' /\ Better
    <2>0. /\ ~At(r, "idle") /\ procs' = [procs EXCEPT ![r] = Idle] /\ UNCHANGED <<results, trace>>
      BY <1>10 DEF Finish, RestoreWatch, HandlerFails, Interrupt, End, At
    <2>1. /\ JobOf(r) \in Job /\ procs[r] \in Process /\ Knows(r) /\ ReturnHasResult(r)
          /\ procs[r].seen.snapshot \in Snapshot
          /\ jobs[JobOf(r)].status \notin {"absent", "pending"}
      BY <1>0, <1>2, <2>0 DEF Evident, ExecutorsConsistent, Knows, KnowsRow, Process, JobRow
    <2>2. Others(r) /\ At(r, "idle")'
      BY <1>0, <2>0 DEF ExecTypeOK, Others, At, Idle
    <2>3. ASSUME NEW j \in Job, j = JobOf(r),
                 NEW row \in JobRow, jobs' = [jobs EXCEPT ![j] = row],
                 SoundRow(row, results[j], trace[j])
          PROVE  Evident' /\ Better
      <3>1. jobs'[j] = row /\ \A i \in Job \ {j} : jobs'[i] = jobs[i]
        BY <1>0, <2>3 DEF ExecTypeOK
      <3>2. Sound(j)'
        BY <2>0, <2>3, <3>1 DEF Sound
      <3>. QED
        BY <1>3, <1>4, <2>0, <2>2, <3>1, <3>2
    <2>4. ASSUME NEW j \in Job, j = JobOf(r), NEW status \in Terminal,
                 jobs' = [jobs EXCEPT ![j] = SettleRunJob(jobs[j], status)],
                 status = "completed" => At(r, "returned")
          PROVE  Evident' /\ Better
      <3> DEFINE row == SettleRunJob(jobs[j], status)
      <3>1. /\ row \in JobRow /\ row.kind = jobs[j].kind /\ row.snapshot = jobs[j].snapshot
            /\ row.status \in {jobs[j].status, status}
        BY <1>1, SettleRow, SettleKeepsSnapshot
      <3>2. jobs' = [jobs EXCEPT ![j] = row]
        BY <2>4
      <3> HIDE DEF row
      <3>3. SoundRow(jobs[j], results[j], trace[j])
        BY DEF Evident, Sound
      <3>4. jobs[j].status = "completed" /\ jobs[j].kind \in Publishes => results[j].status # "none"
        BY <3>3 DEF SoundRow
      <3>5. row.status = "completed" /\ row.kind \in Publishes => results[j].status # "none"
        BY <2>1, <2>4, <3>1, <3>4 DEF ReturnHasResult
      <3>6. row.status \notin {"absent", "pending"}
        BY <2>1, <2>4, <3>1 DEF Terminal
      <3>7. SoundRow(row, results[j], trace[j])
        BY <1>1, <3>1, <3>3, <3>5, <3>6, SoundMoves
      <3>. QED
        BY <2>3, <2>4, <3>1, <3>2, <3>7
    <2>5. CASE UNCHANGED jobs
      <3>1. PICK j \in Job : j = JobOf(r)
        BY <2>1
      <3>2. jobs' = [jobs EXCEPT ![j] = jobs[j]]
        BY <1>0, <2>5 DEF ExecTypeOK
      <3>3. SoundRow(jobs[j], results[j], trace[j])
        BY DEF Evident, Sound
      <3>. QED
        BY <1>1, <2>3, <3>1, <3>2, <3>3
    <2>6. CASE Finish(r)
      <3>1. CASE At(r, "returned") /\ WriteJob(r, CompleteRunJob(jobs[JobOf(r)]))
        BY <2>1, <2>4, <3>1 DEF WriteJob, CompleteRunJob, Terminal
      <3>2. CASE WriteJob(r, BlockRunJob(jobs[JobOf(r)]))
        BY <2>1, <2>4, <3>2 DEF WriteJob, BlockRunJob, Terminal
      <3>3. CASE WriteJob(r, FailRunJob(jobs[JobOf(r)]))
        BY <2>1, <2>4, <3>3 DEF WriteJob, FailRunJob, Terminal
      <3>. QED
        BY <2>5, <2>6, <3>1, <3>2, <3>3 DEF Finish
    <2>7. CASE RestoreWatch(r)
      <3>1. PICK j \in Job : j = JobOf(r)
        BY <2>1
      <3> DEFINE row == UpdateTelemetryWatch(jobs[j], jobs[j], procs[r].seen.snapshot)
      <3>2. /\ row \in JobRow /\ row.kind = jobs[j].kind /\ row.status = jobs[j].status
            /\ row.snapshot = procs[r].seen.snapshot
        BY <1>1, <2>1, WatchRow, ZenonT(40) DEF UpdateTelemetryWatch, JobRow
      <3>3. jobs' = [jobs EXCEPT ![j] = row]
        BY <2>7, <3>1 DEF RestoreWatch, WriteJob
      <3> HIDE DEF row
      <3>4. KnowsHowToRestore(procs[r], results[j], trace[j]) /\ procs[r].mode = "watch"
        BY <2>1, <2>7, <3>1 DEF RestoreWatch, Knows, KnowsRow
      <3>5. SoundRow(jobs[j], results[j], trace[j])
        BY DEF Evident, Sound
      <3>6. SoundRow(row, results[j], trace[j])
        BY <1>1, <2>1, <3>1, <3>2, <3>4, <3>5 DEF SoundRow, KnowsHowToRestore
      <3>. QED
        BY <2>3, <3>1, <3>2, <3>3, <3>6
    <2>8. CASE HandlerFails(r) \/ Interrupt(r)
      BY <2>5, <2>8 DEF HandlerFails, Interrupt
    <2>. QED
      BY <1>10, <2>6, <2>7, <2>8
  <1>11. ASSUME NEW r \in Proc, NEW j \in Job,
                ClaimNextPending(r, j) \/ PollDeferred(r, j) \/ PollCompletedWatch(r, j)
         PROVE  Evident' /\ Better
    <2>0. worker[r] = "polling" /\ UNCHANGED <<results, trace>> /\ Better
      BY <1>3, <1>11 DEF ClaimNextPending, PollDeferred, PollCompletedWatch
    <2>1. SoundRow(jobs[j], results[j], trace[j])
      BY DEF Evident, Sound
    <2>2. ASSUME NEW label \in Label, NEW mode \in Mode, Begin(r, label, mode, j)
          PROVE  /\ Others(r) /\ procs'[r].pc = label /\ procs'[r].mode = mode
                 /\ procs'[r].job = j /\ procs'[r].seen = jobs[j] /\ procs'[r].run = "none"
                 /\ procs'[r].rows.version = 0
      <3> DEFINE me == [Idle EXCEPT !.pc = label, !.mode = mode, !.job = j, !.seen = jobs[j]]
      <3>1. /\ me.pc = label /\ me.mode = mode /\ me.job = j /\ me.seen = jobs[j]
            /\ me.run = "none" /\ me.rows.version = 0
        BY DEF Idle, CaptureRows
      <3>2. procs' = [procs EXCEPT ![r] = me]
        BY <2>2 DEF Begin
      <3> HIDE DEF me
      <3>. QED
        BY <1>0, <3>1, <3>2 DEF ExecTypeOK, Others
    <2>3. CASE ClaimNextPending(r, j)
      <3> DEFINE label == EntryPoint(jobs[j].kind)
      <3>1. label \in {"readiness", "publish", "task"} /\ label \in Label /\ "job" \in Mode
        BY DEF EntryPoint, Label, Mode
      <3>2. Begin(r, label, "job", j) /\ jobs[j].status = "pending"
        BY <2>3 DEF ClaimNextPending, Pending
      <3>3. /\ jobs'[j].status = "running" /\ jobs'[j].snapshot = jobs[j].snapshot
            /\ jobs'[j].kind = jobs[j].kind /\ \A i \in Job \ {j} : jobs'[i] = jobs[i]
        BY <1>0, <1>1, <2>3 DEF ClaimNextPending, ClaimPendingJob, ExecTypeOK, JobRow
      <3> HIDE DEF label
      <3>4. Sound(j)'
        BY <1>1, <2>0, <2>1, <3>3, SoundMoves DEF Sound, SoundRow
      <3>5. results[j].status = "none" /\ ~jobs[j].snapshot.watch /\ results[j].version = 0
        BY <2>1, <3>2 DEF SoundRow
      <3>6. Knows(r)'
        BY <1>1, <2>0, <2>2, <3>1, <3>2, <3>3, <3>5
           DEF Knows, KnowsRow, KnowsFirstRun, KnowsWhatItRead, KnowsRescore, KnowsHowToRestore,
               JobOf, Mode
      <3>. QED
        BY <1>4, <2>0, <2>2, <3>1, <3>2, <3>3, <3>4, <3>6
    <2>4. ASSUME NEW label \in {"reread", "deferred"}, NEW mode \in Mode, Begin(r, label, mode, j),
                 UNCHANGED jobs, jobs[j].status \notin {"absent", "pending"},
                 mode = "watch" => results[j].status # "none"
          PROVE  Evident' /\ Better
      <3>1. label \in Label
        BY DEF Label
      <3>2. Sound(j)'
        BY <2>0, <2>1, <2>4 DEF Sound
      <3>3. Knows(r)'
        BY <1>1, <2>0, <2>1, <2>2, <2>4, <3>1
           DEF Knows, KnowsRow, KnowsFirstRun, KnowsWhatItRead, KnowsRescore, KnowsHowToRestore,
               JobOf, SoundRow
      <3>. QED
        BY <1>4, <2>0, <2>2, <2>4, <3>1, <3>2, <3>3
    <2>5. CASE PollDeferred(r, j)
      <3>1. CASE UNCHANGED procs /\ results[j].status = "complete"
                 /\ jobs' = [jobs EXCEPT ![j] = CompleteRunJob(@)]
        <4> DEFINE row == CompleteRunJob(jobs[j])
        <4>1. /\ row \in JobRow /\ row.kind = jobs[j].kind /\ row.snapshot = jobs[j].snapshot
              /\ row.status \in {jobs[j].status, "completed"}
          BY <1>1, SettleRow, SettleKeepsSnapshot DEF CompleteRunJob, Terminal
        <4> HIDE DEF row
        <4>2. jobs'[j] = row /\ \A i \in Job \ {j} : jobs'[i] = jobs[i]
          BY <1>0, <3>1 DEF ExecTypeOK, row
        <4>3. Sound(j)'
          BY <1>1, <2>0, <2>1, <3>1, <4>1, <4>2, SoundMoves DEF Sound, SoundRow
        <4>4. At(r, "idle")' /\ Others(r)
          BY <2>5, <3>1 DEF PollDeferred, At, Others
        <4>. QED
          BY <1>4, <2>0, <4>2, <4>3, <4>4
      <3>2. CASE Begin(r, "reread", "deferred", j) /\ UNCHANGED jobs
        BY <2>4, <2>5, <3>2 DEF PollDeferred, Awaiting, Mode
      <3>. QED
        BY <2>5, <3>1, <3>2 DEF PollDeferred
    <2>6. CASE PollCompletedWatch(r, j)
      <3>1. results[j].status # "none"
        BY <2>1, <2>6 DEF PollCompletedWatch, SoundRow, EvalKind, Publishes
      <3>. QED
        BY <2>4, <2>6, <3>1 DEF PollCompletedWatch, Mode
    <2>. QED
      BY <1>11, <2>3, <2>5, <2>6
  <1>12. QED
    BY <1>5, <1>6, <1>7, <1>8, <1>9, <1>10, <1>11 DEF Next, ReplicaStep, Replica

\* At all times: by induction over the steps.
LEMMA EvidentAlways == Safety => [](MaxLockLosses = 0 => Evident)
  <1>1. Init => Evident
    <2> SUFFICES ASSUME Init PROVE Evident
      OBVIOUS
    <2>1. \A p \in Proc : procs[p].pc = "idle"
      BY DEF Init, Replica, Idle
    <2>2. \A j \in Job : jobs[j] = NoJobRow /\ results[j] = NoResult /\ trace[j] = 0
      BY DEF Init, ExecInit
    <2>3. SoundRow(NoJobRow, NoResult, 0)
      BY DEF SoundRow, NoJobRow, NoResult, NoSnapshot
    <2>. QED
      BY <2>1, <2>2, <2>3 DEF Evident, Sound, At
  <1>2. IInv /\ (MaxLockLosses = 0 => HolderWorks) /\ (MaxLockLosses = 0 => Evident) /\ [Next]_vars
          => (MaxLockLosses = 0 => Evident)'
    <2> SUFFICES ASSUME IInv, HolderWorks, MaxLockLosses = 0, Evident, [Next]_vars
                 PROVE  Evident'
      OBVIOUS
    <2>1. CASE Next
      BY <2>1, EvidentStep
    <2>2. CASE UNCHANGED vars
      BY <2>2 DEF vars, Evident, Sound, Knows, At, JobOf
    <2>. QED
      BY <2>1, <2>2
  <1>3. QED
    BY <1>1, <1>2, Invariance, HolderWorksAlways, PTL DEF Safety

\* While the lock outlives its worker, a watch that is not marked stale vouches for a
\* complete score at least as recent as its snapshot, after any sequence of parked
\* runs, rechecks, crashes and failed writes.
THEOREM ScoresAreCurrent == Safety => [](MaxLockLosses = 0 => CompleteScoreIsCurrent)
  <1>1. Evident => CompleteScoreIsCurrent
    BY DEF Evident, Sound, SoundRow, CompleteScoreIsCurrent, VouchedScoreIsCurrent
  <1>2. QED
    BY <1>1, EvidentAlways, PTL

\* While the lock outlives its worker, no step replaces a published score by one of
\* older evidence.
THEOREM EvidenceOnlyImproves ==
    ASSUME MaxLockLosses = 0
    PROVE  Safety => EvidenceNeverRegresses
  <1>1. IInv /\ HolderWorks /\ Evident /\ [Next]_vars
          => [\A j \in Job : results'[j].version >= results[j].version]_results
    <2> SUFFICES ASSUME IInv, HolderWorks, Evident, [Next]_vars, results' # results
                 PROVE  \A j \in Job : results'[j].version >= results[j].version
      OBVIOUS
    <2>1. Next
      BY DEF vars
    <2>. QED
      BY <2>1, EvidentStep
  <1>2. Safety => [](HolderWorks /\ Evident)
    <2>1. MaxLockLosses = 0
      OBVIOUS
    <2>2. (MaxLockLosses = 0 => HolderWorks) /\ (MaxLockLosses = 0 => Evident)
            => HolderWorks /\ Evident
      BY <2>1
    <2>. QED
      BY <2>2, HolderWorksAlways, EvidentAlways, PTL
  <1>3. QED
    BY <1>1, <1>2, Invariance, PTL DEF Safety, EvidenceNeverRegresses
=============================================================================
