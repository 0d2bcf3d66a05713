-------------------------- MODULE RunExecutionProofs --------------------------
(* Lemmas about the steps of RunExecution that either runtime's proofs use.    *)
EXTENDS RunExecution, TLAPS

-----------------------------------------------------------------------------
(* What the store's operators return *)

\* The compare-and-set settles an active row and leaves any other row alone.
LEMMA SettleRow ==
    ASSUME NEW row \in JobRow, NEW status \in Terminal
    PROVE  LET new == SettleRunJob(row, status) IN
           /\ new \in JobRow /\ new.kind = row.kind
           /\ new.status = IF row.status \in Active THEN status ELSE row.status
  BY DEF SettleRunJob, JobRow, JobStatus, Terminal, Active

\* No telemetry write changes a row's kind, nor settles or reopens a job.
LEMMA ParkRow ==
    ASSUME NEW row \in JobRow, NEW seen \in JobRow, NEW snapshot \in Snapshot
    PROVE  LET new == ParkRunJob(row, seen, snapshot) IN
           /\ new \in JobRow /\ new.kind = row.kind
           /\ new.status = IF row.status \in Active THEN "awaiting_trace" ELSE row.status
  BY DEF ParkRunJob, JobRow, JobStatus, Active

\* A write of the watch leaves the status and the kind of the row alone.
LEMMA WatchRow ==
    ASSUME NEW row \in JobRow, NEW seen \in JobRow, NEW snapshot \in Snapshot
    PROVE  LET new == UpdateTelemetryWatch(row, seen, snapshot) IN
           new \in JobRow /\ new.kind = row.kind /\ new.status = row.status
  BY DEF UpdateTelemetryWatch, JobRow

\* Ending the watch leaves the status and the kind of the row alone.
LEMMA UnwatchRow ==
    ASSUME NEW row \in JobRow, NEW seen \in JobRow
    PROVE  LET new == DisableTelemetryWatch(row, seen) IN
           new \in JobRow /\ new.kind = row.kind /\ new.status = row.status
  <1>1. [seen.snapshot EXCEPT !.held = TRUE, !.watch = FALSE] \in Snapshot
    BY DEF JobRow, Snapshot
  <1>2. QED
    BY <1>1, WatchRow DEF DisableTelemetryWatch

\* The rows and local states that the program starts from are well formed.
LEMMA EmptyRows ==
    NoJobRow \in JobRow /\ NoResult \in Result /\ Idle \in Process
  <1>1. NoJobRow \in JobRow
    BY DEF NoJobRow, JobRow, JobStatus, JobKind, Snapshot, NoSnapshot
  <1>2. NoResult \in Result
    BY DEF NoResult, Result, ResultStatus
  <1>3. Idle \in Process
    BY <1>1 DEF Idle, Process, Label, Mode, ResultStatus, Rows, CaptureRows
  <1>4. QED
    BY <1>1, <1>2, <1>3

-----------------------------------------------------------------------------
(* How a written row or a label moves the state *)

\* Writing one row leaves every other row as it was.
LEMMA RowWritten ==
    ASSUME ExecTypeOK, NEW p \in Proc, JobOf(p) \in Job, NEW row \in JobRow,
           WriteJob(p, row)
    PROVE  /\ jobs' \in [Job -> JobRow] /\ jobs'[JobOf(p)] = row
           /\ \A j \in Job \ {JobOf(p)} : jobs'[j] = jobs[j]
  BY DEF ExecTypeOK, WriteJob

\* Moving one program counter changes nothing else of any executor.
LEMMA LabelSet ==
    ASSUME ExecTypeOK, NEW p \in Proc, NEW label \in Label, Become(p, label)
    PROVE  /\ procs' \in [Proc -> Process]
           /\ procs'[p].pc = label /\ procs'[p].mode = procs[p].mode
           /\ procs'[p].job = procs[p].job /\ procs'[p].seen = procs[p].seen
           /\ procs'[p].run = procs[p].run /\ procs'[p].rows = procs[p].rows
           /\ \A q \in Proc \ {p} : procs'[q] = procs[q]
  BY DEF ExecTypeOK, Become, Process

\* A row that keeps its kind and moves its status as the store allows, while
\* no result is published, is a step of the life of the job.
LEMMA RowLives ==
    ASSUME ExecTypeOK, NEW j \in Job, jobs' \in [Job -> JobRow],
           results' \in [Job -> Result],
           jobs'[j].kind = jobs[j].kind, results'[j] = results[j],
           \/ jobs'[j].status = jobs[j].status
           \/ /\ jobs[j].status \in Active
              /\ jobs'[j].status \in {"running", "awaiting_trace", "blocked", "failed",
                                      "cancelled"}
           \/ /\ jobs[j].status \in Active /\ jobs'[j].status = "completed"
              /\ jobs[j].kind \in Publishes => results[j].status # "none"
    PROVE  Lifecycle!LifeStep(j)
  BY DEF ExecTypeOK, Active, Lifecycle!LifeStep, Lifecycle!Keep, Lifecycle!Proceed,
         Lifecycle!Settle, Lifecycle!Open, Lifecycle!Settled

-----------------------------------------------------------------------------
(* Every step of an executor keeps its own books and lives the job's life *)

Others(p) == \A q \in Proc \ {p} : procs'[q] = procs[q]

StepKeeps(p) ==
    /\ ExecTypeOK'
    /\ \A j \in Job : Lifecycle!LifeStep(j)
    /\ Others(p)
    /\ ~At(p, "idle")'
    /\ ExecutorAttendsJob(p)' /\ ReturnHasResult(p)'

Working(p) ==
    ExecTypeOK /\ ~At(p, "idle") /\ ExecutorAttendsJob(p) /\ ReturnHasResult(p)

\* A step that publishes nothing: the executor's next state is consistent with
\* the tables, and its job's row at most parks.
LEMMA QuietStepKeeps ==
    ASSUME NEW p \in Proc, Working(p),
           procs' \in [Proc -> Process], Others(p),
           procs'[p].job = JobOf(p), procs'[p].pc \notin {"idle", "task"},
           procs'[p].run # "none" => results[JobOf(p)].status # "none",
           procs'[p].pc \in {"returned", "record"} /\ jobs[JobOf(p)].kind \in Publishes
             => results[JobOf(p)].status # "none",
           NEW row \in JobRow, WriteJob(p, row), row.kind = jobs[JobOf(p)].kind,
           \/ row.status = jobs[JobOf(p)].status
           \/ jobs[JobOf(p)].status \in Active /\ row.status = "awaiting_trace",
           UNCHANGED <<results, stops, trace, age>>, invocations' \in [Job -> Nat]
    PROVE  StepKeeps(p)
  <1> USE DEF Working
  <1>0. JobOf(p) \in Job
    BY DEF ExecutorAttendsJob
  <1>1. ExecTypeOK'
    BY <1>0, RowWritten DEF ExecTypeOK
  <1>2. \A j \in Job : Lifecycle!LifeStep(j)
    <2> SUFFICES ASSUME NEW j \in Job PROVE Lifecycle!LifeStep(j)
      OBVIOUS
    <2>1. jobs'[j] = IF j = JobOf(p) THEN row ELSE jobs[j]
      BY <1>0, RowWritten
    <2>2. jobs' \in [Job -> JobRow] /\ results' \in [Job -> Result]
      BY <1>1 DEF ExecTypeOK
    <2>3. QED
      BY <2>1, <2>2, RowLives
  <1>3. ~At(p, "idle")' /\ ExecutorAttendsJob(p)' /\ ReturnHasResult(p)'
    BY <1>0, RowWritten
       DEF ExecutorAttendsJob, ReturnHasResult, At, JobOf, Published, Active
  <1>4. QED
    BY <1>1, <1>2, <1>3 DEF StepKeeps

\* ... in particular a step that writes no row
LEMMA ReadStepKeeps ==
    ASSUME NEW p \in Proc, Working(p),
           procs' \in [Proc -> Process], Others(p),
           procs'[p].job = JobOf(p), procs'[p].pc \notin {"idle", "task"},
           procs'[p].run # "none" => results[JobOf(p)].status # "none",
           procs'[p].pc \in {"returned", "record"} /\ jobs[JobOf(p)].kind \in Publishes
             => results[JobOf(p)].status # "none",
           UNCHANGED <<jobs, results, stops, trace, age>>, invocations' \in [Job -> Nat]
    PROVE  StepKeeps(p)
  <1>1. jobs[JobOf(p)] \in JobRow /\ WriteJob(p, jobs[JobOf(p)])
    BY DEF Working, ExecTypeOK, ExecutorAttendsJob, WriteJob
  <1>2. QED
    BY <1>1, QuietStepKeeps

\* save_run: the whole transaction commits, or only the label moves.
LEMMA SaveRunKeeps ==
    ASSUME NEW p \in Proc, Working(p), NEW result \in Result,
           NEW replace \in BOOLEAN, NEW refresh \in BOOLEAN, NEW finalize \in BOOLEAN,
           NEW next \in Label \ {"idle", "task"},
           \/ result.status = "complete"
           \/ result.status = "partial" /\ ~replace /\ ~refresh /\ ~finalize,
           SaveRun(p, result, replace, refresh, finalize, next)
    PROVE  StepKeeps(p)
  <1> DEFINE j == JobOf(p)
  <1>0. j \in Job /\ ExecTypeOK
    BY DEF Working, ExecutorAttendsJob
  <1>1. CASE UNCHANGED <<jobs, results>> /\ \E label \in {"stopped", "raised"} : Become(p, label)
    <2>1. PICK label \in {"stopped", "raised"} : Become(p, label)
      BY <1>1
    <2>2. UNCHANGED <<stops, trace, age, invocations>> /\ label \in Label
      BY DEF SaveRun, Label
    <2>3. /\ procs' \in [Proc -> Process] /\ Others(p)
          /\ procs'[p].job = JobOf(p) /\ procs'[p].pc = label /\ procs'[p].run = procs[p].run
      BY <1>0, <2>1, <2>2, LabelSet DEF Others, JobOf
    <2>4. procs[p].run # "none" => results[JobOf(p)].status # "none"
      BY DEF Working, ExecutorAttendsJob, Published
    <2>5. invocations' \in [Job -> Nat]
      BY <1>0, <2>2 DEF ExecTypeOK
    <2>. QED
      BY <1>1, <2>2, <2>3, <2>4, <2>5, ReadStepKeeps
  <1>2. CASE /\ SaveCommits(jobs[j], results[j], replace, refresh, finalize)
             /\ results' = [results EXCEPT ![j] = result]
             /\ jobs' = [jobs EXCEPT ![j] = FinalizeRow(@, finalize)]
             /\ Become(p, next)
    <2>1. UNCHANGED <<stops, trace, age, invocations>>
      BY DEF SaveRun
    <2>2. FinalizeRow(jobs[j], finalize) \in JobRow
      BY <1>0 DEF FinalizeRow, ExecTypeOK, JobRow, JobStatus, Terminal
    <2>3. ExecTypeOK' /\ Others(p)
      BY <1>0, <1>2, <2>1, <2>2, LabelSet DEF ExecTypeOK, Others
    <2>4. \A i \in Job : Lifecycle!LifeStep(i)
      <3> SUFFICES ASSUME NEW i \in Job PROVE Lifecycle!LifeStep(i)
        OBVIOUS
      <3>1. CASE i # j
        BY <1>0, <1>2, <3>1 DEF ExecTypeOK, Lifecycle!LifeStep, Lifecycle!Keep
      <3>2. CASE i = j
        <4>1. /\ jobs'[i] = FinalizeRow(jobs[i], finalize) /\ results'[i] = result
              /\ jobs[i].status \in Writable(refresh, finalize)
              /\ Replaceable(results[i], replace, refresh)
          BY <1>0, <1>2, <3>2 DEF ExecTypeOK, SaveCommits
        <4>2. CASE result.status = "complete"
          <5>1. /\ jobs'[i].kind = jobs[i].kind
                /\ jobs'[i].status \in {jobs[i].status, "completed"}
                /\ jobs[i].status \in Active \cup {"completed"}
            BY <1>0, <4>1 DEF FinalizeRow, Writable, ExecTypeOK, JobRow
          <5>2. Lifecycle!PublishWhole(i)
            BY <4>1, <4>2, <5>1 DEF Lifecycle!PublishWhole, Lifecycle!Open, Active
          <5>. QED
            BY <5>2 DEF Lifecycle!LifeStep
        <4>3. CASE result.status = "partial" /\ ~replace /\ ~refresh /\ ~finalize
          <5>1. jobs'[i] = jobs[i] /\ jobs[i].status \in Active /\ results[i].status = "none"
            BY <4>1, <4>3 DEF FinalizeRow, Writable, Replaceable
          <5>2. Lifecycle!PublishPart(i)
            BY <4>1, <4>3, <5>1 DEF Lifecycle!PublishPart, Lifecycle!Open, Active
          <5>. QED
            BY <5>2 DEF Lifecycle!LifeStep
        <4>. QED
          BY <4>2, <4>3
      <3>. QED
        BY <3>1, <3>2
    <2>5. ~At(p, "idle")' /\ ExecutorAttendsJob(p)' /\ ReturnHasResult(p)'
      <3>1. /\ jobs'[j].kind = jobs[j].kind
            /\ jobs[j].status # "absent" => jobs'[j].status # "absent"
            /\ results'[j].status # "none"
        BY <1>0, <1>2 DEF FinalizeRow, ExecTypeOK, JobRow, Result
      <3>2. jobs[j].status # "absent"
        BY DEF Working, ExecutorAttendsJob
      <3>. QED
        BY <1>0, <1>2, <3>1, <3>2, LabelSet
           DEF ExecutorAttendsJob, ReturnHasResult, At, JobOf, Published
    <2>. QED
      BY <2>3, <2>4, <2>5 DEF StepKeeps
  <1>3. QED
    BY <1>1, <1>2 DEF SaveRun

\* The snapshots that an executor writes are well formed.
LEMMA SnapshotsTyped ==
    ASSUME NEW seen \in JobRow, NEW rows \in Rows
    PROVE  /\ [held |-> TRUE, watch |-> TRUE, stale |-> FALSE,
            version |-> rows.version] \in Snapshot
           /\ seen.snapshot \in Snapshot
           /\ [seen.snapshot EXCEPT !.version = 0] \in Snapshot
           /\ [seen.snapshot EXCEPT !.stale = TRUE, !.version = rows.version] \in Snapshot
           /\ [seen.snapshot EXCEPT !.stale = FALSE, !.version = rows.version] \in Snapshot
           /\ [seen.snapshot EXCEPT !.watch = TRUE, !.version = rows.version] \in Snapshot
  BY DEF JobRow, Rows, Snapshot

\* What a read of the archive returns is well formed.
LEMMA HydratedRowsTyped ==
    ASSUME ExecTypeOK, NEW j \in Job, NEW otherwise \in SUBSET Rows,
           NEW rows \in HydratedRows(j, otherwise)
    PROVE  rows \in Rows
  <1>1. rows \in otherwise \/ rows = [awaiting |-> FALSE, version |-> trace[j]]
    BY DEF HydratedRows
  <1>2. trace[j] \in Nat
    BY DEF ExecTypeOK
  <1>3. CASE rows \in otherwise
    BY <1>3
  <1>4. CASE rows = [awaiting |-> FALSE, version |-> trace[j]]
    BY <1>2, <1>4 DEF Rows
  <1>5. QED
    BY <1>1, <1>3, <1>4

\* Every step of execute_dataset_run and execute_rescore keeps the types and the lives.
LEMMA DatasetRunKeeps ==
    ASSUME NEW p \in Proc, Working(p),
           \/ RunTask(p) \/ AssessReadiness(p) \/ InvokeTarget(p) \/ HydrateFirst(p)
           \/ ParkFirst(p) \/ ActivateWatch(p) \/ Raise(p)
    PROVE  StepKeeps(p)
  <1>0. /\ ExecTypeOK /\ JobOf(p) \in Job /\ jobs[JobOf(p)] \in JobRow
        /\ procs[p] \in Process
        /\ Published(p) => results[JobOf(p)].status # "none"
    BY DEF Working, ExecutorAttendsJob, ExecTypeOK
  <1> DEFINE Moves(label) ==
        /\ Become(p, label) /\ label \in Label \ {"idle", "task", "record"}
        /\ label = "returned" => jobs[JobOf(p)].kind \notin Publishes
        /\ UNCHANGED <<results, stops, trace, age>> /\ invocations' \in [Job -> Nat]
  <1> DEFINE LabelMoved(label) ==
        /\ procs' \in [Proc -> Process] /\ Others(p)
        /\ procs'[p].job = JobOf(p) /\ procs'[p].pc = label /\ procs'[p].run = procs[p].run
  <1>1. ASSUME NEW label, Moves(label), UNCHANGED jobs
        PROVE  StepKeeps(p)
    <2>1. LabelMoved(label)
      BY <1>0, <1>1, LabelSet DEF Others, JobOf
    <2>. QED
      BY <1>0, <1>1, <2>1, ReadStepKeeps DEF Published
  <1>2. ASSUME NEW label, Moves(label), NEW row \in JobRow, WriteJob(p, row),
               row.kind = jobs[JobOf(p)].kind,
               \/ row.status = jobs[JobOf(p)].status
               \/ jobs[JobOf(p)].status \in Active /\ row.status = "awaiting_trace"
        PROVE  StepKeeps(p)
    <2>1. LabelMoved(label)
      BY <1>0, <1>2, LabelSet DEF Others, JobOf
    <2>. QED
      BY <1>0, <1>2, <2>1, QuietStepKeeps DEF Published
  <1>3. CASE RunTask(p)
    <2>1. Moves("returned")
      BY <1>0, <1>3 DEF RunTask, Label, Working, ExecutorAttendsJob, ExecTypeOK
    <2>. QED
      BY <2>1, <1>1, <1>3 DEF RunTask
  <1>4. CASE AssessReadiness(p)
    <2>1. \E label \in {"blocked", "invoke", "publish"} : Moves(label)
      BY <1>0, <1>4 DEF AssessReadiness, Label, ExecTypeOK
    <2>. QED
      BY <2>1, <1>1, <1>4 DEF AssessReadiness
  <1>5. CASE InvokeTarget(p)
    <2>1. Moves("hydrate_first")
      BY <1>0, <1>5 DEF InvokeTarget, Label, ExecTypeOK
    <2>. QED
      BY <2>1, <1>1, <1>5 DEF InvokeTarget
  <1>6. CASE HydrateFirst(p)
    <2>1. PICK rows \in HydratedRows(JobOf(p), {AwaitingRows, CaptureRows}) :
            procs' = [procs EXCEPT ![p].rows = rows, ![p].pc =
                        IF rows.awaiting THEN "park"
                        ELSE IF rows.version > 0 THEN "watch" ELSE "publish"]
      BY <1>6 DEF HydrateFirst
    <2>2. rows \in Rows
      <3>1. {AwaitingRows, CaptureRows} \in SUBSET Rows
        BY DEF AwaitingRows, CaptureRows, Rows
      <3>. QED
        BY <1>0, <3>1, HydratedRowsTyped
    <2>3. /\ procs' \in [Proc -> Process] /\ Others(p) /\ procs'[p].job = JobOf(p)
          /\ procs'[p].pc \in {"park", "watch", "publish"} /\ procs'[p].run = procs[p].run
      BY <1>0, <2>1, <2>2 DEF ExecTypeOK, Process, Label, Others, JobOf
    <2>4. UNCHANGED <<jobs, results, stops, trace, age>> /\ invocations' \in [Job -> Nat]
      BY <1>0, <1>6 DEF HydrateFirst, ExecTypeOK
    <2>. QED
      BY <1>0, <2>3, <2>4, ReadStepKeeps DEF Published
  <1>7. CASE ParkFirst(p)
    <2>1. Moves("publish_partial")
      BY <1>0, <1>7 DEF ParkFirst, Label, ExecTypeOK
    <2> DEFINE snapshot == [NoSnapshot EXCEPT !.held = TRUE]
               row == ParkRunJob(jobs[JobOf(p)], jobs[JobOf(p)], snapshot)
    <2>2. snapshot \in Snapshot
      BY DEF NoSnapshot, Snapshot
    <2>3. /\ row \in JobRow /\ row.kind = jobs[JobOf(p)].kind
          /\ row.status = IF jobs[JobOf(p)].status \in Active THEN "awaiting_trace"
                          ELSE jobs[JobOf(p)].status
      BY <1>0, <2>2, ParkRow
    <2>4. WriteJob(p, row)
      BY <1>7 DEF ParkFirst
    <2> HIDE DEF row
    <2>. QED
      BY <2>1, <2>3, <2>4, <1>2
  <1>8. CASE ActivateWatch(p)
    <2>1. Moves("publish")
      BY <1>0, <1>8 DEF ActivateWatch, Label, ExecTypeOK
    <2> DEFINE snapshot == [held |-> TRUE, watch |-> TRUE, stale |-> FALSE,
                            version |-> procs[p].rows.version]
               row == UpdateTelemetryWatch(jobs[JobOf(p)], jobs[JobOf(p)], snapshot)
    <2>2. snapshot \in Snapshot
      BY <1>0, SnapshotsTyped DEF Process
    <2>3. row \in JobRow /\ row.kind = jobs[JobOf(p)].kind /\ row.status = jobs[JobOf(p)].status
      BY <1>0, <2>2, WatchRow
    <2>4. WriteJob(p, row)
      BY <1>8 DEF ActivateWatch
    <2> HIDE DEF row
    <2>. QED
      BY <2>1, <2>3, <2>4, <1>2
  <1>9. CASE Raise(p)
    <2>1. Moves("raised")
      BY <1>0, <1>9 DEF Raise, Label, ExecTypeOK
    <2>. QED
      BY <2>1, <1>1, <1>9 DEF Raise
  <1>10. QED
    BY <1>3, <1>4, <1>5, <1>6, <1>7, <1>8, <1>9

\* Every outcome of one hydration of a deferred run keeps the types and the lives.
LEMMA HydrateKeeps ==
    ASSUME NEW p \in Proc, Working(p), Hydrate(p)
    PROVE  StepKeeps(p)
  <1>0. /\ ExecTypeOK /\ JobOf(p) \in Job /\ jobs[JobOf(p)] \in JobRow
        /\ procs[p] \in Process /\ procs[p].seen \in JobRow
        /\ Published(p) => results[JobOf(p)].status # "none"
    BY DEF Working, ExecutorAttendsJob, ExecTypeOK, Process
  <1>1. PICK rows \in HydratedRows(JobOf(p), IncompleteRows(p)) :
          \/ KeepWatch(p, rows)      \/ ParkAgain(p, rows)  \/ GiveUp(p, rows)
          \/ SkipUnchanged(p, rows)  \/ MarkStale(p, rows)
          \/ ActivateLateWatch(p, rows) \/ ScoreOnce(p, rows)
    BY DEF Hydrate
  <1>2. rows \in Rows
    <2>1. IncompleteRows(p) \in SUBSET Rows
      BY DEF IncompleteRows, AwaitingRows, CaptureRows, Rows
    <2>. QED
      BY <1>0, <2>1, HydratedRowsTyped
  <1>3. UNCHANGED <<results, stops, trace, age>> /\ invocations' \in [Job -> Nat]
    BY <1>0 DEF Hydrate, ExecTypeOK
  <1> DEFINE Moved(label) ==
        /\ procs' \in [Proc -> Process] /\ Others(p)
        /\ procs'[p].job = JobOf(p) /\ procs'[p].pc = label /\ procs'[p].run = procs[p].run
  <1>4. ASSUME NEW label \in {"returned", "parked"}, Become(p, label)
        PROVE  Moved(label)
    BY <1>0, <1>4, LabelSet DEF Label, Others, JobOf
  <1>5. ASSUME Rescoring(p, rows) PROVE Moved("publish_deferred")
    BY <1>0, <1>2, <1>5 DEF Rescoring, ExecTypeOK, Process, Label, Others, JobOf
  <1>6. ASSUME NEW snapshot \in Snapshot,
               WriteJob(p, UpdateTelemetryWatch(jobs[JobOf(p)], procs[p].seen, snapshot)),
               \/ Moved("publish_deferred")
               \/ Moved("returned") /\ Published(p)
        PROVE  StepKeeps(p)
    <2> DEFINE row == UpdateTelemetryWatch(jobs[JobOf(p)], procs[p].seen, snapshot)
    <2>1. row \in JobRow /\ row.kind = jobs[JobOf(p)].kind /\ row.status = jobs[JobOf(p)].status
      BY <1>0, WatchRow
    <2>2. WriteJob(p, row)
      BY <1>6
    <2> HIDE DEF row
    <2>. QED
      BY <1>0, <1>3, <1>6, <2>1, <2>2, QuietStepKeeps DEF Published
  <1>7. CASE KeepWatch(p, rows)
    BY <1>0, <1>4, <1>6, <1>7, <1>2, SnapshotsTyped DEF KeepWatch
  <1>8. CASE ParkAgain(p, rows)
    <2> DEFINE snapshot == [procs[p].seen.snapshot EXCEPT !.version = 0]
               row == ParkRunJob(jobs[JobOf(p)], procs[p].seen, snapshot)
    <2>1. snapshot \in Snapshot
      BY <1>0, <1>2, SnapshotsTyped
    <2>2. /\ row \in JobRow /\ row.kind = jobs[JobOf(p)].kind
          /\ row.status = IF jobs[JobOf(p)].status \in Active THEN "awaiting_trace"
                          ELSE jobs[JobOf(p)].status
      BY <1>0, <2>1, ParkRow
    <2>3. WriteJob(p, row) /\ Moved("parked")
      BY <1>4, <1>8 DEF ParkAgain
    <2> HIDE DEF row
    <2>. QED
      BY <1>0, <1>3, <2>2, <2>3, QuietStepKeeps DEF Published
  <1>9. CASE GiveUp(p, rows)
    <2> DEFINE row == DisableTelemetryWatch(jobs[JobOf(p)], procs[p].seen)
    <2>1. row \in JobRow /\ row.kind = jobs[JobOf(p)].kind /\ row.status = jobs[JobOf(p)].status
      BY <1>0, UnwatchRow
    <2>2. WriteJob(p, row) /\ Moved("returned") /\ Published(p)
      BY <1>4, <1>9 DEF GiveUp
    <2> HIDE DEF row
    <2>. QED
      BY <1>0, <1>3, <2>1, <2>2, QuietStepKeeps DEF Published
  <1>10. CASE SkipUnchanged(p, rows)
    BY <1>0, <1>4, <1>6, <1>10, <1>2, SnapshotsTyped DEF SkipUnchanged, SameEvidence
  <1>11. CASE MarkStale(p, rows)
    <2>1. [procs[p].seen.snapshot EXCEPT !.stale = TRUE, !.version = rows.version] \in Snapshot
      BY <1>0, <1>2, SnapshotsTyped
    <2>. QED
      BY <1>5, <1>6, <1>11, <2>1 DEF MarkStale
  <1>12. CASE ActivateLateWatch(p, rows)
    <2>1. [procs[p].seen.snapshot EXCEPT !.watch = TRUE, !.version = rows.version] \in Snapshot
      BY <1>0, <1>2, SnapshotsTyped
    <2>. QED
      BY <1>5, <1>6, <1>12, <2>1 DEF ActivateLateWatch
  <1>13. CASE ScoreOnce(p, rows)
    <2>1. Moved("publish_deferred") /\ UNCHANGED jobs
      BY <1>5, <1>13 DEF ScoreOnce
    <2>. QED
      BY <1>0, <1>3, <2>1, ReadStepKeeps DEF Published
  <1>14. QED
    BY <1>1, <1>7, <1>8, <1>9, <1>10, <1>11, <1>12, <1>13

\* Every step of execute_deferred_telemetry_score keeps the types and the lives.
LEMMA DeferredRunKeeps ==
    ASSUME NEW p \in Proc, Working(p),
           \/ StartDeferred(p) \/ PublishPartial(p) \/ Publish(p)
           \/ PublishDeferred(p) \/ RecordRescore(p)
    PROVE  StepKeeps(p)
  <1>0. /\ ExecTypeOK /\ JobOf(p) \in Job /\ jobs[JobOf(p)] \in JobRow
        /\ procs[p] \in Process /\ procs[p].seen \in JobRow /\ procs[p].rows \in Rows
        /\ results[JobOf(p)] \in Result
        /\ Published(p) => results[JobOf(p)].status # "none"
    BY DEF Working, ExecutorAttendsJob, ExecTypeOK, Process
  <1>1. CASE StartDeferred(p)
    <2>1. UNCHANGED <<results, stops, trace, age>> /\ invocations' \in [Job -> Nat]
      BY <1>0, <1>1 DEF StartDeferred, ExecTypeOK
    <2>2. ASSUME Become(p, "returned")
          PROVE  /\ procs' \in [Proc -> Process] /\ Others(p) /\ procs'[p].job = JobOf(p)
                 /\ procs'[p].pc = "returned" /\ procs'[p].run = procs[p].run
      BY <1>0, <2>2, LabelSet DEF Label, Others, JobOf
    <2>3. CASE /\ results[JobOf(p)].status = "complete"
               /\ Become(p, "returned") /\ UNCHANGED jobs
      BY <1>0, <2>1, <2>2, <2>3, ReadStepKeeps
    <2>4. CASE /\ results[JobOf(p)].status # "none" /\ Become(p, "returned")
               /\ WriteJob(p, DisableTelemetryWatch(jobs[JobOf(p)], procs[p].seen))
      <3> DEFINE row == DisableTelemetryWatch(jobs[JobOf(p)], procs[p].seen)
      <3>1. row \in JobRow /\ row.kind = jobs[JobOf(p)].kind /\ row.status = jobs[JobOf(p)].status
        BY <1>0, UnwatchRow
      <3>2. WriteJob(p, row)
        BY <2>4
      <3> HIDE DEF row
      <3>. QED
        BY <1>0, <2>1, <2>2, <2>4, <3>1, <3>2, QuietStepKeeps
    <2>5. CASE /\ procs' = [procs EXCEPT ![p].run = results[JobOf(p)].status, ![p].pc = "hydrate"]
               /\ UNCHANGED jobs
      <3>1. /\ procs' \in [Proc -> Process] /\ Others(p) /\ procs'[p].job = JobOf(p)
            /\ procs'[p].pc = "hydrate" /\ procs'[p].run = results[JobOf(p)].status
        BY <1>0, <2>5 DEF ExecTypeOK, Process, Label, Result, Others, JobOf
      <3>. QED
        BY <1>0, <2>1, <2>5, <3>1, ReadStepKeeps
    <2>6. QED
      BY <1>1, <2>3, <2>4, <2>5 DEF StartDeferred
  <1>2. CASE PublishPartial(p)
    <2>1. [status |-> "partial", version |-> 0] \in Result
      BY DEF Result, ResultStatus
    <2>. QED
      BY <1>2, <2>1, SaveRunKeeps DEF PublishPartial, Label
  <1>3. [status |-> "complete", version |-> procs[p].rows.version] \in Result
    BY <1>0 DEF Result, ResultStatus, Rows
  <1>4. CASE Publish(p)
    BY <1>3, <1>4, SaveRunKeeps DEF Publish, Label
  <1>5. CASE PublishDeferred(p)
    <2> DEFINE replace == Published(p)
               refresh == Published(p) /\ Watching(p)
               finalize == ~refresh
               result == [status |-> "complete", version |-> procs[p].rows.version]
    <2>1. PICK next \in {"record", "returned"} :
            SaveRun(p, result, replace, refresh, finalize, next)
      BY <1>5 DEF PublishDeferred
    <2>2. replace \in BOOLEAN /\ refresh \in BOOLEAN /\ finalize \in BOOLEAN
      <3>1. replace \in BOOLEAN
        BY DEF Published
      <3>2. refresh \in BOOLEAN
        BY DEF Published
      <3>3. finalize \in BOOLEAN
        OBVIOUS
      <3> HIDE DEF replace, refresh, finalize
      <3>. QED
        BY <3>1, <3>2, <3>3
    <2>3. result \in Result /\ result.status = "complete"
      BY <1>3
    <2>4. next \in Label \ {"idle", "task"}
      BY <2>1 DEF Label
    <2> HIDE DEF replace, refresh, finalize, result
    <2>. QED
      BY <2>1, <2>2, <2>3, <2>4, SaveRunKeeps
  <1>6. CASE RecordRescore(p)
    <2> DEFINE snapshot == [procs[p].seen.snapshot EXCEPT !.stale = FALSE,
                                                          !.version = procs[p].rows.version]
               row == UpdateTelemetryWatch(jobs[JobOf(p)], procs[p].seen, snapshot)
    <2>1. snapshot \in Snapshot
      BY <1>0, SnapshotsTyped
    <2>2. row \in JobRow /\ row.kind = jobs[JobOf(p)].kind /\ row.status = jobs[JobOf(p)].status
      BY <1>0, <2>1, WatchRow
    <2>3. /\ WriteJob(p, row) /\ Become(p, "returned") /\ At(p, "record")
          /\ UNCHANGED <<results, stops, trace, age>> /\ invocations' \in [Job -> Nat]
      BY <1>0, <1>6 DEF RecordRescore, ExecTypeOK
    <2>4. jobs[JobOf(p)].kind \in Publishes => results[JobOf(p)].status # "none"
      BY <2>3 DEF Working, ReturnHasResult
    <2>5. /\ procs' \in [Proc -> Process] /\ Others(p) /\ procs'[p].job = JobOf(p)
          /\ procs'[p].pc = "returned" /\ procs'[p].run = procs[p].run
      BY <1>0, <2>3, LabelSet DEF Label, Others, JobOf
    <2> HIDE DEF row
    <2>. QED
      BY <1>0, <2>2, <2>3, <2>4, <2>5, QuietStepKeeps DEF Published
  <1>7. QED
    BY <1>1, <1>2, <1>4, <1>5, <1>6

\* Every step of execute_dataset_run, execute_rescore and
\* execute_deferred_telemetry_score, or an exception out of them.
LEMMA ExecStepKeeps ==
    ASSUME NEW p \in Proc, Working(p), ExecStep(p) \/ Raise(p)
    PROVE  StepKeeps(p)
  BY DatasetRunKeeps, DeferredRunKeeps, HydrateKeeps DEF ExecStep

-----------------------------------------------------------------------------
(* What a step of a job's life leaves true *)

\* A created job stays created and a published result stays published.
LEMMA LifeMonotone ==
    ASSUME NEW j \in Job, Lifecycle!LifeStep(j)
    PROVE  /\ jobs[j].status # "absent"
                => jobs'[j].status # "absent" /\ jobs'[j].kind = jobs[j].kind
           /\ results[j].status # "none" => results'[j].status # "none"
           /\ jobs[j].status = "cancelled" => jobs'[j].status = "cancelled"
  BY DEF Lifecycle!LifeStep, Lifecycle!Create, Lifecycle!Proceed, Lifecycle!PublishPart,
         Lifecycle!PublishWhole, Lifecycle!Settle, Lifecycle!Keep, Lifecycle!Open,
         Lifecycle!Settled

\* An executor that does not move stays consistent while others write the tables.
LEMMA OtherStaysConsistent ==
    ASSUME NEW q \in Proc, procs'[q] = procs[q], \A j \in Job : Lifecycle!LifeStep(j),
           ExecutorAttendsJob(q), ReturnHasResult(q)
    PROVE  ExecutorAttendsJob(q)' /\ ReturnHasResult(q)'
  BY LifeMonotone DEF ExecutorAttendsJob, ReturnHasResult, At, JobOf, Published

\* All executors stay consistent when the one that moves ends up consistent.
LEMMA StaysConsistent ==
    ASSUME ExecutorsConsistent, \A j \in Job : Lifecycle!LifeStep(j),
           NEW p \in Proc, Others(p),
           \/ procs'[p] = procs[p]
           \/ procs'[p].pc = "idle"
           \/ ExecutorAttendsJob(p)' /\ ReturnHasResult(p)'
    PROVE  ExecutorsConsistent'
  <1>1. SUFFICES ASSUME NEW q \in Proc, ~At(q, "idle")'
                 PROVE  ExecutorAttendsJob(q)' /\ ReturnHasResult(q)'
    BY DEF ExecutorsConsistent
  <1>2. CASE procs'[q] = procs[q]
    <2>1. ExecutorAttendsJob(q) /\ ReturnHasResult(q)
      BY <1>1, <1>2 DEF ExecutorsConsistent, At
    <2>. QED
      BY <1>2, <2>1, OtherStaysConsistent
  <1>3. CASE procs'[q] # procs[q]
    <2>1. q = p
      BY <1>3 DEF Others
    <2>2. procs'[p].pc # "idle"
      BY <1>1, <2>1 DEF At
    <2>3. ExecutorAttendsJob(p)' /\ ReturnHasResult(p)'
      BY <1>3, <2>1, <2>2
    <2>. QED
      BY <2>1, <2>3 DEF ExecutorAttendsJob, ReturnHasResult, At, JobOf, Published
  <1>4. QED
    BY <1>2, <1>3

-----------------------------------------------------------------------------
(* What a step of an executor leaves alone *)

\* How a step of an executor may move its job's row
RowMoves(old, new, seen) ==
    /\ new \in JobRow /\ new.kind = old.kind
    /\ \/ new.status = old.status
       \/ old.status \in Active /\ new.status \in {"awaiting_trace", "completed"}
    /\ new.submitted => old.submitted \/ seen.submitted

\* What a step of an executor leaves alone
Frame(p) ==
    /\ \A j \in Job \ {JobOf(p)} : /\ jobs'[j] = jobs[j] /\ results'[j] = results[j]
                                   /\ invocations'[j] = invocations[j]
    /\ UNCHANGED <<stops, trace, age>>
    /\ procs'[p].job = procs[p].job /\ procs'[p].mode = procs[p].mode
    /\ procs'[p].seen = procs[p].seen
    /\ RowMoves(jobs[JobOf(p)], jobs'[JobOf(p)], procs[p].seen)

\* Every write of the telemetry snapshot moves the row in this way.
LEMMA RowsMove ==
    ASSUME NEW row \in JobRow, NEW seen \in JobRow, NEW snapshot \in Snapshot
    PROVE  /\ RowMoves(row, row, seen)
           /\ RowMoves(row, ParkRunJob(row, seen, snapshot), seen)
           /\ RowMoves(row, ParkRunJob(row, row, snapshot), seen)
           /\ RowMoves(row, UpdateTelemetryWatch(row, seen, snapshot), seen)
           /\ RowMoves(row, UpdateTelemetryWatch(row, row, snapshot), seen)
           /\ RowMoves(row, DisableTelemetryWatch(row, seen), seen)
  <1>1. ASSUME NEW other \in JobRow
        PROVE  /\ ParkRunJob(row, other, snapshot).submitted => row.submitted \/ other.submitted
               /\ UpdateTelemetryWatch(row, other, snapshot).submitted => other.submitted
               /\ DisableTelemetryWatch(row, other).submitted => other.submitted
    BY DEF ParkRunJob, UpdateTelemetryWatch, DisableTelemetryWatch, JobRow
  <1>2. ASSUME NEW other \in JobRow, other.submitted => row.submitted \/ seen.submitted
        PROVE  /\ RowMoves(row, ParkRunJob(row, other, snapshot), seen)
               /\ RowMoves(row, UpdateTelemetryWatch(row, other, snapshot), seen)
               /\ RowMoves(row, DisableTelemetryWatch(row, other), seen)
    <2> DEFINE parked == ParkRunJob(row, other, snapshot)
               written == UpdateTelemetryWatch(row, other, snapshot)
               ended == DisableTelemetryWatch(row, other)
    <2>1. /\ parked \in JobRow /\ parked.kind = row.kind
          /\ parked.status = IF row.status \in Active THEN "awaiting_trace" ELSE row.status
      BY ParkRow
    <2>2. written \in JobRow /\ written.kind = row.kind /\ written.status = row.status
      BY WatchRow
    <2>3. ended \in JobRow /\ ended.kind = row.kind /\ ended.status = row.status
      BY UnwatchRow
    <2>4. /\ parked.submitted => row.submitted \/ other.submitted
          /\ written.submitted => other.submitted
          /\ ended.submitted => other.submitted
      BY <1>1
    <2> HIDE DEF parked, written, ended
    <2>5. RowMoves(row, parked, seen) /\ RowMoves(row, written, seen) /\ RowMoves(row, ended, seen)
      BY <1>2, <2>1, <2>2, <2>3, <2>4 DEF RowMoves
    <2>. QED
      BY <2>5 DEF parked, written, ended
  <1>3. QED
    BY <1>2 DEF RowMoves

\* An executor moves only its own job, and of that only what RowMoves allows.
LEMMA ExecStepFrame ==
    ASSUME NEW p \in Proc, Working(p), ExecStep(p) \/ Raise(p)
    PROVE  Frame(p)
  <1>0. /\ ExecTypeOK /\ JobOf(p) \in Job /\ jobs[JobOf(p)] \in JobRow
        /\ procs[p] \in Process /\ procs[p].seen \in JobRow /\ procs[p].rows \in Rows
        /\ jobs' \in [Job -> JobRow]
    BY ExecStepKeeps DEF Working, ExecutorAttendsJob, ExecTypeOK, Process, StepKeeps
  <1> DEFINE row == jobs[JobOf(p)]
             Stays == /\ procs'[p].job = procs[p].job /\ procs'[p].mode = procs[p].mode
                      /\ procs'[p].seen = procs[p].seen
  <1>1. ASSUME NEW label, Become(p, label) PROVE Stays
    BY <1>0, <1>1 DEF Become, ExecTypeOK, Process
  <1>2. RowMoves(row, row, procs[p].seen)
    BY <1>0 DEF RowMoves
  <1>3. ASSUME NEW new, WriteJob(p, new), RowMoves(row, new, procs[p].seen),
               UNCHANGED <<results, stops, trace, age, invocations>>, Stays
        PROVE  Frame(p)
    BY <1>0, <1>3 DEF Frame, WriteJob, ExecTypeOK
  <1>4. ASSUME UNCHANGED <<jobs, results, stops, trace, age>>, Stays,
               \A j \in Job \ {JobOf(p)} : invocations'[j] = invocations[j]
        PROVE  Frame(p)
    BY <1>0, <1>2, <1>4 DEF Frame
  <1>5. CASE \/ RunTask(p) \/ AssessReadiness(p) \/ InvokeTarget(p) \/ Raise(p)
    <2>1. /\ Stays
          /\ UNCHANGED <<jobs, results, stops, trace, age>>
          /\ \A j \in Job \ {JobOf(p)} : invocations'[j] = invocations[j]
      BY <1>0, <1>1, <1>5 DEF RunTask, AssessReadiness, InvokeTarget, Raise, ExecTypeOK
    <2>. QED
      BY <1>4, <2>1
  <1>6. CASE HydrateFirst(p)
    <2>1. Stays
      BY <1>0, <1>6 DEF HydrateFirst, ExecTypeOK, Process
    <2>. QED
      BY <1>4, <1>6, <2>1 DEF HydrateFirst
  <1>7. CASE ParkFirst(p)
    <2>1. [NoSnapshot EXCEPT !.held = TRUE] \in Snapshot
      BY DEF NoSnapshot, Snapshot
    <2>. QED
      BY <1>0, <1>1, <1>3, <1>7, <2>1, RowsMove DEF ParkFirst
  <1>8. CASE ActivateWatch(p)
    BY <1>0, <1>1, <1>3, <1>8, SnapshotsTyped, RowsMove DEF ActivateWatch
  <1>9. ASSUME NEW result, NEW replace, NEW refresh, NEW finalize, NEW next,
               SaveRun(p, result, replace, refresh, finalize, next)
        PROVE  Frame(p)
    <2>1. Stays
      BY <1>1, <1>9 DEF SaveRun
    <2>2. CASE UNCHANGED <<jobs, results>>
      BY <1>4, <1>9, <2>1, <2>2 DEF SaveRun
    <2>3. CASE /\ SaveCommits(row, results[JobOf(p)], replace, refresh, finalize)
               /\ results' = [results EXCEPT ![JobOf(p)] = result]
               /\ jobs' = [jobs EXCEPT ![JobOf(p)] = FinalizeRow(@, finalize)]
      <3>1. jobs'[JobOf(p)] = FinalizeRow(row, finalize)
        BY <1>0, <2>3 DEF ExecTypeOK
      <3>2. RowMoves(row, jobs'[JobOf(p)], procs[p].seen)
        BY <1>0, <2>3, <3>1 DEF RowMoves, FinalizeRow, SaveCommits, Writable, JobRow
      <3>. QED
        BY <1>0, <1>9, <2>1, <2>3, <3>2 DEF Frame, SaveRun, ExecTypeOK
    <2>. QED
      BY <1>9, <2>2, <2>3 DEF SaveRun
  <1>10. CASE PublishPartial(p) \/ Publish(p) \/ PublishDeferred(p)
    BY <1>9, <1>10 DEF PublishPartial, Publish, PublishDeferred
  <1>11. CASE StartDeferred(p)
    <2>1. Stays
      BY <1>0, <1>1, <1>11 DEF StartDeferred, ExecTypeOK, Process
    <2>. QED
      BY <1>0, <1>3, <1>4, <1>11, <2>1, SnapshotsTyped, RowsMove DEF StartDeferred
  <1>12. CASE Hydrate(p)
    <2>1. PICK rows \in HydratedRows(JobOf(p), IncompleteRows(p)) :
          \/ KeepWatch(p, rows)      \/ ParkAgain(p, rows)  \/ GiveUp(p, rows)
          \/ SkipUnchanged(p, rows)  \/ MarkStale(p, rows)
          \/ ActivateLateWatch(p, rows) \/ ScoreOnce(p, rows)
      BY <1>12 DEF Hydrate
    <2>2. rows \in Rows
      <3>1. IncompleteRows(p) \in SUBSET Rows
        BY DEF IncompleteRows, AwaitingRows, CaptureRows, Rows
      <3>. QED
        BY <1>0, <3>1, HydratedRowsTyped
    <2>3. Stays
      <3>1. CASE Rescoring(p, rows)
        BY <1>0, <3>1 DEF Rescoring, ExecTypeOK, Process
      <3>. QED
        BY <1>1, <2>1, <3>1 DEF KeepWatch, ParkAgain, GiveUp, SkipUnchanged, MarkStale,
                                ActivateLateWatch, ScoreOnce
    <2>4. UNCHANGED <<results, stops, trace, age, invocations>>
      BY <1>12 DEF Hydrate
    <2>5. CASE UNCHANGED jobs
      BY <1>4, <2>3, <2>4, <2>5
    <2>6. CASE \E snapshot \in Snapshot :
                 \/ WriteJob(p, UpdateTelemetryWatch(row, procs[p].seen, snapshot))
                 \/ WriteJob(p, ParkRunJob(row, procs[p].seen, snapshot))
                 \/ WriteJob(p, DisableTelemetryWatch(row, procs[p].seen))
      BY <1>0, <1>3, <2>3, <2>4, <2>6, RowsMove
    <2>7. UNCHANGED jobs \/ \E snapshot \in Snapshot :
                 \/ WriteJob(p, UpdateTelemetryWatch(row, procs[p].seen, snapshot))
                 \/ WriteJob(p, ParkRunJob(row, procs[p].seen, snapshot))
                 \/ WriteJob(p, DisableTelemetryWatch(row, procs[p].seen))
      BY <1>0, <2>1, <2>2, SnapshotsTyped
         DEF KeepWatch, ParkAgain, GiveUp, SkipUnchanged, MarkStale, ActivateLateWatch, ScoreOnce
    <2>. QED
      BY <2>5, <2>6, <2>7
  <1>13. CASE RecordRescore(p)
    BY <1>0, <1>1, <1>3, <1>13, SnapshotsTyped, RowsMove DEF RecordRescore
  <1>14. QED
    BY <1>5, <1>6, <1>7, <1>8, <1>10, <1>11, <1>12, <1>13 DEF ExecStep

-----------------------------------------------------------------------------
(* One invocation *)

\* The labels from which the target is still to be invoked
Asking == {"readiness", "invoke"}

\* A job that no executor has taken up
Untried(j) == jobs[j].status \in {"absent", "pending"}

\* No step of a job's life makes it untried again.
LEMMA TriedOnce ==
    ASSUME NEW j \in Job, Lifecycle!LifeStep(j), Untried(j)'
    PROVE  Untried(j)
  BY DEF Untried, Lifecycle!LifeStep, Lifecycle!Create, Lifecycle!Proceed,
         Lifecycle!PublishPart, Lifecycle!PublishWhole, Lifecycle!Settle, Lifecycle!Keep,
         Lifecycle!Open, Lifecycle!Settled

\* An executor invokes the target once on its way, and does not turn back to do so.
LEMMA ExecStepAsks ==
    ASSUME NEW p \in Proc, Working(p), ExecStep(p) \/ Raise(p)
    PROVE  \/ /\ invocations' = invocations
              /\ procs'[p].pc \in Asking => procs[p].pc \in Asking
           \/ /\ procs[p].pc = "invoke" /\ procs'[p].pc \notin Asking
              /\ invocations'[JobOf(p)] = invocations[JobOf(p)] + 1
  <1>0. ExecTypeOK /\ JobOf(p) \in Job
    BY DEF Working, ExecutorAttendsJob
  <1>1. ASSUME NEW label \in Label \ Asking, Become(p, label)
        PROVE  procs'[p].pc \notin Asking
    BY <1>0, <1>1, LabelSet
  <1>2. CASE InvokeTarget(p)
    <2>1. procs'[p].pc \notin Asking
      BY <1>1, <1>2 DEF InvokeTarget, Label, Asking
    <2>. QED
      BY <1>0, <1>2, <2>1 DEF InvokeTarget, ExecTypeOK, At
  <1>3. CASE AssessReadiness(p)
    BY <1>3 DEF AssessReadiness, Asking, At
  <1>4. CASE HydrateFirst(p)
    <2>1. procs'[p].pc \in {"park", "watch", "publish"}
      BY <1>0, <1>4 DEF HydrateFirst, ExecTypeOK, Process
    <2>. QED
      BY <1>4, <2>1 DEF HydrateFirst, Asking
  <1>5. CASE StartDeferred(p)
    <2>1. Become(p, "returned") \/ procs'[p].pc = "hydrate"
      BY <1>0, <1>5 DEF StartDeferred, ExecTypeOK, Process
    <2>. QED
      BY <1>1, <1>5, <2>1 DEF StartDeferred, Asking, Label
  <1>6. CASE Hydrate(p)
    <2>1. PICK rows : \/ KeepWatch(p, rows)      \/ ParkAgain(p, rows)  \/ GiveUp(p, rows)
                      \/ SkipUnchanged(p, rows)  \/ MarkStale(p, rows)
                      \/ ActivateLateWatch(p, rows) \/ ScoreOnce(p, rows)
      BY <1>6 DEF Hydrate
    <2>2. ASSUME Rescoring(p, rows) PROVE procs'[p].pc = "publish_deferred"
      BY <1>0, <2>2 DEF Rescoring, ExecTypeOK, Process
    <2>3. procs'[p].pc \notin Asking
      BY <1>1, <2>1, <2>2 DEF KeepWatch, ParkAgain, GiveUp, SkipUnchanged, MarkStale,
                              ActivateLateWatch, ScoreOnce, Asking, Label
    <2>. QED
      BY <1>6, <2>3 DEF Hydrate
  <1>7. ASSUME NEW result, NEW replace, NEW refresh, NEW finalize, NEW next \in Label \ Asking,
               SaveRun(p, result, replace, refresh, finalize, next)
        PROVE  invocations' = invocations /\ procs'[p].pc \notin Asking
    <2>1. "stopped" \in Label \ Asking /\ "raised" \in Label \ Asking
      BY DEF Label, Asking
    <2>. QED
      BY <1>1, <1>7, <2>1 DEF SaveRun
  <1>8. CASE PublishPartial(p) \/ Publish(p) \/ PublishDeferred(p)
    <2>1. {"parked", "returned", "record"} \subseteq Label \ Asking
      BY DEF Label, Asking
    <2>. QED
      BY <1>7, <1>8, <2>1 DEF PublishPartial, Publish, PublishDeferred
  <1>9. CASE RunTask(p) \/ ParkFirst(p) \/ ActivateWatch(p) \/ RecordRescore(p) \/ Raise(p)
    <2>1. {"returned", "publish_partial", "publish", "raised"} \subseteq Label \ Asking
      BY DEF Label, Asking
    <2>. QED
      BY <1>1, <1>9, <2>1 DEF RunTask, ParkFirst, ActivateWatch, RecordRescore, Raise
  <1>10. QED
    BY <1>2, <1>3, <1>4, <1>5, <1>6, <1>8, <1>9 DEF ExecStep

-----------------------------------------------------------------------------
(* No job is orphaned *)

\* A job whose executor has parked it, found it stopped, or took it up after it was
\* parked or completed is not marked running.
Attends(p) ==
    \/ procs[p].mode \in {"deferred", "watch"}
    \/ procs[p].pc \in {"publish_partial", "parked", "stopped"}
    => jobs[JobOf(p)].status # "running"

\* No step of an executor marks its job running, nor lets go of one that is.
LEMMA ExecStepAttends ==
    ASSUME NEW p \in Proc, Working(p), ExecStep(p) \/ Raise(p), Attends(p)
    PROVE  Attends(p)'
  <1>0. /\ ExecTypeOK /\ JobOf(p) \in Job /\ jobs[JobOf(p)] \in JobRow
        /\ procs[p] \in Process /\ procs[p].seen \in JobRow
    BY DEF Working, ExecutorAttendsJob, ExecTypeOK, Process
  <1>1. /\ JobOf(p)' = JobOf(p) /\ procs'[p].mode = procs[p].mode
        /\ jobs'[JobOf(p)].status = "running" => jobs[JobOf(p)].status = "running"
    BY ExecStepFrame DEF Frame, RowMoves, JobOf
  <1>2. ASSUME procs'[p].pc \in {"publish_partial", "parked", "stopped"}
        PROVE  jobs'[JobOf(p)].status # "running"
    <2>0. ASSUME NEW label \in Label \ {"publish_partial", "parked", "stopped"}, Become(p, label)
          PROVE  FALSE
      BY <1>0, <1>2, <2>0, LabelSet
    <2>1. ASSUME NEW seen \in JobRow, NEW snapshot \in Snapshot,
                 WriteJob(p, ParkRunJob(jobs[JobOf(p)], seen, snapshot))
          PROVE  jobs'[JobOf(p)].status # "running"
      <3> DEFINE row == ParkRunJob(jobs[JobOf(p)], seen, snapshot)
      <3>0. /\ row \in JobRow
            /\ row.status = IF jobs[JobOf(p)].status \in Active THEN "awaiting_trace"
                            ELSE jobs[JobOf(p)].status
        BY <1>0, ParkRow
      <3>1. row.status # "running"
        BY <3>0 DEF Active
      <3>2. WriteJob(p, row)
        BY <2>1
      <3> HIDE DEF row
      <3>. QED
        BY <1>0, <3>0, <3>1, <3>2, RowWritten
    <2>2. CASE ParkFirst(p)
      <3>1. [NoSnapshot EXCEPT !.held = TRUE] \in Snapshot
        BY DEF NoSnapshot, Snapshot
      <3>. QED
        BY <1>0, <2>1, <2>2, <3>1 DEF ParkFirst
    <2>3. CASE PublishPartial(p)
      BY <1>1, <2>3 DEF PublishPartial, Attends, At
    <2>4. ASSUME NEW result, NEW replace, NEW refresh, NEW finalize,
                 NEW next \in {"returned", "record"},
                 SaveRun(p, result, replace, refresh, finalize, next)
          PROVE  jobs'[JobOf(p)].status # "running"
      <3>1. ~Become(p, next)
        BY <2>0 DEF Label
      <3>2. ~Become(p, "raised")
        BY <2>0 DEF Label
      <3>3. SaveStopped(jobs[JobOf(p)], results[JobOf(p)], replace, refresh, finalize)
        BY <2>4, <3>1, <3>2 DEF SaveRun
      <3>. QED
        BY <1>1, <3>3 DEF SaveStopped, Writable, Active
    <2>5. CASE Publish(p) \/ PublishDeferred(p)
      BY <2>4, <2>5 DEF Publish, PublishDeferred
    <2>6. CASE Hydrate(p)
      <3>1. PICK rows \in HydratedRows(JobOf(p), IncompleteRows(p)) :
                        \/ KeepWatch(p, rows)      \/ ParkAgain(p, rows)  \/ GiveUp(p, rows)
                        \/ SkipUnchanged(p, rows)  \/ MarkStale(p, rows)
                        \/ ActivateLateWatch(p, rows) \/ ScoreOnce(p, rows)
        BY <2>6 DEF Hydrate
      <3>2. ~Become(p, "returned")
        BY <2>0 DEF Label
      <3>3. ~Rescoring(p, rows)
        BY <1>0, <1>2 DEF Rescoring, ExecTypeOK, Process
      <3>4. ParkAgain(p, rows)
        BY <3>1, <3>2, <3>3 DEF KeepWatch, GiveUp, SkipUnchanged, MarkStale, ActivateLateWatch,
                                ScoreOnce
      <3>5. [procs[p].seen.snapshot EXCEPT !.version = 0] \in Snapshot
        BY <1>0 DEF JobRow, Snapshot
      <3>. QED
        BY <1>0, <2>1, <3>4, <3>5 DEF ParkAgain
    <2>7. CASE StartDeferred(p)
      <3>1. Become(p, "returned") \/ procs'[p].pc = "hydrate"
        BY <1>0, <2>7 DEF StartDeferred, ExecTypeOK, Process
      <3>. QED
        BY <1>2, <2>0, <3>1 DEF Label
    <2>8. CASE HydrateFirst(p)
      <3>1. procs'[p].pc \in {"park", "watch", "publish"}
        BY <1>0, <2>8 DEF HydrateFirst, ExecTypeOK, Process
      <3>. QED
        BY <1>2, <3>1
    <2>9. CASE RunTask(p) \/ InvokeTarget(p) \/ ActivateWatch(p) \/ RecordRescore(p) \/ Raise(p)
               \/ AssessReadiness(p)
      <3>1. {"returned", "hydrate_first", "publish", "raised", "blocked", "invoke"}
              \subseteq Label \ {"publish_partial", "parked", "stopped"}
        BY DEF Label
      <3>. QED
        BY <2>0, <2>9, <3>1 DEF RunTask, InvokeTarget, ActivateWatch, RecordRescore, Raise,
                                AssessReadiness
    <2>. QED
      BY <2>2, <2>3, <2>5, <2>6, <2>7, <2>8, <2>9 DEF ExecStep
  <1>3. QED
    BY <1>1, <1>2 DEF Attends, JobOf

-----------------------------------------------------------------------------
(* Where a step of an executor leads, and what it publishes *)

\* The labels from which a telemetry snapshot is written that was read earlier
Late == {"deferred", "hydrate", "publish_deferred", "record"}

\* The labels that a step inside an execution may lead to
Onward == {"invoke", "hydrate_first", "park", "publish_partial", "watch", "publish", "hydrate",
           "publish_deferred", "record", "returned", "parked", "blocked", "stopped", "raised"}

\* A save ends in publication, in a stop that found the row settled, or in an exception.
LEMMA SaveEnds ==
    ASSUME ExecTypeOK, NEW p \in Proc, JobOf(p) \in Job, NEW result, NEW replace, NEW refresh,
           NEW finalize, NEW next, SaveRun(p, result, replace, refresh, finalize, next)
    PROVE  \/ /\ procs'[p].pc = next
              /\ SaveCommits(jobs[JobOf(p)], results[JobOf(p)], replace, refresh, finalize)
              /\ \A j \in Job \ {JobOf(p)} : results'[j] = results[j]
              /\ jobs'[JobOf(p)] = FinalizeRow(jobs[JobOf(p)], finalize)
           \/ /\ procs'[p].pc = "raised" /\ UNCHANGED <<jobs, results>>
           \/ /\ procs'[p].pc = "stopped" /\ UNCHANGED <<jobs, results>>
              /\ jobs[JobOf(p)].status \notin Active
  <1> DEFINE j == JobOf(p)
  <1>0. procs \in [Proc -> Process] /\ results \in [Job -> Result] /\ jobs \in [Job -> JobRow]
    BY DEF ExecTypeOK
  <1>1. ASSUME NEW label, Become(p, label) PROVE procs'[p].pc = label
    BY <1>0, <1>1 DEF Become, Process
  <1>2. CASE /\ SaveCommits(jobs[j], results[j], replace, refresh, finalize)
             /\ results' = [results EXCEPT ![j] = result]
             /\ jobs' = [jobs EXCEPT ![j] = FinalizeRow(@, finalize)]
             /\ Become(p, next)
    BY <1>0, <1>1, <1>2
  <1>3. CASE /\ SaveStopped(jobs[j], results[j], replace, refresh, finalize)
             /\ Become(p, "stopped") /\ UNCHANGED <<jobs, results>>
    BY <1>1, <1>3 DEF SaveStopped, Writable, Active
  <1>4. CASE Become(p, "raised") /\ UNCHANGED <<jobs, results>>
    BY <1>1, <1>4
  <1>. QED
    BY <1>2, <1>3, <1>4 DEF SaveRun

\* A step of an executor stays inside the execution; only a live evaluation goes on to
\* invoke, only a recheck to a later step of a recheck, and an executor that is told to
\* stop finds its job settled.
LEMMA ExecStepLeads ==
    ASSUME NEW p \in Proc, Working(p), ExecStep(p) \/ Raise(p)
    PROVE  /\ procs'[p].pc \in Onward
           /\ procs'[p].pc = "invoke" => jobs[JobOf(p)].kind = "live"
           /\ procs'[p].pc \in Late => procs[p].pc \in Late
           /\ procs'[p].pc = "stopped" => jobs'[JobOf(p)].status \notin Active
  <1>0. ExecTypeOK /\ JobOf(p) \in Job /\ procs \in [Proc -> Process]
    BY DEF Working, ExecutorAttendsJob, ExecTypeOK
  <1>1. ASSUME NEW label, Become(p, label) PROVE procs'[p].pc = label
    BY <1>0, <1>1 DEF Become, Process
  <1>2. CASE RunTask(p) \/ AssessReadiness(p) \/ InvokeTarget(p) \/ ParkFirst(p)
             \/ ActivateWatch(p) \/ RecordRescore(p) \/ Raise(p)
    BY <1>1, <1>2 DEF RunTask, AssessReadiness, InvokeTarget, ParkFirst, ActivateWatch,
                      RecordRescore, Raise, Onward, Late
  <1>3. CASE HydrateFirst(p)
    <2>1. procs'[p].pc \in {"park", "watch", "publish"}
      BY <1>0, <1>3 DEF HydrateFirst, Process
    <2>. QED
      BY <2>1 DEF Onward, Late
  <1>4. CASE PublishPartial(p) \/ Publish(p)
    <2>1. \/ procs'[p].pc \in {"parked", "returned", "raised"}
          \/ /\ procs'[p].pc = "stopped" /\ jobs' = jobs
             /\ jobs[JobOf(p)].status \notin Active
      BY <1>0, <1>4, SaveEnds DEF PublishPartial, Publish
    <2>. QED
      BY <2>1 DEF Onward, Late
  <1>5. CASE StartDeferred(p)
    <2>1. procs'[p].pc \in {"returned", "hydrate"} /\ procs[p].pc = "deferred"
      BY <1>0, <1>1, <1>5 DEF StartDeferred, Process, At
    <2>. QED
      BY <2>1 DEF Onward, Late
  <1>6. CASE Hydrate(p)
    <2>1. ASSUME NEW rows, Rescoring(p, rows) PROVE procs'[p].pc = "publish_deferred"
      BY <1>0, <2>1 DEF Rescoring, Process
    <2>2. procs'[p].pc \in {"returned", "parked", "publish_deferred"} /\ procs[p].pc = "hydrate"
      BY <1>1, <1>6, <2>1 DEF Hydrate, KeepWatch, ParkAgain, GiveUp, SkipUnchanged, MarkStale,
                              ActivateLateWatch, ScoreOnce, At
    <2>. QED
      BY <2>2 DEF Onward, Late
  <1>7. CASE PublishDeferred(p)
    <2>1. procs[p].pc = "publish_deferred"
      BY <1>7 DEF PublishDeferred, At
    <2>2. \/ procs'[p].pc \in {"record", "returned", "raised"}
          \/ /\ procs'[p].pc = "stopped" /\ jobs' = jobs
             /\ jobs[JobOf(p)].status \notin Active
      BY <1>0, <1>7, SaveEnds DEF PublishDeferred
    <2>. QED
      BY <2>1, <2>2 DEF Onward, Late
  <1>. QED
    BY <1>2, <1>3, <1>4, <1>5, <1>6, <1>7 DEF ExecStep

\* A step publishes for its own job only, while that is active or completed, and
\* replaces a complete result only as a recheck of a watched run.
LEMMA ExecStepPublishes ==
    ASSUME NEW p \in Proc, Working(p), ExecStep(p) \/ Raise(p), NEW j \in Job,
           results'[j] # results[j]
    PROVE  /\ j = JobOf(p) /\ procs'[p] # procs[p]
           /\ jobs[j].status \in Active \cup {"completed"}
           /\ results[j].status = "complete" => At(p, "publish_deferred") /\ Watching(p)
  <1>0. ExecTypeOK /\ JobOf(p) \in Job /\ procs \in [Proc -> Process]
    BY DEF Working, ExecutorAttendsJob, ExecTypeOK
  <1>1. PublishPartial(p) \/ Publish(p) \/ PublishDeferred(p)
    BY DEF ExecStep, Raise, RunTask, AssessReadiness, InvokeTarget, HydrateFirst, ParkFirst,
           ActivateWatch, StartDeferred, Hydrate, RecordRescore
  <1>2. CASE PublishPartial(p) \/ Publish(p)
    <2>1. /\ j = JobOf(p) /\ procs'[p].pc \in {"parked", "returned"}
          /\ \E finalize \in BOOLEAN : SaveCommits(jobs[j], results[j], FALSE, FALSE, finalize)
      BY <1>0, <1>2, SaveEnds DEF PublishPartial, Publish
    <2>2. jobs[j].status \in Active /\ results[j].status # "complete"
      BY <2>1 DEF SaveCommits, Writable, Replaceable
    <2>3. procs[p].pc \in {"publish_partial", "publish"}
      BY <1>2 DEF PublishPartial, Publish, At
    <2>. QED
      BY <2>1, <2>2, <2>3
  <1>3. CASE PublishDeferred(p)
    <2> DEFINE refresh == Published(p) /\ Watching(p)
    <2>1. /\ j = JobOf(p) /\ procs'[p].pc \in {"record", "returned"}
          /\ SaveCommits(jobs[j], results[j], Published(p), refresh, ~refresh)
      BY <1>0, <1>3, SaveEnds DEF PublishDeferred
    <2>2. /\ jobs[j].status \in Active \cup {"completed"}
          /\ results[j].status = "complete" => refresh
      BY <2>1 DEF SaveCommits, Writable, Replaceable
    <2>3. procs[p].pc = "publish_deferred" /\ At(p, "publish_deferred")
      BY <1>3 DEF PublishDeferred, At
    <2>. QED
      BY <2>1, <2>2, <2>3
  <1>. QED
    BY <1>1, <1>2, <1>3

\* Every telemetry write of a step holds the snapshot for good, so that a parked job
\* can be told from one whose target may still be at work.
LEMMA ExecStepHolds ==
    ASSUME NEW p \in Proc, Working(p), ExecStep(p) \/ Raise(p),
           procs[p].pc \in Late => procs[p].seen.snapshot.held
    PROVE  \/ jobs'[JobOf(p)].snapshot.held
           \/ /\ jobs'[JobOf(p)].snapshot = jobs[JobOf(p)].snapshot
              /\ jobs'[JobOf(p)].status \in {jobs[JobOf(p)].status, "completed"}
  <1>0. /\ ExecTypeOK /\ JobOf(p) \in Job /\ procs \in [Proc -> Process]
        /\ jobs[JobOf(p)] \in JobRow /\ procs[p].seen \in JobRow
        /\ procs[p].seen.snapshot \in Snapshot /\ procs[p].rows \in Rows
        /\ trace[JobOf(p)] \in Nat
    BY DEF Working, ExecutorAttendsJob, ExecTypeOK, Process, JobRow
  <1> DEFINE row == jobs[JobOf(p)]
             new == jobs'[JobOf(p)]
             Holds == \/ new.snapshot.held
                      \/ new.snapshot = row.snapshot /\ new.status \in {row.status, "completed"}
  <1>1. ASSUME NEW seen \in JobRow, NEW snapshot, snapshot.held,
               \/ WriteJob(p, UpdateTelemetryWatch(row, seen, snapshot))
               \/ WriteJob(p, ParkRunJob(row, seen, snapshot))
        PROVE  Holds
    <2>1. UpdateTelemetryWatch(row, seen, snapshot).snapshot = snapshot
      BY <1>0 DEF UpdateTelemetryWatch, JobRow
    <2>2. \/ ParkRunJob(row, seen, snapshot) = row
          \/ ParkRunJob(row, seen, snapshot).snapshot = snapshot
      BY <1>0 DEF ParkRunJob, JobRow
    <2>3. ASSUME NEW written, WriteJob(p, written) PROVE new = written
      BY <1>0, <2>3 DEF WriteJob, ExecTypeOK
    <2>. QED
      BY <1>1, <2>1, <2>2, <2>3
  <1>2. CASE UNCHANGED jobs
    BY <1>2
  <1>3. CASE ParkFirst(p)
    <2>1. [NoSnapshot EXCEPT !.held = TRUE].held
      BY DEF NoSnapshot
    <2>. QED
      BY <1>0, <1>1, <1>3, <2>1 DEF ParkFirst
  <1>4. CASE ActivateWatch(p)
    BY <1>0, <1>1, <1>4 DEF ActivateWatch
  <1>5. CASE PublishPartial(p) \/ Publish(p) \/ PublishDeferred(p)
    <2>1. new = row \/ \E finalize \in BOOLEAN : new = FinalizeRow(row, finalize)
      <3>1. CASE PublishDeferred(p)
        <4> DEFINE refresh == Published(p) /\ Watching(p)
        <4>1. new = row \/ new = FinalizeRow(row, ~refresh)
          BY <1>0, <3>1, SaveEnds DEF PublishDeferred
        <4>. QED
          BY <4>1 DEF FinalizeRow
      <3>2. CASE PublishPartial(p) \/ Publish(p)
        BY <1>0, <3>2, SaveEnds DEF PublishPartial, Publish
      <3>. QED
        BY <1>5, <3>1, <3>2
    <2>2. new = row \/ new = [row EXCEPT !.status = "completed"]
      BY <2>1 DEF FinalizeRow
    <2>. QED
      BY <1>0, <2>2 DEF JobRow
  <1>6. CASE RecordRescore(p)
    <2>1. procs[p].seen.snapshot.held
      BY <1>6 DEF RecordRescore, At, Late
    <2>2. [procs[p].seen.snapshot EXCEPT !.stale = FALSE, !.version = procs[p].rows.version].held
      BY <1>0, <2>1 DEF Snapshot
    <2>. QED
      BY <1>0, <1>1, <1>6, <2>2 DEF RecordRescore
  <1>7. ASSUME WriteJob(p, DisableTelemetryWatch(row, procs[p].seen)) PROVE Holds
    <2>1. [procs[p].seen.snapshot EXCEPT !.held = TRUE, !.watch = FALSE].held
      BY <1>0 DEF Snapshot
    <2>. QED
      BY <1>0, <1>1, <1>7, <2>1 DEF DisableTelemetryWatch
  <1>8. CASE StartDeferred(p)
    BY <1>2, <1>7, <1>8 DEF StartDeferred
  <1>9. CASE Hydrate(p)
    <2>1. PICK rows \in HydratedRows(JobOf(p), IncompleteRows(p)) :
          \/ KeepWatch(p, rows)      \/ ParkAgain(p, rows)  \/ GiveUp(p, rows)
          \/ SkipUnchanged(p, rows)  \/ MarkStale(p, rows)
          \/ ActivateLateWatch(p, rows) \/ ScoreOnce(p, rows)
      BY <1>9 DEF Hydrate
    <2>2. procs[p].seen.snapshot.held
      BY <1>9 DEF Hydrate, At, Late
    <2>3. /\ [procs[p].seen.snapshot EXCEPT !.version = 0].held
          /\ [procs[p].seen.snapshot EXCEPT !.stale = TRUE, !.version = rows.version].held
          /\ [procs[p].seen.snapshot EXCEPT !.watch = TRUE, !.version = rows.version].held
      BY <1>0, <2>2 DEF Snapshot
    <2>. QED
      BY <1>0, <1>1, <1>2, <1>7, <2>1, <2>2, <2>3
         DEF KeepWatch, ParkAgain, GiveUp, SkipUnchanged, MarkStale, ActivateLateWatch, ScoreOnce
  <1>. QED
    BY <1>2, <1>3, <1>4, <1>5, <1>6, <1>8, <1>9
       DEF ExecStep, Raise, RunTask, AssessReadiness, InvokeTarget, HydrateFirst
=============================================================================
