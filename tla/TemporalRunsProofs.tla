-------------------------- MODULE TemporalRunsProofs --------------------------
(* What holds of the durable runtime for every number of jobs, attempts,       *)
(* worker deaths and abandoned attempts.  The first invariant, IInv, needs no  *)
(* assumption: an attempt, abandoned or not, goes by what is true of a table   *)
(* that only advances.  The second, LoneInv, holds until Temporal abandons an  *)
(* attempt that still runs: at most one attempt of a job is at work, so what   *)
(* it read of its job is still true when it writes.                            *)
EXTENDS TemporalRuns, RunExecutionProofs

-----------------------------------------------------------------------------
(* The invariant, for any number of attempts, crashes and abandoned attempts *)

\* An attempt works for the job that it was scheduled for.
Home == \A p \in Proc : JobOf(p) = p[1]

\* Nothing is handed to Temporal before its row is committed.
CommittedFirst ==
    \A j \in Job : (\E s \in Submitter : submit[j][s] # "idle") \/ workflow[j].phase # "none"
                     => jobs[j].status # "absent"

\* Temporal waits for an attempt that it has scheduled, and the workflow runs.
Scheduled ==
    \A j \in Job : workflow[j].live
                     => workflow[j].phase = "running" /\ workflow[j].attempt # 0

\* A stamp on the row, or on a copy that an attempt may write back, tells the truth.
Stamped ==
    /\ \A j \in Job : /\ jobs[j].submitted => workflow[j].phase # "none"
                      /\ \A s \in Submitter : submit[j][s] = "stamping"
                                                => workflow[j].phase # "none"
    /\ \A p \in Proc : procs[p].seen.submitted => workflow[p[1]].phase # "none"

\* What an attempt goes by is true of the tables; an evaluation returns with a result,
\* unless the user has stopped it.
Attentive(p) ==
    LET j == p[1] IN
    /\ ~At(p, "idle") => jobs[j].status # "absent"
    /\ At(p, "task") => jobs[j].kind \notin Publishes
    /\ At(p, "claim") => procs[p].seen.kind = jobs[j].kind
    /\ At(p, "record") /\ jobs[j].kind \in Publishes => results[j].status # "none"
    /\ Published(p) => results[j].status # "none"
    /\ At(p, "returned") /\ jobs[j].kind \in Publishes
         => results[j].status # "none" \/ stops[j] = "stopped"

\* A row is only cancelled for a stop that was acknowledged.
CancelledWasStopped ==
    \A j \in Job : jobs[j].status = "cancelled" => stops[j] = "stopped"

IInv ==
    /\ TypeOK
    /\ Home
    /\ CommittedFirst
    /\ Scheduled
    /\ Stamped
    /\ \A p \in Proc : Attentive(p)
    /\ CancelledWasStopped
    /\ CompletedHasResult

-----------------------------------------------------------------------------
(* How the tables may move under those who rely on them *)

\* What no step takes back of a job, its result, its stop and its workflow.
Advances(j) ==
    /\ jobs[j].status # "absent"
         => jobs'[j].status # "absent" /\ jobs'[j].kind = jobs[j].kind
    /\ results[j].status # "none" => results'[j].status # "none"
    /\ stops[j] = "stopped" => stops'[j] = "stopped"
    /\ jobs'[j].status = "cancelled" => jobs[j].status = "cancelled" \/ stops'[j] = "stopped"
    /\ jobs'[j].status = "completed" /\ jobs'[j].kind \in Publishes =>
         \/ jobs[j].status = "completed" /\ jobs[j].kind = jobs'[j].kind
         \/ results'[j].status # "none" \/ stops'[j] = "stopped"
    /\ workflow[j].phase # "none" => workflow'[j].phase # "none"

\* The processors of the model are pairs of a job and the number of an attempt.
LEMMA ProcsArePairs ==
    /\ \A p \in Proc : p[1] \in Job /\ p[2] \in 1..MaxAttempts /\ p = <<p[1], p[2]>>
    /\ \A j \in Job, a \in 1..MaxAttempts : <<j, a>> \in Proc
  BY ProcAssumption

\* An attempt that does not move stays true of tables that only advance.
LEMMA StaysAttentive ==
    ASSUME NEW p \in Proc, procs'[p] = procs[p], Advances(p[1]), Attentive(p)
    PROVE  Attentive(p)'
  BY DEF Advances, Attentive, At, Published

\* The invariant is kept when the tables advance and whoever moves stays attentive.
LEMMA InvariantMoves ==
    ASSUME IInv, TypeOK', Home', CommittedFirst', Scheduled', Stamped',
           \A j \in Job : Advances(j),
           \A p \in Proc : procs'[p] = procs[p] \/ Attentive(p)'
    PROVE  IInv'
  <1>1. \A p \in Proc : Attentive(p)'
    BY StaysAttentive, ProcsArePairs DEF IInv
  <1>2. CancelledWasStopped'
    BY DEF IInv, CancelledWasStopped, Advances
  <1>3. CompletedHasResult'
    BY DEF IInv, CompletedHasResult, Advances
  <1>. QED
    BY <1>1, <1>2, <1>3 DEF IInv

\* A job that nothing happens to has advanced.
LEMMA SameAdvances ==
    ASSUME NEW j \in Job, jobs'[j] = jobs[j], results'[j] = results[j], stops'[j] = stops[j],
           workflow'[j].phase = workflow[j].phase
    PROVE  Advances(j)
  BY DEF Advances

-----------------------------------------------------------------------------
(* The steps of an attempt outside an execution *)

\* One attempt moves and writes its job's row, if any, and nothing else of the tables.
LEMMA AttemptMoves ==
    ASSUME IInv, NEW p \in Proc, NEW row \in JobRow, NEW me \in Process,
           WriteJob(p, row) \/ (row = jobs[p[1]] /\ UNCHANGED jobs),
           procs' = [procs EXCEPT ![p] = me],
           UNCHANGED <<results, stops, trace, age, invocations, workflow, submit>>,
           faults' \in [crashes: Nat, zombies: Nat],
           row.kind = jobs[p[1]].kind, row.status # "absent",
           row.submitted => workflow[p[1]].phase # "none",
           row.status = "cancelled" => jobs[p[1]].status = "cancelled",
           row.status = "completed" /\ row.kind \in Publishes =>
             \/ jobs[p[1]].status = "completed"
             \/ results[p[1]].status # "none" \/ stops[p[1]] = "stopped",
           me.job = p[1], me.seen.submitted => workflow[p[1]].phase # "none",
           me.run # "none" => results[p[1]].status # "none",
           me.pc \notin {"record", "idle"},
           me.pc = "task" => row.kind \notin Publishes,
           me.pc = "claim" => me.seen.kind = row.kind,
           me.pc = "returned" /\ row.kind \in Publishes
             => results[p[1]].status # "none" \/ stops[p[1]] = "stopped"
    PROVE  IInv'
  <1> DEFINE j == p[1]
  <1>0. /\ TypeOK /\ ExecTypeOK /\ Home /\ CommittedFirst /\ Scheduled /\ Stamped
        /\ j \in Job /\ JobOf(p) = j /\ jobs[j] \in JobRow
    BY ProcsArePairs DEF IInv, TypeOK, Home, ExecTypeOK
  <1>1. jobs' = [jobs EXCEPT ![j] = row]
    BY <1>0 DEF WriteJob, ExecTypeOK
  <1>2. \A i \in Job : jobs'[i] = IF i = j THEN row ELSE jobs[i]
    BY <1>0, <1>1 DEF ExecTypeOK
  <1>3. \A q \in Proc : procs'[q] = IF q = p THEN me ELSE procs[q]
    BY <1>0 DEF ExecTypeOK
  <1>4. TypeOK'
    BY <1>0, <1>1 DEF TypeOK, ExecTypeOK
  <1>5. Home'
    BY <1>0, <1>3 DEF Home, JobOf
  <1>6. CommittedFirst'
    BY <1>0, <1>2 DEF CommittedFirst
  <1>7. Scheduled' /\ Stamped'
    BY <1>0, <1>2, <1>3 DEF Scheduled, Stamped
  <1>8. ASSUME NEW i \in Job PROVE Advances(i)
    <2>1. CASE i = j
      BY <1>0, <1>2, <2>1 DEF Advances
    <2>2. CASE i # j
      BY <1>2, <2>2, SameAdvances
    <2>. QED
      BY <2>1, <2>2
  <1>9. Attentive(p)'
    BY <1>0, <1>2, <1>3 DEF Attentive, At, Published
  <1>. QED
    BY <1>3, <1>4, <1>5, <1>6, <1>7, <1>8, <1>9, InvariantMoves

\* A claim makes the row "running" again or leaves it, whatever it has become.
LEMMA ClaimRow ==
    ASSUME NEW row \in JobRow, NEW seen \in JobRow
    PROVE  LET new == ClaimRunJob(row, seen) IN
           /\ new \in JobRow /\ new.kind = row.kind /\ new.submitted = row.submitted
           /\ new.snapshot = row.snapshot
           /\ new.status \in {row.status, "running"}
  BY DEF ClaimRunJob, JobRow, JobStatus, Active

\* Settling a row changes nothing but its status.
LEMMA SettleKeepsRest ==
    ASSUME NEW row \in JobRow, NEW status \in Terminal
    PROVE  LET new == SettleRunJob(row, status) IN
           new.submitted = row.submitted /\ new.snapshot = row.snapshot
  BY DEF SettleRunJob, JobRow

\* Each step of an attempt outside an execution keeps the invariant.
LEMMA AttemptPreserves ==
    ASSUME IInv, NEW p \in Proc,
           \/ ReadRun(p) \/ ReadJob(p) \/ Claim(p) \/ AwaitJob(p) \/ AwaitRun(p)
           \/ FinishAttempt(p) \/ AttemptErrs(p) \/ WorkerDies(p) \/ Interrupt(p)
           \/ Raise(p) /\ UNCHANGED temporalVars
    PROVE  IInv'
  <1> DEFINE j == p[1]
             row == jobs[j]
  <1>0. /\ TypeOK /\ ExecTypeOK /\ Home /\ CommittedFirst /\ Stamped /\ Attentive(p)
        /\ CompletedHasResult
        /\ j \in Job /\ JobOf(p) = j /\ row \in JobRow
        /\ procs[p] \in Process /\ procs[p].job = j /\ procs[p].seen \in JobRow
        /\ faults \in [crashes: Nat, zombies: Nat]
    BY ProcsArePairs DEF IInv, TypeOK, Home, ExecTypeOK, Process, JobOf
  <1>1. /\ row.status = "completed" /\ row.kind \in Publishes
             => results[j].status # "none" \/ stops[j] = "stopped"
        /\ row.submitted => workflow[j].phase # "none"
        /\ procs[p].seen.submitted => workflow[j].phase # "none"
    BY <1>0 DEF CompletedHasResult, Stamped
  <1>2. UNCHANGED <<results, stops, trace, age, invocations, workflow, submit>>
    BY DEF ReadRun, ReadJob, Claim, AwaitJob, AwaitRun, FinishAttempt, AttemptErrs, WorkerDies,
           Interrupt, Raise, temporalVars
  <1>3. faults' \in [crashes: Nat, zombies: Nat]
    <2>1. CASE WorkerDies(p)
      BY <1>0, <2>1 DEF WorkerDies
    <2>2. CASE UNCHANGED faults
      BY <1>0, <2>2
    <2>. QED
      BY <2>1, <2>2 DEF ReadRun, ReadJob, Claim, AwaitJob, AwaitRun, FinishAttempt, AttemptErrs,
                        Interrupt, temporalVars
  <1>4. row.status # "absent"
    <2>1. ~At(p, "idle")
      BY DEF ReadRun, ReadJob, Claim, AwaitJob, AwaitRun, FinishAttempt, AttemptErrs, WorkerDies,
             Interrupt, Raise, Raising, Ended, At
    <2>. QED
      BY <1>0, <2>1 DEF Attentive
  <1> HIDE DEF row, j
  \* A fresh start at a label, with the row as it was or moved as the store allows
  <1>5. ASSUME NEW new \in JobRow, WriteJob(p, new) \/ (new = row /\ UNCHANGED jobs),
               new.kind = row.kind, new.submitted = row.submitted,
               \/ new.status = row.status
               \/ new.status \in {"running", "blocked", "failed"}
               \/ /\ new.status = "completed"
                  /\ row.kind \in Publishes
                       => results[j].status # "none" \/ stops[j] = "stopped",
               NEW label \in Label \ {"record", "idle"}, NEW seen \in JobRow,
               Fresh(p, label, seen),
               seen.submitted => workflow[j].phase # "none",
               label = "task" => row.kind \notin Publishes,
               label = "claim" => seen.kind = row.kind,
               label = "returned" /\ row.kind \in Publishes
                 => results[j].status # "none" \/ stops[j] = "stopped"
        PROVE  IInv'
    <2> DEFINE me == [Idle EXCEPT !.job = j, !.pc = label, !.seen = seen]
    <2>0. me = [Idle EXCEPT !.job = j, !.pc = label, !.seen = seen]
      OBVIOUS
    <2>2. procs' = [procs EXCEPT ![p] = me]
      BY <1>5 DEF Fresh, j
    <2> HIDE DEF me
    <2>1. me \in Process /\ me.pc = label /\ me.job = j /\ me.seen = seen /\ me.run = "none"
      BY <1>0, <2>0, EmptyRows DEF Idle, Process
    <2>3. /\ new.status # "absent"
          /\ new.status = "cancelled" => row.status = "cancelled"
          /\ new.status = "completed" /\ new.kind \in Publishes
               => results[j].status # "none" \/ stops[j] = "stopped"
      BY <1>1, <1>4, <1>5
    <2>. QED
      BY <1>1, <1>2, <1>3, <1>5, <2>1, <2>2, <2>3, AttemptMoves DEF j, row
  <1>6. ASSUME NEW label \in Label \ {"record", "idle", "task", "claim"}, Become(p, label),
               UNCHANGED jobs,
               label = "returned" /\ row.kind \in Publishes
                 => results[j].status # "none" \/ stops[j] = "stopped"
        PROVE  IInv'
    <2> DEFINE me == [procs[p] EXCEPT !.pc = label]
    <2>1. /\ me \in Process /\ me.pc = label /\ me.job = j /\ me.seen = procs[p].seen
          /\ me.run = procs[p].run
      BY <1>0, <1>6 DEF Process
    <2>2. procs' = [procs EXCEPT ![p] = me]
      BY <1>6 DEF Become
    <2> HIDE DEF me
    <2>3. me.run # "none" => results[j].status # "none"
      BY <1>0, <2>1 DEF Attentive, Published, j
    <2>. QED
      BY <1>0, <1>1, <1>2, <1>3, <1>4, <1>6, <2>1, <2>2, <2>3, AttemptMoves DEF j, row
  <1>7. NoJobRow \in JobRow /\ ~NoJobRow.submitted
    BY EmptyRows DEF NoJobRow
  <1>8. ASSUME NEW label \in Label \ {"record", "idle", "task", "claim", "returned"},
               End(p, label), NEW status \in {"completed", "blocked", "failed"},
               WriteJob(p, SettleRunJob(row, status)),
               status = "completed" /\ row.kind \in Publishes
                 => results[j].status # "none" \/ stops[j] = "stopped"
        PROVE  IInv'
    <2> DEFINE new == SettleRunJob(row, status)
    <2>1. /\ new \in JobRow /\ new.kind = row.kind /\ new.submitted = row.submitted
          /\ new.status \in {row.status, status}
      <3>1. row \in JobRow /\ status \in Terminal
        BY <1>0 DEF Terminal
      <3>2. new \in JobRow /\ new.kind = row.kind /\ new.status \in {row.status, status}
        BY <3>1, SettleRow
      <3>3. new.submitted = row.submitted
        BY <3>1, SettleKeepsRest
      <3>. QED
        BY <3>2, <3>3
    <2>2. WriteJob(p, new)
      BY <1>8
    <2> HIDE DEF new
    <2>. QED
      BY <1>5, <1>7, <1>8, <2>1, <2>2 DEF End
  <1>9. ASSUME NEW label \in Label \ {"record", "idle", "task", "claim", "returned"},
               End(p, label), UNCHANGED jobs
        PROVE  IInv'
    BY <1>0, <1>5, <1>7, <1>9 DEF End
  <1>10. {"succeeded", "errored", "refused", "lost", "read_job", "raised", "returned", "deferred",
          "claim", "await", "await_run", "task", "readiness", "publish"}
           \subseteq Label \ {"record", "idle"}
    BY DEF Label
  <1>11. CASE ReadRun(p)
    <2>1. CASE /\ results[j].status = "complete"
               /\ WriteJob(p, CompleteRunJob(row)) /\ End(p, "succeeded")
      BY <1>8, <1>10, <2>1 DEF CompleteRunJob
    <2>2. CASE Become(p, "read_job") /\ UNCHANGED jobs
      BY <1>6, <1>10, <2>2
    <2>. QED
      BY <1>0, <1>11, <2>1, <2>2 DEF ReadRun, row
  <1>12. CASE ReadJob(p)
    <2>1. CASE WriteJob(p, FailRunJob(row)) /\ End(p, "refused")
      BY <1>8, <1>10, <2>1 DEF FailRunJob
    <2>2. CASE Fresh(p, "claim", row) /\ UNCHANGED jobs
      BY <1>0, <1>1, <1>5, <1>10, <2>2
    <2>3. CASE (End(p, "succeeded") \/ End(p, "errored")) /\ UNCHANGED jobs
      BY <1>9, <1>10, <2>3
    <2>. QED
      BY <1>0, <1>12, <2>1, <2>2, <2>3 DEF ReadJob, row
  <1>13. CASE Claim(p)
    <2> DEFINE seen == procs[p].seen
               new == ClaimRunJob(row, seen)
               label == IF Resumable(seen) THEN "await" ELSE EntryPoint(seen.kind)
    <2>1. /\ new \in JobRow /\ new.kind = row.kind /\ new.submitted = row.submitted
          /\ new.status \in {row.status, "running"}
      BY <1>0, ClaimRow
    <2>2. WriteJob(p, new) /\ Fresh(p, label, NoJobRow) /\ At(p, "claim")
      BY <1>0, <1>13 DEF Claim, row
    <2>3. seen.kind = row.kind
      BY <1>0, <2>2 DEF Attentive, row, j
    <2>4. label \in {"await", "readiness", "publish", "task"}
          /\ (label = "task" => seen.kind \notin Publishes)
      BY <1>0 DEF EntryPoint, EvalKind, Publishes, JobRow, JobKind
    <2> HIDE DEF new, label, seen
    <2>. QED
      BY <1>5, <1>7, <1>10, <2>1, <2>2, <2>3, <2>4
  <1>14. CASE AwaitJob(p)
    <2>1. CASE row.status = "cancelled" /\ Fresh(p, "returned", NoJobRow)
      <3>1. stops[j] = "stopped"
        BY <1>0, <2>1 DEF IInv, CancelledWasStopped, row
      <3>. QED
        BY <1>0, <1>5, <1>7, <1>10, <1>14, <2>1, <3>1 DEF AwaitJob
    <2>2. CASE Fresh(p, "await_run", row)
      BY <1>0, <1>1, <1>5, <1>10, <1>14, <2>2 DEF AwaitJob
    <2>. QED
      BY <1>0, <1>14, <2>1, <2>2 DEF AwaitJob, row
  <1>15. CASE AwaitRun(p)
    BY <1>0, <1>6, <1>10, <1>15 DEF AwaitRun
  <1>16. CASE FinishAttempt(p)
    <2>1. CASE At(p, "returned") /\ WriteJob(p, CompleteRunJob(row)) /\ End(p, "succeeded")
      <3>1. row.kind \in Publishes => results[j].status # "none" \/ stops[j] = "stopped"
        BY <1>0, <2>1 DEF Attentive, row, j
      <3>. QED
        BY <1>8, <1>10, <2>1, <3>1 DEF CompleteRunJob
    <2>2. CASE WriteJob(p, BlockRunJob(row)) /\ End(p, "succeeded")
      BY <1>8, <1>10, <2>2 DEF BlockRunJob
    <2>3. CASE UNCHANGED jobs /\ (End(p, "succeeded") \/ End(p, "errored"))
      BY <1>9, <1>10, <2>3
    <2>. QED
      BY <1>0, <1>16, <2>1, <2>2, <2>3 DEF FinishAttempt, row
  <1>17. CASE AttemptErrs(p) \/ WorkerDies(p) \/ Interrupt(p)
    BY <1>9, <1>10, <1>17 DEF AttemptErrs, WorkerDies, Interrupt
  <1>18. CASE Raise(p)
    BY <1>6, <1>10, <1>18 DEF Raise
  <1>. QED
    BY <1>11, <1>12, <1>13, <1>14, <1>15, <1>16, <1>17, <1>18

-----------------------------------------------------------------------------
(* The steps inside an execution *)

\* An attempt that executes is working in the sense of RunExecution.
LEMMA AttemptWorks ==
    ASSUME IInv, NEW p \in Proc, ExecStep(p)
    PROVE  Working(p) /\ ~At(p, "returned")
  <1>1. /\ procs[p].pc \notin {"idle", "returned"}
        /\ ~At(p, "returned")
    BY DEF ExecStep, RunTask, AssessReadiness, InvokeTarget, HydrateFirst, ParkFirst,
           ActivateWatch, PublishPartial, Publish, StartDeferred, Hydrate, PublishDeferred,
           RecordRescore, At
  <1>2. ExecTypeOK /\ Attentive(p) /\ p[1] \in Job /\ JobOf(p) = p[1]
    BY ProcsArePairs DEF IInv, TypeOK, Home
  <1>. QED
    BY <1>1, <1>2 DEF Attentive, Working, ExecutorAttendsJob, ReturnHasResult, At

\* A job that completes in a step of its life has its result.
LEMMA CompletesWithResult ==
    ASSUME NEW j \in Job, Lifecycle!LifeStep(j)
    PROVE  jobs'[j].status = "completed" /\ jobs'[j].kind \in Publishes
             => jobs[j].status = "completed" \/ results'[j].status # "none"
  BY DEF Lifecycle!LifeStep, Lifecycle!Create, Lifecycle!Proceed,
         Lifecycle!PublishPart, Lifecycle!PublishWhole, Lifecycle!Settle, Lifecycle!Keep,
         Lifecycle!Open, Lifecycle!Settled

\* Each step of the execution of a job keeps the invariant.
LEMMA ExecutionPreserves ==
    ASSUME IInv, NEW p \in Proc, ExecStep(p), UNCHANGED temporalVars
    PROVE  IInv'
  <1>0. /\ TypeOK /\ ExecTypeOK /\ Home /\ CommittedFirst /\ Scheduled /\ Stamped /\ Attentive(p)
        /\ p[1] \in Job /\ JobOf(p) = p[1] /\ UNCHANGED <<workflow, submit, faults>>
    BY ProcsArePairs DEF IInv, TypeOK, Home, temporalVars
  <1>1. StepKeeps(p) /\ Frame(p) /\ procs'[p].pc \in Onward
    BY AttemptWorks, ExecStepKeeps, ExecStepFrame, ExecStepLeads
  <1>2. TypeOK'
    BY <1>0, <1>1 DEF TypeOK, StepKeeps
  <1>3. Home'
    BY <1>0, <1>1 DEF Home, JobOf, StepKeeps, Others, Frame
  <1>4. ASSUME NEW j \in Job PROVE Advances(j)
    <2>1. Lifecycle!LifeStep(j) /\ stops' = stops
      BY <1>1 DEF StepKeeps, Frame
    <2>2. /\ jobs[j].status # "absent"
               => jobs'[j].status # "absent" /\ jobs'[j].kind = jobs[j].kind
          /\ results[j].status # "none" => results'[j].status # "none"
      BY <2>1, LifeMonotone
    <2>3. CASE j = p[1]
      <3>1. RowMoves(jobs[j], jobs'[j], procs[p].seen)
        BY <1>0, <1>1, <2>3 DEF Frame
      <3>2. jobs'[j].status = "cancelled" => jobs[j].status = "cancelled"
        BY <3>1 DEF RowMoves
      <3>3. jobs'[j].status = "completed" /\ jobs'[j].kind \in Publishes =>
               jobs[j].status = "completed" \/ results'[j].status # "none"
        BY <2>1, CompletesWithResult
      <3>4. jobs'[j].kind = jobs[j].kind
        BY <3>1 DEF RowMoves
      <3>. QED
        BY <1>0, <2>1, <2>2, <3>2, <3>3, <3>4 DEF Advances
    <2>4. CASE j # p[1]
      BY <1>0, <1>1, <2>4, SameAdvances DEF Frame
    <2>. QED
      BY <2>3, <2>4
  <1>5. CommittedFirst'
    BY <1>0, <1>4 DEF CommittedFirst, Advances
  <1>8. Scheduled'
    BY <1>0 DEF Scheduled
  <1>6. Stamped'
    <2>1. ASSUME NEW j \in Job, jobs'[j].submitted PROVE workflow[j].phase # "none"
      BY <1>0, <1>1, <2>1 DEF Stamped, Frame, RowMoves
    <2>2. ASSUME NEW q \in Proc, procs'[q].seen.submitted PROVE workflow[q[1]].phase # "none"
      BY <1>0, <1>1, <2>2 DEF Stamped, Frame, StepKeeps, Others
    <2>. QED
      BY <1>0, <2>1, <2>2 DEF Stamped
  <1>7. Attentive(p)'
    <2>1. JobOf(p)' = p[1]
      BY <1>0, <1>1 DEF Frame, JobOf
    <2>. QED
      BY <1>1, <2>1 DEF StepKeeps, ExecutorAttendsJob, ReturnHasResult, Attentive, At, Onward
  <1>. QED
    BY <1>1, <1>2, <1>3, <1>4, <1>5, <1>6, <1>7, <1>8, InvariantMoves DEF StepKeeps, Others

-----------------------------------------------------------------------------
(* The API, the submission and the server *)

\* The API, the archive and the passing of time keep the invariant.
LEMMA ApiPreserves ==
    ASSUME IInv, NEW j \in Job, ApiAndEnvironment(j)
    PROVE  IInv'
  <1>0. /\ TypeOK /\ ExecTypeOK /\ Home /\ CommittedFirst /\ Scheduled /\ Stamped
        /\ jobs[j] \in JobRow
    BY DEF IInv, TypeOK, ExecTypeOK
  <1>1. UNCHANGED <<results, procs, workflow, faults>>
    BY DEF ApiAndEnvironment, CreateAndSubmit, CreateRun, CancelCheck, CancelWrite, TraceLands,
           TimePasses, temporalVars
  <1>2. ASSUME NEW kind \in Kinds, CreateAndSubmit(j, kind) PROVE IInv'
    <2> DEFINE row == CreateRunJob(kind)
    <2>1. row \in JobRow /\ row.status = "pending" /\ ~row.submitted
      BY KindsAssumption DEF CreateRunJob, NoJobRow, JobRow, JobStatus, Active, JobKind,
                             Snapshot, NoSnapshot
    <2>2. /\ jobs[j].status = "absent" /\ jobs' = [jobs EXCEPT ![j] = row]
          /\ UNCHANGED <<stops, trace, age, invocations>>
          /\ submit' = [submit EXCEPT ![j]["request"] = "starting"]
      BY <1>2 DEF CreateAndSubmit, CreateRun, SubmitterBecomes
    <2> HIDE DEF row
    <2>3. \A i \in Job : jobs'[i] = IF i = j THEN row ELSE jobs[i]
      BY <1>0, <2>2 DEF ExecTypeOK
    <2>4. TypeOK'
      BY <1>0, <1>1, <2>1, <2>2 DEF TypeOK, ExecTypeOK, Submitter
    <2>5. \A i \in Job \ {j} : submit'[i] = submit[i]
      BY <1>0, <2>2 DEF TypeOK
    <2>6. \A s \in Submitter : submit'[j][s] \in {submit[j][s], "starting"}
      BY <1>0, <2>2 DEF TypeOK, Submitter
    <2>7. CommittedFirst'
      BY <1>0, <1>1, <2>1, <2>3, <2>5 DEF CommittedFirst
    <2>8. Stamped'
      BY <1>0, <1>1, <2>1, <2>3, <2>5, <2>6 DEF Stamped
    <2>9. ASSUME NEW i \in Job PROVE Advances(i)
      BY <1>1, <2>1, <2>2, <2>3 DEF Advances
    <2>. QED
      BY <1>0, <1>1, <2>4, <2>7, <2>8, <2>9, InvariantMoves DEF Home, JobOf, Scheduled
  <1>3. CASE CancelWrite(j) /\ UNCHANGED temporalVars
    <2> DEFINE row == CancelRunJob(jobs[j])
    <2>1. /\ row \in JobRow /\ row.kind = jobs[j].kind /\ row.submitted = jobs[j].submitted
          /\ row.status \in {jobs[j].status, "cancelled"}
          /\ jobs[j].status = "absent" => row.status = "absent"
      <3> DEFINE settled == SettleRunJob(jobs[j], "cancelled")
      <3>1. jobs[j] \in JobRow /\ "cancelled" \in Terminal
        BY <1>0 DEF Terminal
      <3>2. /\ settled \in JobRow /\ settled.kind = jobs[j].kind
            /\ settled.status = IF jobs[j].status \in Active THEN "cancelled"
                                                            ELSE jobs[j].status
        BY <3>1, SettleRow
      <3>3. settled.submitted = jobs[j].submitted
        BY <3>1, SettleKeepsRest
      <3>4. row \in {settled, jobs[j]}
        BY DEF CancelRunJob
      <3> HIDE DEF settled, row
      <3>. QED
        BY <1>0, <3>2, <3>3, <3>4 DEF Active
    <2>2. /\ jobs' = [jobs EXCEPT ![j] = row] /\ UNCHANGED <<trace, age, invocations, submit>>
          /\ stops[j] = "checked"
          /\ stops' = [stops EXCEPT ![j] = IF row.status = "cancelled" THEN "stopped" ELSE "none"]
      BY <1>3 DEF CancelWrite, temporalVars
    <2> HIDE DEF row
    <2>3. \A i \in Job : /\ jobs'[i] = IF i = j THEN row ELSE jobs[i]
                         /\ i # j => stops'[i] = stops[i]
      BY <1>0, <2>2 DEF ExecTypeOK
    <2>4. TypeOK'
      BY <1>0, <1>1, <2>1, <2>2 DEF TypeOK, ExecTypeOK
    <2>5. CommittedFirst'
      BY <1>0, <1>1, <2>1, <2>2, <2>3 DEF CommittedFirst
    <2>6. Stamped'
      BY <1>0, <1>1, <2>1, <2>2, <2>3 DEF Stamped
    <2>7. row.status = "cancelled" => stops'[j] = "stopped"
      BY <1>0, <2>2 DEF ExecTypeOK
    <2>8. ASSUME NEW i \in Job PROVE Advances(i)
      <3>1. CASE i = j
        BY <1>1, <2>1, <2>2, <2>3, <2>7, <3>1 DEF Advances
      <3>2. CASE i # j
        BY <1>1, <2>3, <3>2, SameAdvances
      <3>. QED
        BY <3>1, <3>2
    <2>. QED
      BY <1>0, <1>1, <2>4, <2>5, <2>6, <2>8, InvariantMoves DEF Home, JobOf, Scheduled
  <1>4. CASE (CancelCheck(j) \/ TraceLands(j) \/ TimePasses(j)) /\ UNCHANGED temporalVars
    <2>1. UNCHANGED <<jobs, submit>>
      BY <1>4 DEF CancelCheck, TraceLands, TimePasses, temporalVars
    <2>2. TypeOK'
      <3>1. CASE CancelCheck(j)
        BY <1>0, <1>1, <2>1, <3>1 DEF CancelCheck, TypeOK, ExecTypeOK
      <3>2. CASE TraceLands(j)
        BY <1>0, <1>1, <2>1, <3>2 DEF TraceLands, TypeOK, ExecTypeOK
      <3>3. CASE TimePasses(j)
        BY <1>0, <1>1, <2>1, <3>3 DEF TimePasses, TypeOK, ExecTypeOK
      <3>. QED
        BY <1>4, <3>1, <3>2, <3>3
    <2>3. ASSUME NEW i \in Job PROVE stops[i] = "stopped" => stops'[i] = "stopped"
      BY <1>0, <1>4 DEF CancelCheck, TraceLands, TimePasses, ExecTypeOK
    <2>4. \A i \in Job : Advances(i)
      BY <1>1, <2>1, <2>3 DEF Advances
    <2>. QED
      BY <1>0, <1>1, <2>1, <2>2, <2>4, InvariantMoves
         DEF Home, JobOf, CommittedFirst, Scheduled, Stamped
  <1>. QED
    BY <1>2, <1>3, <1>4 DEF ApiAndEnvironment

\* A submitter moves: what the other submitter, and those of other jobs, do stays.
LEMMA SubmitterMoves ==
    ASSUME TypeOK, NEW j \in Job, NEW s \in Submitter,
           NEW state \in {"idle", "starting", "stamping"}, SubmitterBecomes(j, s, state)
    PROVE  /\ submit' \in [Job -> [Submitter -> {"idle", "starting", "stamping"}]]
           /\ submit'[j][s] = state
           /\ \A i \in Job, t \in Submitter : i # j \/ t # s => submit'[i][t] = submit[i][t]
  BY DEF TypeOK, SubmitterBecomes

\* The way of a job to Temporal keeps the invariant.
LEMMA SubmissionPreserves ==
    ASSUME IInv, NEW j \in Job, Submission(j)
    PROVE  IInv'
  <1>0. /\ TypeOK /\ ExecTypeOK /\ Home /\ CommittedFirst /\ Scheduled /\ Stamped
        /\ jobs[j] \in JobRow
    BY DEF IInv, TypeOK, ExecTypeOK
  <1>1. UNCHANGED <<results, stops, trace, age, invocations, procs, faults>>
    BY DEF Submission, ReconcileRead, StartAccepted, StartUnknown, StartRefused, Stamp,
           StampFails, execVars
  <1> DEFINE Hands(s, state) ==
               /\ SubmitterBecomes(j, s, state)
               /\ UNCHANGED workflow \/ WorkflowOpens(j)
               /\ submit[j][s] # "idle" \/ jobs[j].status # "absent"
               /\ state = "stamping" => WorkflowOpens(j) \/ workflow[j].phase # "none"
               /\ \/ UNCHANGED jobs
                  \/ /\ submit[j][s] = "stamping"
                     /\ jobs' = [jobs EXCEPT ![j] = MarkRunJobSubmitted(@)]
  <1>a. \E s \in Submitter : \E state \in {"idle", "starting", "stamping"} : Hands(s, state)
    <2>1. CASE ReconcileRead(j)
      <3>1. Hands("reconciler", "starting")
        BY <2>1 DEF ReconcileRead, execVars
      <3>. QED
        BY <3>1 DEF Submitter
    <2>2. ASSUME NEW s \in Submitter,
                 StartAccepted(j, s) \/ StartUnknown(j, s) \/ StartRefused(j, s)
                   \/ Stamp(j, s) \/ StampFails(j, s)
          PROVE  Hands(s, "starting") \/ Hands(s, "idle") \/ Hands(s, "stamping")
      BY <2>2 DEF StartAccepted, StartUnknown, StartRefused, Stamp, StampFails, execVars
    <2> HIDE DEF Hands
    <2>. QED
      BY <2>1, <2>2 DEF Submission
  <1>2. PICK s \in Submitter, state \in {"idle", "starting", "stamping"} : Hands(s, state)
    BY <1>a
  <1>3. /\ submit' \in [Job -> [Submitter -> {"idle", "starting", "stamping"}]]
        /\ submit'[j][s] = state
        /\ \A i \in Job, t \in Submitter : i # j \/ t # s => submit'[i][t] = submit[i][t]
    BY <1>0, <1>2, SubmitterMoves
  <1>4. /\ workflow' \in [Job -> [phase: {"none", "running", "failing", "closed"},
                                  attempt: 0..MaxAttempts, live: BOOLEAN]]
        /\ \A i \in Job : workflow[i].phase # "none" => workflow'[i].phase # "none"
        /\ \A i \in Job \ {j} : workflow'[i] = workflow[i]
        /\ WorkflowOpens(j) => workflow'[j].phase # "none"
    <2>1. CASE WorkflowOpens(j)
      BY <1>0, <2>1 DEF WorkflowOpens, TypeOK
    <2>2. CASE UNCHANGED workflow /\ ~WorkflowOpens(j)
      BY <1>0, <2>2 DEF TypeOK
    <2>. QED
      BY <1>2, <2>1, <2>2
  <1>5. jobs[j].status # "absent"
    BY <1>0, <1>2 DEF CommittedFirst
  <1>6. /\ jobs' \in [Job -> JobRow] /\ \A i \in Job \ {j} : jobs'[i] = jobs[i]
        /\ jobs'[j].status = jobs[j].status /\ jobs'[j].kind = jobs[j].kind
        /\ jobs'[j].submitted => jobs[j].submitted \/ submit[j][s] = "stamping"
    <2>1. CASE UNCHANGED jobs
      BY <1>0, <2>1 DEF ExecTypeOK
    <2>2. CASE /\ submit[j][s] = "stamping"
               /\ jobs' = [jobs EXCEPT ![j] = MarkRunJobSubmitted(@)]
      <3>1. /\ MarkRunJobSubmitted(jobs[j]) \in JobRow
            /\ MarkRunJobSubmitted(jobs[j]).status = jobs[j].status
            /\ MarkRunJobSubmitted(jobs[j]).kind = jobs[j].kind
        BY <1>0 DEF MarkRunJobSubmitted, JobRow
      <3>. QED
        BY <1>0, <2>2, <3>1 DEF ExecTypeOK
    <2>. QED
      BY <1>2, <2>1, <2>2
  <1>7. TypeOK'
    BY <1>0, <1>1, <1>3, <1>4, <1>6 DEF TypeOK, ExecTypeOK
  <1>8. CommittedFirst'
    BY <1>0, <1>3, <1>4, <1>5, <1>6 DEF CommittedFirst
  <1>9. Stamped'
    <2>1. ASSUME NEW i \in Job, jobs'[i].submitted PROVE workflow'[i].phase # "none"
      BY <1>0, <1>4, <1>6, <2>1 DEF Stamped
    <2>2. ASSUME NEW i \in Job, NEW t \in Submitter, submit'[i][t] = "stamping"
          PROVE  workflow'[i].phase # "none"
      BY <1>0, <1>2, <1>3, <1>4, <2>2 DEF Stamped
    <2>3. ASSUME NEW q \in Proc, procs'[q].seen.submitted PROVE workflow'[q[1]].phase # "none"
      BY <1>0, <1>1, <1>4, <2>3, ProcsArePairs DEF Stamped
    <2>. QED
      BY <2>1, <2>2, <2>3 DEF Stamped
  <1>10. ASSUME NEW i \in Job PROVE Advances(i)
    BY <1>1, <1>4, <1>6 DEF Advances
  <1>11. Scheduled'
    <2>1. CASE WorkflowOpens(j)
      <3>1. workflow'[j].phase = "running" /\ workflow'[j].live = workflow[j].live
            /\ ~workflow[j].live
        BY <1>0, <2>1 DEF WorkflowOpens, TypeOK, Scheduled
      <3>. QED
        BY <1>0, <1>4, <3>1 DEF Scheduled
    <2>. QED
      BY <1>0, <1>2, <2>1 DEF Scheduled
  <1>. QED
    BY <1>0, <1>1, <1>7, <1>8, <1>9, <1>10, <1>11, InvariantMoves DEF Home, JobOf

\* What the server and the activity that records a failure do keeps the invariant.
LEMMA ServerPreserves ==
    ASSUME IInv, NEW j \in Job, Server(j)
    PROVE  IInv'
  <1>0. /\ TypeOK /\ ExecTypeOK /\ Home /\ CommittedFirst /\ Scheduled /\ Stamped
        /\ jobs[j] \in JobRow
    BY DEF IInv, TypeOK, ExecTypeOK
  <1>1. UNCHANGED <<results, stops, trace, age, invocations, submit>>
    BY DEF Server, ScheduleAttempt, AttemptEnds, HeartbeatTimeout, CancelWorkflow,
           FailAfterRetries, execVars
  <1> DEFINE flow == workflow[j]
             Flow == [phase: {"none", "running", "failing", "closed"},
                      attempt: 0..MaxAttempts, live: BOOLEAN]
  <1>2. workflow \in [Job -> Flow] /\ flow \in Flow
    BY <1>0 DEF TypeOK
  <1>3. flow.phase # "none"
    BY <1>0, <1>2
       DEF Server, ScheduleAttempt, AttemptEnds, HeartbeatTimeout, CancelWorkflow,
           FailAfterRetries, Current, Scheduled
  <1>4. jobs[j].status # "absent"
    BY <1>0, <1>3 DEF CommittedFirst
  \* The workflow's record moves, the workflow does not cease to exist
  <1>5. ASSUME NEW new \in Flow, workflow' = [workflow EXCEPT ![j] = new], new.phase # "none",
               new.live => new.phase = "running" /\ new.attempt # 0
        PROVE  /\ workflow' \in [Job -> Flow] /\ Scheduled'
               /\ \A i \in Job : workflow[i].phase # "none" => workflow'[i].phase # "none"
               /\ \A i \in Job \ {j} : workflow'[i] = workflow[i]
               /\ workflow'[j].phase # "none"
    BY <1>0, <1>2, <1>5 DEF Scheduled
  <1> DEFINE Moves == /\ workflow' \in [Job -> Flow] /\ Scheduled'
                      /\ \A i \in Job : workflow[i].phase # "none" => workflow'[i].phase # "none"
                      /\ \A i \in Job \ {j} : workflow'[i] = workflow[i]
                      /\ workflow'[j].phase # "none"
  <1>6. ASSUME NEW phase \in {"running", "failing", "closed"}, WorkflowBecomes(j, phase)
        PROVE  Moves
    <2> DEFINE new == [flow EXCEPT !.live = FALSE, !.phase = phase]
    <2>1. new \in Flow /\ new.phase # "none" /\ ~new.live
      BY <1>2
    <2>2. workflow' = [workflow EXCEPT ![j] = new]
      BY <1>2, <1>6 DEF WorkflowBecomes
    <2> HIDE DEF new
    <2>. QED
      BY <1>5, <2>1, <2>2
  <1>7. ASSUME Retry(j) PROVE Moves
    <2>1. WorkflowBecomes(j, "failing") \/ WorkflowBecomes(j, "running")
      BY <1>7 DEF Retry, WorkflowBecomes
    <2>. QED
      BY <1>6, <2>1
  <1> HIDE DEF Moves
  <1>8. ASSUME Moves, UNCHANGED <<jobs, procs>>, faults' \in [crashes: Nat, zombies: Nat]
        PROVE  IInv'
    <2>1. TypeOK'
      BY <1>0, <1>1, <1>8 DEF Moves, TypeOK, ExecTypeOK
    <2>2. CommittedFirst'
      BY <1>0, <1>1, <1>4, <1>8 DEF Moves, CommittedFirst
    <2>3. Stamped'
      BY <1>0, <1>1, <1>8, ProcsArePairs DEF Moves, Stamped
    <2>4. \A i \in Job : Advances(i)
      BY <1>1, <1>8 DEF Moves, Advances
    <2>. QED
      BY <1>0, <1>8, <2>1, <2>2, <2>3, <2>4, InvariantMoves DEF Home, JobOf, Moves
  <1>9. CASE AttemptEnds(j) \/ HeartbeatTimeout(j) \/ CancelWorkflow(j)
    <2>1. Moves
      BY <1>6, <1>7, <1>9 DEF AttemptEnds, HeartbeatTimeout, CancelWorkflow
    <2>2. UNCHANGED <<jobs, procs>>
      BY <1>9 DEF AttemptEnds, HeartbeatTimeout, CancelWorkflow, execVars
    <2>3. faults' \in [crashes: Nat, zombies: Nat]
      BY <1>0, <1>9 DEF AttemptEnds, HeartbeatTimeout, CancelWorkflow, TypeOK
    <2>. QED
      BY <1>8, <2>1, <2>2, <2>3
  <1>10. CASE FailAfterRetries(j)
    <2> DEFINE row == FailRunJob(jobs[j])
    <2>0. jobs[j] \in JobRow /\ "failed" \in Terminal
      BY <1>0 DEF Terminal
    <2>1. /\ row \in JobRow /\ row.kind = jobs[j].kind
          /\ row.status \in {jobs[j].status, "failed"}
      BY <2>0, SettleRow DEF FailRunJob
    <2>2. row.submitted = jobs[j].submitted
      BY <2>0, SettleKeepsRest DEF FailRunJob
    <2>3. Moves /\ UNCHANGED <<procs, faults>> /\ jobs' = [jobs EXCEPT ![j] = row]
      BY <1>6, <1>10 DEF FailAfterRetries
    <2> HIDE DEF row
    <2>4. \A i \in Job : jobs'[i] = IF i = j THEN row ELSE jobs[i]
      BY <1>0, <2>3 DEF ExecTypeOK
    <2>5. TypeOK'
      BY <1>0, <1>1, <2>1, <2>3 DEF Moves, TypeOK, ExecTypeOK
    <2>6. CommittedFirst'
      BY <1>0, <1>1, <1>4, <2>1, <2>3, <2>4 DEF Moves, CommittedFirst
    <2>7. Stamped'
      BY <1>0, <1>1, <2>2, <2>3, <2>4, ProcsArePairs DEF Moves, Stamped
    <2>8. \A i \in Job : Advances(i)
      BY <1>1, <1>4, <2>1, <2>3, <2>4 DEF Moves, Advances
    <2>. QED
      BY <1>0, <2>3, <2>5, <2>6, <2>7, <2>8, InvariantMoves DEF Home, JobOf, Moves
  <1>11. CASE ScheduleAttempt(j)
    <2> DEFINE a == flow.attempt + 1
               new == [flow EXCEPT !.attempt = a, !.live = TRUE]
    <2>0. a \in 1..MaxAttempts /\ flow.phase = "running"
      BY <1>2, <1>11, BoundsAssumption DEF ScheduleAttempt
    <2>1. new \in Flow /\ new.phase = "running" /\ new.attempt # 0
      <3>1. a \in 0..MaxAttempts /\ a # 0
        BY <2>0, BoundsAssumption
      <3> HIDE DEF a
      <3>. QED
        BY <1>2, <2>0, <3>1
    <2>2. /\ workflow' = [workflow EXCEPT ![j] = new]
          /\ procs' = [procs EXCEPT ![<<j, a>>].pc = "read_run"]
          /\ UNCHANGED <<jobs, faults>>
      BY <1>2, <1>11 DEF ScheduleAttempt
    <2> HIDE DEF new
    <2>3. Moves
      BY <1>5, <2>1, <2>2 DEF Moves
    <2>4. PICK p \in Proc : p = <<j, a>> /\ p[1] = j
      BY <2>0, ProcsArePairs
    <2> HIDE DEF a
    <2>5. /\ procs' \in [Proc -> Process] /\ procs'[p].pc = "read_run"
          /\ procs'[p].job = procs[p].job /\ procs'[p].seen = procs[p].seen
          /\ procs'[p].run = procs[p].run
          /\ \A q \in Proc \ {p} : procs'[q] = procs[q]
      <3>1. Become(p, "read_run") /\ "read_run" \in Label
        BY <2>2, <2>4 DEF Become, Label
      <3>. QED
        BY <1>0, <3>1, LabelSet
    <2>6. TypeOK'
      BY <1>0, <1>1, <2>2, <2>3, <2>5 DEF Moves, TypeOK, ExecTypeOK
    <2>7. CommittedFirst'
      BY <1>0, <1>1, <1>4, <2>2, <2>3 DEF Moves, CommittedFirst
    <2>8. Stamped'
      BY <1>0, <1>1, <2>2, <2>3, <2>5, ProcsArePairs DEF Moves, Stamped
    <2>9. Home'
      BY <1>0, <2>5 DEF Home, JobOf
    <2>10. \A i \in Job : Advances(i)
      BY <1>1, <2>2, <2>3 DEF Moves, Advances
    <2>11. Attentive(p)'
      BY <1>1, <1>4, <2>2, <2>4, <2>5 DEF IInv, Attentive, At, Published
    <2>. QED
      BY <2>3, <2>5, <2>6, <2>7, <2>8, <2>9, <2>10, <2>11, InvariantMoves DEF Moves
  <1>. QED
    BY <1>9, <1>10, <1>11 DEF Server

-----------------------------------------------------------------------------
(* Every step, and the theorems that hold for any number of faults *)

\* The invariant holds in the initial states.
LEMMA InitIInv == Init => IInv
  <1> SUFFICES ASSUME Init PROVE IInv
    OBVIOUS
  <1>1. /\ NoJobRow \in JobRow /\ NoResult \in Result /\ Idle \in Process
        /\ \A p \in Proc : p[1] \in Job
    BY EmptyRows, ProcsArePairs
  <1>2. ASSUME NEW p \in Proc
        PROVE  /\ procs[p] \in Process /\ procs[p].job = p[1] /\ procs[p].pc = "idle"
               /\ procs[p].seen = NoJobRow /\ procs[p].run = "none"
    BY <1>1 DEF Init, Process, Idle
  <1>3. ExecTypeOK
    BY <1>1, <1>2 DEF Init, ExecInit, ExecTypeOK
  <1>4. TypeOK
    BY <1>3, BoundsAssumption DEF Init, TypeOK
  <1>5. /\ \A j \in Job : /\ jobs[j] = NoJobRow /\ workflow[j].phase = "none" /\ ~workflow[j].live
                          /\ \A s \in Submitter : submit[j][s] = "idle"
        /\ NoJobRow.status = "absent" /\ ~NoJobRow.submitted
    BY DEF Init, ExecInit, NoJobRow
  <1>6. Home /\ CommittedFirst /\ Scheduled /\ Stamped /\ CancelledWasStopped /\ CompletedHasResult
    BY <1>2, <1>5 DEF Home, JobOf, CommittedFirst, Scheduled, Stamped, CancelledWasStopped,
                      CompletedHasResult
  <1>7. \A p \in Proc : Attentive(p)
    BY <1>2 DEF Attentive, At, Published
  <1>. QED
    BY <1>4, <1>6, <1>7 DEF IInv

\* Every step keeps the invariant.
LEMMA NextPreserves ==
    ASSUME IInv, [Next]_vars
    PROVE  IInv'
  <1>1. CASE UNCHANGED vars
    <2>1. /\ \A j \in Job : Advances(j)
          /\ UNCHANGED <<jobs, results, stops, trace, age, invocations, procs>>
          /\ UNCHANGED <<workflow, submit, faults>>
      BY <1>1, SameAdvances DEF vars
    <2>. QED
      BY <2>1, InvariantMoves
         DEF IInv, TypeOK, ExecTypeOK, Home, JobOf, CommittedFirst, Scheduled, Stamped
  <1>2. ASSUME NEW j \in Job, ApiAndEnvironment(j) \/ Submission(j) \/ Server(j) PROVE IInv'
    BY <1>2, ApiPreserves, SubmissionPreserves, ServerPreserves
  <1>3. ASSUME NEW p \in Proc, AttemptStep(p) \/ AttemptErrs(p) \/ WorkerDies(p) \/ Interrupt(p)
                                 \/ (Raise(p) /\ UNCHANGED temporalVars)
        PROVE  IInv'
    BY <1>3, AttemptPreserves, ExecutionPreserves DEF AttemptStep
  <1>. QED
    BY <1>1, <1>2, <1>3 DEF Next

\* The inductive invariant holds throughout: an attempt works for a committed job, what it
\* has read is still true of the tables, and no stamp is without its workflow.
THEOREM Invariance == Safety => []IInv
  BY InitIInv, NextPreserves, PTL DEF Safety

\* Type correctness of the durable runtime, for any number of jobs, attempts, worker
\* deaths and abandoned attempts.
THEOREM TypesCorrect == Safety => []TypeOK
  <1>1. IInv => TypeOK
    BY DEF IInv
  <1>. QED
    BY <1>1, Invariance, PTL

\* An evaluation that nobody stopped completes only with a published result, however many
\* attempts are abandoned while they still run and complete the job one after another
\* (complete_run_job, execute_deferred_telemetry_score).
THEOREM CompletionsHaveResults == Safety => []CompletedHasResult
  <1>1. IInv => CompletedHasResult
    BY DEF IInv
  <1>. QED
    BY <1>1, Invariance, PTL

\* Only a step inside an execution publishes, for the job of its attempt.
LEMMA Publishing ==
    ASSUME IInv, [Next]_vars, NEW j \in Job, results'[j] # results[j]
    PROVE  \E p \in Proc : Working(p) /\ ExecStep(p)
  <1>1. PICK p \in Proc : ExecStep(p)
    BY DEF Next, vars, ApiAndEnvironment, CreateAndSubmit, CreateRun, CancelCheck, CancelWrite,
           TraceLands, TimePasses, Submission, ReconcileRead, StartAccepted, StartUnknown,
           StartRefused, Stamp, StampFails, execVars, Server, ScheduleAttempt, AttemptEnds,
           HeartbeatTimeout, CancelWorkflow, FailAfterRetries, AttemptStep, ReadRun, ReadJob,
           Claim, AwaitJob, AwaitRun, FinishAttempt, AttemptErrs, WorkerDies, Interrupt, Raise
  <1>. QED
    BY <1>1, AttemptWorks

\* Nothing is published for a job that was stopped, failed or blocked, whichever abandoned
\* attempt still works on it: save_run tests the row under the lock it commits with.
THEOREM StoppedRunsStayUnpublished == Safety => NoPublicationAfterStop
  <1>1. ASSUME IInv, [Next]_vars
        PROVE  [\A j \in Job : jobs[j].status \in {"cancelled", "failed", "blocked"}
                                 => results'[j] = results[j]]_results
    <2>1. SUFFICES ASSUME NEW j \in Job, results'[j] # results[j]
                   PROVE  jobs[j].status \notin {"cancelled", "failed", "blocked"}
      OBVIOUS
    <2>2. PICK p \in Proc : Working(p) /\ ExecStep(p)
      BY <1>1, <2>1, Publishing
    <2>3. jobs[j].status \in Active \cup {"completed"}
      BY <2>1, <2>2, ExecStepPublishes
    <2>. QED
      BY <2>3 DEF Active
  <1>. QED
    BY <1>1, Invariance, PTL DEF Safety, NoPublicationAfterStop

\* Of several attempts that set out to finish one parked run the first to publish wins: a
\* complete result is replaced by a recheck of late evidence only.
THEOREM FirstPublicationWins == Safety => OnlyRecheckReplaces
  <1>1. ASSUME IInv, [Next]_vars
        PROVE  [\A j \in Job : results[j].status = "complete" /\ results'[j] # results[j] =>
                  \E p \in Proc : /\ JobOf(p) = j /\ At(p, "publish_deferred") /\ Watching(p)
                                  /\ procs'[p] # procs[p]]_results
    <2>1. SUFFICES ASSUME NEW j \in Job, results[j].status = "complete",
                          results'[j] # results[j]
                   PROVE  \E p \in Proc : /\ JobOf(p) = j /\ At(p, "publish_deferred")
                                          /\ Watching(p) /\ procs'[p] # procs[p]
      OBVIOUS
    <2>2. PICK p \in Proc : Working(p) /\ ExecStep(p)
      BY <1>1, <2>1, Publishing
    <2>. QED
      BY <2>1, <2>2, ExecStepPublishes
  <1>. QED
    BY <1>1, Invariance, PTL DEF Safety, OnlyRecheckReplaces

-----------------------------------------------------------------------------
(* The invariant when no attempt outlives its abandonment *)

\* An attempt that still runs is the last one scheduled, and Temporal waits for it
\* unless the user has stopped the job.
Lone(p) ==
    LET flow == workflow[p[1]] IN
    procs[p].pc \notin Ended =>
        /\ p[2] = flow.attempt
        /\ \/ flow.live /\ flow.phase = "running"
           \/ flow.phase \in {"failing", "closed"} /\ stops[p[1]] = "stopped"

\* What an attempt that runs alone knows of its job: it claims an active row, it asks a
\* target that nobody has asked, it writes back a snapshot that holds, and it succeeds
\* or is told to stop only when the job has settled.
KnowsJob(p) ==
    LET j == p[1]  me == procs[p] IN
    /\ me.pc = "claim" =>
         /\ stops[j] # "stopped" => jobs[j].status \in Active
         /\ me.seen.status = "running" => ~Untried(j)
         /\ me.seen.kind \in EvalKind /\ ~Resumable(me.seen) => invocations[j] = 0
    /\ me.pc \in Asking => invocations[j] = 0 /\ ~Untried(j)
    /\ me.pc = "invoke" => jobs[j].kind = "live"
    /\ me.pc \in Late => me.seen.snapshot.held
    /\ me.pc \in {"stopped", "succeeded"} /\ stops[j] # "stopped" => jobs[j].status \in Terminal

\* What the tables say of the one target call and of the workflow.
AccountedJob(j) ==
    /\ invocations[j] <= 1
    /\ jobs[j].kind # "live" \/ Untried(j) => invocations[j] = 0
    /\ jobs[j].status = "awaiting_trace" => jobs[j].snapshot.held
    /\ workflow[j].phase = "closed" /\ stops[j] # "stopped" => jobs[j].status \in Terminal

LoneInv ==
    /\ \A p \in Proc : Lone(p) /\ KnowsJob(p)
    /\ \A j \in Job : AccountedJob(j)

\* A step of a job's life, unless the user has stopped it
Lives(j) == stops[j] # "stopped" => Lifecycle!LifeStep(j)

\* A settled job that lives on keeps its outcome.
LEMMA StaysSettled ==
    ASSUME NEW j \in Job, Lives(j), stops[j] # "stopped", jobs[j].status \in Terminal
    PROVE  jobs'[j].status = jobs[j].status
  BY DEF Lives, Terminal, Lifecycle!LifeStep, Lifecycle!Create, Lifecycle!Proceed,
         Lifecycle!PublishPart, Lifecycle!PublishWhole, Lifecycle!Settle, Lifecycle!Keep,
         Lifecycle!Open, Lifecycle!Settled

\* A job of which neither the row nor the result moves lives on.
LEMMA SameLives ==
    ASSUME NEW j \in Job, jobs'[j] = jobs[j], results'[j] = results[j]
    PROVE  Lives(j)
  BY DEF Lives, Lifecycle!LifeStep, Lifecycle!Keep

\* An attempt of which nothing moves knows what it knew.
LEMMA KeepsKnowing ==
    ASSUME NEW p \in Proc, procs'[p] = procs[p], jobs'[p[1]] = jobs[p[1]],
           stops'[p[1]] = stops[p[1]], invocations'[p[1]] = invocations[p[1]], KnowsJob(p)
    PROVE  KnowsJob(p)'
  BY DEF KnowsJob, Untried

\* An attempt that has ended needs no more than that its job stays settled.
LEMMA EndedKnows ==
    ASSUME NEW p \in Proc, procs'[p] = procs[p], procs[p].pc \in Ended, KnowsJob(p),
           Lives(p[1]), stops[p[1]] = "stopped" => stops'[p[1]] = "stopped"
    PROVE  KnowsJob(p)' /\ Lone(p)'
  <1>1. p[1] \in Job
    BY ProcsArePairs
  <1>2. jobs[p[1]].status \in Terminal /\ stops'[p[1]] # "stopped"
          => jobs'[p[1]].status \in Terminal
    BY <1>1, StaysSettled
  <1>. QED
    BY <1>2 DEF KnowsJob, Lone, Ended, Asking, Late

\* The books of a job that a step leaves alone stay in order.
LEMMA KeepsAccounted ==
    ASSUME NEW j \in Job, AccountedJob(j), jobs'[j] = jobs[j], invocations'[j] = invocations[j],
           stops'[j] = stops[j], workflow'[j].phase = workflow[j].phase
    PROVE  AccountedJob(j)'
  BY DEF AccountedJob, Untried

\* When one attempt moves alone, only what it and its job have become is in question.
LEMMA LoneMoves ==
    ASSUME IInv, LoneInv, NEW p \in Proc, procs[p].pc \notin Ended,
           \A q \in Proc \ {p} : procs'[q] = procs[q],
           \A j \in Job \ {p[1]} : /\ jobs'[j] = jobs[j] /\ results'[j] = results[j]
                                    /\ invocations'[j] = invocations[j],
           UNCHANGED <<stops, workflow>>, Lives(p[1]),
           KnowsJob(p)', AccountedJob(p[1])'
    PROVE  LoneInv' /\ \A j \in Job : Lives(j)
  <1>1. ASSUME NEW j \in Job PROVE Lives(j) /\ AccountedJob(j)'
    <2>1. CASE j = p[1]
      BY <2>1
    <2>2. CASE j # p[1]
      BY <2>2, KeepsAccounted, SameLives DEF LoneInv
    <2>. QED
      BY <2>1, <2>2
  <1>2. Lone(p)'
    BY DEF LoneInv, Lone
  <1>3. ASSUME NEW q \in Proc \ {p} PROVE Lone(q)' /\ KnowsJob(q)'
    <2>1. q[1] \in Job
      BY ProcsArePairs
    <2>2. CASE procs[q].pc \in Ended
      BY <1>1, <2>1, <2>2, EndedKnows DEF LoneInv
    <2>3. CASE procs[q].pc \notin Ended
      <3>1. q[1] # p[1]
        BY <2>3, ProcsArePairs DEF LoneInv, Lone
      <3>. QED
        BY <2>1, <3>1, KeepsKnowing DEF LoneInv, Lone
    <2>. QED
      BY <2>2, <2>3
  <1>. QED
    BY <1>1, <1>2, <1>3 DEF LoneInv

-----------------------------------------------------------------------------
(* The steps of a lone attempt *)

\* Every step of an execution keeps the books of its job.
LEMMA LoneExecution ==
    ASSUME IInv, LoneInv, NEW p \in Proc, ExecStep(p), UNCHANGED temporalVars
    PROVE  LoneInv' /\ \A j \in Job : Lives(j)
  <1>0. /\ ExecTypeOK /\ JobOf(p) = p[1] /\ p[1] \in Job /\ KnowsJob(p) /\ AccountedJob(p[1])
        /\ Lone(p) /\ UNCHANGED <<workflow, submit, faults>> /\ jobs[p[1]] \in JobRow
        /\ Attentive(p)
    BY ProcsArePairs DEF IInv, TypeOK, ExecTypeOK, Home, LoneInv, temporalVars
  <1>1. Working(p) /\ StepKeeps(p) /\ Frame(p)
    BY AttemptWorks, ExecStepKeeps, ExecStepFrame
  <1> DEFINE j == p[1]
  <1>2. procs[p].pc \notin Ended /\ procs[p].pc # "idle"
    BY DEF ExecStep, RunTask, AssessReadiness, InvokeTarget, HydrateFirst, ParkFirst,
           ActivateWatch, PublishPartial, Publish, StartDeferred, Hydrate, PublishDeferred,
           RecordRescore, At, Ended
  <1>3. /\ procs'[p].pc \in Onward
        /\ procs'[p].pc = "invoke" => jobs[j].kind = "live"
        /\ procs'[p].pc \in Late => procs[p].pc \in Late
        /\ procs'[p].pc = "stopped" => jobs'[j].status \notin Active
    BY <1>0, <1>1, ExecStepLeads
  <1>4. \/ /\ invocations' = invocations
           /\ procs'[p].pc \in Asking => procs[p].pc \in Asking
        \/ /\ procs[p].pc = "invoke" /\ procs'[p].pc \notin Asking
           /\ invocations'[j] = invocations[j] + 1
    BY <1>0, <1>1, ExecStepAsks
  <1>5. procs[p].pc \in Late => procs[p].seen.snapshot.held
    BY <1>0 DEF KnowsJob
  <1>6. \/ jobs'[j].snapshot.held
        \/ /\ jobs'[j].snapshot = jobs[j].snapshot
           /\ jobs'[j].status \in {jobs[j].status, "completed"}
    BY <1>0, <1>1, <1>5, ExecStepHolds
  <1>7. /\ jobs'[j] \in JobRow /\ jobs'[j].kind = jobs[j].kind
        /\ \/ jobs'[j].status = jobs[j].status
           \/ jobs[j].status \in Active /\ jobs'[j].status \in {"awaiting_trace", "completed"}
        /\ procs'[p].seen = procs[p].seen /\ stops' = stops
        /\ \A i \in Job \ {j} : /\ jobs'[i] = jobs[i] /\ results'[i] = results[i]
                                /\ invocations'[i] = invocations[i]
    BY <1>0, <1>1 DEF Frame, RowMoves
  <1>8. Untried(j)' => Untried(j)
    BY <1>0, <1>1, TriedOnce DEF StepKeeps
  <1>9. jobs[j].status # "absent" /\ jobs'[j].status # "absent"
    BY <1>0, <1>2, <1>7 DEF Attentive, At, Active
  <1>10. Lives(j)
    BY <1>0, <1>1 DEF StepKeeps, Lives
  <1>11. KnowsJob(p)'
    <2>1. procs'[p].pc \notin {"claim", "succeeded"}
      BY <1>3 DEF Onward
    <2>2. procs'[p].pc = "stopped" => jobs'[j].status \in Terminal
      BY <1>3, <1>7, <1>9 DEF JobRow, JobStatus
    <2>3. procs'[p].pc \in Asking => invocations'[j] = 0 /\ ~Untried(j)'
      BY <1>0, <1>4, <1>8 DEF KnowsJob
    <2>. QED
      BY <1>3, <1>5, <1>7, <2>1, <2>2, <2>3 DEF KnowsJob
  <1>12. AccountedJob(j)'
    <2>1. invocations[j] \in Nat
      BY <1>0 DEF ExecTypeOK
    <2>2. /\ invocations'[j] <= 1
          /\ jobs'[j].kind # "live" \/ Untried(j)' => invocations'[j] = 0
      <3>1. CASE invocations' = invocations
        BY <1>0, <1>7, <1>8, <3>1 DEF AccountedJob
      <3>2. CASE procs[p].pc = "invoke" /\ invocations'[j] = invocations[j] + 1
        BY <1>0, <1>7, <1>8, <2>1, <3>2 DEF KnowsJob, Asking
      <3>. QED
        BY <1>4, <3>1, <3>2
    <2>3. jobs'[j].status = "awaiting_trace" => jobs'[j].snapshot.held
      BY <1>0, <1>6 DEF AccountedJob
    <2>4. workflow[j].phase = "closed" => stops[j] = "stopped"
      BY <1>0, <1>2 DEF Lone
    <2>. QED
      BY <1>0, <1>7, <2>2, <2>3, <2>4 DEF AccountedJob
  <1>. QED
    BY <1>0, <1>1, <1>2, <1>7, <1>10, <1>11, <1>12, LoneMoves DEF StepKeeps, Others

\* Every other step of a lone attempt keeps the books of its job.
LEMMA LoneAttempt ==
    ASSUME IInv, LoneInv, NEW p \in Proc,
           \/ ReadRun(p) \/ ReadJob(p) \/ Claim(p) \/ AwaitJob(p) \/ AwaitRun(p)
           \/ FinishAttempt(p) \/ AttemptErrs(p) \/ WorkerDies(p) \/ Interrupt(p)
           \/ Raise(p) /\ UNCHANGED temporalVars
    PROVE  LoneInv' /\ \A j \in Job : Lives(j)
  <1> DEFINE j == p[1]
             row == jobs[j]
             me == procs'[p]
  <1>0. /\ ExecTypeOK /\ JobOf(p) = j /\ j \in Job /\ KnowsJob(p) /\ AccountedJob(j)
        /\ Lone(p) /\ row \in JobRow /\ Attentive(p)
        /\ procs[p] \in Process /\ procs[p].seen \in JobRow
    BY ProcsArePairs DEF IInv, TypeOK, ExecTypeOK, Home, LoneInv, Process
  <1>1. UNCHANGED <<results, stops, invocations, workflow>>
    BY DEF ReadRun, ReadJob, Claim, AwaitJob, AwaitRun, FinishAttempt, AttemptErrs, WorkerDies,
           Interrupt, Raise, temporalVars
  <1>2. procs[p].pc \notin Ended /\ procs[p].pc # "idle"
    BY DEF ReadRun, ReadJob, Claim, AwaitJob, AwaitRun, FinishAttempt, AttemptErrs, WorkerDies,
           Interrupt, Raise, Raising, Ended, At
  <1>3. row.status # "absent"
    BY <1>0, <1>2 DEF Attentive, At
  <1>4. workflow[j].phase = "closed" => stops[j] = "stopped"
    BY <1>0, <1>2 DEF Lone
  \* The books after a row that the store moves and a label that asserts no more
  <1>5. ASSUME NEW new \in JobRow, WriteJob(p, new) \/ (new = row /\ UNCHANGED jobs),
               new.kind = row.kind,
               new.status = "awaiting_trace" => new.snapshot.held,
               new.status \in {"absent", "pending"} => Untried(j),
               stops[j] # "stopped" =>
                 \/ new.status = row.status
                 \/ row.status \in Active /\ new.status \in {"running", "blocked", "failed"}
                 \/ /\ row.status \in Active /\ new.status = "completed"
                    /\ row.kind \in Publishes => results[j].status # "none",
               \A q \in Proc \ {p} : procs'[q] = procs[q],
               jobs'[j] = new => KnowsJob(p)'
        PROVE  LoneInv' /\ \A i \in Job : Lives(i)
    <2>1. jobs'[j] = new /\ \A i \in Job \ {j} : jobs'[i] = jobs[i]
      BY <1>0, <1>5 DEF WriteJob, ExecTypeOK
    <2>2. Lives(j)
      <3>1. jobs' \in [Job -> JobRow] /\ results' \in [Job -> Result]
        BY <1>0, <1>1, <1>5 DEF WriteJob, ExecTypeOK
      <3>2. CASE stops[j] # "stopped"
        <4>1. Lifecycle!LifeStep(j)
          BY <1>0, <1>1, <1>5, <2>1, <3>1, <3>2, RowLives
        <4>. QED
          BY <4>1 DEF Lives
      <3>. QED
        BY <3>2 DEF Lives
    <2>3. AccountedJob(j)'
      BY <1>0, <1>1, <1>4, <1>5, <2>1 DEF AccountedJob, Untried
    <2>4. KnowsJob(p)'
      BY <1>5, <2>1
    <2>. QED
      BY <1>0, <1>1, <1>2, <1>5, <2>1, <2>2, <2>3, <2>4, LoneMoves
  <1>6. /\ row.status = "awaiting_trace" => row.snapshot.held
        /\ row.status \in {"absent", "pending"} => Untried(j)
    BY <1>0 DEF AccountedJob, Untried
  <1>7. ASSUME NEW label, NEW seen, Fresh(p, label, seen)
        PROVE  /\ me.pc = label /\ me.seen = seen
               /\ \A q \in Proc \ {p} : procs'[q] = procs[q]
    BY <1>0, <1>7 DEF Fresh, Idle, ExecTypeOK
  <1>8. ASSUME NEW label, Become(p, label)
        PROVE  /\ me.pc = label /\ me.seen = procs[p].seen
               /\ \A q \in Proc \ {p} : procs'[q] = procs[q]
    BY <1>0, <1>8 DEF Become, ExecTypeOK, Process
  \* The labels that assert nothing
  <1> DEFINE Plain == Label \ ({"claim", "stopped", "succeeded"} \cup Asking \cup Late)
  <1> HIDE DEF row, me, j
  <1>9. ASSUME UNCHANGED jobs, me.pc \in Plain, \A q \in Proc \ {p} : procs'[q] = procs[q]
        PROVE  LoneInv' /\ \A i \in Job : Lives(i)
    <2>1. KnowsJob(p)'
      BY <1>9 DEF KnowsJob, me, Asking
    <2>. QED
      BY <1>0, <1>5, <1>6, <1>9, <2>1
  <1>10. ASSUME NEW status \in {"completed", "blocked", "failed"},
                WriteJob(p, SettleRunJob(row, status)), NEW label \in {"succeeded", "refused"},
                End(p, label),
                stops[j] # "stopped" /\ status = "completed" /\ row.kind \in Publishes
                  => results[j].status # "none"
         PROVE  LoneInv' /\ \A i \in Job : Lives(i)
    <2> DEFINE new == SettleRunJob(row, status)
    <2>1. status \in Terminal
      BY DEF Terminal
    <2>2. /\ new \in JobRow /\ new.kind = row.kind
          /\ new.status = IF row.status \in Active THEN status ELSE row.status
      BY <1>0, <2>1, SettleRow
    <2>3. new.status \in Terminal
      BY <1>0, <1>3, <2>1, <2>2 DEF JobRow, JobStatus
    <2>4. WriteJob(p, new)
      BY <1>10
    <2> HIDE DEF new
    <2>5. /\ me.pc = label /\ \A q \in Proc \ {p} : procs'[q] = procs[q]
      BY <1>7, <1>10 DEF End
    <2>6. jobs'[j] = new => KnowsJob(p)'
      BY <2>3, <2>5 DEF KnowsJob, me, Asking, Late, j
    <2>7. new.status \notin {"awaiting_trace", "absent", "pending"}
      BY <2>3 DEF Terminal
    <2>. QED
      BY <1>5, <1>10, <2>2, <2>4, <2>5, <2>6, <2>7
  <1>11. ASSUME NEW label \in Plain, NEW seen, Fresh(p, label, seen), UNCHANGED jobs
         PROVE  LoneInv' /\ \A i \in Job : Lives(i)
    <2>1. me.pc \in Plain /\ \A q \in Proc \ {p} : procs'[q] = procs[q]
      BY <1>7, <1>11
    <2> HIDE DEF Plain
    <2>. QED
      BY <1>9, <1>11, <2>1
  <1>12. {"errored", "refused", "lost", "read_job", "raised", "returned", "await", "await_run",
          "task", "publish"} \subseteq Plain
    BY DEF Label, Asking, Late
  <1>13. CASE ReadRun(p)
    <2>1. CASE /\ results[j].status = "complete"
               /\ WriteJob(p, CompleteRunJob(row)) /\ End(p, "succeeded")
      BY <1>10, <2>1 DEF CompleteRunJob
    <2>2. CASE Become(p, "read_job") /\ UNCHANGED jobs
      BY <1>8, <1>9, <1>12, <2>2
    <2>. QED
      BY <1>0, <1>13, <2>1, <2>2 DEF ReadRun, row
  <1>14. CASE ReadJob(p)
    <2>1. CASE WriteJob(p, FailRunJob(row)) /\ End(p, "refused")
      BY <1>10, <2>1 DEF FailRunJob
    <2>2. CASE /\ ~Interrupted(row) /\ Claimable(row) /\ Fresh(p, "claim", row)
               /\ UNCHANGED jobs
      <3>1. /\ me.pc = "claim" /\ me.seen = row /\ jobs'[j] = row
            /\ \A q \in Proc \ {p} : procs'[q] = procs[q]
        BY <1>7, <2>2 DEF row
      <3>2. row.kind \in EvalKind /\ ~Resumable(row) => invocations[j] = 0
        BY <1>0, <1>3, <2>2
           DEF AccountedJob, Untried, Interrupted, Claimable, Resumable, Active, EvalKind, row
      <3>3. row.status = "running" => ~Untried(j)
        BY DEF Untried, row
      <3>4. KnowsJob(p)'
        BY <1>1, <2>2, <3>1, <3>2, <3>3 DEF KnowsJob, me, j, Claimable, Asking, Late, Untried, row
      <3>. QED
        BY <1>0, <1>5, <1>6, <2>2, <3>1, <3>4
    <2>3. CASE /\ UNCHANGED jobs /\ row.status = "completed" /\ End(p, "succeeded")
      <3>1. /\ me.pc = "succeeded" /\ jobs'[j] = row
            /\ \A q \in Proc \ {p} : procs'[q] = procs[q]
        BY <1>7, <2>3 DEF End, row
      <3>2. KnowsJob(p)'
        BY <2>3, <3>1 DEF KnowsJob, me, j, Terminal, Asking, Late
      <3>. QED
        BY <1>0, <1>5, <1>6, <2>3, <3>1, <3>2
    <2>4. CASE UNCHANGED jobs /\ End(p, "errored")
      BY <1>11, <1>12, <2>4 DEF End
    <2>. QED
      BY <1>0, <1>14, <2>1, <2>2, <2>3, <2>4 DEF ReadJob, row
  <1>15. CASE Claim(p)
    <2> DEFINE seen == procs[p].seen
               new == ClaimRunJob(row, seen)
               label == IF Resumable(seen) THEN "await" ELSE EntryPoint(seen.kind)
    <2>1. /\ new \in JobRow /\ new.kind = row.kind
          /\ new.status \in {row.status, "running"}
          /\ new = row \/ new.status = "running"
          /\ seen.status # "running" => new.status = "running"
      <3>1. new \in JobRow /\ new.kind = row.kind /\ new.status \in {row.status, "running"}
        BY <1>0, ClaimRow
      <3>. QED
        BY <1>0, <3>1 DEF ClaimRunJob, JobRow
    <2>2. WriteJob(p, new) /\ Fresh(p, label, NoJobRow) /\ At(p, "claim")
      BY <1>0, <1>15 DEF Claim, row
    <2>3. /\ me.pc = label /\ \A q \in Proc \ {p} : procs'[q] = procs[q]
      BY <1>7, <2>2
    <2>4. /\ stops[j] # "stopped" => row.status \in Active
          /\ seen.status = "running" => ~Untried(j)
          /\ seen.kind \in EvalKind /\ ~Resumable(seen) => invocations[j] = 0
      BY <1>0, <2>2 DEF KnowsJob, At, row, j
    <2>5. /\ label \in {"await", "readiness", "publish", "task"}
          /\ label = "readiness" => invocations[j] = 0
      BY <1>0, <2>4 DEF EntryPoint, EvalKind, Publishes, JobRow, JobKind
    <2>6. new.status \notin {"absent", "pending"} \/ (Untried(j) /\ label # "readiness")
      <3>1. CASE seen.status = "running"
        BY <2>1, <2>4, <3>1 DEF Untried, row
      <3>2. CASE seen.status # "running"
        BY <2>1, <3>2
      <3>. QED
        BY <3>1, <3>2
    <2>7. /\ new.status = "awaiting_trace" => new.snapshot.held
          /\ stops[j] # "stopped" =>
               new.status = row.status \/ (row.status \in Active /\ new.status = "running")
      BY <1>6, <2>1, <2>4
    <2> HIDE DEF new, label, seen
    <2>8. jobs'[j] = new => KnowsJob(p)'
      BY <1>1, <2>3, <2>5, <2>6 DEF KnowsJob, me, j, Asking, Late, Untried
    <2>. QED
      BY <1>5, <2>1, <2>2, <2>3, <2>6, <2>7, <2>8
  <1>16. CASE AwaitJob(p)
    BY <1>0, <1>11, <1>12, <1>16 DEF AwaitJob
  <1>17. CASE AwaitRun(p)
    <2>1. CASE procs[p].seen.snapshot.held /\ Become(p, "deferred")
      <3>1. /\ me.pc = "deferred" /\ me.seen.snapshot.held /\ UNCHANGED jobs
            /\ \A q \in Proc \ {p} : procs'[q] = procs[q]
        BY <1>8, <1>17, <2>1 DEF AwaitRun
      <3>2. KnowsJob(p)'
        BY <3>1 DEF KnowsJob, me, Asking
      <3>. QED
        BY <1>0, <1>5, <1>6, <3>1, <3>2
    <2>2. CASE Become(p, "returned") \/ Become(p, "raised")
      BY <1>8, <1>9, <1>12, <1>17, <2>2 DEF AwaitRun
    <2>. QED
      BY <1>0, <1>17, <2>1, <2>2 DEF AwaitRun
  <1>18. CASE FinishAttempt(p)
    <2>1. CASE At(p, "returned") /\ WriteJob(p, CompleteRunJob(row)) /\ End(p, "succeeded")
      <3>1. stops[j] # "stopped" /\ row.kind \in Publishes => results[j].status # "none"
        BY <1>0, <2>1 DEF Attentive, row, j
      <3>. QED
        BY <1>10, <2>1, <3>1 DEF CompleteRunJob
    <2>4. CASE WriteJob(p, BlockRunJob(row)) /\ End(p, "succeeded")
      BY <1>10, <2>4 DEF BlockRunJob
    <2>2. CASE At(p, "stopped") /\ UNCHANGED jobs /\ End(p, "succeeded")
      <3>1. /\ me.pc = "succeeded" /\ jobs'[j] = row
            /\ \A q \in Proc \ {p} : procs'[q] = procs[q]
        BY <1>7, <2>2 DEF End, row
      <3>2. stops[j] # "stopped" => row.status \in Terminal
        BY <1>0, <2>2 DEF KnowsJob, At, row, j
      <3>3. KnowsJob(p)'
        BY <1>1, <3>1, <3>2 DEF KnowsJob, me, j, Asking, Late
      <3>. QED
        BY <1>0, <1>5, <1>6, <2>2, <3>1, <3>3
    <2>3. CASE UNCHANGED jobs /\ End(p, "errored")
      BY <1>11, <1>12, <2>3 DEF End
    <2>. QED
      BY <1>0, <1>18, <2>1, <2>2, <2>3, <2>4 DEF FinishAttempt, row
  <1>19. CASE AttemptErrs(p) \/ WorkerDies(p) \/ Interrupt(p)
    BY <1>11, <1>12, <1>19 DEF AttemptErrs, WorkerDies, Interrupt, End
  <1>20. CASE Raise(p)
    BY <1>8, <1>9, <1>12, <1>20 DEF Raise
  <1>. QED
    BY <1>13, <1>14, <1>15, <1>16, <1>17, <1>18, <1>19, <1>20

-----------------------------------------------------------------------------
(* The steps that are not an attempt's *)

\* When no attempt moves, and the tables of one job do, only what that job's attempts know
\* and the books of the job are in question.
LEMMA JobMoves ==
    ASSUME LoneInv, NEW j \in Job, UNCHANGED <<procs, results, invocations>>,
           \A i \in Job \ {j} : /\ jobs'[i] = jobs[i] /\ stops'[i] = stops[i]
                                /\ workflow'[i] = workflow[i],
           Lives(j), AccountedJob(j)',
           \A p \in Proc : p[1] = j => Lone(p)' /\ KnowsJob(p)'
    PROVE  LoneInv' /\ \A i \in Job : Lives(i)
  <1>1. ASSUME NEW i \in Job PROVE Lives(i) /\ AccountedJob(i)'
    <2>1. CASE i = j
      BY <2>1
    <2>2. CASE i # j
      BY <2>2, KeepsAccounted, SameLives DEF LoneInv
    <2>. QED
      BY <2>1, <2>2
  <1>2. ASSUME NEW p \in Proc PROVE Lone(p)' /\ KnowsJob(p)'
    <2>1. CASE p[1] = j
      BY <2>1
    <2>2. CASE p[1] # j
      BY <2>2, ProcsArePairs, KeepsKnowing DEF LoneInv, Lone
    <2>. QED
      BY <2>1, <2>2
  <1>. QED
    BY <1>1, <1>2 DEF LoneInv

\* The API, the archive and the passing of time keep the books.
LEMMA LoneApi ==
    ASSUME IInv, LoneInv, NEW j \in Job, ApiAndEnvironment(j)
    PROVE  LoneInv' /\ \A i \in Job : Lives(i)
  <1>0. /\ ExecTypeOK /\ AccountedJob(j) /\ jobs[j] \in JobRow
        /\ \A p \in Proc : KnowsJob(p) /\ Lone(p)
    BY DEF IInv, TypeOK, ExecTypeOK, LoneInv
  <1>1. UNCHANGED <<procs, workflow, results, invocations>>
    BY DEF ApiAndEnvironment, CreateAndSubmit, CreateRun, CancelCheck, CancelWrite, TraceLands,
           TimePasses, temporalVars
  <1>2. ASSUME NEW kind \in Kinds, CreateAndSubmit(j, kind)
        PROVE  LoneInv' /\ \A i \in Job : Lives(i)
    <2>1. /\ jobs[j].status = "absent" /\ jobs' = [jobs EXCEPT ![j] = CreateRunJob(kind)]
          /\ UNCHANGED stops
      BY <1>2 DEF CreateAndSubmit, CreateRun
    <2>2. /\ jobs'[j].status = "pending" /\ \A i \in Job \ {j} : jobs'[i] = jobs[i]
      BY <1>0, <2>1 DEF ExecTypeOK, CreateRunJob, NoJobRow
    <2>3. ASSUME NEW p \in Proc, p[1] = j PROVE KnowsJob(p)' /\ Lone(p)'
      <3>1. procs[p].pc = "idle"
        BY <2>1, <2>3 DEF IInv, Attentive, At
      <3>. QED
        BY <1>1, <3>1 DEF KnowsJob, Lone, Ended, Asking, Late
    <2>4. invocations[j] = 0 /\ workflow[j].phase = "none"
      BY <1>0, <2>1 DEF AccountedJob, Untried, IInv, CommittedFirst
    <2>5. AccountedJob(j)'
      BY <1>1, <2>2, <2>4 DEF AccountedJob
    <2>6. Lives(j)
      BY <1>1, <2>1, <2>2 DEF Lives, Lifecycle!LifeStep, Lifecycle!Create
    <2>. QED
      BY <1>1, <2>1, <2>2, <2>3, <2>5, <2>6, JobMoves
  <1>3. CASE CancelWrite(j) /\ UNCHANGED temporalVars
    <2> DEFINE row == CancelRunJob(jobs[j])
    <2>1. /\ row \in JobRow /\ row.kind = jobs[j].kind
          /\ row = jobs[j] \/ row.status = "cancelled"
          /\ row.status = "cancelled" => jobs[j].status \in Active \cup {"cancelled"}
          /\ row = jobs[j] \/ jobs[j].status \in Active
      <3> DEFINE settled == SettleRunJob(jobs[j], "cancelled")
      <3>1. jobs[j] \in JobRow /\ "cancelled" \in Terminal
        BY <1>0 DEF Terminal
      <3>2. settled \in JobRow /\ settled.kind = jobs[j].kind
        BY <3>1, SettleRow
      <3>3. /\ jobs[j].status \in Active => settled.status = "cancelled"
            /\ jobs[j].status \notin Active => settled = jobs[j]
        BY <3>1 DEF SettleRunJob, JobRow
      <3>4. row \in {settled, jobs[j]}
        BY DEF CancelRunJob
      <3> HIDE DEF settled, row
      <3>. QED
        BY <1>0, <3>2, <3>3, <3>4
    <2>2. /\ jobs' = [jobs EXCEPT ![j] = row] /\ stops[j] = "checked"
          /\ stops' = [stops EXCEPT ![j] = IF row.status = "cancelled" THEN "stopped" ELSE "none"]
      BY <1>3 DEF CancelWrite
    <2> HIDE DEF row
    <2>3. /\ jobs'[j] = row
          /\ row.status = "cancelled" => stops'[j] = "stopped"
          /\ stops'[j] # "stopped" => row = jobs[j]
          /\ \A i \in Job \ {j} : jobs'[i] = jobs[i] /\ stops'[i] = stops[i]
      BY <1>0, <2>1, <2>2 DEF ExecTypeOK
    <2>4. Untried(j)' => Untried(j)
      BY <2>1, <2>3 DEF Untried
    <2>5. AccountedJob(j)'
      <3>1. jobs'[j].status = "awaiting_trace" => jobs'[j].snapshot.held
        BY <1>0, <2>1, <2>3 DEF AccountedJob
      <3>. QED
        BY <1>0, <1>1, <2>1, <2>2, <2>3, <2>4, <3>1 DEF AccountedJob
    <2>6. ASSUME NEW p \in Proc, p[1] = j PROVE KnowsJob(p)' /\ Lone(p)'
      <3>1. Lone(p)'
        BY <1>0, <1>1, <2>2, <2>6 DEF Lone
      <3>2. KnowsJob(p)'
        BY <1>0, <1>1, <2>1, <2>2, <2>3, <2>4, <2>6 DEF KnowsJob
      <3>. QED
        BY <3>1, <3>2
    <2>7. Lives(j)
      <3>1. jobs' \in [Job -> JobRow] /\ results' \in [Job -> Result]
        BY <1>0, <1>1, <2>1, <2>2 DEF ExecTypeOK
      <3>. QED
        BY <1>0, <1>1, <2>1, <2>3, <3>1, RowLives DEF Lives
    <2>. QED
      BY <1>1, <2>3, <2>5, <2>6, <2>7, JobMoves
  <1>4. CASE (CancelCheck(j) \/ TraceLands(j) \/ TimePasses(j)) /\ UNCHANGED temporalVars
    <2>1. UNCHANGED jobs
      BY <1>4 DEF CancelCheck, TraceLands, TimePasses
    <2>2. /\ stops[j] = "stopped" <=> stops'[j] = "stopped"
          /\ \A i \in Job \ {j} : stops'[i] = stops[i]
      BY <1>0, <1>4 DEF CancelCheck, TraceLands, TimePasses, ExecTypeOK
    <2>3. AccountedJob(j)'
      BY <1>0, <1>1, <2>1, <2>2 DEF AccountedJob, Untried
    <2>4. ASSUME NEW p \in Proc, p[1] = j PROVE KnowsJob(p)' /\ Lone(p)'
      BY <1>0, <1>1, <2>1, <2>2, <2>4 DEF KnowsJob, Lone, Untried
    <2>5. Lives(j)
      BY <1>1, <2>1, SameLives
    <2>. QED
      BY <1>1, <2>1, <2>2, <2>3, <2>4, <2>5, JobMoves
  <1>. QED
    BY <1>2, <1>3, <1>4 DEF ApiAndEnvironment

\* The way of a job to Temporal keeps the books.
LEMMA LoneSubmission ==
    ASSUME IInv, LoneInv, NEW j \in Job, Submission(j)
    PROVE  LoneInv' /\ \A i \in Job : Lives(i)
  <1>0. /\ TypeOK /\ ExecTypeOK /\ AccountedJob(j) /\ jobs[j] \in JobRow /\ Scheduled
        /\ \A p \in Proc : KnowsJob(p) /\ Lone(p)
    BY DEF IInv, TypeOK, ExecTypeOK, LoneInv
  <1>1. UNCHANGED <<results, stops, invocations, procs>>
    BY DEF Submission, ReconcileRead, StartAccepted, StartUnknown, StartRefused, Stamp,
           StampFails, execVars
  <1>2. UNCHANGED workflow \/ WorkflowOpens(j)
    BY DEF Submission, ReconcileRead, StartAccepted, StartUnknown, StartRefused, Stamp,
           StampFails, execVars
  <1>3. UNCHANGED jobs \/ jobs' = [jobs EXCEPT ![j] = MarkRunJobSubmitted(@)]
    BY DEF Submission, ReconcileRead, StartAccepted, StartUnknown, StartRefused, Stamp,
           StampFails, execVars
  <1>4. /\ jobs'[j].status = jobs[j].status /\ jobs'[j].kind = jobs[j].kind
        /\ jobs'[j].snapshot = jobs[j].snapshot
        /\ \A i \in Job \ {j} : jobs'[i] = jobs[i]
    <2>1. LET new == MarkRunJobSubmitted(jobs[j]) IN
          /\ new.status = jobs[j].status /\ new.kind = jobs[j].kind
          /\ new.snapshot = jobs[j].snapshot
      BY <1>0 DEF MarkRunJobSubmitted, JobRow
    <2>. QED
      BY <1>0, <1>3, <2>1 DEF ExecTypeOK
  <1>5. /\ \A i \in Job \ {j} : workflow'[i] = workflow[i]
        /\ \/ workflow'[j] = workflow[j]
           \/ workflow[j].phase = "none" /\ workflow'[j].phase = "running"
    BY <1>0, <1>2 DEF WorkflowOpens, TypeOK
  <1>6. AccountedJob(j)'
    BY <1>0, <1>1, <1>4, <1>5 DEF AccountedJob, Untried
  <1>7. ASSUME NEW p \in Proc, p[1] = j PROVE KnowsJob(p)' /\ Lone(p)'
    <2>1. KnowsJob(p)'
      BY <1>0, <1>1, <1>4, <1>7 DEF KnowsJob, Untried
    <2>2. Lone(p)'
      <3>1. CASE workflow'[j] = workflow[j]
        BY <1>0, <1>1, <1>7, <3>1 DEF Lone
      <3>2. CASE workflow[j].phase = "none"
        <4>1. procs[p].pc \in Ended
          BY <1>0, <1>7, <3>2 DEF Lone
        <4>. QED
          BY <1>1, <4>1 DEF Lone
      <3>. QED
        BY <1>5, <3>1, <3>2
    <2>. QED
      BY <2>1, <2>2
  <1>8. Lives(j)
    BY <1>1, <1>4 DEF Lives, Lifecycle!LifeStep, Lifecycle!Keep
  <1>. QED
    BY <1>1, <1>4, <1>5, <1>6, <1>7, <1>8, JobMoves

\* What the server and the activity that records a failure do keeps the books, when no
\* running attempt is abandoned.
LEMMA LoneServer ==
    ASSUME IInv, LoneInv, faults'.zombies = 0, NEW j \in Job, Server(j)
    PROVE  LoneInv' /\ \A i \in Job : Lives(i)
  <1> DEFINE flow == workflow[j]
             Flow == [phase: {"none", "running", "failing", "closed"},
                      attempt: 0..MaxAttempts, live: BOOLEAN]
  <1>0. /\ TypeOK /\ ExecTypeOK /\ AccountedJob(j) /\ jobs[j] \in JobRow /\ Scheduled
        /\ workflow \in [Job -> Flow] /\ flow \in Flow /\ flow.attempt \in Nat
        /\ \A p \in Proc : KnowsJob(p) /\ Lone(p)
    BY BoundsAssumption DEF IInv, TypeOK, ExecTypeOK, LoneInv
  <1>1. UNCHANGED <<results, stops, invocations>>
    BY DEF Server, ScheduleAttempt, AttemptEnds, HeartbeatTimeout, CancelWorkflow,
           FailAfterRetries, execVars
  <1>2. ~HeartbeatTimeout(j)
    <2>1. faults \in [crashes: Nat, zombies: Nat] /\ faults.zombies + 1 # 0
      BY <1>0 DEF TypeOK
    <2>2. ASSUME HeartbeatTimeout(j) PROVE faults'.zombies = faults.zombies + 1
      BY <2>1, <2>2 DEF HeartbeatTimeout
    <2>. QED
      BY <2>1, <2>2
  <1>3. ASSUME NEW phase \in {"running", "failing", "closed"}, WorkflowBecomes(j, phase)
        PROVE  /\ workflow'[j].phase = phase /\ workflow'[j].attempt = flow.attempt
               /\ \A i \in Job \ {j} : workflow'[i] = workflow[i]
    BY <1>0, <1>3 DEF WorkflowBecomes
  <1>4. CASE AttemptEnds(j)
    <2>1. PICK label \in Ended, phase \in {"running", "failing", "closed"} :
            /\ Current(j, label) /\ WorkflowBecomes(j, phase)
            /\ phase = "closed" => label = "succeeded"
      <3>1. ASSUME Retry(j) PROVE WorkflowBecomes(j, "failing") \/ WorkflowBecomes(j, "running")
        BY <3>1 DEF Retry, WorkflowBecomes
      <3>. QED
        BY <1>4, <3>1 DEF AttemptEnds, Ended
    <2>2. UNCHANGED <<jobs, procs>>
      BY <1>4 DEF AttemptEnds, execVars
    <2>3. PICK p \in Proc : p = Attempt(j) /\ p[1] = j /\ p[2] = flow.attempt
      <3>1. flow.attempt \in 1..MaxAttempts
        BY <1>0, <2>1, BoundsAssumption DEF Current, Scheduled
      <3>. QED
        BY <3>1, ProcsArePairs DEF Attempt
    <2>4. procs[p].pc = label
      BY <2>1, <2>3 DEF Current, At
    <2>5. ASSUME NEW q \in Proc, q[1] = j PROVE KnowsJob(q)' /\ Lone(q)'
      <3>1. procs[q].pc \in Ended
        <4>1. CASE q = p
          BY <2>1, <2>4, <4>1
        <4>2. CASE q # p
          BY <1>0, <2>3, <2>5, <4>2, ProcsArePairs DEF Lone
        <4>. QED
          BY <4>1, <4>2
      <3>. QED
        BY <1>0, <1>1, <2>2, <3>1 DEF KnowsJob, Lone, Untried
    <2>6. AccountedJob(j)'
      <3>1. workflow'[j].phase = "closed" /\ stops[j] # "stopped" => jobs[j].status \in Terminal
        BY <1>0, <1>3, <2>1, <2>3, <2>4 DEF KnowsJob
      <3>. QED
        BY <1>0, <1>1, <2>2, <3>1 DEF AccountedJob, Untried
    <2>7. Lives(j)
      BY <1>1, <2>2, SameLives
    <2>. QED
      BY <1>1, <1>3, <2>1, <2>2, <2>5, <2>6, <2>7, JobMoves
  <1>5. CASE CancelWorkflow(j)
    <2>1. PICK phase \in {"failing", "closed"} : WorkflowBecomes(j, phase)
      BY <1>5 DEF CancelWorkflow
    <2>2. stops[j] = "stopped" /\ UNCHANGED <<jobs, procs>>
      BY <1>5 DEF CancelWorkflow, execVars
    <2>3. AccountedJob(j)'
      BY <1>0, <1>1, <2>2 DEF AccountedJob, Untried
    <2>4. ASSUME NEW p \in Proc, p[1] = j PROVE KnowsJob(p)' /\ Lone(p)'
      BY <1>0, <1>1, <1>3, <2>1, <2>2, <2>4 DEF KnowsJob, Lone, Untried
    <2>5. Lives(j)
      BY <1>1, <2>2, SameLives
    <2>. QED
      BY <1>1, <1>3, <2>1, <2>2, <2>3, <2>4, <2>5, JobMoves
  <1>6. CASE FailAfterRetries(j)
    <2> DEFINE row == FailRunJob(jobs[j])
    <2>0. jobs[j].status # "absent" /\ flow.phase = "failing"
      BY <1>6 DEF FailAfterRetries, IInv, CommittedFirst
    <2>1. /\ row \in JobRow /\ row.kind = jobs[j].kind
          /\ row.status = IF jobs[j].status \in Active THEN "failed" ELSE jobs[j].status
      <3>1. jobs[j] \in JobRow /\ "failed" \in Terminal
        BY <1>0 DEF Terminal
      <3>. QED
        BY <3>1, SettleRow DEF FailRunJob
    <2>2. row.status \in Terminal
      BY <1>0, <2>0, <2>1 DEF JobRow, JobStatus, Terminal
    <2>3. /\ jobs' = [jobs EXCEPT ![j] = row] /\ WorkflowBecomes(j, "closed") /\ UNCHANGED procs
      BY <1>6 DEF FailAfterRetries
    <2> HIDE DEF row
    <2>4. jobs'[j] = row /\ \A i \in Job \ {j} : jobs'[i] = jobs[i]
      BY <1>0, <2>3 DEF ExecTypeOK
    <2>5. workflow'[j].phase = "closed" /\ workflow'[j].attempt = flow.attempt
          /\ \A i \in Job \ {j} : workflow'[i] = workflow[i]
      BY <1>3, <2>3
    <2>6. row.status \notin {"absent", "pending", "awaiting_trace"}
      BY <2>2 DEF Terminal
    <2>7. AccountedJob(j)'
      BY <1>0, <1>1, <2>1, <2>2, <2>4, <2>6 DEF AccountedJob, Untried
    <2>8. ASSUME NEW p \in Proc, p[1] = j PROVE KnowsJob(p)' /\ Lone(p)'
      <3>1. procs[p].pc \notin Ended => stops[j] = "stopped"
        BY <1>0, <2>0, <2>8 DEF Lone
      <3>2. Lone(p)'
        BY <1>0, <1>1, <2>3, <2>5, <2>8, <3>1 DEF Lone
      <3>3. procs[p].pc = "claim" => stops[j] = "stopped"
        BY <3>1 DEF Ended
      <3>4. KnowsJob(p)'
        BY <1>0, <1>1, <2>1, <2>2, <2>3, <2>4, <2>6, <2>8, <3>3 DEF KnowsJob, Untried
      <3>. QED
        BY <3>2, <3>4
    <2>9. Lives(j)
      <3>1. jobs' \in [Job -> JobRow] /\ results' \in [Job -> Result]
        BY <1>0, <1>1, <2>1, <2>3 DEF ExecTypeOK
      <3>. QED
        BY <1>0, <1>1, <2>1, <2>4, <3>1, RowLives DEF Lives
    <2>. QED
      BY <1>1, <2>3, <2>4, <2>5, <2>7, <2>8, <2>9, JobMoves
  <1>7. CASE ScheduleAttempt(j)
    <2> DEFINE a == flow.attempt + 1
    <2>0. a \in 1..MaxAttempts /\ flow.phase = "running" /\ ~flow.live /\ UNCHANGED jobs
      BY <1>0, <1>7, BoundsAssumption DEF ScheduleAttempt
    <2>1. /\ workflow' = [workflow EXCEPT ![j].attempt = a, ![j].live = TRUE]
          /\ procs' = [procs EXCEPT ![<<j, a>>].pc = "read_run"]
      BY <1>7 DEF ScheduleAttempt
    <2>2. PICK p \in Proc : p = <<j, a>> /\ p[1] = j /\ p[2] = a
      BY <2>0, ProcsArePairs
    <2> HIDE DEF a
    <2>3. /\ workflow'[j].attempt = a /\ workflow'[j].live /\ workflow'[j].phase = "running"
          /\ \A i \in Job \ {j} : workflow'[i] = workflow[i]
      BY <1>0, <2>0, <2>1
    <2>4. /\ procs'[p].pc = "read_run" /\ \A q \in Proc \ {p} : procs'[q] = procs[q]
      <3>1. Become(p, "read_run") /\ "read_run" \in Label
        BY <2>1, <2>2 DEF Become, Label
      <3>. QED
        BY <1>0, <3>1, LabelSet
    <2>5. Lone(p)' /\ KnowsJob(p)'
      BY <2>2, <2>3, <2>4 DEF Lone, KnowsJob, Asking, Late
    <2>6. ASSUME NEW q \in Proc, q[1] = j, q # p PROVE KnowsJob(q)' /\ Lone(q)'
      <3>1. procs[q].pc \in Ended
        BY <1>0, <2>0, <2>6 DEF Lone
      <3>. QED
        BY <1>0, <1>1, <2>0, <2>4, <2>6, <3>1 DEF KnowsJob, Lone, Untried
    <2>7. ASSUME NEW q \in Proc, q[1] # j PROVE KnowsJob(q)' /\ Lone(q)'
      BY <1>0, <1>1, <2>0, <2>2, <2>3, <2>4, <2>7, KeepsKnowing, ProcsArePairs DEF Lone
    <2>8. ASSUME NEW i \in Job PROVE AccountedJob(i)' /\ Lives(i)
      BY <1>1, <2>0, <2>3, <2>8, SameLives DEF LoneInv, AccountedJob, Untried
    <2>. QED
      BY <2>5, <2>6, <2>7, <2>8 DEF LoneInv
  <1>. QED
    BY <1>2, <1>4, <1>5, <1>6, <1>7 DEF Server

-----------------------------------------------------------------------------
(* The theorems *)

\* The books are in order in the initial states.
LEMMA InitLone == Init => LoneInv
  <1> SUFFICES ASSUME Init PROVE LoneInv
    OBVIOUS
  <1>1. \A p \in Proc : procs[p].pc = "idle"
    BY DEF Init, Idle
  <1>2. \A j \in Job : /\ invocations[j] = 0 /\ workflow[j].phase = "none"
                       /\ jobs[j].status = "absent"
    BY DEF Init, ExecInit, NoJobRow
  <1>. QED
    BY <1>1, <1>2 DEF LoneInv, Lone, KnowsJob, AccountedJob, Ended, Asking, Late

\* Every step keeps the books, when no running attempt is abandoned.
LEMMA LonePreserves ==
    ASSUME IInv, LoneInv, faults'.zombies = 0, [Next]_vars
    PROVE  LoneInv' /\ \A j \in Job : Lives(j)
  <1>1. CASE UNCHANGED vars
    BY <1>1, SameLives DEF vars, LoneInv, Lone, KnowsJob, AccountedJob, Untried
  <1>2. ASSUME NEW j \in Job, ApiAndEnvironment(j) \/ Submission(j) \/ Server(j)
        PROVE  LoneInv' /\ \A i \in Job : Lives(i)
    BY <1>2, LoneApi, LoneSubmission, LoneServer
  <1>3. ASSUME NEW p \in Proc, AttemptStep(p) \/ AttemptErrs(p) \/ WorkerDies(p) \/ Interrupt(p)
                                 \/ (Raise(p) /\ UNCHANGED temporalVars)
        PROVE  LoneInv' /\ \A i \in Job : Lives(i)
    BY <1>3, LoneAttempt, LoneExecution DEF AttemptStep
  <1>. QED
    BY <1>1, <1>2, <1>3 DEF Next

\* Abandoned attempts are only ever added, up to their bound.
LEMMA AbandonmentsCount ==
    ASSUME IInv, [Next]_vars
    PROVE  /\ faults'.zombies = 0 => faults.zombies = 0
           /\ faults.zombies <= MaxZombies => faults'.zombies <= MaxZombies
  <1>1. faults \in [crashes: Nat, zombies: Nat] /\ MaxZombies \in Nat
    BY BoundsAssumption DEF IInv, TypeOK
  <1>2. \/ faults'.zombies = faults.zombies
        \/ faults.zombies < MaxZombies /\ faults'.zombies = faults.zombies + 1
    <2>1. ASSUME NEW j \in Job, HeartbeatTimeout(j)
          PROVE  faults.zombies < MaxZombies /\ faults'.zombies = faults.zombies + 1
      BY <1>1, <2>1 DEF HeartbeatTimeout
    <2>2. ASSUME NEW p \in Proc, WorkerDies(p) PROVE faults'.zombies = faults.zombies
      BY <1>1, <2>2 DEF WorkerDies
    <2>3. CASE UNCHANGED faults
      BY <2>3
    <2>4. ASSUME NEW j \in Job, ApiAndEnvironment(j) \/ Submission(j) PROVE UNCHANGED faults
      BY <2>4 DEF ApiAndEnvironment, CreateAndSubmit, temporalVars, Submission, ReconcileRead,
                  StartAccepted, StartUnknown, StartRefused, Stamp, StampFails
    <2>5. ASSUME NEW j \in Job, Server(j), ~HeartbeatTimeout(j) PROVE UNCHANGED faults
      BY <2>5 DEF Server, ScheduleAttempt, AttemptEnds, CancelWorkflow, FailAfterRetries
    <2>6. ASSUME NEW p \in Proc, AttemptStep(p) \/ AttemptErrs(p) \/ Interrupt(p)
                                   \/ (Raise(p) /\ UNCHANGED temporalVars)
          PROVE  UNCHANGED faults
      BY <2>6 DEF AttemptStep, ReadRun, ReadJob, Claim, AwaitJob, AwaitRun, FinishAttempt,
                  AttemptErrs, Interrupt, temporalVars
    <2>7. CASE UNCHANGED vars
      BY <2>7 DEF vars
    <2>. QED
      BY <2>1, <2>2, <2>3, <2>4, <2>5, <2>6, <2>7 DEF Next
  <1>. QED
    BY <1>1, <1>2

\* Until the first running attempt is abandoned the books are in order.
Unabandoned == faults.zombies = 0 => LoneInv

\* So it is throughout, for any bound on what is abandoned.
LEMMA UnabandonedAlways == Safety => []Unabandoned
  <1>1. Init => Unabandoned
    BY InitLone DEF Unabandoned
  <1>2. IInv /\ Unabandoned /\ [Next]_vars => Unabandoned'
    BY LonePreserves, AbandonmentsCount DEF Unabandoned
  <1>. QED
    BY <1>1, <1>2, Invariance, PTL DEF Safety

\* Until a first running attempt is abandoned by Temporal, a live target is asked at most
\* once for a job, whatever attempts die and are retried (process_run_job fails a job that
\* it finds running without a snapshot).
THEOREM InvokedOnceUntilAbandoned ==
    Safety => [](faults.zombies = 0 => TargetInvokedAtMostOnce)
  <1>1. Unabandoned => (faults.zombies = 0 => TargetInvokedAtMostOnce)
    BY DEF Unabandoned, LoneInv, AccountedJob, TargetInvokedAtMostOnce
  <1>. QED
    BY <1>1, UnabandonedAlways, PTL

\* Until then a job and its workflow answer for each other: a stamped job has a workflow,
\* whatever is lost on the way, and a job that nobody stopped has settled when its
\* workflow closes.
THEOREM JobsAndWorkflowsAgree ==
    Safety => [](faults.zombies = 0 => WorkflowAnswersForJob)
  <1>1. IInv /\ Unabandoned => (faults.zombies = 0 => WorkflowAnswersForJob)
    BY DEF IInv, Stamped, Unabandoned, LoneInv, AccountedJob, WorkflowAnswersForJob
  <1>. QED
    BY <1>1, Invariance, UnabandonedAlways, PTL

\* The durable runtime implements the life that RunLifecycle promises, step by step, for
\* every job that nobody has stopped: what has settled stays so, although claim_run_job
\* writes "running" without a predicate on the row, if no running attempt is abandoned.
THEOREM DurableRunsFollowLifecycle ==
    ASSUME MaxZombies = 0
    PROVE  Safety => RunsFollowLifecycle
  <1> DEFINE Bounded == faults.zombies <= MaxZombies
  <1>1. Init => Bounded
    BY BoundsAssumption DEF Init
  <1>2. IInv /\ Bounded /\ [Next]_vars => Bounded'
    BY AbandonmentsCount
  <1>3. IInv /\ Bounded => faults.zombies = 0
    BY DEF IInv, TypeOK
  <1> HIDE DEF Bounded
  <1>4. Safety => []Bounded
    BY <1>1, <1>2, Invariance, PTL DEF Safety
  <1>5. ASSUME IInv, Unabandoned, faults.zombies = 0, (faults.zombies = 0)', [Next]_vars
        PROVE  \A j \in Job : stops[j] # "stopped" => Lifecycle!LifeStep(j)
    BY <1>5, LonePreserves DEF Unabandoned, Lives
  <1>6. Safety => [](faults.zombies = 0)
    BY <1>3, <1>4, Invariance, PTL
  <1>. QED
    BY <1>5, <1>6, Invariance, UnabandonedAlways, PTL DEF Safety, RunsFollowLifecycle
=============================================================================
