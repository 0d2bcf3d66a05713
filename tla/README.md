# Proofgrove in TLA+

Proofgrove evaluates agents and models against golden data sets. A user sets up a
run in the browser's *workbench*; the API stores a *run job*; a worker invokes the
target, waits for the archived trace of the invocation, scores it, publishes an
*evaluation run*, and keeps watching the archive for evidence that arrives late.
Around this stand the registry of data sets and their generation, saved prompts,
quality contracts with their release decisions and reviews, and the pages that
show all of it. This directory holds the formal model: modules, configurations
for TLC, proofs for TLAPS.

`backend/` below stands for `src/backend/src/proofgrove/` and `ui/` for
`src/ui/apps/eval-ai/`.

## 1. Inventory

| Component | State it keeps | Operations | Talks to |
|---|---|---|---|
| Run store (`backend/db/store.py`) | `run_jobs` (status, kind, params with stamp, deferred flag and telemetry snapshot), `evaluation_runs` and its rows | create, claim, park, complete / fail / block / cancel, reclaim, `save_run` | everybody, through sessions that keep what they read (`expire_on_commit=False`) |
| Evaluation API (`backend/api/v1/evaluation.py`) | none | create and submit a run, stop it, read it | store, Temporal, local worker |
| Run execution (`backend/evaluation/run_service.py`) | local variables across awaits | `execute_dataset_run`, `execute_rescore`, `execute_deferred_telemetry_score` | target, archive, engine, store |
| Local worker (`backend/runs_worker.py`) | PostgreSQL advisory lock, one asyncio task per replica | own, recover, poll pending, parked and watched jobs | run execution |
| Durable runtime (`backend/orchestrator/`) | Temporal's workflow history; the submission stamp | submit, reconcile, attempt, retry, cancel, fail | Temporal, run execution |
| Dataset generation (`backend/datasets/generation_*.py`) | `dataset_generation_jobs` | create, advance (compare-and-set), cancel, sweep | generator, registry |
| Dataset registry (`backend/datasets/`) | data sets, records, version events | create, merge, decide, clone, annotate | database |
| Comparison launches (`ui/lib/bakeoff*.ts`, `ui/components/bakeoff-resume.tsx`) | records in localStorage, a Web Lock per launch, one sweeper per tab | launch the arms, remember, poll, group, give up | API, the other tabs |
| Run workbench (`ui/components/evaluation/`) | the form, drafts in the session, readiness answers | edit, choose evidence and checks, check, launch, restore | API, router |
| Runs and reports (`ui/app/runs`, `ui/components/experiments-library.tsx`, `report/`) | lists, live snapshots, selection in the URL | load, poll, pick, stop, archive, open a case, export | API, router |
| Cases (`run-item-drawer`, `run-item-inspector`, `replay-run-item`, `promote-run-item`) | the case on screen, calls that outlive it | open, promote, replay, send to review, page a tool result | API |
| Experiments (`ui/app/experiments/**`) | lists, picks, baseline, view in the URL | create from runs, attach, compare, promote and undo | API, router |
| Governance (`backend/db/store.py`, `ui/app/contracts`, `reviews`) | profiles, policies, assignments, findings, decisions, roles | lifecycle transitions, bind, decide, review | API, other users |
| Prompts (`backend/db/store.py`, `ui/app/catalog/prompts`) | versions, labels | save, archive, move a label, list | API, other users |
| Data set pages, tracing pages (`ui/app/datasets`, `ui/app/projects/**`) | lists, watched jobs, span rows | generate and watch, decide, filter, page, hide, unfold | API, router |
| Gateway, telemetry (`ui/app/api`, `packages/otel-web`) | identity cookie, the gate, queues of the SDK | probe, relay, read errors, batch, forward | backend, collector |
| Span scoring, trace index, rate limiter, authorization, adapters, manifests, migrations | see section 7 | | |

What is hard here:

- a run takes minutes to a day and spans many transactions; several processes can
  execute one job (failover, retries of an attempt that was only cut off); the
  user stops a run at any moment; evidence arrives late, changes, or never comes;
- sessions act on rows read earlier, and requests of several users overtake each
  other between a check and a write;
- the start of a workflow, the answer to a call, a tab or a process can be lost
  after the write it stands for;
- in the browser every await is a point where the user has moved on: answers
  arrive in any order, for a form, a row or a selection that is no longer on
  screen, and the address bar and the page change each other with a delay.

What makes it correct: a job settles once and an acknowledged stop stands; the
target is asked once; a job completes only with its result; a score is never older
than the evidence said to back it; no committed job and no launch is forgotten; a
published data set is frozen; what is started is what was on the screen; what is
shown is what was recorded; no late answer acts on something else than it was
asked about. `PROJECT.json` lists the hazards at their lines, with the properties
that would catch each one.

## 2. Modules

```
RunJobStore        rows and compare-and-set operators          db/store.py
  RunExecution       one executor of a job, API, archive, time   run_service.py, evaluation.py
    LocalRuns          replicas, ownership, polling, handlers    runs_worker.py
    TemporalRuns       submission, workflow, attempts            orchestrator/
RunLifecycle       what a user is promised of a job: the abstract specification
DatasetRegistry    rows, lifecycle, requests                   datasets/
  DatasetGeneration  jobs, tasks, cancellation, the sweep        datasets/generation_*.py
Comparisons        launches, records, sweepers, locks          ui/lib/bakeoff*.ts
*Proofs            RunExecution, LocalRuns, TemporalRuns,
                   Comparisons (and the setup form that launches them),
                   Dataset (registry, generation, its watch, the page of a data set),
                   Governance (the catalogue, the list of traces, the form's first values),
                   ConsoleSetup (readiness, the choice of a data set, prompts,
                   assignments), ConsoleReview (release decisions, reviews, the
                   report of a run, the run history, the drawer of a case)

pages of MCConsoleSetup                    pages of MCConsoleReview
  RunForm          the setup form            RunLibrary       the run history
  DatasetChoice    its evidence              RunReport        the report of one run
  RunReadiness     its checks, Run           RunFigures       figures over runs
  RunPrefill       its first values            RunExtract       files, recommendation
  AssignmentSetup  the wizard                CaseVerdicts     the verdict in every place
  Governance       catalogue and lifecycles  CaseDrawer       one case, its dialogs
  GenerationWatch  data set list, jobs       ExperimentsList  list and creation
  DatasetPage      one data set              ExperimentPage   one experiment
  Prompts          versions, labels, pages   ComparePage      comparison of runs
  TraceLists       traces of a project       ReleaseDecisions roles, decisions, undo
  SpanTree         the tree of one trace     Reviews          queue, drawer, records
  ApiGateway       gate, relay, client
  BrowserTelemetry SDK, posts, relay
```

### The runtime

**RunJobStore** has no variables. A conditional UPDATE is an operator from a row
to a row: `SettleRunJob` is the predicate shared by complete, fail, block and
cancel; `ClaimRunJob(row, seen)` takes also the row as the session saw it, because
the code tests that copy and then writes without a predicate; the snapshot
operators take `seen` because `params` is one JSON column written whole.
`Replaceable`, `Writable`, `SaveCommits`, `SaveStopped` and `SaveRaises` are the
tests of `save_run`, with the transaction that ends in commit or rollback.

**RunExecution** gives each executor (`procs[p]`) a program counter and the locals
that live across an await: the job row it has read (`seen`), the published status
it has read (`run`), the hydrated rows. One action is one database transaction or
one external call, so every await of the code is a point where others can step in.
`Raise` is an exception out of any of these calls. Traces are abstract: `trace[j]`
counts the settled revisions of the archive, a snapshot or a published run carries
the revision that its rows were hydrated from, and revision 0 is the captured reply
alone. `age[j]` is where the clock stands against the grace and the enrichment
windows.

**LocalRuns** adds the lock, the worker task of each replica, the recovery pass and
the poll order of `process_one_job`; `LoseLock` and `NoticeLoss` are apart, because
the database releases the lock at once and the process learns it at its next
keepalive. The recovery pass of the code takes at most 500 rows, skips locked ones and
goes by the time of their last update; with one job none of this decides what it finds.
A row found deferred and running by the recovery pass comes from the
other runtime (the deployment was switched): the branch is in `ReclaimRunJob` and
is not reached within one runtime.

**TemporalRuns** has a set of attempts per job. The server's part is written from
the options the code gives it: a workflow id that may never be reused, a number of
attempts, a heartbeat timeout. `HeartbeatTimeout` abandons an attempt that still
runs against the database and the target, until a heartbeat is answered or the
watcher of the durable status cancels it; `WorkerDies` ends one silently.
`StartUnknown` covers both a lost request and a lost reply.

**RunLifecycle** knows three functions of the job, its kind, status and result, and
the steps that a user can be told of. `LocalRuns` implements it under the mapping
in `RunExecution` (`Lifecycle`). `TemporalRuns` cannot implement it for every job: a
claim may undo a stop (finding `lost_cancel`). There `RunsFollowLifecycle` says that
each step of a job whose stop was not acknowledged is one of `RunLifecycle`.

### Data sets

**DatasetRegistry** has the rows and, for each client, the request it has under way.
Every operation of the service is a read in one transaction and a write in another,
so an operation is a `Begin...` action that remembers what was read and a second
action that writes. Which writes look again is the point of the module:
`MergeRecords`, `UpsertRecord` and `DeleteDataset` test the status under the row's
lock, `CloneDataset` does not look again: `SelectSource` tests the status for a branch, and not
for a restore, on an unlocked read of the same transaction, whose copy may commit after
a decision. `UpdateStatus` and `EditRecords` test nothing. A client may have both roles,
so two requests of any kind overlap. Records are whole record sets (`Content`) with the
verdict of the quality gate (`Grade`); the scores that lead to it are abstract.
There is one lineage: the code's search for its tip and for a free name is left open
to any existing source, any free name and, for a clone, any number above the
source's.

**DatasetGeneration** adds the job row, moved by the compare-and-set of `advance`,
and the task of the process that accepted the request. The task's program counter is
the await it stands at; its registration is a request of the registry with the job
as the client. A cancellation is the row's transition, answered by any process, and
only the task's own process interrupts it. `GoStale` is 900 s without a touch.
`StopProcess` ends every task of a process; one that was synthesizing may still
record a cancellation, depending on how the process goes down.

### Comparison launches

**Comparisons** has the server's runs, the records in localStorage, and per tab the
launch panel (`screen`) and one sweep (`sweep`). JavaScript does not give up the
thread between reading, changing and writing a record, so each such access is one
step, and every call to the server is at least two. The sweep's `list` is what it
read at its start: the loop goes on with these copies while other tabs write the
records. `WriteLaunches` cuts the store at its limit as `bakeoff-store.ts` does,
with the order among grouped records left open, and a write may be refused
(`setItem` throws and the record stays as it was). A browser may have no Web Locks: then
`lock[l]` is `NoLocks` and everyone's callback runs at once. A page that may not read
localStorage at all is left out: it remembers no launch. A call in flight when its tab closes
may still commit, and nobody sees its answer (`CloseTab`).

### Pages

A page module has the state of its React components as variables, one action per
handler, effect, timer and answer, and beside it as much of the server as the page
can tell apart, with `Others...` actions for other users. A request is one step
where the server reads or writes and another where its answer arrives, so answers
overtake each other; a handler goes on after its await with the values of the
render it was created in. An effect that runs before the next event is part of the
action that schedules it; one with a timer is an action. A router is a pending
navigation that arrives later or is dropped. Loads that carry a generation number
or a cancel flag in the code do so in the model, and the ones that do not, do not.

The pages meet in three ways: through the server, through storage of the browser,
and through the address. The first is modelled by what each page's server may be
changed to by others, the second inside the modules that share it (`RunForm`,
`RunPrefill`, `Comparisons`), the third as the initial address of a page. Pages are
composed as visits: a tab shows one page at a time, and a page's state comes into
being when it mounts and goes when it is left. `MCConsoleSetup` and
`MCConsoleReview` therefore hold `page`, which says whose visit a behaviour is, and
the slots `v1`, `v2`, ... that stand for that page's variables in their order of
declaration. Their properties name, page by page, the invariants that the page
modules state with the comment of the code that each is about.

## 3. Runs

| Run | Instance | Shows |
|---|---|---|
| `local` | 1 job of any of four kinds, 2 replicas, 2 crashes, 2 trace revisions, fairness | types; one invocation; nothing orphaned; complete scores are as recent as the evidence vouched for and never regress; every job ends |
| `local_failover` | live and rescore jobs, 2 replicas, 1 lost lock, 1 crash, 1 failed handler write | implements `RunLifecycle` although two executors overlap; an acknowledged stop stands; what an executor has read stays true; who works beside the owner has lost a connection and not noticed (`EachOverlapIsALostLock`) |
| `temporal` | 1 job of any kind, 2 attempts, 1 worker death, fairness | no committed job is forgotten; one invocation; a closed workflow left a settled job, and a stamp means a workflow (`WorkflowAnswersForJob`); a job that nobody stopped follows `RunLifecycle` |
| `temporal_zombies` | 1 started evaluation or rescore job, 1 abandoned attempt, 1 worker death, 2 attempts, 2 trace revisions | only a recheck over late evidence replaces a complete result; nothing after a stop; completion has a result, unless a stop raced with a claim |
| `dataset_registry` | 2 names, versions to 3, 2 interchangeable clients who both review and edit, a record set that passes the gate and one in the review band | a locked request that a decision has overtaken does not write; a version number names one record set; only a decision that another has overtaken leaves the lifecycle; a rejected or retired dataset is branched only by a copy that had selected it before |
| `dataset_generation` | 2 jobs for one name, 2 processes with 1 slot, 1 reviewer, 1 stop, 1 mute, 2 names, versions to 3, fairness | a cancelled job writes nothing, a completed one names what it wrote, one that fails by itself has written nothing (`OutcomeTellsWhatWasWritten`); a live one is not swept; phases follow the diagram; every job ends |
| `comparisons` | three worlds (`MCComparisons`): 1 launch of 2 arms with 2 tabs, 1 lost answer, 1 closed tab; the same without Web Locks, with 1 lost answer and 1 refused write; 3 launches with 1 tab, room for 2 records, 1 failed poll; fairness | one workspace more than answers were lost or not stored, without locks at most one more for each further tab; a workspace holds all finishers; an owed launch keeps its record; every launch is grouped, given up or gone |
| `console_setup` | one visit of each of 13 pages, of two of them in several instances, bounds beside the INSTANCE of each | the run started is the one on the screen; records are shown as they are, and only a request that had read an older row approves what was not tested; no step does what it was not asked to, and one pass of the wizard creates a second assignment only when the answer of each before it was lost |
| `console_review` | one visit of each of 10 pages, of the comparison page in two instances, likewise | what a reader is told was recorded; lists, selections and actions keep to their rows |
| `lost_cancel` | violation of `StopIsFinal` | finding 1 |
| `thaw_published` | violation of `PublishedIsFrozen` | finding 2 |
| `retired_production` | violation of `RetiredIsNotProduction` | finding 3 |

*Bounds of the runtime.* Jobs share no row and no lock except the poll order, so one
job suffices for the per-job properties; starvation among several jobs is not
checked. Two replicas or attempts give every overlap that a property of one job can
tell apart: a third would meet the same rows. Two revisions of the trace give a first
settled trace and a changed one. A second crash interrupts the recovery of the first.
Temporal gives three attempts; two show a retry and the exhaustion of retries.
`temporal_zombies` begins when a job's workflow is started and stamped (`Started`), a
state that the submission actions lead to and that `temporal` explores.

*Bounds of the registry.* Two names give a source and its child; two clients, each in
both roles, give a write or a copy overtaken by another write and by a decision, and a
decision overtaken by a decision. Version 3 is a child of a child whose name is free
again. In `dataset_generation` two jobs for one name reuse, race for
and version that name, and wait for one slot; version 3 is needed for a second job
that mints a child of the first one's dataset.

*Bounds of the comparisons.* `MIN_COMPARISON_RUNS` is 1 with two arms: as with 2 of
three arms, there can be enough completed runs while one is still going. Two
attempts stand for the code's limit: one that is counted and one that gives up. With
room for two records, the third launch must choose between a grouped record and one
that is owed. Without Web Locks two tabs show both
of what can go wrong, two posts at once and a record that is not written; a closed tab
adds nothing to the first. The three worlds share one run, and what a world leaves out is a fault
or a choice of the user or the server, never a step that fairness asks for.

*Bounds of the pages.* Each bound is a constant of the page's module and is named
there: loads under way at a time, actions of the user, actions of others, failures.
Two loads under way give every order of two answers; two rows, runs or cases give
one on screen and another; two samples give the evidence of one beside the other; three pages of rows give a gap and a repetition.
Constants such as `PageSize`, `Cap`, `MaxQueue` and `DetailLimit` are the code's
limits, made small so that they are met. Governance allows two requests beside each
other (`Overlap = 2`); two further instances have one profile, one with a refresh and one
with three requests and no reload, which is an approval under way while others retire
and reinstate.
What the wizard offers stays approved in the instance in which the choices differ and
loads of targets overtake each other. Its second instance has little to choose from,
a retirement, and three saves: one whose answer is lost, its retry, and one more in the
next pass. The second instance of the
comparison page has no filter and three acts: a sample, another, and a way back. The
largest page visits have some hundred thousand states each.

`CHECK_DEADLOCK FALSE` everywhere: jobs end, faults are spent, and a visit ends when
its actions are.

*Fairness.* A worker task and an activity attempt make progress (weak fairness of each
step), a standby retries the lock and the keepalive notices its loss (both are timed
loops), Temporal schedules, times out and runs the failure activity, the
reconciliation loop passes for ever. Pending jobs are claimed oldest first and parked
runs least recently updated first, hence the strong fairness of taking up a given
job. `StartAccepted` of the reconciler is strongly fair: a start that is tried for
ever is at some time heard. Generation tasks go on, the semaphore serves its waiters
in turn (strong fairness of `AcquireSlot`), and a poll of the job's state, which the
UI repeats, sweeps. Runs of a comparison end; the timers of an open tab fire and its
promises settle; Web Locks are granted in turn, hence the strong fairness of
`TakeLock`. Exceptions, faults, the user and the archive have no fairness. Time
passes: otherwise a trace that never completes would park a run for ever, and rightly
so. The page modules state no fairness and no liveness: what a page shows at last
depends on a user who stays and a network that answers; their invariants say instead
what holds once nothing is under way.

## 4. Findings

1. `lost_cancel`: `claim_run_job` (`backend/db/store.py:947`) tests the row cached by
   an earlier read of the session and writes RUNNING without a predicate. A stop
   between read and claim, acknowledged with 200, is undone and the run executes.
   `cancel_run_job` documents that cancellation wins over late worker writes. With three
   attempts it goes further: an earlier, parked attempt sees the stop and returns
   without a result; the claim of a later one revives the job; the first then completes
   it. So a completed job has a result only if its stop was not acknowledged, which is
   what `CompletedHasResult` says. (The proof of the stronger form failed at this step.)
2. `thaw_published`: `delete_records` and `annotate_expected_tools`
   (`backend/datasets/postgres_store.py:820`, `:850`) neither lock the row nor assert
   its status, unlike `merge_records` beside them. A request that read DRAFT and was
   overtaken by validation, approval and publication changes a published dataset,
   which `datasets/versioning.py:13` says is frozen.
3. `retired_production`: `move_prompt_label` tests `archived_at` on an unlocked read
   and writes the label afterwards; an archive that commits in between leaves the
   production label on an archived version, which the comment at
   `backend/db/store.py:5630` rules out.

More disagreements came up. No run is kept for them, but the definitions are in the
modules, so a configuration that names them, or a stricter form of them, shows each:

| Definition | How to see it | What the code does |
|---|---|---|
| `RunExecution!TargetInvokedAtMostOnce` | `MCTemporalRuns`, `SPECIFICATION StartedSafety`, kind "live", `MaxTrace = 1`, `MaxCrashes = 0`, `MaxZombies = 1` | the interrupted-run guard (`runs_worker.py:344`) and the claim are separate: an attempt stalled between them is timed out, and both it and its retry invoke a live target, which the comment at `:452` says cannot happen |
| `RunExecution!PartialScoreIsProvisional` | `MCTemporalRuns`, `SPECIFICATION StartedSafety`, `MaxCrashes = 1`, `MaxZombies = 0` | `run_service.py:990` activates the watch of a partial run and persists its new rows without `score_stale`; when scoring is interrupted, later checks find the rows unchanged and the job completes with the partial score |
| `Unowned = {}` for `LocalRuns!EachOverlapIsALostLock` | `local_failover` as it stands | ownership is taken as proof that the previous executor is gone (`runs_worker.py:483`), but one whose connection was lost runs until its next keepalive (`:533`). The rows survive it, and there is no other way to overlap, as `local_failover` and `OverlapsAreLostLocks` show |
| `DatasetRegistry!LifecycleRespected` without `DecidedOnAnother` | `dataset_registry` as it stands | `update_status` writes unconditionally (`postgres_store.py:471`): an approval and a rejection of one validated dataset both succeed |
| `DatasetRegistry!RuledOutIsNotBranched` without `WasBranchable` | `dataset_registry` as it stands | `clone_dataset` asserts that its source can be branched on an unlocked read (`postgres_store.py:297`, `:306`) and commits at `:409`: a rejection or retirement in between is answered, and the branch is made all the same |
| `DatasetRegistry!ValidatedPassesGate` | `MCDatasetRegistry` as it stands | `validate_dataset` reads status and records and `update_status` writes the verdict unconditionally: records merged in between are VALIDATED without having passed the gate |
| `Comparisons!WorkspaceMintedOnce` with 1 for `MayMint(l)` | `comparisons` as it stands | "Group a launch's completed runs into one workspace, at most once" (`bakeoff-grouping.ts:53`): where the browser has no Web Locks, `withLock` runs its callback at once (`:44`-`:48`), and two tabs group one launch into two workspaces although no answer was lost |
| `Comparisons!WorkspaceMintedOnce` with `lost` counted without refused writes | `comparisons` as it stands | a refused `setItem` is swallowed (`bakeoff-store.ts:84`-`:88`): a workspace that was answered is not remembered, and the next sweep groups the launch again. If the write of the launch itself is refused, nobody groups it |
| `Governance!ApprovedWasTested` without `overlooked` | `console_setup` as it stands | a reinstated profile "must earn approval again" (`backend/db/store.py:6894`), but `transition_quality_profile` validates an unlocked read and writes without looking again (`:5771`-`:5801`): an approval that read a validated profile, and is overtaken by a retirement and a reinstatement, approves what is not tested |
| `AssignmentSetup!RetryCreatesNone` without `lost` | `console_setup` as it stands | a save whose answer is lost after the commit leaves the wizard as it was (`ui/app/contracts/new/page.tsx:839`-`:857`); pressing Save again sends a request that names no assignment, and the server makes a second one under a new id (`backend/db/store.py:6234`) |
| `ComparePage!SelectionIsTheOneNamed` without `runs.stale` | `console_review` as it stands | loads carry no token (`ui/app/experiments/[experimentId]/compare/page.tsx:236`-`:257`): when an older one is the last to answer, the columns are those of an address that was left, although "the URL stays authoritative" (`:203`) |
| `ComparePage!EvidenceIsOfTheSample` without each of its excuses | `console_review` as it stands | evidence is kept per run, not per sample, and its loads are not cancelled (`:404`-`:422`): an answer for a sample that was left, or a sample that the address selects anew, puts the evidence of another sample under the heading of the one selected |
| `Prompts!ListIsWhole` without its premise `~list.early` | `Prompts` with the view on the list, 3 prompts, `PageSize = 1`, `MaxLoads = 2`, `MaxActs = 4` | the `finally` of `load` (`ui/app/catalog/prompts/page.tsx:92`) also runs for a load that a newer one has overtaken, so the list shows again while the newer load (the one after a save, `:177`) is under way. A page asked for then has the new generation with the old cursor; its rows are appended after the fresh first page and leave a gap. The comment at `:121`, "A Refresh that landed while this was in flight owns the list now", is true of the check but not of this order. The next fresh load repairs the list |
| `DatasetPage!DecisionAskedOnce` without `overlap` | `DatasetPage`, `MaxActs = 6`, `MaxLoads = 2`, `InitialRows = 0`, `MaxRows = 1` | all actions of the page share one `actionLoading` (`ui/app/datasets/[name]/page.tsx:109`), which the `finally` of every handler frees. The Delete button is not disabled while another action is under way, so a decision confirmed beside an upload is freed by the upload's end, and its dialog (`pending={actionLoading === pendingDecision}`, `:550`) can be confirmed again while it is still on its way. With one action at a time (`overlap` FALSE) a decision is asked once |
| `RunReport!OpenCaseIsListed` without its premise `~report.outdated` | `RunReport` with 3 cases, `Attention = {2}`, `MaxActs = 7` | the effect of a link keeps its case reachable by testing it against the filter of the link (`ui/components/report/view.tsx:478`, "if the requested filter hides it, fall back to the unfiltered set"), but the list has the filter that the report was mounted with. When the page unmounts the report for an error and mounts it again before the router has handed over a changed filter, the case opened by the link that follows is not listed, so it has no position and no neighbours |

Three properties turned out to be true of the first instance only because it was small,
and were restated after a look at the code: the last two of the table, and
`DatasetChoice!PreviewIsOfTheChoice`. With two publications in a row (`MaxConsents = 2`,
`MaxUnderWay = 3`) the preview can show a version that is neither chosen any more nor
what the user picked, namely the first of the two; `choice.replaced` keeps what
publications have replaced since the last pick.

## 5. Proofs

Each theorem holds for every value of the constants that the named assumptions of
its module allow.
For each page below its types are a theorem too (`ReadinessTypesCorrect`,
`PromptTypesCorrect` and so on): with the bounds of the module, no step leaves them.

`LocalRunsProofs`, for any jobs, replicas, kinds and bounds:

- `TypesCorrect`, `ExecutorsStayConsistent`: the invariant
  `IInv == TypeOK /\ ExecutorsConsistent` is inductive. Types alone are not enough
  for what follows: that `Finish` completes an evaluation job only with a result
  rests on what the executor's program counter says of the tables
  (`ReturnHasResult`), and that in turn on published results not being taken back by
  others, which is itself part of the lifecycle. So one lemma per action proves
  types, consistency and the lifecycle step together.
- `LocalRunsRefinesLifecycle`: the initial states map to initial states and every
  step to a step of `RunLifecycle` or a stutter.
- `StopsAreFinal`: only `cancel_run_job` acknowledges, on a row it has cancelled, and
  no lifecycle step leaves "cancelled".
- `OverlapsAreLostLocks`, with any number of lost locks: only a worker that polls has an
  iteration, and workers without the lock are finitely many, at most one for each
  connection that was lost (`CountedOverlap`): losing the lock adds one, and nothing else
  does. So with none lost the owner works alone; where that is assumed below, the proofs
  go by `HolderWorks`, which says it of the lock's holder.
- `InvokedAtMostOnce`, with no assumption, although two executors may overlap: whoever
  is about to ask the target is the first and the only one (`InvokesOnce`), since it has
  claimed a row that no executor had taken from "pending" before.
- `RunningStaysAttended`, with no lost lock and no failed handler write (`Accounted`):
  each executor that is not idle attends a job, an idle one none, so what is running is
  in hand or waits for a recovery pass.
- `ScoresAreCurrent` and `EvidenceOnlyImproves`, with no lost lock (`Evident`): what the
  snapshot says of the evidence (`Sound`), and what the executor has read of it since
  (`Knows`), for each of its program counters. With a lost lock two executors score
  different revisions, and the older one may be written last.

`TemporalRunsProofs` has two invariants.

- `IInv`, for any number of abandoned attempts: an attempt, abandoned or not, goes by
  what is true of tables that only advance (`Attentive`, `Advances`). It gives
  `TypesCorrect`, `CompletionsHaveResults`, `StoppedRunsStayUnpublished` and
  `FirstPublicationWins`: these rest on the predicates of the UPDATEs and on what
  `save_run` tests again, not on there being one attempt.
- `LoneInv`, until a running attempt is abandoned (`faults.zombies = 0`): one attempt of
  a job is at work, so what it has read still holds when it writes (`KnowsJob`), and
  the tables account for the one target call and for the workflow (`AccountedJob`).
  It gives `InvokedOnceUntilAbandoned`, `JobsAndWorkflowsAgree` and
  `DurableRunsFollowLifecycle`. The hypothesis is needed: with an abandoned attempt the
  target can be asked twice (section 4), and an attempt that outlives its workflow
  can reopen by its claim what was closed.

`RunExecutionProofs` has the lemmas: what each row operator returns, what each
executor step preserves.

`DatasetProofs` takes for the registry `RegistryInv`, the types with `RequestsAddressed`: a
request under way names what it will write, without which a write could store an
ill-formed row. From it `RowStep`, what a single step does to a single row, gives
`OnlyDraftsAreWritten` and `VersionsNameRecords` with no further assumption.
`LifecycleIsRespected` and `RuledOutStaysUnbranched`, for any number of reviewers, add
`SightInv`: what each request has seen of the status it read (`Sighted`), and that only
reviewers decide (`InRole`). What is there when it writes may be something else. If it is,
a decision has come between, and the theorems say what is left then: a status is written
that was allowed from the one seen, and a copy is of what could be branched when it was
selected.

For the generation it takes the types and, job by job, `JobOK`: a task that
registers or ends a registration finds its row in "validating", or swept; what was
written belongs to a row that is validating, completed or swept; a live task whose
heartbeat gets through has a fresh row. `OutcomesTellWhatWasWritten` and
`LiveJobsAreNotSwept` are consequences of that one invariant, and each step that
keeps it also follows the phase diagram (`PhasesAreFollowed`). The registry's step
lemmas are reused: a job is a client of the registry.

For the page of a data set, with any number of reloads and requests, it takes
`PageInv`. `RevisionsAreCounted`: a revision and the requests that may still make one are
no more than what was asked, so the bound on requests bounds revisions, and the types
hold. `ReadInOrder`: records were read in their order, and a page of them starts where
the screen ended, unless a reload has crossed it, so what is appended leaves no gap.
`LastIsCurrent`: the reload asked for last has yet to read, or has read what the page
changed. `FreedOnce`: while no two actions overlap, one thing will free the button, the
request or the reload after it.
`DatasetPageStaysTrue` follows.

For the watch of generation jobs, with any jobs, imports, reads and polling errors, it
takes `WatchInv`. `JobInv` is what page and server know of each other: the poll is of the
job in the address, and the last phase it has read is the job's last phase (`WatchFollows`);
the address is cleared only of a job that is over (`LeavesWhatIsOver`); a job that is shown
and runs is in the address, or on its way there (`ActiveIsAddressed`). `CancelsAreTrue`: who
was told that a job is cancelled was told the truth. `ListInv`: what completed is in the
list, or the newest read that is under way will find it (`CompletedIsRead`).
`WatchStaysTrue` follows.

`ComparisonsProofs`, for any tabs, launches, arms, limits and faults, in four layers,
each of which uses the ones before:

- `TypeInv`, for `TypesHold`: types with `AttemptsLeft`. That attempts stay within
  their limit is not inductive by itself: a sweep counts on from the copy it read, so
  every copy, too, must have attempts left, and there must be a record in hand from
  the lock to the count.
- `OnceInv`, for `WorkspacesAreMintedOnce`: callers hold the lock, where there are locks
  (`CallersHoldLock`); a launch that has no record yet was never posted
  (`StartsAreFresh`), or a record written late would owe a workspace that exists; and the
  balance of workspaces and lost answers (`OwedIsBalanced`): while a record owes its
  workspace, each one that was made is lost or its answer is under way, and with the
  calls that may still make one they are no more than what was lost and what can be
  under way at a time, one with a lock and one for each tab without. Calls are counted as
  sets of tabs, hence `FiniteSetTheorems`.
- `WholeInv`, for `WorkspacesHoldAllFinishers`: all copies of a record name the same
  runs and are right about the ended ones, however stale (`CopiesAgree`), which lets
  one tab write what another has read; what is posted is every completed run of an
  ended launch (`PostsAreWhole`), and stays so until the answer, whoever else posts:
  two tabs without a lock post the same runs.
- `Remembered`, for `OwedLaunchesAreKept`: the store holds at most
  `MAX_REMEMBERED_LAUNCHES` records between two writes, so that rewriting one drops
  none. A new one may: a write keeps what is owed first, and the newest of it, so an
  owed launch that has to go is older than as many kept ones that owe a workspace too
  (`Crowded`, by counting). Of what a poll drops, the swept copy, however stale, is
  right about the runs that have ended (`CopiesAgree` of `WholeInv`): they are too few.

The module proves the setup form, too, for any models, texts, edits and loads, by
`FormInv`. Its parts are `ChecksInv` (a check on its way that still counts is for the form
on screen, and so is a result that is not being renewed), `TextsInv` (a reference to a
saved prompt is of the text on screen, in the form, in the draft and in what a save under
way will make of it; before the first load there is none) and `RevsInv` (edits are counted,
so a draft edited after a launch has more of them). `RunsAreOfTheForm` follows; `RunForm`
takes it that there is some text to run (`Text # {}`).

`ConsoleReviewProofs`, for any runs, report panels and editors of an experiment,
proves `ReleasesAreTrue` (the part `ReleaseIsTrue` of `ResultsAreTold`) by the
invariant `RInv`. `Turns`: whoever holds the status row is alone and has seen all the
evidence there is, until an approval finds the experiment approved already. `KnowsOwn`
and `SavedIsLast`: a panel that was told no falsehood has recorded nothing, or one
decision whose answer is due or was shown, and what an answer reads back is the
panel's own. `Waits`: a dialog is pending exactly while its request is under way. One
baseline follows from the index alone: a commit either leaves one or collides.

For the reviews the module proves `ReviewInv`, the types with `ReviewRelations`, for
any findings, requests and other reviewers. What a page says was reviewed comes from
details it once loaded, so the invariant ties both the database's finding and the
page's copy to what was ever settled or agreed with: `CompletedWereReviewed`,
`CasesWereConfirmed`. The text in the drawer is for nothing or for the finding on
screen, since the drawer is a new component for each one; a decision takes its subject
and its text in one step, hence `DecisionsAreForTheirFinding`.

For the report of a run, with any number of cases, it takes `ReportInv`. `AroundInv` is the
page with its polls: the calls of reports that were unmounted since had been asked for
(`OrphansWereAsked`, a count that bounds them), and who reads no more has read the end of
the run (`LastReadIsFinal`). `InsideInv` is the report: an open or unfolded case has its
evidence or a call for it (`Evident`), the list's filter is the address's, and until there
is a list the router has nothing to hand over (`FilterIsAddressed`), and the case that both
the address and the page's parameters name is open (`LinkIsOpen`). That a list that is not
empty has a first and a last case is the well-foundedness of the naturals again.
`ReportsAreTrue` follows.

For the run history, with any runs, failures and number of loads that overtake each other
(the run has one at a time), it takes `RunLibraryInv`. What was read of a run may be late but
is never beyond it (`MayBeLate`), since a run that has ended changes no more. A run launched in
the tab is in each load's hands (`LoadIsTrue`: tracked, given up, or ended and listed), so no
answer, however old, makes the page forget one under way (`Remembers`); a list without it says
that it failed or waits for a load that will (`Admits`, `Loud`). `LaunchesStayFollowed` and
`BusyStaysReal` follow.

For the drawer of a case, with any cases, datasets, prompts and replays, it takes `CaseInv`, one
part for each of the things that a call may tell of. `PromoteRight`: a call under way and the
outcome shown are of the case on screen, and consent in the form is for what is selected; it is
carried by calls whose content is gone (`Consented`), for those still write. `ReplayRight`: what
is listed was recorded for the case on screen, and a replay that was answered is in the list, also
when a list read before it replaces it, since the new one is of both (`NewestFirstFacts`, for
which that there is a list of any replays is shown as for the report). `ReviewRight`, `PagesRight`
say the same of the review and of the pages of a tool result. What makes this inductive is that a
content is mounted anew for each case (`ContentOf`, the React `key`). The types need a count
again: what was written and what calls may still write is at most what was asked
(`InBudget`). `CaseDrawersAreTrue` follows.

`GovernanceProofs`, for any records, requests, loads and overlap, takes
`GovernanceInv`. `OwnWork`: what the page wrote of a record is in the database, and
either a request has yet to start its reload, or each load of the current generation
that has read will show it, and one is under way, or it is shown, or the page reports an
error. `Pendings`: each reload waits for a load of its own, and a row says Saving only
while its action is under way. The types need a count: a revision and the requests that
may still write are no more than what was asked, so a bound on requests bounds revisions.
`CatalogueIsTrue` follows. `ApprovedWereTested`, for any overlap too, adds
`DecidedOnRead`: a request between its read and its write is still legal if the row's
revision is the one it read, since revisions only grow. One whose row has moved on may
write what is no longer legal, and its record is then in `overlooked` until a write by
a request that had read the row as it was.

For the list of traces, with any traces, page size, captures and reloads, it takes
`TraceInv`. `ReadsAreInTurn`: of the reads under way one counts, the newest reload or the
page after it. `WantedForFilters`: it is for the filters in force, and so is a list that is
not loading (`FiltersWinOverLateAnswers`). `RowsInv`: rows descend, the cursor is the last
row, and nothing that is due is skipped; a page appended keeps this, because it was read
with the cursor of the list it is appended to (`MoreFollows`). `ListHasNoGaps` follows. The
rows are made by a recursive function, `NewestFirst`. Its equation is proved from an
explicit solution, and what it returns by an induction over sets of traces whose claim is
carried as a set: with a set in place of a predicate, a least counterexample
(the well-foundedness of the naturals) does what the library's induction theorems would.

For the first values of the evaluation form, with any catalogues, visits, edits and runs,
it takes `PrefillInv`. What the effects of a page make of its form is a function of page,
form and store, so the invariant is a relation of page and form, `Right`, and the argument
one lemma per effect (`RestoreFacts`, `FollowFacts`, `PrefillFacts`, `SettleFacts`): a rerun
nobody has edited has no Project before it takes its one chance, and has its source's values
after one taken whole; a catalogue of checks that was read lists them all; only a link waits
for the link's timer, and only a visit without values of its own for the draft's, so neither
reaches a rerun. A run's setup has an agent and checks (`Meaningful`), or restoring it would
keep what the form had: a click needs them, and an Assignment resolves to some
(`Manifest # {}`; `platform/resolver.py:207` falls back to the built-in checks). What is
remembered is of a run there is, so a new run never overwrites another's. The theorems are
`RerunsAreTheirSource` and `PreparedNeverTouchesDraft`.

`ConsoleSetupProofs` has four pages of `MCConsoleSetup` whose arguments are about
answers that overtake each other.

- Readiness, for any checks, templates, data sets and edits: `ReadinessInv` says that a
  readiness request that is still active is about the form on screen, that what is
  shown with no check due is its answer (`RunIsForTheForm`), and that what has been
  sent applies (`RunsStartWhatApplies`). The second rests on depths: a
  request's depth is the greatest of what its checks require and what was chosen, so
  it reaches every check it asks for. `ClicksTickWhatCanRun` is the action property
  of single and group clicks.
- Prompts, for any prompts, versions, page sizes and bounds: `PromptsInv` is
  `StoreInv` (what each saver has read or was told is in the catalogue),
  `PageInv` and `ListInv` (what is shown and what is on its way are versions there are)
  and `LockInv`. Its core is `Held`: a button is blocked exactly while one thing will
  let it go, the write or the one load after it. That there is only one is what is
  inductive, because a second load of the same owner would let go while the first is
  still waited for. `SavesHaveTheirVersion`, `LocksAreLetGo`,
  `WritesAreNotReplaced` follow.
- Assignments, for any catalogues, targets and saves: `SetupInv` says that a policy is
  chosen only with release governance (`PolicyHasMode`), that a save under way was sound
  when it was sent (`SaveIsDue`) and that what is done is not asked for again
  (`AskedUntilDone`), and that who starts a load of the catalogues has seen that there
  is none (`LoadsTakeTurns`), since a second load could answer first and be overwritten.
  An assignment of the present pass is known to the page, unless its answer was lost or is
  the one under way (`CreatedIsKnown`), and a load that selects what it brings is the one
  its request waits for (`LoadIsAwaited`). `AssignmentsAreSound` and `RetriesCreateNone`
  follow.
- The choice of a data set, for any data sets, agents and requests: `ChoiceInv`.
  `ListedArePublished`: every inventory, also one that a handler has kept while it
  waited, lists published data sets, so each way of choosing chooses a published one.
  `ActiveIsForAgent`: a read of a golden data set that still counts is for the agent on
  screen (`GoldenIsForItsAgent`). `PreviewReadsTheChoice`: one read is under way for a
  preview, of what is chosen or was replaced. `ConsentIsHeld`: a write-back under way
  holds its dialog and its consent is not spent. `ChoicesAreTrue` follows.

Only model-checked: liveness under fairness (`EventuallySettled`, `EventuallyEnds`,
`EventuallyResolved`), which is out of the prover's reach. The composed properties of
the pages (`RunIsAsShown`, `RecordsAreAsShown`, `StepsKeepToTheirTask`, `ResultsAreTold`,
`ListsKeepTheirPlace` and the two type invariants): each is a conjunction over pages
that share nothing, so it is proved page by page: all four of `RunIsAsShown` are (the
setup form, its first values, the choice of a data set, readiness), and of the others so far
prompts, governance, assignments, the list and the page of data sets, the list of
traces, release decisions, reviews, the report of a run, the run history and the drawer of a
case. `ListIsWhole` of the
prompts and `TrayCanBeCompared` of the run history are not proved: pages and selections are
read by `SelectSeq`, whose elements, length and order are known to the provers only by
induction over the sequence. What the recursive definitions of `SpanTree`
compute is compared with a reference definition (`IsTreeOf`) over all parent functions
of a bounded number of spans, for the same reason.

## 6. Plan

1. Proofs of the pages that are only model-checked: first `ComparePage` and
   `ExperimentPage`, whose loads overlap the writes of others.
2. `TraceSettle`: `wait_for_archived_trace` as a loop against a growing archive, to
   replace the abstract revision of `RunExecution` by argument.
3. `SpanScoring`: enqueue, resume, incremental saves; `TraceIndex`.
4. A two-job instance for the starvation of parked runs (`runs_worker.py:118`), which
   is beyond TLC's time with the present grain of `LocalRuns`.

## 7. Not modelled

- Span scoring (`tracing/scoring.py`): in the runtimes such a job is one step; its
  resume after an interruption is left out. The trace index (`tracing/index_worker.py`):
  the runtimes use the archive itself, as a revision number.
- The rate limiter: one counter per process, in no relation to other state.
- Authorization and tenancy filters: stateless checks per request.
- Target adapters and judges: calls that return or raise. Scores, KPIs and floats:
  data that no transition depends on; the gates and verdicts made of them are in
  `RunFigures` and `CaseVerdicts`.
- Evaluator packs, waivers and the resolution of manifests: computations over many
  records with no interleaving of their own.
- Pages without asynchronous state of their own (settings, help, navigation, layout,
  drawing), the fixture page of simulated evidence, and `ui/app/compare/page.tsx`,
  which nothing links to.
- Migrations. Timestamps are reduced to the order that guards test. A session's
  identity map is modelled where it decides something (`seen`), as a value, not as a
  cache. SQLite's single-process mode is the one-replica case of `LocalRuns`.
