---------------------------- MODULE GenerationWatch ----------------------------
(***************************************************************************)
(* The list of datasets and its Add dataset dialog: an import that is one  *)
(* request, and a generation that is a job of the server, whose id is put  *)
(* into the URL and which the dialog watches by polling, so that a reload  *)
(* finds it again.  The list is read whole, and again whenever one of the  *)
(* two has made a dataset.                                                 *)
(*                                                                         *)
(* A change of the URL is asked of the router and takes effect later.      *)
(***************************************************************************)
EXTENDS Sequences, SequencesExt, Integers

CONSTANTS
    JobId,      \* generation jobs; the dataset that one makes bears its name
    Imported,   \* datasets that are imported
    Nothing, Still, \* no job; no change of the URL under way
    MaxErrors,  \* maxTransientErrors
    MaxReads,   \* bounds the reads of the list under way
    MaxUses     \* bounds what the reader does and what fails

GenerationWatchAssumption ==
    /\ {Nothing, Still} \cap (JobId \cup Imported) = {} /\ Nothing # Still /\ JobId \cap Imported = {}
    /\ MaxErrors \in Nat /\ MaxReads \in Nat \ {0} /\ MaxUses \in Nat

VARIABLES
    server,  \* [jobs: [JobId -> JobPhase \cup {"none"}], datasets: SUBSET AnyDataset]
    url,     \* the job named in the committed URL, or Nothing
    going,   \* the job of the URL asked of the router, or Still
    genJob,  \* [job, phase]: the last snapshot of a job, or Nothing
    watch,   \* the loop of watchGenerationJob
    form,    \* the state of the dialog
    call,    \* the import or start request of the form
    cancels, \* the cancel requests under way
    reads,   \* Seq([read, seen, late]): the reads of the list under way, oldest first
    list,    \* [shown, loading, refreshing, error, stale]
    uses     \* what has been counted against MaxUses

watchVars == <<server, url, going, genJob, watch, form, call, cancels, reads, list, uses>>

AnyDataset == JobId \cup Imported
JobPhase == {"active", "completed", "failed", "cancelled"}
TERMINAL_PHASES == {"completed", "failed", "cancelled"}
MaybeJob == JobId \cup {Nothing}
GenerationJob == [job : JobId, phase : JobPhase]

NoCall == [kind |-> "none", done |-> FALSE, of |-> Nothing]
Off == [job |-> Nothing, step |-> "off", errors |-> 0, seen |-> "active"]
WatchOf(j) == IF j = Nothing THEN Off ELSE [Off EXCEPT !.job = j, !.step = "asking"]
NewRead == [read |-> FALSE, seen |-> {}, late |-> FALSE]
\* The dialog after a mount that found this job in the URL.
FreshForm(j) ==
    [open |-> j # Nothing, mode |-> IF j = Nothing THEN "none" ELSE "generate",
     method |-> "none", named |-> FALSE, file |-> FALSE, busy |-> FALSE, error |-> "none",
     offline |-> FALSE, checking |-> FALSE, models |-> IF j = Nothing THEN "none" ELSE "loading"]

Use == uses < MaxUses /\ uses' = uses + 1

-----------------------------------------------------------------------------
(* lib/dataset-generation.ts and the endpoints behind it *)

IsTerminal(job) == job.phase \in TERMINAL_PHASES

JobEnds(j, phase) ==
    /\ server.jobs[j] = "active"
    /\ server' = [jobs |-> [server.jobs EXCEPT ![j] = phase],
                  datasets |-> IF phase = "completed" THEN server.datasets \cup {j}
                               ELSE server.datasets]
    /\ UNCHANGED <<url, going, genJob, watch, form, call, cancels, reads, list, uses>>

-----------------------------------------------------------------------------
(* app/datasets/page.tsx *)

\* load: shown as a refresh when it was asked for by hand.
ReadAgain == reads' = Append(reads, NewRead)
MayRead == Len(reads) < MaxReads
Reloading == [list EXCEPT !.loading = TRUE, !.error = FALSE]

Refresh ==
    /\ Use /\ MayRead /\ ~list.loading /\ ~list.refreshing
    /\ ReadAgain /\ list' = [list EXCEPT !.refreshing = TRUE, !.error = FALSE]
    /\ UNCHANGED <<server, url, going, genJob, watch, form, call, cancels>>

ListReads(i) ==
    /\ ~reads[i].read
    /\ reads' = [reads EXCEPT ![i].read = TRUE, ![i].seen = server.datasets]
    /\ UNCHANGED <<server, url, going, genJob, watch, form, call, cancels, list, uses>>

\* Nothing tells an answer that a later read has overtaken from the others.
ReadEnds(i) ==
    reads' = [k \in 1 .. Len(reads) - 1 |->
                 IF k < i THEN [reads[k] EXCEPT !.late = TRUE] ELSE reads[k + 1]]

ListArrives(i) ==
    /\ reads[i].read /\ ReadEnds(i)
    /\ list' = [list EXCEPT !.shown = reads[i].seen, !.stale = reads[i].late,
                            !.loading = FALSE, !.refreshing = FALSE]
    /\ UNCHANGED <<server, url, going, genJob, watch, form, call, cancels, uses>>

ListFails(i) ==
    /\ Use /\ ReadEnds(i)
    /\ list' = [list EXCEPT !.shown = {}, !.stale = reads[i].late, !.error = TRUE,
                            !.loading = FALSE, !.refreshing = FALSE]
    /\ UNCHANGED <<server, url, going, genJob, watch, form, call, cancels>>

-----------------------------------------------------------------------------
(* components/dataset-actions.tsx: the form *)

VisibleGenJob ==
    IF genJob = Nothing \/ (url # Nothing /\ genJob.job # url) THEN Nothing ELSE genJob

\* A job that is shown and not over blocks the form of a generation.
Blocked == form.busy \/ (VisibleGenJob # Nothing /\ ~IsTerminal(VisibleGenJob))

SetForm(f) == form' = f /\ UNCHANGED <<server, url, going, genJob, watch, call, cancels, reads, list>>

OpenDialog == ~form.open /\ Use /\ SetForm([form EXCEPT !.open = TRUE])
CloseDialog == form.open /\ Use /\ SetForm([form EXCEPT !.open = FALSE])

SetMode(mode) ==
    /\ form.open /\ form.mode # mode /\ Use
    /\ SetForm([form EXCEPT !.mode = mode, !.offline = FALSE, !.method = "none", !.error = "none",
                            !.models = IF mode = "generate" THEN "loading" ELSE @])

SetGenerationMethod(method) ==
    /\ form.open /\ form.mode = "generate" /\ form.method # method
    /\ SetForm([form EXCEPT !.method = method]) /\ UNCHANGED uses

\* The name and the prompt of a generation; the name and the file of an import.
FillInGeneration ==
    /\ form.open /\ form.mode = "generate" /\ form.method # "none"
    /\ SetForm([form EXCEPT !.named = TRUE]) /\ UNCHANGED uses

FillInImport ==
    /\ form.open /\ form.mode = "import"
    /\ SetForm([form EXCEPT !.named = TRUE, !.file = TRUE]) /\ UNCHANGED uses

ResetGenerateForm ==
    /\ form.open /\ form.mode = "generate" /\ form.method # "none" /\ ~Blocked /\ Use
    /\ SetForm([form EXCEPT !.method = "none", !.named = FALSE, !.error = "none"])

\* loadGenerationResources: models and grounding tools answer, or do not.
LoadGenerationResources(outcome) ==
    /\ form.models = "loading"
    /\ IF outcome = "ready" THEN UNCHANGED uses ELSE Use
    /\ SetForm([form EXCEPT !.models = outcome])

RetryResources ==
    /\ form.open /\ form.mode = "generate" /\ form.method = "llms" /\ form.models = "failed"
    /\ Use /\ SetForm([form EXCEPT !.models = "loading"])

MayGenerate ==
    /\ form.mode = "generate" /\ form.method # "none" /\ form.named /\ ~Blocked
    /\ form.models = "ready"

MayImport == form.mode = "import" /\ form.named /\ form.file /\ ~form.busy

Submit(kind, of) ==
    /\ form.open /\ Use
    /\ form' = [form EXCEPT !.busy = TRUE, !.offline = FALSE, !.error = "none"]
    /\ call' = [kind |-> kind, done |-> FALSE, of |-> of]
    /\ UNCHANGED <<server, url, going, genJob, watch, cancels, reads, list>>

GenerateDataset(j) == server.jobs[j] = "none" /\ MayGenerate /\ Submit("generate", j)
ImportDataset(d) == d \notin server.datasets /\ MayImport /\ Submit("import", d)

SubmitCommits ==
    /\ call.kind # "none" /\ ~call.done
    /\ call' = [call EXCEPT !.done = TRUE]
    /\ server' = IF call.kind = "generate"
                 THEN [server EXCEPT !.jobs[call.of] = "active"]
                 ELSE [server EXCEPT !.datasets = @ \cup {call.of}]
    /\ UNCHANGED <<url, going, genJob, watch, form, cancels, reads, list, uses>>

SubmitReturns ==
    /\ call.done /\ MayRead /\ ReadAgain /\ list' = Reloading
    /\ form' = [form EXCEPT !.busy = FALSE, !.file = (call.kind = "generate") /\ @]
    /\ IF call.kind = "generate"
       THEN genJob' = [job |-> call.of, phase |-> "active"] /\ going' = call.of
       ELSE UNCHANGED <<genJob, going>>
    /\ call' = NoCall
    /\ UNCHANGED <<server, url, watch, cancels, uses>>

\* The answer is lost, or it is an error.
SubmitFails(unavailable) ==
    /\ call.kind # "none" /\ (call.done => unavailable) /\ Use
    /\ call' = NoCall
    /\ form' = [form EXCEPT !.busy = FALSE, !.error = "request", !.offline = unavailable]
    /\ UNCHANGED <<server, url, going, genJob, watch, cancels, reads, list>>

CheckConnection ==
    /\ form.open /\ form.error # "none" /\ form.offline /\ ~form.checking /\ ~form.busy /\ Use
    /\ SetForm([form EXCEPT !.checking = TRUE])

CheckReturns(reached) ==
    /\ form.checking /\ UNCHANGED uses
    /\ SetForm([form EXCEPT !.checking = FALSE, !.offline = ~reached,
                            !.error = IF reached THEN "none" ELSE "request"])

-----------------------------------------------------------------------------
(* components/dataset-actions.tsx: the job of the URL *)

UrlArrives ==
    /\ going # Still /\ url' = going /\ going' = Still
    /\ watch' = IF going = url THEN watch ELSE WatchOf(going)
    /\ form' = [form EXCEPT !.open = @ \/ (going # Nothing /\ going # url)]
    /\ UNCHANGED <<server, genJob, call, cancels, reads, list, uses>>

PollReads ==
    /\ watch.step = "asking"
    /\ watch' = [watch EXCEPT !.step = "answered", !.seen = server.jobs[watch.job]]
    /\ UNCHANGED <<server, url, going, genJob, form, call, cancels, reads, list, uses>>

OnCompleted(job) ==
    IF job.phase = "completed" THEN MayRead /\ ReadAgain /\ list' = Reloading
    ELSE UNCHANGED <<reads, list>>

Completed(job) == OnCompleted(job)

PollArrives ==
    LET job == [job |-> watch.job, phase |-> watch.seen] IN
    /\ watch.step = "answered"
    /\ genJob' = job
    /\ watch' = [watch EXCEPT !.errors = 0, !.step = IF IsTerminal(job) THEN "over" ELSE "waiting"]
    /\ Completed(job)
    /\ UNCHANGED <<server, url, going, form, call, cancels, uses>>

GivesUp == watch.errors >= MaxErrors
PollFails ==
    /\ watch.step \in {"asking", "answered"} /\ Use
    /\ watch' = [watch EXCEPT !.errors = @ + 1, !.step = IF GivesUp THEN "gaveUp" ELSE "waiting"]
    /\ form' = IF GivesUp THEN [form EXCEPT !.error = "watch"] ELSE form
    /\ UNCHANGED <<server, url, going, genJob, call, cancels, reads, list>>

PollAgain ==
    /\ watch.step = "waiting" /\ watch' = [watch EXCEPT !.step = "asking"]
    /\ UNCHANGED <<server, url, going, genJob, form, call, cancels, reads, list, uses>>

CancelGeneration ==
    /\ form.open /\ form.mode # "none" /\ VisibleGenJob # Nothing /\ ~IsTerminal(VisibleGenJob)
    /\ cancels = {} /\ Use
    /\ cancels' = {[job |-> VisibleGenJob.job, answer |-> "none"]}
    /\ UNCHANGED <<server, url, going, genJob, watch, form, call, reads, list>>

CancelCommits(c) ==
    /\ c.answer = "none"
    /\ server' = IF server.jobs[c.job] = "active"
                 THEN [server EXCEPT !.jobs[c.job] = "cancelled"] ELSE server
    /\ cancels' = (cancels \ {c}) \cup
          {[c EXCEPT !.answer = IF server'.jobs[c.job] = "cancelled" THEN "cancelled" ELSE "refused"]}
    /\ UNCHANGED <<url, going, genJob, watch, form, call, reads, list, uses>>

CancelReturns(c) ==
    /\ c.answer # "none" /\ cancels' = cancels \ {c}
    /\ genJob' = IF c.answer = "cancelled" THEN [job |-> c.job, phase |-> "cancelled"] ELSE genJob
    /\ form' = IF c.answer = "refused" THEN [form EXCEPT !.error = "request"] ELSE form
    /\ UNCHANGED <<server, url, going, watch, call, reads, list, uses>>

Dismiss ==
    /\ form.open /\ form.mode # "none" /\ VisibleGenJob # Nothing /\ IsTerminal(VisibleGenJob) /\ Use
    /\ genJob' = Nothing /\ going' = Nothing
    /\ UNCHANGED <<server, url, watch, form, call, cancels, reads, list>>

\* The page is loaded anew from its URL; what was on its way is not waited for.
Reload ==
    /\ Use
    /\ going' = Still /\ genJob' = Nothing /\ watch' = WatchOf(url) /\ form' = FreshForm(url)
    /\ server' = server /\ call' = NoCall /\ cancels' = {} /\ reads' = <<NewRead>>
    /\ list' = [shown |-> {}, loading |-> TRUE, refreshing |-> FALSE, error |-> FALSE, stale |-> FALSE]
    /\ UNCHANGED url

-----------------------------------------------------------------------------
WatchInit ==
    /\ server = [jobs |-> [j \in JobId |-> "none"], datasets |-> {}]
    /\ url = Nothing /\ going = Still /\ genJob = Nothing /\ watch = Off /\ form = FreshForm(Nothing)
    /\ call = NoCall /\ cancels = {} /\ reads = <<NewRead>> /\ uses = 0
    /\ list = [shown |-> {}, loading |-> TRUE, refreshing |-> FALSE, error |-> FALSE, stale |-> FALSE]

WatchNext ==
    \/ \E j \in JobId, phase \in {"completed", "failed"} : JobEnds(j, phase)
    \/ Refresh \/ \E i \in DOMAIN reads : ListReads(i) \/ ListArrives(i) \/ ListFails(i)
    \/ OpenDialog \/ CloseDialog \/ FillInGeneration \/ FillInImport
    \/ ResetGenerateForm \/ RetryResources
    \/ \E m \in {"generate", "import"} : SetMode(m)
    \/ \E m \in {"llms", "tools"} : SetGenerationMethod(m)
    \/ \E o \in {"ready", "failed"} : LoadGenerationResources(o)
    \/ \E j \in JobId : GenerateDataset(j)
    \/ \E d \in Imported : ImportDataset(d)
    \/ SubmitCommits \/ SubmitReturns \/ \E b \in BOOLEAN : SubmitFails(b)
    \/ CheckConnection \/ \E b \in BOOLEAN : CheckReturns(b)
    \/ UrlArrives \/ PollReads \/ PollArrives \/ PollFails \/ PollAgain
    \/ CancelGeneration \/ \E c \in cancels : CancelCommits(c) \/ CancelReturns(c)
    \/ Dismiss \/ Reload

WatchSpec == WatchInit /\ [][WatchNext]_watchVars

-----------------------------------------------------------------------------
WatchTypeOK ==
    /\ server \in [jobs : [JobId -> JobPhase \cup {"none"}], datasets : SUBSET AnyDataset]
    /\ url \in MaybeJob /\ going \in MaybeJob \cup {Still}
    /\ genJob \in GenerationJob \cup {Nothing}
    /\ watch.job \in MaybeJob /\ watch.errors \in 0 .. MaxErrors + 1 /\ watch.seen \in JobPhase
    /\ watch.step \in {"off", "asking", "answered", "waiting", "over", "gaveUp"}
    /\ form.mode \in {"none", "generate", "import"} /\ form.method \in {"none", "llms", "tools"}
    /\ form.models \in {"none", "loading", "ready", "failed"}
    /\ form.error \in {"none", "request", "watch"}
    /\ call.kind \in {"none", "generate", "import"} /\ call.of \in AnyDataset \cup {Nothing}
    /\ \A c \in cancels : c.job \in JobId /\ c.answer \in {"none", "cancelled", "refused"}
    /\ Len(reads) <= MaxReads /\ \A i \in DOMAIN reads : reads[i].seen \subseteq AnyDataset
    /\ list.shown \subseteq AnyDataset /\ uses \in 0 .. MaxUses

\* dataset-generation.ts: "Generation is persisted server-side as a job with
\* honest phases".  A job that the panel calls over is over in that way on the
\* server, whatever polls and cancel requests crossed each other.
OverIsOver == genJob # Nothing /\ IsTerminal(genJob) => server.jobs[genJob.job] = genJob.phase

\* dataset-actions.tsx, on visibleGenJob: "a genJob whose id no longer matches the
\* URL (the param was cleared externally) is stale and hidden".  A form that waits
\* for a job is not left waiting: the job is polled, or the URL is on its way to
\* it, or the polling has given up.  Only a poll that a cancel request and the
\* dismissal of its answer have overtaken leaves a form waiting for nothing, and
\* then the job is over.
WaitingIsWatched ==
    VisibleGenJob # Nothing /\ ~IsTerminal(VisibleGenJob) =>
        \/ going = VisibleGenJob.job
        \/ watch.job = VisibleGenJob.job /\ watch.step \in {"asking", "answered", "waiting", "gaveUp"}
RunningIsWatched ==
    VisibleGenJob # Nothing /\ server.jobs[VisibleGenJob.job] = "active" => WaitingIsWatched

\* The dataset of a job shown as completed is in the list, once no read of the
\* list is on its way and unless one failed or was overtaken by an older one.
CompletedIsListed ==
    genJob # Nothing /\ genJob.phase = "completed" /\ reads = <<>> =>
        genJob.job \in list.shown \/ list.error \/ list.stale

WatchIsTrue == OverIsOver /\ RunningIsWatched /\ CompletedIsListed
=============================================================================
