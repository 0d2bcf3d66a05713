---------------------------- MODULE RunReadiness ----------------------------
(***************************************************************************)
(* Choosing the checks of a run and starting it (EvaluationWorkbench, steps *)
(* 3 and 4: MetricSelectionPanel, ScoringSummary, AdvancedSettings,        *)
(* RunBar).  The checks ticked, those of the applied rubric templates and  *)
(* those of the Assignment that may fix them all; the depth they force;    *)
(* the readiness answer that greys checks and depths out, drops those that *)
(* do not apply from the request, and enables Run.                         *)
(*                                                                         *)
(* The effects a state change schedules run before the next event, so an   *)
(* action takes the readiness effect with it, and the effect of what that  *)
(* effect sets.  The operational checks, the name and the target are left  *)
(* out: they neither depend on readiness nor stop a run here.              *)
(***************************************************************************)
EXTENDS Integers, FiniteSets, FiniteSetsExt

CONSTANTS
    Metric,
    Depth,          \* [Metric -> 0 .. 2], metricEvidenceScope
    Group,          \* the metrics by meaning
    Template,
    Scored,         \* [Template -> Metric], the check a template requires
    Manifest,       \* the checks the Assignment fixes
    ManifestDepth,
    Dataset,
    NeedsReference, \* the checks graded against a reference answer
    Reference,      \* the datasets that have one
    Nothing,
    MaxEdits        \* bounds the user's actions

ReadinessAssumption ==
    /\ Depth \in [Metric -> 0 .. 2] /\ Scored \in [Template -> Metric]
    /\ Group \subseteq SUBSET Metric
    /\ Manifest \subseteq Metric /\ ManifestDepth \in 0 .. 2 /\ NeedsReference \subseteq Metric
    /\ Reference \subseteq Dataset /\ Nothing \notin Dataset /\ MaxEdits \in Nat

VARIABLES
    form,       \* Form
    manifest,   \* the Assignment's checks: "unread", "read" or "failed"
    readiness,  \* the answer on screen, or Nothing
    checking,   \* readinessLoading
    due,        \* the debounce timer is running
    calls,      \* the readiness checks on their way, the superseded included
    launch,     \* the start on its way, or Nothing
    launched,   \* the request of the run that started, or Nothing
    edits

readyVars == <<readiness, checking, due, calls>>
readinessVars == <<form, manifest, readyVars, launch, launched, edits>>

-----------------------------------------------------------------------------
Form == [metrics: SUBSET Metric, templates: SUBSET Template, depth: 0 .. 2,
         tools: {"all", "some", "none"}, dataset: Dataset \cup {Nothing}, assigned: BOOLEAN]

\* contractRequiredMetricIds, resolvedMetricIds
Required(f) == {Scored[k] : k \in f.templates}
Resolved(f, man) ==
    IF ~f.assigned THEN f.metrics \cup Required(f)
    ELSE IF man = "read" THEN Manifest ELSE {}
\* minimumScope, evaluationScope: the checks set the floor, the user may go deeper.
Floor(f, man) == Max({0} \cup {Depth[m] : m \in Resolved(f, man)})
Scope(f, man) ==
    IF f.assigned /\ man = "read" THEN ManifestDepth ELSE Max({f.depth, Floor(f, man)})

\* isKnownNotApplicable, metricUnavailableReason, metricLockedByContract
NotApplicable(r) == IF r = Nothing THEN {} ELSE r.na
Unavailable(r) == IF r = Nothing THEN {} ELSE {m \in Metric : Depth[m] > 0 /\ ~r.deep}
Locked(r) == IF r = Nothing THEN {} ELSE r.locked

\* activeMetricIds: what the run is asked to score.
Active(f, man, r) == Resolved(f, man) \ (NotApplicable(r) \ Required(f))
Blocked(f, r) == Required(f) \cap NotApplicable(r) # {}

\* settingsReady counts what is asked for, so an answer can take it away.
SettingsReady(f, man, r) ==
    IF f.assigned THEN Resolved(f, man) # {} ELSE Active(f, man, r) # {}
SetupReady(f, man, r) == f.dataset # Nothing /\ SettingsReady(f, man, r)

\* buildReadinessRequest: the whole selection, for the answer to speak of it all.
Request(f, man) ==
    [dataset |-> f.dataset, metrics |-> Resolved(f, man), templates |-> f.templates,
     depth |-> Scope(f, man), tools |-> IF Scope(f, man) > 0 THEN f.tools ELSE "all",
     assigned |-> f.assigned]

RunReady ==
    /\ SetupReady(form, manifest, readiness) /\ ~Blocked(form, readiness) /\ ~checking
    /\ IF readiness = Nothing THEN FALSE ELSE readiness.ready

-----------------------------------------------------------------------------
(* The readiness check *)

\* Run is disabled, and what is on its way no longer counts.  A setup that is
\* not ready has no answer: without it the setup may be ready again.
SupersedeNone(pending) == pending
Supersede(pending) == {[c EXCEPT !.active = FALSE] : c \in pending}
StartsOver(f, man, r, pending) ==
    LET kept == IF SetupReady(f, man, r) THEN r ELSE Nothing
    IN /\ readiness' = kept
       /\ checking' = SetupReady(f, man, kept) /\ due' = checking'
       /\ calls' = Supersede(pending)

Recheck(f, man) ==
    IF Request(f, man) = Request(form, manifest)
       /\ SetupReady(f, man, readiness) = SetupReady(form, manifest, readiness)
    THEN UNCHANGED readyVars
    ELSE StartsOver(f, man, readiness, calls)

CheckDue ==
    /\ due
    /\ due' = FALSE
    /\ calls' = calls \cup {[for |-> Request(form, manifest), active |-> TRUE]}
    /\ UNCHANGED <<form, manifest, readiness, checking, launch, launched, edits>>

\* The backend: a check without its reference does not apply, and only what an
\* Assignment's contract requires is locked; such a check not applying blocks.
Answer(q) ==
    LET na == IF q.dataset \in Reference THEN {} ELSE q.metrics \cap NeedsReference
        locked == IF q.assigned THEN q.metrics ELSE {}
    IN {[for |-> q, na |-> na, locked |-> locked, deep |-> deep, ready |-> ready] :
            deep \in BOOLEAN,
            ready \in IF na \cap locked # {} THEN {FALSE} ELSE BOOLEAN}
Possible(q) == {a \in Answer(q) : a.ready /\ q.depth > 0 => a.deep}

CheckAnswers(c) ==
    /\ c \in calls
    /\ \E answer \in Possible(c.for) \cup {Nothing} :
        IF ~c.active THEN calls' = calls \ {c} /\ UNCHANGED <<readiness, checking, due>>
        ELSE IF SetupReady(form, manifest, answer)
        THEN readiness' = answer /\ checking' = FALSE /\ calls' = calls \ {c} /\ UNCHANGED due
        ELSE StartsOver(form, manifest, answer, calls \ {c})
    /\ UNCHANGED <<form, manifest, launch, launched, edits>>

-----------------------------------------------------------------------------
(* The form *)

Edit(f) ==
    /\ launched = Nothing /\ edits < MaxEdits /\ edits' = edits + 1
    /\ form' = f
    /\ Recheck(f, manifest)
    /\ UNCHANGED <<manifest, launch, launched>>

PickDataset(d) == d # form.dataset /\ Edit([form EXCEPT !.dataset = d])

Flip(m) == [form EXCEPT !.metrics = SymDiff(@, {m})]
\* MetricCheckbox: what cannot run may only be cleared, what is locked may not.
GreyedOut == NotApplicable(readiness) \cup Unavailable(readiness)
CanClick(m) == (m \in GreyedOut => m \in Resolved(form, manifest)) /\ m \notin Locked(readiness)
ClickCheck(m) == ~form.assigned /\ CanClick(m) /\ Edit(Flip(m))
\* The chips of ScoringSummary
Removable == {m \in Resolved(form, manifest) : ~form.assigned /\ m \notin Locked(readiness)}
RemoveCheck(m) == m \in Removable /\ Edit(Flip(m))

\* groupToggleTargets
Selectable(G) == G \ GreyedOut
Togglable(G) == Selectable(G) \ Locked(readiness)
ToggleTargets(G) ==
    LET selected == Resolved(form, manifest)
    IN IF Togglable(G) \subseteq selected THEN Togglable(G) ELSE Togglable(G) \ selected
ToggleGroup(G) ==
    /\ ~form.assigned /\ ToggleTargets(G) # {}
    /\ Edit([form EXCEPT !.metrics = SymDiff(@, ToggleTargets(G))])

ToggleTemplate(k) ==
    /\ ~form.assigned
    /\ Edit([form EXCEPT !.templates = SymDiff(@, {k})])

\* evaluationDepthOptionState: not above the floor, or not offered, is disabled.
ChooseDepth(d) ==
    /\ ~form.assigned /\ d >= Floor(form, manifest)
    /\ IF readiness = Nothing \/ d = 0 THEN TRUE ELSE readiness.deep
    /\ d # form.depth /\ Edit([form EXCEPT !.depth = d])
\* An agent of two tools: named tools, or all of them.
ToggleTool ==
    /\ ~form.assigned /\ Scope(form, manifest) > 0
    /\ \E t \in IF form.tools = "some" THEN {"all", "none"} ELSE {"some"} :
            Edit([form EXCEPT !.tools = t])

\* The Assignment and its checks; they are read again when it is chosen again.
Assign == ~form.assigned /\ Edit([form EXCEPT !.assigned = TRUE, !.templates = {}])
ClearAssignment == form.assigned /\ Edit([form EXCEPT !.assigned = FALSE])
ManifestArrives ==
    /\ form.assigned /\ manifest = "unread" /\ launched = Nothing
    /\ manifest' \in {"read", "failed"}
    /\ Recheck(form, manifest')
    /\ UNCHANGED <<form, launch, launched, edits>>

-----------------------------------------------------------------------------
(* Starting the run *)

\* buildRunRequest: only what applies; an Assignment decides for itself.
RunRequest == [Request(form, manifest) EXCEPT !.metrics = Active(form, manifest, readiness)]
\* runEvaluation: everything is read at the click.
MayRun == RunReady
Run ==
    /\ MayRun /\ launch = Nothing /\ launched = Nothing
    /\ ~(Scope(form, manifest) > 0 /\ form.tools = "none")
    /\ launch' = [request |-> RunRequest, checked |-> FALSE]
    /\ UNCHANGED <<form, manifest, readyVars, launched, edits>>
\* The same request is checked once more.
EvidenceChecked ==
    /\ IF launch = Nothing THEN FALSE ELSE ~launch.checked
    /\ \E answer \in Possible(launch.request) \cup {Nothing} :
            launch' = IF answer = Nothing THEN Nothing
                      ELSE IF answer.ready THEN [launch EXCEPT !.checked = TRUE] ELSE Nothing
    /\ UNCHANGED <<form, manifest, readyVars, launched, edits>>
\* The page is left for the run's; or the start fails.
RunStarts ==
    /\ IF launch = Nothing THEN FALSE ELSE launch.checked
    /\ launch' = Nothing
    /\ launched' \in {launch.request, Nothing}
    /\ UNCHANGED <<form, manifest, readyVars, edits>>

-----------------------------------------------------------------------------
ReadinessInit ==
    /\ \E chosen \in SUBSET Metric, d \in Dataset \cup {Nothing} :
            form = [metrics |-> chosen, templates |-> {}, depth |-> 0, tools |-> "all",
                    dataset |-> d, assigned |-> FALSE]
    /\ manifest = "unread" /\ readiness = Nothing
    /\ checking = SetupReady(form, manifest, Nothing) /\ due = checking
    /\ calls = {} /\ launch = Nothing /\ launched = Nothing /\ edits = 0

Choosing ==
    \/ \E d \in Dataset : PickDataset(d)
    \/ \E m \in Metric : ClickCheck(m) \/ RemoveCheck(m)
    \/ \E G \in Group : ToggleGroup(G)
    \/ \E k \in Template : ToggleTemplate(k)
    \/ \E d \in 0 .. 2 : ChooseDepth(d)
    \/ ToggleTool \/ Assign \/ ClearAssignment
Checking == CheckDue \/ \E c \in calls : CheckAnswers(c)
Starting == Run \/ EvidenceChecked \/ RunStarts

ReadinessNext == Choosing \/ ManifestArrives \/ Checking \/ Starting

ReadinessSpec == ReadinessInit /\ [][ReadinessNext]_readinessVars

-----------------------------------------------------------------------------
ReadinessTypeOK ==
    /\ form \in Form /\ manifest \in {"unread", "read", "failed"}
    /\ {checking, due} \subseteq BOOLEAN
    /\ \A c \in calls : c.active \in BOOLEAN

\* workbench.tsx, comment on runReady: a stale result never enables Run; the
\* answer that enables it speaks of the checks, depth, tools, rubrics and
\* dataset on screen, whatever was on its way while they changed.
RunIsForThisForm ==
    RunReady => readiness.for = Request(form, manifest)

\* helpers.ts, applicableScoringMetricIds and requiredScopeForMetricIds: a run
\* scores something, nothing that is known not to apply to its dataset, nothing
\* its depth does not reach, and names a tool if it is limited to named tools.
StartsWhatApplies ==
    IF launched = Nothing THEN TRUE
    ELSE /\ launched.metrics # {}
         /\ launched.dataset \in Reference \/ launched.metrics \cap NeedsReference = {}
         /\ launched.assigned \/ \A m \in launched.metrics : Depth[m] <= launched.depth
         /\ launched.tools # "none"

ReadinessIsTrue == RunIsForThisForm /\ StartsWhatApplies

\* metric-selection-panel.tsx, groupToggleTargets: no click ticks a check that is
\* not applicable or not available, not as one of a group either.
TicksOnlyWhatCanRun ==
    form'.metrics \ form.metrics \subseteq (Metric \ GreyedOut) \cup Resolved(form, manifest)

=============================================================================
