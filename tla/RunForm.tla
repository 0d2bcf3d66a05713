-------------------------------- MODULE RunForm --------------------------------
(***************************************************************************)
(* The setup form of a model evaluation (EvaluationWorkbench): the model,  *)
(* the system prompt and the version it came from, what to compare         *)
(* against, the debounced readiness check that enables Run, the unfinished *)
(* setup remembered in the session, and the launch.                        *)
(*                                                                         *)
(* A saved prompt version is its content.  The name, the labels and the    *)
(* checks are one field, other.  The zero-delay timer that restores a      *)
(* draft runs with the load it waits for, and nobody leaves the form while *)
(* a launch or a save is on its way.                                       *)
(***************************************************************************)
EXTENDS Integers, FiniteSets

CONSTANTS
    Model, Text,
    Nothing,        \* no model, no text, no reference, no draft
    MaxEdits,       \* bounds the edits
    MaxLoads        \* bounds the loads and the models withdrawn

RunFormAssumption ==
    /\ Nothing \notin Model \cup Text /\ Text # {}
    /\ MaxEdits \in Nat /\ MaxLoads \in Nat

VARIABLES
    offered,    \* what the backend offers: [models, prompts]
    listed,     \* the catalogs as loaded: [models, prompts, failed]
    loads,      \* loads so far and models withdrawn
    loading,
    applied,    \* draftPrefillApplied
    form,       \* Form
    dirty,      \* formDirty
    saving,     \* the text being saved to the prompt library, or Nothing
    readiness,  \* the last readiness result, or Nothing
    checking,   \* readinessLoading
    due,        \* the debounce timer is running
    checks,     \* readiness checks on their way, the superseded ones included
    draft,      \* the remembered setup, or Nothing
    saveDue,    \* the timer that remembers the setup is running
    launch,     \* the launch on its way, or Nothing
    done,       \* "no", "run" (activeRunId) or "comparison" (comparisonTargets)
    launched    \* the launches that made runs: what was asked and what was run

formVars == <<form, dirty, saving>>
readyVars == <<readiness, checking, due, checks>>
runFormVars == <<offered, listed, loads, loading, applied, formVars, readyVars, draft, saveDue,
                 launch, done, launched>>

-----------------------------------------------------------------------------
FormState == [model: Model \cup {Nothing}, text: Text \cup {Nothing}, ref: Text \cup {Nothing},
         axis: {"none", "models", "prompts"}, extras: SUBSET Model, refs: SUBSET Text,
         other: {0, 1}, rev: 0 .. MaxEdits]      \* rev: edits so far
FreshForm == [model |-> Nothing, text |-> Nothing, ref |-> Nothing, axis |-> "none",
              extras |-> {}, refs |-> {}, other |-> 0, rev |-> 0]

\* buildReadinessRequest
Request(f) == [model |-> f.model, text |-> f.text, other |-> f.other]
SetupReady(f, list) == f.model \in list.models
RunReady ==
    /\ SetupReady(form, listed) /\ ~listed.failed
    /\ ~checking /\ IF readiness = Nothing THEN FALSE ELSE readiness.ready

\* The readiness effect after a change of the request: what is on its way is
\* dropped and Run is disabled until the next answer.
Recheck(f, list) ==
    /\ checks' = {[c EXCEPT !.active = FALSE] : c \in checks}
    /\ checking' = SetupReady(f, list) /\ due' = SetupReady(f, list)
    /\ readiness' = IF SetupReady(f, list) THEN readiness ELSE Nothing
RecheckIfAsked(f) ==
    IF Request(f) = Request(form) THEN UNCHANGED readyVars ELSE Recheck(f, listed)

\* The draft effect: a change of a dirty setup (re)starts the timer.
WantsDraft(isDirty, isLoading, isDone) == isDirty /\ ~isLoading /\ isDone # "run"

-----------------------------------------------------------------------------
(* Edits *)

Change(f) ==
    /\ form.rev < MaxEdits /\ done # "comparison"
    /\ form' = [f EXCEPT !.rev = form.rev + 1]
    /\ dirty' = TRUE
    /\ saveDue' = WantsDraft(TRUE, loading, done)
    /\ RecheckIfAsked(f)
    /\ UNCHANGED <<offered, listed, loads, loading, applied, saving, draft, launch, done, launched>>

PickModel(m) == m \in listed.models /\ Change([form EXCEPT !.model = m])
EditOther == Change([form EXCEPT !.other = 1 - @])
\* Edited text is no longer the saved version; the box is locked during a save.
TextLocked == saving # Nothing
Retype(t) ==
    ~TextLocked /\ t # form.text /\ Change([form EXCEPT !.text = t, !.ref = Nothing])
StartFrom(t) ==
    ~TextLocked /\ t \in listed.prompts /\ Change([form EXCEPT !.text = t, !.ref = t])

CanCompare == form.model # Nothing /\ (Cardinality(listed.models) > 1 \/ listed.prompts # {})
AxisChange(a) ==
    /\ CanCompare /\ (a = "prompts" => listed.prompts # {})
    /\ Change([form EXCEPT !.axis = a, !.extras = {},
                   !.refs = IF a = "prompts" /\ form.ref # Nothing THEN {form.ref} ELSE {}])
Flip(S, e) == IF e \in S THEN S \ {e} ELSE S \cup {e}
ToggleLlm(m) ==
    /\ CanCompare /\ form.axis = "models" /\ m \in listed.models \ {form.model}
    /\ Change([form EXCEPT !.extras = Flip(@, m)])
TogglePrompt(t) ==
    /\ CanCompare /\ form.axis = "prompts" /\ t \in listed.prompts
    /\ Change([form EXCEPT !.refs = Flip(@, t)])

\* saveCurrentPrompt
SavePrompt ==
    /\ applied      \* canManagePrompts comes with the first load
    /\ saving = Nothing /\ form.text # Nothing /\ form.ref = Nothing /\ done # "comparison"
    /\ saving' = form.text
    /\ UNCHANGED <<offered, listed, loads, loading, applied, form, dirty, readyVars, draft, saveDue,
                   launch, done, launched>>
PromptSaved ==
    /\ saving # Nothing
    /\ saving' = Nothing
    /\ offered' = [offered EXCEPT !.prompts = @ \cup {saving}]
    /\ form' = [form EXCEPT !.ref = saving]
    /\ \E fresh \in {listed.prompts, offered'.prompts} :
            listed' = [listed EXCEPT !.prompts = fresh]
    /\ saveDue' = WantsDraft(dirty, loading, done)
    /\ UNCHANGED <<loads, loading, applied, dirty, readyVars, draft, launch, done, launched>>
PromptSaveFails ==
    /\ saving # Nothing
    /\ saving' = Nothing
    /\ UNCHANGED <<offered, listed, loads, loading, applied, form, dirty, readyVars, draft, saveDue,
                   launch, done, launched>>

-----------------------------------------------------------------------------
(* Loading the catalogs and the draft *)

Withdraw(m) ==
    /\ m \in offered.models /\ loads < MaxLoads
    /\ offered' = [offered EXCEPT !.models = @ \ {m}] /\ loads' = loads + 1
    /\ UNCHANGED <<listed, loading, applied, formVars, readyVars, draft, saveDue, launch, done,
                   launched>>

Refresh ==
    /\ ~loading /\ loads < MaxLoads /\ done # "comparison"
    /\ loads' = loads + 1 /\ loading' = TRUE
    /\ listed' = [listed EXCEPT !.failed = FALSE]
    /\ saveDue' = FALSE
    /\ UNCHANGED <<offered, applied, formVars, readyVars, draft, launch, done, launched>>

\* Drop the prompts the reloaded catalog no longer offers; the models stay.
Surviving(f, prompts) ==
    [f EXCEPT !.refs = @ \cap prompts,
              !.axis = IF prompts = {} /\ @ = "prompts" THEN "none" ELSE @]
\* Only the fields the draft has; the comparison is not remembered.
Restored(f, d) ==
    [f EXCEPT !.model = IF d.model = Nothing THEN @ ELSE d.model,
              !.text = IF d.text = Nothing THEN @ ELSE d.text,
              !.ref = IF d.ref = Nothing THEN @ ELSE d.ref,
              !.other = d.other]

\* A source that cannot be read is listed empty; only the models block the run.
LoadArrives ==
    /\ loading
    /\ loading' = FALSE
    /\ \E models \in {offered.models, {}}, prompts \in {offered.prompts, {}} :
        LET list == [models |-> models, prompts |-> prompts, failed |-> models # offered.models]
            kept == Surviving(form, prompts)
            f == IF draft # Nothing /\ ~applied THEN Restored(kept, draft) ELSE kept
        IN /\ listed' = list /\ form' = f /\ Recheck(f, list)
    /\ applied' = TRUE
    /\ saveDue' = WantsDraft(dirty, FALSE, done)
    /\ UNCHANGED <<offered, loads, dirty, saving, draft, launch, done, launched>>

\* rememberRunDraft, 500 ms after the last change.
RememberDraft ==
    /\ saveDue
    /\ saveDue' = FALSE /\ draft' = form
    /\ UNCHANGED <<offered, listed, loads, loading, applied, formVars, readyVars, launch, done, launched>>

\* The form is left and opened again: a new mount in the same session.
Reopen ==
    /\ ~loading /\ launch = Nothing /\ saving = Nothing /\ loads < MaxLoads
    /\ loads' = loads + 1 /\ loading' = TRUE /\ applied' = FALSE
    /\ listed' = [models |-> {}, prompts |-> {}, failed |-> FALSE]
    /\ form' = [FreshForm EXCEPT !.rev = form.rev] /\ dirty' = FALSE /\ saveDue' = FALSE /\ done' = "no"
    /\ readiness' = Nothing /\ checking' = FALSE /\ due' = FALSE /\ checks' = {}
    /\ UNCHANGED <<offered, saving, draft, launch, launched>>

-----------------------------------------------------------------------------
(* Readiness *)

CheckDue ==
    /\ due
    /\ due' = FALSE
    /\ checks' = checks \cup {[for |-> Request(form), active |-> TRUE]}
    /\ UNCHANGED <<offered, listed, loads, loading, applied, formVars, readiness, checking, draft,
                   saveDue, launch, done, launched>>
Counts(c) == c.active
CheckAnswers(c) ==
    /\ c \in checks
    /\ checks' = checks \ {c}
    /\ \E answer \in {[for |-> c.for, ready |-> ok] : ok \in BOOLEAN} \cup {Nothing} :
            readiness' = IF Counts(c) THEN answer ELSE readiness
    /\ checking' = (checking /\ ~Counts(c))
    /\ UNCHANGED <<offered, listed, loads, loading, applied, formVars, due, draft, saveDue, launch,
                   done, launched>>

-----------------------------------------------------------------------------
(* Launching *)

\* The version the run is linked to, and the text that it runs with.
ChosenRef(f) == IF Cardinality(f.refs) = 1 THEN CHOOSE t \in f.refs : TRUE ELSE f.ref
PromptRun(f) == IF ChosenRef(f) = Nothing THEN f.text ELSE ChosenRef(f)
IsComparison(f) == f.extras # {} \/ Cardinality(f.refs) >= 2
\* The chosen model and the models compared with it that the catalog lists, or
\* one run per chosen prompt version.
Arms(f, list) ==
    IF f.axis = "prompts"
    THEN {[model |-> f.model, prompt |-> t, extra |-> FALSE] : t \in f.refs}
    ELSE {[model |-> f.model, prompt |-> PromptRun(f), extra |-> FALSE]}
           \cup {[model |-> m, prompt |-> PromptRun(f), extra |-> TRUE] :
                    m \in f.extras \cap list.models}
OneRun(f) == {[model |-> f.model, prompt |-> PromptRun(f), extra |-> FALSE]}

\* runEvaluation: everything it sends is read from the form at the click.
Run ==
    /\ RunReady /\ ~loading /\ launch = Nothing /\ done = "no"
    /\ launch' = [form |-> form, checked |-> FALSE,
                  arms |-> IF IsComparison(form) THEN Arms(form, listed) ELSE OneRun(form)]
    /\ UNCHANGED <<offered, listed, loads, loading, applied, formVars, readyVars, draft, saveDue, done,
                   launched>>
EvidenceChecked ==
    /\ IF launch = Nothing THEN FALSE ELSE ~launch.checked
    /\ launch' \in {[launch EXCEPT !.checked = TRUE], Nothing}
    /\ UNCHANGED <<offered, listed, loads, loading, applied, formVars, readyVars, draft, saveDue, done,
                   launched>>

\* The runs that start; the launched setup is no longer unfinished.
ForgetDraft == draft' = Nothing
RunsStart ==
    /\ IF launch = Nothing THEN FALSE ELSE launch.checked
    /\ \E started \in SUBSET launch.arms \ {{}} :
            launched' = launched \cup {[form |-> launch.form, arms |-> launch.arms,
                                        started |-> started]}
    /\ launch' = Nothing
    /\ done' = IF IsComparison(launch.form) THEN "comparison" ELSE "run"
    /\ dirty' = FALSE /\ saveDue' = FALSE
    /\ ForgetDraft
    /\ UNCHANGED <<offered, listed, loads, loading, applied, form, saving, readyVars>>
NothingStarts ==
    /\ IF launch = Nothing THEN FALSE ELSE launch.checked
    /\ launch' = Nothing
    /\ UNCHANGED <<offered, listed, loads, loading, applied, formVars, readyVars, draft, saveDue, done,
                   launched>>

-----------------------------------------------------------------------------
RunFormInit ==
    /\ offered = [models |-> Model, prompts |-> {CHOOSE t \in Text : TRUE}]
    /\ listed = [models |-> {}, prompts |-> {}, failed |-> FALSE]
    /\ loads = 0 /\ loading = TRUE /\ applied = FALSE
    /\ form = FreshForm /\ dirty = FALSE /\ saving = Nothing
    /\ readiness = Nothing /\ checking = FALSE /\ due = FALSE /\ checks = {}
    /\ draft = Nothing /\ saveDue = FALSE
    /\ launch = Nothing /\ done = "no" /\ launched = {}

Edit ==
    \/ EditOther
    \/ \E m \in Model : PickModel(m) \/ ToggleLlm(m)
    \/ \E t \in Text : Retype(t) \/ StartFrom(t) \/ TogglePrompt(t)
    \/ Retype(Nothing)
    \/ \E a \in {"none", "models", "prompts"} : AxisChange(a)
Prompts == SavePrompt \/ PromptSaved \/ PromptSaveFails
Loading == (\E m \in Model : Withdraw(m)) \/ Refresh \/ LoadArrives \/ RememberDraft \/ Reopen
Checking == CheckDue \/ \E c \in checks : CheckAnswers(c)
Launching == Run \/ EvidenceChecked \/ RunsStart \/ NothingStarts

RunFormNext == Edit \/ Prompts \/ Loading \/ Checking \/ Launching

RunFormSpec == RunFormInit /\ [][RunFormNext]_runFormVars

-----------------------------------------------------------------------------
RunFormTypeOK ==
    /\ form \in FormState /\ draft \in FormState \cup {Nothing} /\ saving \in Text \cup {Nothing}
    /\ \A c \in checks : c.for.model \in Model /\ c.active \in BOOLEAN
    /\ done \in {"no", "run", "comparison"}
    /\ {dirty, loading, checking, due, saveDue} \subseteq BOOLEAN

\* workbench.tsx, comment on the readiness effect: a stale "ready" never keeps
\* Run enabled; the answer that enables it is for the form on screen.
RunReadyIsForThisForm == RunReady => readiness.for = Request(form)

\* system-prompt-panel.tsx, comment on reference: a run that names a saved
\* prompt version runs the text that was on screen, however the save of that
\* text and its edits interleave.
RunsTheTextOnScreen ==
    \A l \in launched : \A arm \in l.arms :
        l.form.refs = {} => arm.prompt = l.form.text

\* workbench.tsx, forgetRunDraft: a setup that was launched is not restored as
\* unfinished; what is remembered was edited after the launch.
LaunchedSetupIsForgotten ==
    \A l \in launched : IF draft = Nothing THEN TRUE ELSE draft.rev > l.form.rev

RunFormIsTrue == RunReadyIsForThisForm /\ RunsTheTextOnScreen /\ LaunchedSetupIsForgotten
=============================================================================
