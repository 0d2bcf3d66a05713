-------------------------- MODULE ConsoleSetupProofs --------------------------
(* Proofs about four of the pages on which an evaluation is set up.  The         *)
(* readiness of a run, for any metrics, templates and datasets: however late the *)
(* answers come, what is checked, enabled and started is the form on screen.     *)
(* Saved prompts, for any number of them and of requests: however the            *)
(* transactions of the store and the answers to the page interleave, a save has  *)
(* a version of its own, and a lock is held exactly as long as one thing will    *)
(* let go of it.  The assignment wizard, for any catalogues: whatever is retired *)
(* or reloaded between the choices, what is bound fits together.  The data set of*)
(* a run, for any data sets and agents: what is shown, chosen and published is   *)
(* what was asked for.                                                           *)
EXTENDS RunReadiness, Prompts, AssignmentSetup, DatasetChoice,
    FiniteSetTheorems, SequenceTheorems, TLAPS

-----------------------------------------------------------------------------
(* Readiness *)

\* What a run asks for, if it may be started: it scores something, nothing that
\* does not apply to its dataset or that its depth does not reach, and it names a
\* tool if it is limited to named ones.
Applies(request) ==
    /\ request.metrics # {}
    /\ request.dataset \in Reference \/ request.metrics \cap NeedsReference = {}
    /\ request.assigned \/ \A m \in request.metrics : Depth[m] <= request.depth
    /\ request.tools # "none"

\* What counts speaks of the form on screen: the checks on their way that are not
\* superseded, and the answer on which Run is enabled.  An answer is one that
\* the backend gives, a template is never ticked beside an Assignment, and what
\* is being started was checked like that.
ReadinessInv ==
    /\ ReadinessTypeOK
    /\ \A c \in calls : c \in [for: {c.for}, active: BOOLEAN]
    /\ \A c \in calls : c.active => c.for = Request(form, manifest)
    /\ readiness # Nothing /\ ~checking /\ SetupReady(form, manifest, readiness)
         => readiness.for = Request(form, manifest)
    /\ readiness # Nothing => readiness \in Answer(readiness.for)
    /\ form.assigned => form.templates = {}
    /\ launch # Nothing => launch \in [request: {launch.request}, checked: BOOLEAN]
    /\ launch # Nothing => Applies(launch.request)
    /\ launched # Nothing => Applies(launched)

-----------------------------------------------------------------------------
(* Depths *)

\* The greatest of some depths is one of them, and none is greater.
LEMMA MaxOfDepths ==
    ASSUME NEW S, S \subseteq 0 .. 2, S # {}
    PROVE  Max(S) \in S /\ \A d \in S : d <= Max(S)
<1>1. \E x \in S : \A y \in S : x >= y
  <2>1. CASE 2 \in S
    BY <2>1
  <2>2. CASE 2 \notin S /\ 1 \in S
    BY <2>2
  <2>3. CASE 2 \notin S /\ 1 \notin S
    <3>1. \A x \in S : x \in Int /\ 0 <= x /\ x <= 2 /\ x # 1 /\ x # 2
      BY <2>3
    <3>2. \A x \in S : x = 0
      BY <3>1
    <3>3. PICK x \in S : TRUE
      OBVIOUS
    <3> QED BY <3>2, <3>3
  <2> QED BY <2>1, <2>2, <2>3
<1>2. Max(S) \in S /\ \A y \in S : Max(S) >= y
  BY <1>1 DEF Max
<1> QED BY <1>2

\* The depth of a request reaches every check that the form asks for.
LEMMA ScopeReaches ==
    ASSUME ReadinessAssumption, NEW f \in Form, NEW man, ~f.assigned
    PROVE  \A m \in Resolved(f, man) : Depth[m] <= Scope(f, man)
<1> DEFINE depths == {0} \cup {Depth[m] : m \in Resolved(f, man)}
<1>1. Resolved(f, man) \subseteq Metric
  BY DEF Resolved, Required, ReadinessAssumption, Form
<1>2. depths \subseteq 0 .. 2 /\ depths # {}
  BY <1>1 DEF ReadinessAssumption
<1>3. \A m \in Resolved(f, man) : Depth[m] \in depths
  OBVIOUS
<1>4. Floor(f, man) = Max(depths)
  BY DEF Floor
<1> HIDE DEF depths
<1>5. Floor(f, man) \in 0 .. 2 /\ \A d \in depths : d <= Floor(f, man)
  BY <1>2, <1>4, MaxOfDepths
<1>6. {f.depth, Floor(f, man)} \subseteq 0 .. 2
  BY <1>5 DEF Form
<1>7. Floor(f, man) <= Max({f.depth, Floor(f, man)})
  BY <1>6, MaxOfDepths
<1>8. Scope(f, man) = Max({f.depth, Floor(f, man)})
  BY DEF Scope
<1>9. Max({f.depth, Floor(f, man)}) \in 0 .. 2
  BY <1>6, MaxOfDepths
<1>10. ASSUME NEW m \in Resolved(f, man) PROVE Depth[m] <= Scope(f, man)
  <2>1. Depth[m] <= Floor(f, man) /\ Depth[m] \in 0 .. 2
    BY <1>2, <1>3, <1>5
  <2> QED BY <2>1, <1>5, <1>7, <1>8, <1>9
<1> QED BY <1>10

\* A check that is superseded stays the check of its request, and is no longer
\* active.
LEMMA SupersedeEnds ==
    ASSUME NEW checks, \A c \in checks : c \in [for: {c.for}, active: BOOLEAN]
    PROVE  \A c \in Supersede(checks) :
              c.active = FALSE /\ c \in [for: {c.for}, active: BOOLEAN]
<1> SUFFICES ASSUME NEW c \in checks
             PROVE  LET over == [c EXCEPT !.active = FALSE]
                    IN  over.active = FALSE /\ over \in [for: {over.for}, active: BOOLEAN]
  BY DEF Supersede
<1>1. c \in [for: {c.for}, active: BOOLEAN]
  OBVIOUS
<1> QED BY <1>1

\* What an answer says of its request.
LEMMA AnswerSays ==
    ASSUME NEW q, NEW a \in Answer(q)
    PROVE  /\ a.for = q
           /\ a.na = IF q.dataset \in Reference THEN {} ELSE q.metrics \cap NeedsReference
           /\ a.na \cap (IF q.assigned THEN q.metrics ELSE {}) # {} => ~a.ready
<1> DEFINE na == IF q.dataset \in Reference THEN {} ELSE q.metrics \cap NeedsReference
           locked == IF q.assigned THEN q.metrics ELSE {}
           some == IF na \cap locked # {} THEN {FALSE} ELSE BOOLEAN
<1>1. Answer(q) = {[for |-> q, na |-> na, locked |-> locked, deep |-> deep, ready |-> ready] :
                     deep \in BOOLEAN, ready \in some}
  BY DEF Answer
<1>2. na \cap locked # {} => \A ready \in some : ready = FALSE
  OBVIOUS
<1> HIDE DEF na, locked, some
<1>3. PICK deep \in BOOLEAN, ready \in some :
         a = [for |-> q, na |-> na, locked |-> locked, deep |-> deep, ready |-> ready]
  BY <1>1
<1>4. a.for = q /\ a.na = na /\ a.ready = ready
  BY <1>3
<1>5. na \cap locked # {} => ~a.ready
  BY <1>2, <1>4
<1> QED BY <1>4, <1>5 DEF na, locked

-----------------------------------------------------------------------------
(* The steps *)

\* The invariant holds where the page is opened, and under stuttering.
LEMMA ReadinessInitInv == ASSUME ReadinessInit PROVE ReadinessInv
<1>1. ReadinessTypeOK
  BY DEF ReadinessInit, ReadinessTypeOK, Form, SetupReady
<1> QED BY <1>1 DEF ReadinessInit, ReadinessInv

\* After an edit the answer on screen is the one of the new form, or Run is off
\* until another answer comes.
LEMMA RecheckKeeps ==
    ASSUME ReadinessInv, form' \in Form, manifest' \in {"unread", "read", "failed"},
           form'.assigned => form'.templates = {},
           Recheck(form', manifest'), UNCHANGED <<launch, launched>>
    PROVE  ReadinessInv'
<1>1. CASE Request(form', manifest') = Request(form, manifest)
           /\ SetupReady(form', manifest', readiness) = SetupReady(form, manifest, readiness)
           /\ UNCHANGED readyVars
  <2>1. ReadinessTypeOK'
    BY <1>1 DEF ReadinessInv, ReadinessTypeOK, readyVars
  <2> QED BY <1>1, <2>1 DEF ReadinessInv, readyVars
<1>2. CASE StartsOver(form', manifest', readiness, calls)
  <2> DEFINE kept == IF SetupReady(form', manifest', readiness) THEN readiness ELSE Nothing
  <2>1. /\ readiness' = kept /\ checking' = SetupReady(form', manifest', kept)
        /\ due' = checking' /\ calls' = Supersede(calls)
    BY <1>2 DEF StartsOver
  <2>2. checking' \in BOOLEAN
    BY <2>1 DEF SetupReady
  <2>3. \A c \in calls' : c.active = FALSE /\ c \in [for: {c.for}, active: BOOLEAN]
    BY <2>1, SupersedeEnds DEF ReadinessInv
  <2>4. ReadinessTypeOK'
    BY <2>1, <2>2, <2>3 DEF ReadinessTypeOK
  <2>5. readiness' # Nothing => readiness' \in Answer(readiness'.for)
    BY <2>1 DEF ReadinessInv
  <2> QED BY <2>1, <2>3, <2>4, <2>5 DEF ReadinessInv
<1> QED BY <1>1, <1>2 DEF Recheck

\* Whatever the user does to the form.
LEMMA EditKeeps ==
    ASSUME ReadinessInv, NEW f \in Form, f.assigned => f.templates = {}, Edit(f)
    PROVE  ReadinessInv'
BY RecheckKeeps DEF Edit, ReadinessInv, ReadinessTypeOK

\* A choice on the form starts a new check.
LEMMA ChoosingStep == ASSUME ReadinessAssumption, ReadinessInv, Choosing PROVE ReadinessInv'
<1>t. form \in Form /\ (form.assigned => form.templates = {})
  BY DEF ReadinessInv, ReadinessTypeOK
<1>1. ASSUME NEW d \in Dataset, PickDataset(d) PROVE ReadinessInv'
  <2> DEFINE f == [form EXCEPT !.dataset = d]
  <2>1. f \in Form /\ (f.assigned => f.templates = {})
    BY <1>t DEF Form
  <2>2. Edit(f)
    BY <1>1 DEF PickDataset
  <2> HIDE DEF f
  <2> QED BY <2>1, <2>2, EditKeeps
<1>2. ASSUME NEW M \in SUBSET Metric, Edit([form EXCEPT !.metrics = M]) PROVE ReadinessInv'
  <2> DEFINE f == [form EXCEPT !.metrics = M]
  <2>1. f \in Form /\ (f.assigned => f.templates = {})
    BY <1>t DEF Form
  <2>2. Edit(f)
    BY <1>2
  <2> HIDE DEF f
  <2> QED BY <2>1, <2>2, EditKeeps
<1>3. ASSUME NEW m \in Metric, ClickCheck(m) \/ RemoveCheck(m) PROVE ReadinessInv'
  <2>1. SymDiff(form.metrics, {m}) \in SUBSET Metric
    BY <1>t DEF Form, SymDiff
  <2>2. Edit([form EXCEPT !.metrics = SymDiff(form.metrics, {m})])
    BY <1>3 DEF ClickCheck, RemoveCheck, Flip
  <2> QED BY <2>1, <2>2, <1>2
<1>4. ASSUME NEW G \in Group, ToggleGroup(G) PROVE ReadinessInv'
  <2>1. ToggleTargets(G) \subseteq Metric
    BY DEF ReadinessAssumption, ToggleTargets, Togglable, Selectable
  <2>2. SymDiff(form.metrics, ToggleTargets(G)) \in SUBSET Metric
    BY <1>t, <2>1 DEF Form, SymDiff
  <2>3. Edit([form EXCEPT !.metrics = SymDiff(form.metrics, ToggleTargets(G))])
    BY <1>4 DEF ToggleGroup
  <2> QED BY <2>2, <2>3, <1>2
<1>5. ASSUME NEW k \in Template, ToggleTemplate(k) PROVE ReadinessInv'
  <2> DEFINE f == [form EXCEPT !.templates = SymDiff(@, {k})]
  <2>1. f \in Form /\ ~f.assigned
    BY <1>5, <1>t DEF Form, SymDiff, ToggleTemplate
  <2>2. Edit(f)
    BY <1>5 DEF ToggleTemplate
  <2> HIDE DEF f
  <2> QED BY <2>1, <2>2, EditKeeps
<1>6. ASSUME NEW d \in 0 .. 2, ChooseDepth(d) PROVE ReadinessInv'
  <2> DEFINE f == [form EXCEPT !.depth = d]
  <2>1. f \in Form /\ (f.assigned => f.templates = {})
    BY <1>t DEF Form
  <2>2. Edit(f)
    BY <1>6 DEF ChooseDepth
  <2> HIDE DEF f
  <2> QED BY <2>1, <2>2, EditKeeps
<1>7. CASE ToggleTool
  <2>1. PICK tool \in {"all", "none", "some"} : Edit([form EXCEPT !.tools = tool])
    BY <1>7 DEF ToggleTool
  <2> DEFINE f == [form EXCEPT !.tools = tool]
  <2>2. f \in Form /\ (f.assigned => f.templates = {})
    BY <1>t DEF Form
  <2>3. Edit(f)
    BY <2>1
  <2> HIDE DEF f
  <2> QED BY <2>2, <2>3, EditKeeps
<1>8. CASE Assign
  <2> DEFINE f == [form EXCEPT !.assigned = TRUE, !.templates = {}]
  <2>1. f \in Form /\ f.templates = {}
    BY <1>t DEF Form
  <2>2. Edit(f)
    BY <1>8 DEF Assign
  <2> HIDE DEF f
  <2> QED BY <2>1, <2>2, EditKeeps
<1>9. CASE ClearAssignment
  <2> DEFINE f == [form EXCEPT !.assigned = FALSE]
  <2>1. f \in Form /\ ~f.assigned
    BY <1>t DEF Form
  <2>2. Edit(f)
    BY <1>9 DEF ClearAssignment
  <2> HIDE DEF f
  <2> QED BY <2>1, <2>2, EditKeeps
<1> QED BY <1>1, <1>3, <1>4, <1>5, <1>6, <1>7, <1>8, <1>9 DEF Choosing

\* The checks of the Assignment arrive, or do not.
LEMMA ManifestStep == ASSUME ReadinessInv, ManifestArrives PROVE ReadinessInv'
<1>1. form' \in Form /\ (form'.assigned => form'.templates = {})
  BY DEF ManifestArrives, ReadinessInv, ReadinessTypeOK
<1>2. /\ manifest' \in {"unread", "read", "failed"} /\ form' = form
      /\ Recheck(form, manifest') /\ UNCHANGED <<launch, launched>>
  BY DEF ManifestArrives
<1>3. Recheck(form', manifest')
  BY <1>2
<1> QED BY <1>1, <1>2, <1>3, RecheckKeeps

\* A check is sent for the form as it is, and only an answer to the last one
\* counts.
LEMMA CheckingStep == ASSUME ReadinessInv, Checking PROVE ReadinessInv'
<1>t. /\ form \in Form /\ manifest \in {"unread", "read", "failed"}
      /\ {checking, due} \subseteq BOOLEAN /\ \A c \in calls : c.active \in BOOLEAN
  BY DEF ReadinessInv, ReadinessTypeOK
<1>1. CASE CheckDue
  <2> DEFINE new == [for |-> Request(form, manifest), active |-> TRUE]
  <2>1. /\ due' = FALSE /\ calls' = calls \cup {new}
        /\ UNCHANGED <<form, manifest, readiness, checking, launch, launched>>
    BY <1>1 DEF CheckDue
  <2>2. /\ new.active \in BOOLEAN /\ new.for = Request(form, manifest)
        /\ new \in [for: {new.for}, active: BOOLEAN]
    OBVIOUS
  <2> HIDE DEF new
  <2>3. ReadinessTypeOK'
    BY <2>1, <2>2, <1>t DEF ReadinessTypeOK
  <2> QED BY <2>1, <2>2, <2>3 DEF ReadinessInv
<1>2. ASSUME NEW c \in calls, CheckAnswers(c) PROVE ReadinessInv'
  <2>1. UNCHANGED <<form, manifest, launch, launched>>
    BY <1>2 DEF CheckAnswers
  <2>2. PICK answer \in Possible(c.for) \cup {Nothing} :
          IF ~c.active THEN calls' = calls \ {c} /\ UNCHANGED <<readiness, checking, due>>
          ELSE IF SetupReady(form, manifest, answer)
          THEN readiness' = answer /\ checking' = FALSE /\ calls' = calls \ {c} /\ UNCHANGED due
          ELSE StartsOver(form, manifest, answer, calls \ {c})
    BY <1>2 DEF CheckAnswers
  <2>3. CASE ~c.active
    <3>1. calls' = calls \ {c} /\ UNCHANGED <<readiness, checking, due>>
      BY <2>2, <2>3
    <3>2. ReadinessTypeOK'
      BY <2>1, <3>1, <1>t DEF ReadinessTypeOK
    <3> QED BY <2>1, <3>1, <3>2 DEF ReadinessInv
  <2>a. answer # Nothing => answer.for = c.for /\ answer \in Answer(c.for)
    BY <2>2, AnswerSays DEF Possible
  <2>4. CASE c.active /\ SetupReady(form, manifest, answer)
    <3>1. /\ readiness' = answer /\ checking' = FALSE /\ calls' = calls \ {c} /\ UNCHANGED due
      BY <2>2, <2>4
    <3>2. ReadinessTypeOK'
      BY <2>1, <3>1, <1>t DEF ReadinessTypeOK
    <3>3. answer # Nothing => answer.for = Request(form, manifest)
      BY <2>a, <2>4 DEF ReadinessInv
    <3> QED BY <2>1, <2>a, <3>1, <3>2, <3>3 DEF ReadinessInv
  <2>5. CASE c.active /\ StartsOver(form, manifest, answer, calls \ {c})
    <3> DEFINE kept == IF SetupReady(form, manifest, answer) THEN answer ELSE Nothing
    <3>1. /\ readiness' = kept /\ checking' = SetupReady(form, manifest, kept)
          /\ due' = checking' /\ calls' = Supersede(calls \ {c})
      BY <2>5 DEF StartsOver
    <3>2. checking' \in BOOLEAN
      BY <3>1 DEF SetupReady
    <3>3. \A d \in calls' : d.active = FALSE /\ d \in [for: {d.for}, active: BOOLEAN]
      <4>1. \A d \in calls \ {c} : d \in [for: {d.for}, active: BOOLEAN]
        BY DEF ReadinessInv
      <4> QED BY <3>1, <4>1, SupersedeEnds
    <3>4. ReadinessTypeOK'
      BY <2>1, <3>1, <3>2, <3>3, <1>t DEF ReadinessTypeOK
    <3>5. readiness' # Nothing => readiness' \in Answer(readiness'.for)
      BY <2>a, <3>1
    <3> QED BY <2>1, <3>1, <3>3, <3>4, <3>5 DEF ReadinessInv
  <2> QED BY <2>2, <2>3, <2>4, <2>5, <1>t
<1> QED BY <1>1, <1>2 DEF Checking

\* What Run sends: the answer on screen is about this form, so what it does not
\* find applicable is left out, and an Assignment that fixes such a check is not
\* ready.
LEMMA RunRequestApplies ==
    ASSUME ReadinessAssumption, ReadinessInv, RunReady,
           ~(Scope(form, manifest) > 0 /\ form.tools = "none")
    PROVE  Applies(RunRequest)
<1> DEFINE q == Request(form, manifest)
           active == Active(form, manifest, readiness)
<1>t. form \in Form /\ (form.assigned => form.templates = {})
  BY DEF ReadinessInv, ReadinessTypeOK
<1>1. /\ readiness # Nothing /\ readiness.ready /\ readiness.for = q
      /\ readiness \in Answer(q) /\ SetupReady(form, manifest, readiness)
      /\ ~Blocked(form, readiness)
  BY DEF RunReady, ReadinessInv
<1>2. /\ q.metrics = Resolved(form, manifest) /\ q.dataset = form.dataset
      /\ q.assigned = form.assigned /\ q.depth = Scope(form, manifest)
      /\ q.tools = IF Scope(form, manifest) > 0 THEN form.tools ELSE "all"
  BY DEF Request
<1>3. /\ RunRequest.metrics = active /\ RunRequest.dataset = form.dataset
      /\ RunRequest.assigned = form.assigned /\ RunRequest.depth = Scope(form, manifest)
      /\ RunRequest.tools = IF Scope(form, manifest) > 0 THEN form.tools ELSE "all"
  BY DEF RunRequest, Request
<1> DEFINE na == IF q.dataset \in Reference THEN {} ELSE q.metrics \cap NeedsReference
           locked == IF q.assigned THEN q.metrics ELSE {}
<1>4. readiness.na = na /\ (na \cap locked # {} => ~readiness.ready)
  BY <1>1, AnswerSays
<1>5. NotApplicable(readiness) = na
  BY <1>1, <1>4 DEF NotApplicable
<1>6. Required(form) \cap na = {}
  BY <1>1, <1>5 DEF Blocked
<1>7. active = Resolved(form, manifest) \ na
  BY <1>5, <1>6 DEF Active
<1>8. form.assigned => na = {}
  <2>1. CASE form.assigned
    <3>1. na \cap q.metrics = {}
      BY <2>1, <1>1, <1>2, <1>4
    <3> QED BY <3>1
  <2> QED BY <2>1
<1>9. active # {}
  <2>1. SettingsReady(form, manifest, readiness)
    BY <1>1 DEF SetupReady
  <2>2. CASE form.assigned
    BY <2>1, <2>2, <1>7, <1>8 DEF SettingsReady
  <2>3. CASE ~form.assigned
    BY <2>1, <2>3 DEF SettingsReady
  <2> QED BY <2>2, <2>3
<1>10. form.dataset \in Reference \/ active \cap NeedsReference = {}
  BY <1>2, <1>7
<1>11. form.assigned \/ \A m \in active : Depth[m] <= Scope(form, manifest)
  BY <1>7, <1>t, ScopeReaches
<1>12. RunRequest.tools # "none"
  BY <1>3
<1> HIDE DEF q, active, na, locked
<1> QED BY <1>3, <1>9, <1>10, <1>11, <1>12 DEF Applies

\* The start, and the check before it.
LEMMA StartingStep == ASSUME ReadinessAssumption, ReadinessInv, Starting PROVE ReadinessInv'
<1>1. CASE Run
  <2>1. /\ launch' = [request |-> RunRequest, checked |-> FALSE]
        /\ UNCHANGED <<form, manifest, readyVars, launched>>
    BY <1>1 DEF Run
  <2>2. Applies(RunRequest)
    BY <1>1, RunRequestApplies DEF Run, MayRun
  <2>3. launch'.request = RunRequest /\ launch'.checked = FALSE
    BY <2>1
  <2>4. ReadinessTypeOK'
    BY <2>1 DEF ReadinessInv, ReadinessTypeOK, readyVars
  <2> QED BY <2>1, <2>2, <2>3, <2>4 DEF ReadinessInv, readyVars
<1>2. CASE EvidenceChecked
  <2>1. UNCHANGED <<form, manifest, readyVars, launched>> /\ launch # Nothing
    BY <1>2 DEF EvidenceChecked
  <2>2. launch' = Nothing \/ launch' = [launch EXCEPT !.checked = TRUE]
    BY <1>2 DEF EvidenceChecked
  <2>3. launch' = Nothing \/ launch' \in [request: {launch.request}, checked: BOOLEAN]
    <3>1. launch \in [request: {launch.request}, checked: BOOLEAN]
      BY <2>1 DEF ReadinessInv
    <3> QED BY <2>2, <3>1
  <2>4. ReadinessTypeOK'
    BY <2>1 DEF ReadinessInv, ReadinessTypeOK, readyVars
  <2> QED BY <2>1, <2>3, <2>4 DEF ReadinessInv, readyVars
<1>3. CASE RunStarts
  <2>1. /\ launch # Nothing /\ launch' = Nothing /\ launched' \in {launch.request, Nothing}
        /\ UNCHANGED <<form, manifest, readyVars>>
    BY <1>3 DEF RunStarts
  <2>2. ReadinessTypeOK'
    BY <2>1 DEF ReadinessInv, ReadinessTypeOK, readyVars
  <2> QED BY <2>1, <2>2 DEF ReadinessInv, readyVars
<1> QED BY <1>1, <1>2, <1>3 DEF Starting

\* Every step keeps the invariant.
LEMMA ReadinessStepInv ==
    ASSUME ReadinessAssumption, ReadinessInv, [ReadinessNext]_readinessVars
    PROVE  ReadinessInv'
<1>1. CASE UNCHANGED readinessVars
  BY <1>1 DEF readinessVars, readyVars, ReadinessInv, ReadinessTypeOK
<1>2. CASE ReadinessNext
  BY <1>2, ChoosingStep, ManifestStep, CheckingStep, StartingStep DEF ReadinessNext
<1> QED BY <1>1, <1>2

-----------------------------------------------------------------------------
(* The results *)

\* The choice of checks keeps its type, for any checks, templates, data sets and
\* number of edits.
THEOREM ReadinessTypesCorrect ==
    ASSUME ReadinessAssumption PROVE ReadinessSpec => []ReadinessTypeOK
<1>1. ReadinessInit => ReadinessInv
  BY ReadinessInitInv
<1>2. ReadinessInv /\ [ReadinessNext]_readinessVars => ReadinessInv'
  BY ReadinessStepInv
<1>3. ReadinessInv => ReadinessTypeOK
  BY DEF ReadinessInv
<1> QED BY <1>1, <1>2, <1>3, PTL DEF ReadinessSpec

\* workbench.tsx, comment on runReady: Run is enabled only by an answer about the
\* checks, depth, tools, rubrics and data set on screen, however many checks
\* were on their way while they changed.
THEOREM RunIsForTheForm ==
    ASSUME ReadinessAssumption PROVE ReadinessSpec => []RunIsForThisForm
<1>1. ReadinessInit => ReadinessInv
  BY ReadinessInitInv
<1>2. ReadinessInv /\ [ReadinessNext]_readinessVars => ReadinessInv'
  BY ReadinessStepInv
<1>3. ReadinessInv => RunIsForThisForm
  BY DEF ReadinessInv, RunIsForThisForm, RunReady
<1> QED BY <1>1, <1>2, <1>3, PTL DEF ReadinessSpec

\* applicableScoringMetricIds and requiredScopeForMetricIds: every run that is
\* started scores something, nothing known not to apply to its data set, nothing
\* beyond its depth, and names a tool if it is limited to named ones.
THEOREM RunsStartWhatApplies ==
    ASSUME ReadinessAssumption PROVE ReadinessSpec => []StartsWhatApplies
<1>1. ReadinessInit => ReadinessInv
  BY ReadinessInitInv
<1>2. ReadinessInv /\ [ReadinessNext]_readinessVars => ReadinessInv'
  BY ReadinessStepInv
<1>3. ReadinessInv => StartsWhatApplies
  BY DEF ReadinessInv, StartsWhatApplies, Applies
<1> QED BY <1>1, <1>2, <1>3, PTL DEF ReadinessSpec

\* groupToggleTargets: no click ticks a check that is not applicable or not
\* available, not as one of a group either.
THEOREM ClicksTickWhatCanRun ==
    ASSUME ReadinessAssumption
    PROVE  ReadinessSpec => [][TicksOnlyWhatCanRun]_readinessVars
<1>1. ReadinessInit => ReadinessInv
  BY ReadinessInitInv
<1>2. ReadinessInv /\ [ReadinessNext]_readinessVars => ReadinessInv'
  BY ReadinessStepInv
<1>3. ReadinessInv /\ [ReadinessNext]_readinessVars => [TicksOnlyWhatCanRun]_readinessVars
  <2> SUFFICES ASSUME ReadinessInv, ReadinessNext PROVE TicksOnlyWhatCanRun
    OBVIOUS
  <2> DEFINE can == (Metric \ GreyedOut) \cup Resolved(form, manifest)
  <2>t. form \in Form
    BY DEF ReadinessInv, ReadinessTypeOK
  <2>1. CASE form'.metrics = form.metrics
    BY <2>1 DEF TicksOnlyWhatCanRun
  <2>2. ASSUME NEW added, added \subseteq can, form' = [form EXCEPT !.metrics = SymDiff(@, added)]
        PROVE  TicksOnlyWhatCanRun
    <3>1. form'.metrics = SymDiff(form.metrics, added)
      BY <2>2, <2>t DEF Form
    <3> QED BY <2>2, <3>1 DEF SymDiff, TicksOnlyWhatCanRun
  <2>3. ASSUME NEW m \in Metric, ClickCheck(m) \/ RemoveCheck(m) PROVE TicksOnlyWhatCanRun
    <3>1. m \in can
      BY <2>3 DEF ClickCheck, RemoveCheck, CanClick, Removable
    <3>2. form' = [form EXCEPT !.metrics = SymDiff(@, {m})]
      BY <2>3 DEF ClickCheck, RemoveCheck, Flip, Edit
    <3> HIDE DEF can
    <3>3. {m} \subseteq can
      BY <3>1
    <3> QED BY <3>2, <3>3, <2>2
  <2>4. ASSUME NEW G \in Group, ToggleGroup(G) PROVE TicksOnlyWhatCanRun
    <3>1. ToggleTargets(G) \subseteq can
      BY DEF ReadinessAssumption, ToggleTargets, Togglable, Selectable
    <3>2. form' = [form EXCEPT !.metrics = SymDiff(@, ToggleTargets(G))]
      BY <2>4 DEF ToggleGroup, Edit
    <3> HIDE DEF can
    <3> QED BY <3>1, <3>2, <2>2
  <2>5. CASE ManifestArrives \/ Checking \/ Starting
    BY <2>5, <2>1 DEF ManifestArrives, Checking, CheckDue, CheckAnswers, Starting, Run,
       EvidenceChecked, RunStarts
  <2>6. ASSUME NEW d \in Dataset, PickDataset(d) PROVE form'.metrics = form.metrics
    BY <2>6, <2>t DEF PickDataset, Edit, Form
  <2>7. ASSUME NEW k \in Template, ToggleTemplate(k) PROVE form'.metrics = form.metrics
    BY <2>7, <2>t DEF ToggleTemplate, Edit, Form
  <2>8. ASSUME NEW d \in 0 .. 2, ChooseDepth(d) PROVE form'.metrics = form.metrics
    BY <2>8, <2>t DEF ChooseDepth, Edit, Form
  <2>9. CASE ToggleTool \/ Assign \/ ClearAssignment
    <3>1. form'.metrics = form.metrics
      BY <2>9, <2>t DEF ToggleTool, Assign, ClearAssignment, Edit, Form
    <3> QED BY <3>1, <2>1
  <2> HIDE DEF can
  <2> QED BY <2>1, <2>3, <2>4, <2>5, <2>6, <2>7, <2>8, <2>9 DEF ReadinessNext, Choosing
<1> QED BY <1>1, <1>2, <1>3, PTL DEF ReadinessSpec

-----------------------------------------------------------------------------
(* Prompts *)

Version == [archived: BOOLEAN, by: Caller]
Page == [loading: BOOLEAN, rows: Seq(BOOLEAN), live: Nat, error: BOOLEAN, open: Nat,
         confirm: Nat, form: BOOLEAN, busy: BOOLEAN, saving: BOOLEAN]
PageLoad == [owner: {"none", "change", "save"}, step: {"asked", "rows", "answered"},
             rows: Seq(BOOLEAN), live: Nat]

\* A write under way: a number that was read is the next one or was taken meanwhile, 
\* a save that succeeded has the version, and a label is moved to a version.
OpIsTrue(op, c, cat) ==
    /\ op.kind = "none" <=> op.step = "none"
    /\ op.kind = "save" /\ op.step \in {"asked", "chosen"} => op.tries < MaxAttempts
    /\ op.kind = "save" /\ op.step = "chosen" => op.version \in 1 .. Len(cat[op.prompt]) + 1
    /\ op.kind = "save" /\ op.step = "done" =>
          /\ op.version \in 1 .. Len(cat[op.prompt])
          /\ cat[op.prompt][op.version].by = c
    /\ op.kind \in {"move", "archive"} => op.version \in 1 .. Len(cat[op.prompt])

StoreInv ==
    /\ catalog \in [Prompt -> Seq(Version)]
    /\ label \in [Prompt -> [version: Nat, id: Nat]]
    /\ \A p \in Prompt : label[p].version <= Len(catalog[p])
    /\ ops \in [Caller -> Op]
    /\ \A c \in Caller : OpIsTrue(ops[c], c, catalog)

\* What the page of a prompt shows, and what is on its way to it, are versions there are.
PageInv ==
    /\ page \in Page /\ loads \in Seq(PageLoad) /\ Len(loads) <= MaxLoads
    /\ Len(page.rows) <= Len(catalog[Opened]) /\ page.confirm <= Len(catalog[Opened])
    /\ \A i \in DOMAIN loads : Len(loads[i].rows) <= Len(catalog[Opened])

IsRead(r) ==
    /\ r \in [more: BOOLEAN, save: BOOLEAN, generation: {r.generation}, early: {r.early},
              answered: {r.answered}, offset: {r.offset}, ids: {r.ids}]
    /\ ~(r.more /\ r.save)
IsList(l) ==
    l \in [loading: BOOLEAN, items: {l.items}, cursor: {l.cursor}, generation: {l.generation},
          more: BOOLEAN, saving: BOOLEAN, early: {l.early}]
ListInv ==
    /\ IsList(list)
    /\ \E S : pages \in Seq(S)
    /\ Len(pages) <= MaxLoads
    /\ \A i \in DOMAIN pages : IsRead(pages[i])

\* A lock is held exactly while there is something to let go of it, and that is one thing: the
\* write, or the one load after it.
Held(lock, writing, waiting) ==
    /\ lock <=> writing \/ waiting # {}
    /\ writing => waiting = {}
    /\ \A i, j \in waiting : i = j
LoadsOf(owner) == {i \in DOMAIN loads : loads[i].owner = owner}
ReadsOfSave == {i \in DOMAIN pages : pages[i].save}

LockInv ==
    /\ view \in {"prompt", "list"}
    /\ view = "prompt" => pages = <<>> /\ ~list.saving /\ ~list.more
    /\ view = "list" => loads = <<>> /\ ~page.saving /\ ~page.busy /\ Idle("change")
    /\ view = "prompt" => Held(page.busy, ~Idle("change"), LoadsOf("change"))
    /\ view = "prompt" => Held(page.saving, ~Idle("save"), LoadsOf("save"))
    /\ view = "list" => Held(list.saving, ~Idle("save"), ReadsOfSave)
    /\ view = "prompt" /\ page.loading => loads # <<>>
    /\ view = "list" /\ list.loading => \E i \in DOMAIN pages : ~pages[i].more
    /\ list.more => \E i \in DOMAIN pages : pages[i].more

PromptsInv == StoreInv /\ PageInv /\ ListInv /\ LockInv

-----------------------------------------------------------------------------
(* Prompts: sequences *)

\* Where the elements of a sequence stood before one was removed.
Before(i, j) == IF j < i THEN j ELSE j + 1
After(i, k) == IF k < i THEN k ELSE k - 1

\* RemoveAt takes out one element and keeps the others in their order.
LEMMA RemoveAtFacts ==
    ASSUME NEW S, NEW s \in Seq(S), NEW i \in DOMAIN s
    PROVE  /\ RemoveAt(s, i) \in Seq(S) /\ Len(RemoveAt(s, i)) = Len(s) - 1
           /\ \A j \in DOMAIN RemoveAt(s, i) :
                 Before(i, j) \in DOMAIN s \ {i} /\ RemoveAt(s, i)[j] = s[Before(i, j)]
           /\ \A k \in DOMAIN s \ {i} :
                 After(i, k) \in DOMAIN RemoveAt(s, i) /\ RemoveAt(s, i)[After(i, k)] = s[k]
<1> DEFINE a == SubSeq(s, 1, i - 1)
           b == SubSeq(s, i + 1, Len(s))
<1>1. DOMAIN s = 1 .. Len(s) /\ Len(s) \in Nat /\ i \in 1 .. Len(s)
  OBVIOUS
<1>2. /\ a \in Seq(S) /\ Len(a) = i - 1 /\ \A k \in 1 .. i - 1 : a[k] = s[k]
  BY <1>1, SubSeqProperties
<1>3. /\ b \in Seq(S) /\ Len(b) = Len(s) - i /\ \A k \in 1 .. Len(s) - i : b[k] = s[i + k]
  <2>1. \A k \in i + 1 .. Len(s) : s[k] \in S
    BY <1>1
  <2>2. /\ SubSeq(s, i + 1, Len(s)) \in Seq(S)
        /\ Len(SubSeq(s, i + 1, Len(s))) = IF i + 1 <= Len(s) THEN Len(s) - (i + 1) + 1 ELSE 0
        /\ \A k \in 1 .. Len(s) - (i + 1) + 1 : SubSeq(s, i + 1, Len(s))[k] = s[i + 1 + k - 1]
    BY <1>1, <2>1, SubSeqProperties
  <2> QED BY <1>1, <2>2
<1>4. RemoveAt(s, i) = a \o b
  BY DEF RemoveAt
<1> HIDE DEF a, b
<1>5. /\ a \o b \in Seq(S) /\ Len(a \o b) = Len(s) - 1
      /\ \A j \in 1 .. Len(s) - 1 : (a \o b)[j] = IF j <= i - 1 THEN a[j] ELSE b[j - (i - 1)]
  <2>1. a \in Seq(S) /\ b \in Seq(S)
    BY <1>2, <1>3
  <2>2. /\ a \o b \in Seq(S) /\ Len(a \o b) = Len(a) + Len(b)
        /\ \A j \in 1 .. Len(a) + Len(b) :
              (a \o b)[j] = IF j <= Len(a) THEN a[j] ELSE b[j - Len(a)]
    BY <2>1, ConcatProperties
  <2>3. Len(a) = i - 1 /\ Len(a) + Len(b) = Len(s) - 1
    BY <1>1, <1>2, <1>3
  <2> QED BY <2>2, <2>3
<1>6. \A j \in 1 .. Len(s) - 1 :
         Before(i, j) \in 1 .. Len(s) /\ Before(i, j) # i /\ (a \o b)[j] = s[Before(i, j)]
  <2> SUFFICES ASSUME NEW j \in 1 .. Len(s) - 1
               PROVE  Before(i, j) \in 1 .. Len(s) /\ Before(i, j) # i
                      /\ (a \o b)[j] = s[Before(i, j)]
    OBVIOUS
  <2>1. CASE j < i
    BY <2>1, <1>1, <1>2, <1>5 DEF Before
  <2>2. CASE ~(j < i)
    <3>1. j - (i - 1) \in 1 .. Len(s) - i /\ i + (j - (i - 1)) = j + 1
      BY <2>2, <1>1
    <3>2. (a \o b)[j] = b[j - (i - 1)]
      BY <2>2, <1>1, <1>5
    <3>3. b[j - (i - 1)] = s[j + 1]
      BY <3>1, <1>3
    <3>4. Before(i, j) = j + 1 /\ j + 1 \in 1 .. Len(s) /\ j + 1 # i
      BY <2>2, <1>1 DEF Before
    <3> QED BY <3>2, <3>3, <3>4
  <2> QED BY <2>1, <2>2
<1>7. \A k \in 1 .. Len(s) : k # i => After(i, k) \in 1 .. Len(s) - 1 /\ Before(i, After(i, k)) = k
  BY <1>1 DEF Before, After
<1>8. DOMAIN (a \o b) = 1 .. Len(s) - 1
  <2> DEFINE c == a \o b
  <2>1. c \in Seq(S) /\ Len(c) = Len(s) - 1
    BY <1>5
  <2> HIDE DEF c
  <2>2. DOMAIN c = 1 .. Len(s) - 1
    BY <2>1
  <2> QED BY <2>2 DEF c
<1> QED BY <1>1, <1>4, <1>5, <1>6, <1>7, <1>8

\* A sequence that got longer by one element.
LEMMA AppendFacts ==
    ASSUME NEW S, NEW s \in Seq(S), NEW x \in S
    PROVE  /\ Append(s, x) \in Seq(S) /\ Len(Append(s, x)) = Len(s) + 1
           /\ DOMAIN Append(s, x) = DOMAIN s \cup {Len(s) + 1} /\ Len(s) + 1 \notin DOMAIN s
           /\ Append(s, x)[Len(s) + 1] = x /\ \A i \in DOMAIN s : Append(s, x)[i] = s[i]
<1>1. DOMAIN s = 1 .. Len(s) /\ Len(s) \in Nat
  OBVIOUS
<1>2. /\ Append(s, x) \in Seq(S) /\ Len(Append(s, x)) = Len(s) + 1
      /\ \A i \in 1 .. Len(s) : Append(s, x)[i] = s[i]
      /\ Append(s, x)[Len(s) + 1] = x
  BY AppendProperties
<1>3. DOMAIN Append(s, x) = 1 .. Len(s) + 1
  BY <1>1, <1>2
<1> QED BY <1>1, <1>2, <1>3

-----------------------------------------------------------------------------
(* Prompts: locks *)

\* Of what a lock waited for, renumbered, something is left if it was not all.
LEMMA Renumbered ==
    ASSUME NEW W, NEW V, NEW i \in Nat, V \subseteq Nat,
           \A j \in V : Before(i, j) \in W \ {i}, \A k \in W \ {i} : After(i, k) \in V,
           \A j, k \in W : j = k
    PROVE  (V # {} <=> W \ {i} # {}) /\ \A j, k \in V : j = k
<1>1. V # {} <=> W \ {i} # {}
  OBVIOUS
<1>2. ASSUME NEW j \in V, NEW k \in V PROVE j = k
  <2>1. Before(i, j) = Before(i, k) /\ Before(i, j) # i /\ Before(i, k) # i
    OBVIOUS
  <2>2. j \in Nat /\ k \in Nat
    OBVIOUS
  <2> QED BY <2>1, <2>2 DEF Before
<1> QED BY <1>1, <1>2

-----------------------------------------------------------------------------
(* Prompts: the store *)

\* A catalogue that lost no version, and none of whose versions changed hands.
Grows(cat, new) ==
    \A p \in Prompt : /\ Len(cat[p]) <= Len(new[p])
                      /\ \A v \in 1 .. Len(cat[p]) : new[p][v].by = cat[p][v].by
\* A step of the store for a write that was asked for.
StoreStep ==
    /\ StoreInv' /\ Grows(catalog, catalog')
    /\ \A d \in Caller : ops'[d].kind = ops[d].kind /\ ops'[d].prompt = ops[d].prompt

\* A catalogue grows by nothing.
LEMMA SameGrows ==
    ASSUME NEW cat \in [Prompt -> Seq(Version)]
    PROVE  Grows(cat, cat)
BY DEF Grows

\* What is true of a write stays true while the catalogue grows.
LEMMA OpStaysTrue ==
    ASSUME NEW cat \in [Prompt -> Seq(Version)], NEW new \in [Prompt -> Seq(Version)],
           Grows(cat, new), NEW c \in Caller, NEW op \in Op, OpIsTrue(op, c, cat)
    PROVE  OpIsTrue(op, c, new)
<1>1. op.prompt \in Prompt /\ op.version \in Nat
  BY DEF Op
<1>2. /\ Len(cat[op.prompt]) \in Nat /\ Len(new[op.prompt]) \in Nat
      /\ Len(cat[op.prompt]) <= Len(new[op.prompt])
      /\ \A v \in 1 .. Len(cat[op.prompt]) : new[op.prompt][v].by = cat[op.prompt][v].by
  <2>1. cat[op.prompt] \in Seq(Version) /\ new[op.prompt] \in Seq(Version)
    BY <1>1
  <2>2. Len(cat[op.prompt]) \in Nat /\ Len(new[op.prompt]) \in Nat
    BY <2>1
  <2>3. /\ Len(cat[op.prompt]) <= Len(new[op.prompt])
        /\ \A v \in 1 .. Len(cat[op.prompt]) : new[op.prompt][v].by = cat[op.prompt][v].by
    BY <1>1, Zenon DEF Grows
  <2> QED BY <2>2, <2>3
<1> QED BY <1>1, <1>2 DEF OpIsTrue

\* One write moves on, and the store with it.
LEMMA OpMoves ==
    ASSUME StoreInv, NEW c \in Caller, NEW o \in Op, ops' = [ops EXCEPT ![c] = o],
           o.kind = ops[c].kind, o.prompt = ops[c].prompt,
           catalog' \in [Prompt -> Seq(Version)], Grows(catalog, catalog'),
           label' \in [Prompt -> [version: Nat, id: Nat]],
           \A p \in Prompt : label'[p].version <= Len(catalog'[p]),
           OpIsTrue(o, c, catalog')
    PROVE  StoreStep
<1>1. ops' \in [Caller -> Op] /\ ops'[c] = o /\ \A d \in Caller \ {c} : ops'[d] = ops[d]
  BY DEF StoreInv
<1>2. \A d \in Caller : OpIsTrue(ops'[d], d, catalog')
  <2> SUFFICES ASSUME NEW d \in Caller, d # c PROVE OpIsTrue(ops'[d], d, catalog')
    BY <1>1
  <2>1. ops[d] \in Op /\ OpIsTrue(ops[d], d, catalog) /\ catalog \in [Prompt -> Seq(Version)]
    BY DEF StoreInv
  <2>2. OpIsTrue(ops[d], d, catalog')
    BY <2>1, OpStaysTrue
  <2> QED BY <2>2, <1>1
<1> QED BY <1>1, <1>2 DEF StoreStep, StoreInv

\* A save reads the highest number.
LEMMA ReadHighestStep ==
    ASSUME StoreInv, NEW c \in Caller, ReadHighest(c)
    PROVE  StoreStep
<1> DEFINE n == Len(catalog[ops[c].prompt]) + 1
           o == [ops[c] EXCEPT !.version = n, !.step = "chosen"]
<1>1. ops[c] \in Op /\ OpIsTrue(ops[c], c, catalog) /\ ops[c].kind = "save" /\ ops[c].step = "asked"
  BY DEF StoreInv, ReadHighest, At
<1>2. n \in Nat \ {0} /\ n = Len(catalog[ops[c].prompt]) + 1
  BY <1>1 DEF StoreInv, Op
<1>3. ops' = [ops EXCEPT ![c] = o]
  BY DEF ReadHighest, StoreInv
<1>4. catalog' = catalog /\ label' = label
  BY DEF ReadHighest
<1> HIDE DEF n
<1>5. o \in Op /\ o.kind = "save" /\ o.step = "chosen" /\ o.prompt = ops[c].prompt /\ o.version = n
      /\ o.tries = ops[c].tries
  BY <1>1, <1>2 DEF Op
<1> HIDE DEF o
<1>6. OpIsTrue(o, c, catalog)
  BY <1>1, <1>2, <1>5 DEF OpIsTrue
<1>7. Grows(catalog, catalog)
  BY SameGrows DEF StoreInv
<1> QED BY <1>1, <1>3, <1>4, <1>5, <1>6, <1>7, OpMoves DEF StoreInv

\* The insert takes the number, or finds it taken and reads again.
LEMMA InsertVersionStep ==
    ASSUME PromptsAssumption, StoreInv, NEW c \in Caller, InsertVersion(c)
    PROVE  StoreStep
<1> DEFINE p == ops[c].prompt
           v == ops[c].version
           tries == ops[c].tries + 1
<1>1. /\ ops[c] \in Op /\ OpIsTrue(ops[c], c, catalog)
      /\ ops[c].kind = "save" /\ ops[c].step = "chosen"
  BY DEF StoreInv, InsertVersion, At
<1>2. /\ p \in Prompt /\ v \in 1 .. Len(catalog[p]) + 1 /\ tries \in 1 .. MaxAttempts
      /\ catalog[p] \in Seq(Version) /\ Len(catalog[p]) \in Nat
  BY <1>1 DEF OpIsTrue, Op, StoreInv, PromptsAssumption
<1>3. label' = label
  BY DEF InsertVersion
<1>4. CASE Taken(p, v)
  <2> DEFINE step == IF tries = MaxAttempts THEN "failed" ELSE "asked"
             o == [ops[c] EXCEPT !.tries = tries, !.step = step]
  <2>1. catalog' = catalog /\ ops' = [ops EXCEPT ![c] = o]
    BY <1>4 DEF InsertVersion, StoreInv
  <2>2. step \in {"failed", "asked"} /\ (step = "asked" => tries # MaxAttempts)
    OBVIOUS
  <2>6. tries \in 0 .. MaxAttempts
    BY <1>2 DEF PromptsAssumption
  <2> HIDE DEF step, tries
  <2>3. o \in Op /\ o.kind = "save" /\ o.step = step /\ o.prompt = ops[c].prompt /\ o.tries = tries
    BY <1>1, <2>6, <2>2 DEF Op
  <2> HIDE DEF o
  <2>4. OpIsTrue(o, c, catalog)
    <3>1. step = "asked" => tries < MaxAttempts
      BY <1>2, <2>2 DEF PromptsAssumption
    <3> QED BY <2>2, <2>3, <3>1 DEF OpIsTrue
  <2>5. Grows(catalog, catalog)
    BY SameGrows DEF StoreInv
  <2> QED BY <1>1, <1>3, <2>1, <2>3, <2>4, <2>5, OpMoves DEF StoreInv
<1>5. CASE ~Taken(p, v)
  <2> DEFINE row == [archived |-> FALSE, by |-> c]
             rows == [w \in DOMAIN catalog[p] \cup {v} |-> IF w = v THEN row ELSE catalog[p][w]]
             o == [ops[c] EXCEPT !.step = "done"]
  <2>1. catalog' = [catalog EXCEPT ![p] = rows] /\ ops' = [ops EXCEPT ![c] = o]
    BY <1>5 DEF InsertVersion, StoreInv
  <2>2. v = Len(catalog[p]) + 1 /\ DOMAIN catalog[p] = 1 .. Len(catalog[p])
    BY <1>2, <1>5 DEF Taken
  <2>3. row \in Version
    BY DEF Version
  <2>4. rows \in [1 .. Len(catalog[p]) + 1 -> Version]
    <3>1. DOMAIN catalog[p] \cup {v} = 1 .. Len(catalog[p]) + 1
      BY <2>2, <1>2
    <3>2. \A w \in DOMAIN catalog[p] : catalog[p][w] \in Version
      BY <1>2
    <3> HIDE DEF row
    <3> QED BY <3>1, <3>2, <2>3
  <2>5. /\ rows[v] = row /\ row.by = c
        /\ \A w \in 1 .. Len(catalog[p]) : rows[w] = catalog[p][w]
    BY <2>2, <1>2
  <2> HIDE DEF rows, row
  <2>6. rows \in Seq(Version) /\ Len(rows) = Len(catalog[p]) + 1
    BY <2>4, <1>2
  <2>7. catalog' \in [Prompt -> Seq(Version)] /\ catalog'[p] = rows
        /\ \A q \in Prompt \ {p} : catalog'[q] = catalog[q]
    BY <2>1, <2>6, <1>2 DEF StoreInv
  <2>8. Grows(catalog, catalog')
    <3> SUFFICES ASSUME NEW q \in Prompt
                 PROVE  /\ Len(catalog[q]) <= Len(catalog'[q])
                        /\ \A w \in 1 .. Len(catalog[q]) : catalog'[q][w].by = catalog[q][w].by
      BY DEF Grows
    <3>1. CASE q = p
      BY <3>1, <2>5, <2>6, <2>7, <1>2
    <3>2. CASE q # p
      <4>1. catalog'[q] = catalog[q] /\ Len(catalog[q]) \in Nat
        BY <3>2, <2>7 DEF StoreInv
      <4> QED BY <4>1
    <3> QED BY <3>1, <3>2
  <2>9. \A q \in Prompt : label'[q].version <= Len(catalog'[q])
    <3> SUFFICES ASSUME NEW q \in Prompt PROVE label[q].version <= Len(catalog'[q])
      BY <1>3
    <3>1. label[q].version \in Nat /\ Len(catalog[q]) \in Nat /\ Len(catalog'[q]) \in Nat
          /\ label[q].version <= Len(catalog[q]) /\ Len(catalog[q]) <= Len(catalog'[q])
      BY <2>7, <2>8 DEF StoreInv, Grows
    <3> QED BY <3>1
  <2>10. /\ o \in Op /\ o.kind = "save" /\ o.step = "done" /\ o.prompt = p /\ o.version = v
    BY <1>1 DEF Op
  <2> HIDE DEF o
  <2>11. OpIsTrue(o, c, catalog')
    BY <2>2, <2>5, <2>6, <2>7, <2>10, <1>2 DEF OpIsTrue
  <2> QED BY <1>1, <1>3, <2>1, <2>7, <2>8, <2>9, <2>10, <2>11, OpMoves DEF StoreInv
<1> QED BY <1>4, <1>5

\* A move of the label reads the version.
LEMMA ReadTargetStep ==
    ASSUME StoreInv, NEW c \in Caller, ReadTarget(c)
    PROVE  StoreStep
<1> DEFINE step == IF ops[c].version \in Usable(ops[c].prompt) THEN "chosen" ELSE "failed"
           o == [ops[c] EXCEPT !.step = step]
<1>1. ops[c] \in Op /\ OpIsTrue(ops[c], c, catalog) /\ ops[c].kind = "move"
  BY DEF StoreInv, ReadTarget, At
<1>2. ops' = [ops EXCEPT ![c] = o] /\ catalog' = catalog /\ label' = label
  BY DEF ReadTarget, StoreInv
<1>3. step \in {"chosen", "failed"}
  OBVIOUS
<1> HIDE DEF step
<1>4. /\ o \in Op /\ o.kind = "move" /\ o.step = step /\ o.prompt = ops[c].prompt
      /\ o.version = ops[c].version
  BY <1>1, <1>3 DEF Op
<1> HIDE DEF o
<1>5. OpIsTrue(o, c, catalog)
  BY <1>1, <1>3, <1>4 DEF OpIsTrue
<1>6. Grows(catalog, catalog)
  BY SameGrows DEF StoreInv
<1> QED BY <1>1, <1>2, <1>4, <1>5, <1>6, OpMoves DEF StoreInv

\* And then the label's row.
LEMMA ReadLabelStep ==
    ASSUME StoreInv, NEW c \in Caller, ReadLabel(c)
    PROVE  StoreStep
<1> DEFINE row == label[ops[c].prompt]
           id == IF row.version = 0 THEN 0 ELSE row.id
           o == [ops[c] EXCEPT !.row = id, !.step = "read"]
<1>1. ops[c] \in Op /\ OpIsTrue(ops[c], c, catalog) /\ ops[c].kind = "move"
  BY DEF StoreInv, ReadLabel, At
<1>2. ops' = [ops EXCEPT ![c] = o] /\ catalog' = catalog /\ label' = label
  BY DEF ReadLabel, StoreInv
<1>3. id \in Nat
  BY <1>1 DEF StoreInv, Op
<1> HIDE DEF id
<1>4. /\ o \in Op /\ o.kind = "move" /\ o.step = "read" /\ o.prompt = ops[c].prompt
      /\ o.version = ops[c].version
  BY <1>1, <1>3 DEF Op
<1> HIDE DEF o
<1>5. OpIsTrue(o, c, catalog)
  BY <1>1, <1>4 DEF OpIsTrue
<1>6. Grows(catalog, catalog)
  BY SameGrows DEF StoreInv
<1> QED BY <1>1, <1>2, <1>4, <1>5, <1>6, OpMoves DEF StoreInv

\* The label is written, unless its row is another than was read.
LEMMA PointLabelStep ==
    ASSUME StoreInv, NEW c \in Caller, PointLabel(c)
    PROVE  StoreStep
<1> DEFINE p == ops[c].prompt
           now == IF label[p].version = 0 THEN 0 ELSE label[p].id
           step == IF ops[c].row # now THEN "failed" ELSE "done"
           o == [ops[c] EXCEPT !.step = step]
           id == IF now = 0 THEN label[p].id + 1 ELSE label[p].id
           row == [version |-> ops[c].version, id |-> id]
<1>1. ops[c] \in Op /\ OpIsTrue(ops[c], c, catalog) /\ ops[c].kind = "move"
  BY DEF StoreInv, PointLabel, At
<1>2. /\ ops' = [ops EXCEPT ![c] = o] /\ catalog' = catalog
      /\ label' = label \/ label' = [label EXCEPT ![p] = row]
  BY DEF PointLabel, StoreInv
<1>3. step \in {"failed", "done"}
  OBVIOUS
<1>4. /\ p \in Prompt /\ Len(catalog[p]) \in Nat /\ ops[c].version \in 1 .. Len(catalog[p])
      /\ label[p].id \in Nat
  BY <1>1 DEF OpIsTrue, Op, StoreInv
<1>5. id \in Nat
  BY <1>4
<1> HIDE DEF step, id
<1>6. /\ o \in Op /\ o.kind = "move" /\ o.step = step /\ o.prompt = p
      /\ o.version = ops[c].version
  BY <1>1, <1>3 DEF Op
<1>7. row \in [version: Nat, id: Nat] /\ row.version = ops[c].version
  BY <1>4, <1>5
<1> HIDE DEF o, row
<1>8. OpIsTrue(o, c, catalog)
  BY <1>1, <1>3, <1>6 DEF OpIsTrue
<1>9. Grows(catalog, catalog)
  BY SameGrows DEF StoreInv
<1>10. /\ label' \in [Prompt -> [version: Nat, id: Nat]]
       /\ \A q \in Prompt : label'[q].version <= Len(catalog'[q])
  <2>1. CASE label' = label
    BY <2>1, <1>2 DEF StoreInv
  <2>2. CASE label' = [label EXCEPT ![p] = row]
    <3>1. label'[p] = row /\ \A q \in Prompt \ {p} : label'[q] = label[q]
      BY <2>2, <1>4 DEF StoreInv
    <3>2. label' \in [Prompt -> [version: Nat, id: Nat]]
      BY <2>2, <1>4, <1>7 DEF StoreInv
    <3>3. row.version <= Len(catalog[p])
      BY <1>4, <1>7
    <3> QED BY <3>1, <3>2, <3>3, <1>2 DEF StoreInv
  <2> QED BY <1>2, <2>1, <2>2
<1> QED BY <1>1, <1>2, <1>6, <1>8, <1>9, <1>10, OpMoves DEF StoreInv

\* A version is archived, and the label that pointed at it is gone.
LEMMA ArchiveVersionStep ==
    ASSUME StoreInv, NEW c \in Caller, ArchiveVersion(c)
    PROVE  StoreStep
<1> DEFINE p == ops[c].prompt
           v == ops[c].version
           o == [ops[c] EXCEPT !.step = "done"]
           row == [catalog[p][v] EXCEPT !.archived = TRUE]
           rows == [catalog[p] EXCEPT ![v] = row]
           gone == [label[p] EXCEPT !.version = 0]
<1>1. ops[c] \in Op /\ OpIsTrue(ops[c], c, catalog) /\ ops[c].kind = "archive"
  BY DEF StoreInv, ArchiveVersion, At
<1>2. /\ ops' = [ops EXCEPT ![c] = o] /\ catalog' = [catalog EXCEPT ![p] = rows]
      /\ label' = label \/ label' = [label EXCEPT ![p] = gone]
  BY DEF ArchiveVersion, StoreInv
<1>3. /\ p \in Prompt /\ catalog[p] \in Seq(Version) /\ Len(catalog[p]) \in Nat
      /\ v \in 1 .. Len(catalog[p]) /\ label[p] \in [version: Nat, id: Nat]
  BY <1>1 DEF OpIsTrue, Op, StoreInv
<1>4. row \in Version /\ row.by = catalog[p][v].by
  <2>1. catalog[p][v] \in Version
    BY <1>3
  <2> QED BY <2>1 DEF Version
<1>5. gone \in [version: Nat, id: Nat] /\ gone.version = 0
  BY <1>3
<1>6. /\ o \in Op /\ o.kind = "archive" /\ o.step = "done" /\ o.prompt = p
      /\ o.version = v
  BY <1>1 DEF Op
<1> HIDE DEF o, row, gone
<1>7. /\ rows \in Seq(Version) /\ Len(rows) = Len(catalog[p])
      /\ \A w \in 1 .. Len(catalog[p]) : rows[w].by = catalog[p][w].by
  <2>1. rows \in Seq(Version) /\ Len(rows) = Len(catalog[p])
    BY <1>3, <1>4
  <2>2. DOMAIN catalog[p] = 1 .. Len(catalog[p])
    BY <1>3
  <2>3. \A w \in 1 .. Len(catalog[p]) : rows[w] = IF w = v THEN row ELSE catalog[p][w]
    BY <2>2, <1>3
  <2> QED BY <2>1, <2>3, <1>4
<1> HIDE DEF rows
<1>8. /\ catalog' \in [Prompt -> Seq(Version)] /\ catalog'[p] = rows
      /\ \A q \in Prompt \ {p} : catalog'[q] = catalog[q]
  BY <1>2, <1>3, <1>7 DEF StoreInv
<1>9. Grows(catalog, catalog') /\ \A q \in Prompt : Len(catalog'[q]) = Len(catalog[q])
  <2>1. Grows(catalog, catalog')
    <3> SUFFICES ASSUME NEW q \in Prompt
                 PROVE  /\ Len(catalog[q]) <= Len(catalog'[q])
                        /\ \A w \in 1 .. Len(catalog[q]) : catalog'[q][w].by = catalog[q][w].by
      BY DEF Grows
    <3>1. CASE q = p
      BY <3>1, <1>3, <1>7, <1>8
    <3>2. CASE q # p
      <4>1. catalog'[q] = catalog[q] /\ Len(catalog[q]) \in Nat
        BY <3>2, <1>8 DEF StoreInv
      <4> QED BY <4>1
    <3> QED BY <3>1, <3>2
  <2>2. \A q \in Prompt : Len(catalog'[q]) = Len(catalog[q])
    BY <1>7, <1>8
  <2> QED BY <2>1, <2>2
<1>10. /\ label' \in [Prompt -> [version: Nat, id: Nat]]
       /\ \A q \in Prompt : label'[q].version <= Len(catalog'[q])
  <2>1. CASE label' = label
    BY <2>1, <1>9 DEF StoreInv
  <2>2. CASE label' = [label EXCEPT ![p] = gone]
    <3>1. label'[p] = gone /\ \A q \in Prompt \ {p} : label'[q] = label[q]
      BY <2>2, <1>3 DEF StoreInv
    <3>2. label' \in [Prompt -> [version: Nat, id: Nat]]
      BY <2>2, <1>3, <1>5 DEF StoreInv
    <3>3. 0 <= Len(catalog'[p])
      BY <1>3, <1>9
    <3> QED BY <3>1, <3>2, <3>3, <1>5, <1>9 DEF StoreInv
  <2> QED BY <1>2, <2>1, <2>2
<1>11. OpIsTrue(o, c, catalog')
  <2>1. v \in 1 .. Len(catalog'[p])
    BY <1>3, <1>9
  <2> QED BY <1>6, <2>1 DEF OpIsTrue
<1> QED BY <1>1, <1>2, <1>6, <1>8, <1>9, <1>10, <1>11, OpMoves

-----------------------------------------------------------------------------
(* Prompts: requests, loads and reads *)

\* A request is asked for.
LEMMA AskFacts ==
    ASSUME PromptsAssumption, StoreInv, NEW c \in Caller, NEW kind \in {"save", "move", "archive"},
           NEW p \in Prompt, NEW v \in Nat, kind # "save" => v \in 1 .. Len(catalog[p]),
           Ask(c, kind, p, v), UNCHANGED <<catalog, label>>
    PROVE  StoreInv' /\ ops'[c].kind = kind /\ \A d \in Caller \ {c} : ops'[d] = ops[d]
<1> DEFINE o == [NoOp EXCEPT !.kind = kind, !.prompt = p, !.version = v, !.step = "asked"]
<1>1. ops' = [ops EXCEPT ![c] = o]
  BY DEF Ask
<1>2. /\ o \in Op /\ o.kind = kind /\ o.step = "asked" /\ o.prompt = p /\ o.version = v
      /\ o.tries = 0
  <2>1. NoOp \in Op /\ NoOp.tries = 0
    BY DEF NoOp, Op, Prompt, PromptsAssumption
  <2> QED BY <2>1 DEF Op
<1> HIDE DEF o
<1>3. OpIsTrue(o, c, catalog)
  BY <1>2 DEF OpIsTrue, PromptsAssumption
<1>4. ops' \in [Caller -> Op] /\ ops'[c] = o /\ \A d \in Caller \ {c} : ops'[d] = ops[d]
  BY <1>1, <1>2 DEF StoreInv
<1>5. \A d \in Caller : OpIsTrue(ops'[d], d, catalog')
  BY <1>3, <1>4 DEF StoreInv
<1> QED BY <1>2, <1>4, <1>5 DEF StoreInv

\* A request is answered.
LEMMA AnswerFacts ==
    ASSUME PromptsAssumption, StoreInv, NEW c \in Caller, ops' = [ops EXCEPT ![c] = NoOp],
           UNCHANGED <<catalog, label>>
    PROVE  StoreInv' /\ ops'[c].kind = "none" /\ \A d \in Caller \ {c} : ops'[d] = ops[d]
<1>1. NoOp \in Op /\ NoOp.kind = "none" /\ NoOp.step = "none"
  BY DEF NoOp, Op, Prompt, PromptsAssumption
<1>2. OpIsTrue(NoOp, c, catalog)
  BY <1>1 DEF OpIsTrue
<1>3. ops' \in [Caller -> Op] /\ ops'[c] = NoOp /\ \A d \in Caller \ {c} : ops'[d] = ops[d]
  BY <1>1 DEF StoreInv
<1>4. \A d \in Caller : OpIsTrue(ops'[d], d, catalog')
  BY <1>2, <1>3 DEF StoreInv
<1> QED BY <1>1, <1>3, <1>4 DEF StoreInv

\* A step that leaves the store and its writes alone.
LEMMA StoreKept ==
    ASSUME StoreInv, UNCHANGED <<catalog, label, ops>>
    PROVE  StoreInv'
BY DEF StoreInv, OpIsTrue

\* A page that stays as it is while the catalogue grows.
LEMMA PageKept ==
    ASSUME PromptsAssumption, StoreInv, StoreInv', PageInv, Grows(catalog, catalog'),
           UNCHANGED <<page, loads>>
    PROVE  PageInv'
<1>1. Opened \in Prompt
  BY DEF PromptsAssumption, Prompt
<1>2. /\ Len(catalog[Opened]) \in Nat /\ Len(catalog'[Opened]) \in Nat
      /\ Len(catalog[Opened]) <= Len(catalog'[Opened])
  BY <1>1 DEF StoreInv, Grows
<1>3. /\ page.confirm \in Nat /\ Len(page.rows) \in Nat
      /\ \A i \in DOMAIN loads : Len(loads[i].rows) \in Nat
  BY DEF PageInv, Page, PageLoad
<1> QED BY <1>2, <1>3 DEF PageInv

\* A list that stays as it is.
LEMMA ListStays ==
    ASSUME ListInv, UNCHANGED <<list, pages>>
    PROVE  ListInv'
BY DEF ListInv, IsRead

\* A load of the page begins.
LEMMA LoadAdded ==
    ASSUME PageInv, NEW owner \in {"none", "change", "save"}, Load(owner), Len(loads) < MaxLoads,
           MaxLoads \in Nat, page' \in Page, page'.rows = page.rows, catalog' = catalog,
           page'.confirm <= Len(catalog[Opened]), Len(catalog[Opened]) \in Nat
    PROVE  /\ PageInv' /\ loads' # <<>> /\ Len(loads) + 1 \notin DOMAIN loads
           /\ LoadsOf(owner)' = LoadsOf(owner) \cup {Len(loads) + 1}
           /\ \A o : o # owner => LoadsOf(o)' = LoadsOf(o)
<1> DEFINE load == [owner |-> owner, step |-> "asked", rows |-> <<>>, live |-> 0]
<1>1. load \in PageLoad /\ load.owner = owner /\ load.rows = <<>>
  BY DEF PageLoad
<1>2. loads' = Append(loads, load) /\ loads \in Seq(PageLoad)
  BY DEF Load, PageInv
<1> HIDE DEF load
<1>3. /\ loads' \in Seq(PageLoad) /\ Len(loads') = Len(loads) + 1
      /\ DOMAIN loads' = DOMAIN loads \cup {Len(loads) + 1} /\ Len(loads) + 1 \notin DOMAIN loads
      /\ loads'[Len(loads) + 1] = load /\ \A i \in DOMAIN loads : loads'[i] = loads[i]
  BY <1>1, <1>2, AppendFacts
<1>4. loads' # <<>> /\ Len(loads') <= MaxLoads
  BY <1>2, <1>3
<1>5. \A i \in DOMAIN loads' : Len(loads'[i].rows) <= Len(catalog'[Opened])
  <2>1. Len(load.rows) <= Len(catalog[Opened])
    BY <1>1
  <2> QED BY <1>3, <2>1 DEF PageInv
<1>6. PageInv'
  BY <1>3, <1>4, <1>5 DEF PageInv
<1>7. LoadsOf(owner)' = LoadsOf(owner) \cup {Len(loads) + 1}
  BY <1>1, <1>3 DEF LoadsOf
<1>8. \A o : o # owner => LoadsOf(o)' = LoadsOf(o)
  BY <1>1, <1>3 DEF LoadsOf
<1> QED BY <1>3, <1>4, <1>6, <1>7, <1>8

\* A load reads on.
LEMMA LoadGoesOn ==
    ASSUME PageInv, NEW i \in DOMAIN loads, NEW r \in PageLoad, r.owner = loads[i].owner,
           Len(r.rows) <= Len(catalog[Opened]), loads' = [loads EXCEPT ![i] = r],
           UNCHANGED <<page, catalog>>
    PROVE  PageInv' /\ loads' # <<>> /\ \A o : LoadsOf(o)' = LoadsOf(o)
<1>1. loads \in Seq(PageLoad) /\ DOMAIN loads = 1 .. Len(loads)
  BY DEF PageInv
<1>2. /\ loads' \in Seq(PageLoad) /\ Len(loads') = Len(loads) /\ DOMAIN loads' = DOMAIN loads
      /\ loads'[i] = r /\ \A j \in DOMAIN loads \ {i} : loads'[j] = loads[j]
  BY <1>1
<1>3. PageInv'
  BY <1>2 DEF PageInv
<1>4. \A o : LoadsOf(o)' = LoadsOf(o)
  BY <1>2 DEF LoadsOf
<1> QED BY <1>2, <1>3, <1>4

\* A load is over, and the others go on in their order.
LEMMA LoadRemoved ==
    ASSUME PageInv, NEW i \in DOMAIN loads, loads' = RemoveAt(loads, i), MaxLoads \in Nat,
           page' \in Page, page'.confirm = page.confirm,
           page'.rows = page.rows \/ page'.rows = loads[i].rows, catalog' = catalog
    PROVE  /\ PageInv'
           /\ \A o : /\ LoadsOf(o)' \subseteq Nat
                     /\ \A j \in LoadsOf(o)' : Before(i, j) \in LoadsOf(o) \ {i}
                     /\ \A k \in LoadsOf(o) \ {i} : After(i, k) \in LoadsOf(o)'
<1>1. loads \in Seq(PageLoad) /\ Len(loads) \in Nat /\ Len(loads) <= MaxLoads
  BY DEF PageInv
<1>2. /\ loads' \in Seq(PageLoad) /\ Len(loads') = Len(loads) - 1
      /\ \A j \in DOMAIN loads' :
            Before(i, j) \in DOMAIN loads \ {i} /\ loads'[j] = loads[Before(i, j)]
      /\ \A k \in DOMAIN loads \ {i} :
            After(i, k) \in DOMAIN loads' /\ loads'[After(i, k)] = loads[k]
  BY <1>1, RemoveAtFacts
<1>3. DOMAIN loads' \subseteq Nat
  <2>1. DOMAIN loads' = 1 .. Len(loads') /\ Len(loads') \in Nat
    BY <1>2
  <2> QED BY <2>1
<1>4. PageInv'
  BY <1>1, <1>2 DEF PageInv
<1>5. \A o : LoadsOf(o)' \subseteq Nat
  BY <1>3 DEF LoadsOf
<1>6. \A o : \A j \in LoadsOf(o)' : Before(i, j) \in LoadsOf(o) \ {i}
  BY <1>2 DEF LoadsOf
<1>7. \A o : \A k \in LoadsOf(o) \ {i} : After(i, k) \in LoadsOf(o)'
  BY <1>2 DEF LoadsOf
<1> QED BY <1>4, <1>5, <1>6, <1>7

-----------------------------------------------------------------------------
(* Prompts: the page of one prompt *)

\* What a step of a page keeps: the invariant, and the writes that are under way.
Keeps == PromptsInv' /\ OneChangeAtATime

\* A step that leaves the writes alone replaces none.
LEMMA WritesKept ==
    ASSUME \A c \in {"change", "save"} :
              \/ ops'[c].kind = ops[c].kind /\ ops'[c].prompt = ops[c].prompt
              \/ ops[c].kind = "none"
              \/ Answered(c)
    PROVE  OneChangeAtATime
BY DEF OneChangeAtATime

\* Numbers that the assumptions give.
LEMMA Opening ==
    ASSUME PromptsAssumption, StoreInv
    PROVE  Opened \in Prompt /\ Len(catalog[Opened]) \in Nat /\ MaxLoads \in Nat
BY DEF PromptsAssumption, StoreInv, Prompt

\* The version on screen is one there is.
LEMMA ShownIsThere ==
    ASSUME PromptsAssumption, StoreInv, PageInv
    PROVE  /\ Shown \in 0 .. Len(catalog[Opened])
           /\ Rows # <<>> => Shown \in 1 .. Len(catalog[Opened])
<1>1. /\ page.rows \in Seq(BOOLEAN) /\ Len(page.rows) \in Nat
      /\ Len(page.rows) <= Len(catalog[Opened]) /\ DOMAIN page.rows = 1 .. Len(page.rows)
  BY DEF PageInv, Page
<1>2. Len(catalog[Opened]) \in Nat
  BY Opening
<1>3. Live \in 0 .. Len(page.rows)
  BY <1>1 DEF Live, Rows
<1>4. Shown \in 0 .. Len(page.rows) /\ (page.rows # <<>> => Shown # 0)
  <2>1. page.rows # <<>> => Len(page.rows) # 0
    BY <1>1
  <2> QED BY <1>1, <1>3, <2>1 DEF Shown, Rows
<1> QED BY <1>1, <1>2, <1>4 DEF Rows

\* The locks of the page of a prompt, one by one.
LEMMA PromptLocks ==
    ASSUME LockInv, view = "prompt", UNCHANGED <<view, list, pages>>,
           Held(page'.busy, ~Idle("change")', LoadsOf("change")'),
           Held(page'.saving, ~Idle("save")', LoadsOf("save")'),
           page'.loading => loads' # <<>>
    PROVE  LockInv'
BY DEF LockInv

\* A step of the page that touches neither its locks nor what it waits for.
LEMMA FieldsChange ==
    ASSUME PromptsAssumption, PromptsInv, view = "prompt", page' \in Page,
           UNCHANGED <<catalog, label, ops, view, loads, list, pages>>,
           page'.rows = page.rows, page'.confirm <= Len(catalog[Opened]),
           page'.busy = page.busy, page'.saving = page.saving, page'.loading = page.loading
    PROVE  Keeps
<1>1. StoreInv' /\ ListInv' /\ OneChangeAtATime
  BY StoreKept, ListStays, WritesKept DEF PromptsInv
<1>2. PageInv'
  BY DEF PromptsInv, PageInv
<1>3. /\ Held(page.busy, ~Idle("change"), LoadsOf("change"))
      /\ Held(page.saving, ~Idle("save"), LoadsOf("save"))
      /\ page.loading => loads # <<>>
  BY DEF PromptsInv, LockInv
<1>4. /\ Idle("change")' = Idle("change") /\ Idle("save")' = Idle("save")
      /\ LoadsOf("change")' = LoadsOf("change") /\ LoadsOf("save")' = LoadsOf("save")
  BY DEF Idle, LoadsOf
<1>5. LockInv'
  BY <1>3, <1>4, PromptLocks DEF PromptsInv
<1> QED BY <1>1, <1>2, <1>5 DEF Keeps, PromptsInv

\* Reading a version, the dialog and the form.
LEMMA ReadingStep ==
    ASSUME PromptsAssumption, PromptsInv,
           \/ \E v \in DOMAIN Rows : OpenVersion(v)
           \/ AskToArchive \/ CancelArchive \/ OpenForm \/ CloseForm
    PROVE  Keeps
<1>1. /\ page \in Page /\ page.confirm <= Len(catalog[Opened]) /\ page.rows \in Seq(BOOLEAN)
      /\ Len(catalog[Opened]) \in Nat
  BY Opening DEF PromptsInv, PageInv, Page
<1>2. CASE \E v \in DOMAIN Rows : OpenVersion(v)
  <2> PICK v \in DOMAIN Rows : OpenVersion(v)
    BY <1>2
  <2>1. v \in Nat
    BY <1>1 DEF Rows
  <2>2. page' = [page EXCEPT !.open = v] /\ view = "prompt"
    BY DEF OpenVersion, Readable, OnPrompt
  <2>3. /\ page' \in Page /\ page'.rows = page.rows /\ page'.confirm = page.confirm
        /\ page'.busy = page.busy /\ page'.saving = page.saving /\ page'.loading = page.loading
    BY <1>1, <2>1, <2>2 DEF Page
  <2>4. UNCHANGED <<catalog, label, ops, view, loads, list, pages>>
    BY DEF OpenVersion, Kept
  <2> QED BY <1>1, <2>2, <2>3, <2>4, FieldsChange
<1>3. CASE AskToArchive
  <2>1. Shown \in 1 .. Len(catalog[Opened])
    BY <1>3, ShownIsThere DEF AskToArchive, Manageable, Readable, PromptsInv
  <2>2. page' = [page EXCEPT !.confirm = Shown] /\ view = "prompt"
    BY <1>3 DEF AskToArchive, Manageable, Readable, OnPrompt
  <2>3. /\ page' \in Page /\ page'.rows = page.rows /\ page'.confirm = Shown
        /\ page'.busy = page.busy /\ page'.saving = page.saving /\ page'.loading = page.loading
    <3>1. Shown \in Nat
      BY <1>1, <2>1
    <3> QED BY <1>1, <2>2, <3>1 DEF Page
  <2>4. UNCHANGED <<catalog, label, ops, view, loads, list, pages>>
    BY <1>3 DEF AskToArchive, Kept
  <2>5. Shown <= Len(catalog[Opened])
    BY <1>1, <2>1
  <2> QED BY <2>2, <2>3, <2>4, <2>5, FieldsChange
<1>4. CASE CancelArchive
  <2>1. page' = [page EXCEPT !.confirm = 0] /\ view = "prompt"
    BY <1>4 DEF CancelArchive, OnPrompt
  <2>2. /\ page' \in Page /\ page'.rows = page.rows /\ page'.confirm = 0
        /\ page'.busy = page.busy /\ page'.saving = page.saving /\ page'.loading = page.loading
    BY <1>1, <2>1 DEF Page
  <2>3. UNCHANGED <<catalog, label, ops, view, loads, list, pages>>
    BY <1>4 DEF CancelArchive, Kept
  <2> QED BY <1>1, <2>1, <2>2, <2>3, FieldsChange
<1>5. CASE OpenForm \/ CloseForm
  <2>1. view = "prompt" /\ UNCHANGED <<catalog, label, ops, view, loads, list, pages>>
    BY <1>5 DEF OpenForm, CloseForm, OnPrompt, Kept
  <2>2. page' = [page EXCEPT !.form = TRUE] \/ page' = [page EXCEPT !.form = FALSE]
    BY <1>5 DEF OpenForm, CloseForm
  <2>3. /\ page' \in Page /\ page'.rows = page.rows /\ page'.confirm = page.confirm
        /\ page'.busy = page.busy /\ page'.saving = page.saving /\ page'.loading = page.loading
    BY <1>1, <2>2 DEF Page
  <2> QED BY <1>1, <2>1, <2>3, FieldsChange
<1> QED BY <1>2, <1>3, <1>4, <1>5

\* Refresh.
LEMMA RefreshStep ==
    ASSUME PromptsAssumption, PromptsInv, Refresh
    PROVE  Keeps
<1>1. /\ view = "prompt" /\ Len(loads) < MaxLoads /\ Load("none")
      /\ page' = [page EXCEPT !.loading = TRUE, !.error = FALSE]
      /\ UNCHANGED <<catalog, label, ops, view, list, pages>>
  BY DEF Refresh, OnPrompt, Kept
<1>2. /\ page' \in Page /\ page'.rows = page.rows /\ page'.confirm = page.confirm
      /\ page'.busy = page.busy /\ page'.saving = page.saving
  BY <1>1 DEF PromptsInv, PageInv, Page
<1>3. page.confirm <= Len(catalog[Opened])
  BY DEF PromptsInv, PageInv
<1>4. PageInv' /\ loads' # <<>> /\ \A o : o # "none" => LoadsOf(o)' = LoadsOf(o)
  BY <1>1, <1>2, <1>3, Opening, LoadAdded DEF PromptsInv
<1>5. LoadsOf("change")' = LoadsOf("change") /\ LoadsOf("save")' = LoadsOf("save")
  BY <1>4
<1>6. Idle("change")' = Idle("change") /\ Idle("save")' = Idle("save")
  BY <1>1 DEF Idle
<1>7. LockInv'
  <2>1. /\ Held(page.busy, ~Idle("change"), LoadsOf("change"))
        /\ Held(page.saving, ~Idle("save"), LoadsOf("save"))
    BY <1>1 DEF PromptsInv, LockInv
  <2> QED BY <1>1, <1>2, <1>4, <1>5, <1>6, <2>1, PromptLocks DEF PromptsInv
<1>8. StoreInv' /\ ListInv' /\ OneChangeAtATime
  BY <1>1, StoreKept, ListStays, WritesKept DEF PromptsInv
<1> QED BY <1>4, <1>7, <1>8 DEF Keeps, PromptsInv

\* A load reads the rows, and then the labels.
LEMMA LoadReadsStep ==
    ASSUME PromptsAssumption, PromptsInv, NEW i \in DOMAIN loads, ReadRows(i) \/ ReadLabels(i)
    PROVE  Keeps
<1>1. loads[i] \in PageLoad /\ Len(loads[i].rows) <= Len(catalog[Opened]) /\ loads # <<>>
  <2>1. loads \in Seq(PageLoad)
    BY DEF PromptsInv, PageInv
  <2> QED BY <2>1 DEF PromptsInv, PageInv
<1>2. view = "prompt"
  BY <1>1 DEF PromptsInv, LockInv
<1>3. UNCHANGED <<catalog, label, ops, view, list, pages, page>>
  BY DEF ReadRows, ReadLabels, Kept
<1>4. \E r \in PageLoad : /\ r.owner = loads[i].owner /\ Len(r.rows) <= Len(catalog[Opened])
                          /\ loads' = [loads EXCEPT ![i] = r]
  <2>1. CASE ReadRows(i)
    <3> DEFINE rows == [v \in DOMAIN catalog[Opened] |-> catalog[Opened][v].archived]
               r == [loads[i] EXCEPT !.rows = rows, !.step = "rows"]
    <3>1. catalog[Opened] \in Seq(Version) /\ Len(catalog[Opened]) \in Nat
      BY Opening DEF PromptsInv, StoreInv
    <3>2. rows \in Seq(BOOLEAN) /\ Len(rows) = Len(catalog[Opened])
      <4>1. DOMAIN catalog[Opened] = 1 .. Len(catalog[Opened])
        BY <3>1
      <4>2. \A v \in DOMAIN catalog[Opened] : catalog[Opened][v].archived \in BOOLEAN
        <5>1. \A v \in DOMAIN catalog[Opened] : catalog[Opened][v] \in Version
          BY <3>1, <4>1
        <5> QED BY <5>1 DEF Version
      <4>3. rows \in [1 .. Len(catalog[Opened]) -> BOOLEAN]
        BY <4>1, <4>2
      <4> HIDE DEF rows
      <4> QED BY <3>1, <4>3
    <3>3. loads' = [loads EXCEPT ![i] = r]
      BY <2>1 DEF ReadRows
    <3> HIDE DEF rows
    <3>4. r \in PageLoad /\ r.owner = loads[i].owner /\ r.rows = rows
      BY <1>1, <3>2 DEF PageLoad
    <3> HIDE DEF r
    <3>5. Len(r.rows) <= Len(catalog[Opened])
      BY <3>1, <3>2, <3>4
    <3> QED BY <3>3, <3>4, <3>5
  <2>2. CASE ReadLabels(i)
    <3> DEFINE live == label[Opened].version
               r == [loads[i] EXCEPT !.live = live, !.step = "answered"]
    <3>1. live \in Nat
      BY Opening DEF PromptsInv, StoreInv
    <3>2. loads' = [loads EXCEPT ![i] = r]
      BY <2>2 DEF ReadLabels
    <3> HIDE DEF live
    <3>3. r \in PageLoad /\ r.owner = loads[i].owner /\ r.rows = loads[i].rows
      BY <1>1, <3>1 DEF PageLoad
    <3> HIDE DEF r
    <3> QED BY <1>1, <3>2, <3>3
  <2> QED BY <2>1, <2>2
<1>5. PageInv' /\ loads' # <<>> /\ \A o : LoadsOf(o)' = LoadsOf(o)
  <2> PICK r \in PageLoad : /\ r.owner = loads[i].owner /\ Len(r.rows) <= Len(catalog[Opened])
                            /\ loads' = [loads EXCEPT ![i] = r]
    BY <1>4
  <2> QED BY <1>3, LoadGoesOn DEF PromptsInv
<1>6. Idle("change")' = Idle("change") /\ Idle("save")' = Idle("save")
  BY <1>3 DEF Idle
<1>7. LockInv'
  <2>1. /\ Held(page.busy, ~Idle("change"), LoadsOf("change"))
        /\ Held(page.saving, ~Idle("save"), LoadsOf("save"))
    BY <1>2 DEF PromptsInv, LockInv
  <2>2. LoadsOf("change")' = LoadsOf("change") /\ LoadsOf("save")' = LoadsOf("save")
    BY <1>5
  <2> QED BY <1>2, <1>3, <1>5, <1>6, <2>1, <2>2, PromptLocks DEF PromptsInv
<1>8. StoreInv' /\ ListInv' /\ OneChangeAtATime
  BY <1>3, StoreKept, ListStays, WritesKept DEF PromptsInv
<1> QED BY <1>5, <1>7, <1>8 DEF Keeps, PromptsInv

\* A load is over, and with it the lock that waited for it.
LEMMA LoadEndsStep ==
    ASSUME PromptsAssumption, PromptsInv, NEW i \in DOMAIN loads, LoadReturns(i) \/ LoadFails(i)
    PROVE  Keeps
<1> DEFINE owner == loads[i].owner
           blocked == IF i \in LoadsOf("change") THEN FALSE ELSE page.busy
           saving == IF i \in LoadsOf("save") THEN FALSE ELSE page.saving
<1>1. loads \in Seq(PageLoad) /\ loads[i] \in PageLoad /\ loads # <<>> /\ i \in Nat /\ page \in Page
  <2>1. loads \in Seq(PageLoad) /\ page \in Page
    BY DEF PromptsInv, PageInv
  <2>2. DOMAIN loads = 1 .. Len(loads) /\ Len(loads) \in Nat
    BY <2>1
  <2>3. i \in Nat /\ loads[i] \in PageLoad /\ loads # <<>>
    BY <2>1, <2>2
  <2> QED BY <2>1, <2>3
<1>2. view = "prompt"
  BY <1>1 DEF PromptsInv, LockInv
<1>3. /\ UNCHANGED <<catalog, label, ops, view, list, pages>>
      /\ loads' = RemoveAt(loads, i)
  BY DEF LoadReturns, LoadFails, Kept
<1>4. /\ LetGo(owner) \in Page
      /\ LetGo(owner).busy = blocked /\ LetGo(owner).saving = saving
      /\ LetGo(owner).rows = page.rows /\ LetGo(owner).confirm = page.confirm
  <2>1. (owner = "change" <=> i \in LoadsOf("change")) /\ (owner = "save" <=> i \in LoadsOf("save"))
    BY DEF LoadsOf
  <2> QED BY <1>1, <2>1 DEF LetGo, Page
<1>5. /\ page' \in Page /\ page'.busy = blocked /\ page'.saving = saving /\ ~page'.loading
      /\ page'.rows = page.rows \/ page'.rows = loads[i].rows
      /\ page'.confirm = page.confirm
  <2> DEFINE let == LetGo(owner)
  <2>1. /\ let \in Page /\ let.busy = blocked /\ let.saving = saving /\ let.rows = page.rows
        /\ let.confirm = page.confirm
    BY <1>4
  <2>2. CASE LoadReturns(i)
    <3>1. page' = [let EXCEPT !.loading = FALSE, !.rows = loads[i].rows, !.live = loads[i].live]
      BY <2>2 DEF LoadReturns
    <3> HIDE DEF let, blocked, saving
    <3> QED BY <1>1, <2>1, <3>1 DEF Page, PageLoad
  <2>3. CASE LoadFails(i)
    <3>1. page' = [let EXCEPT !.loading = FALSE, !.error = TRUE]
      BY <2>3 DEF LoadFails
    <3> HIDE DEF let, blocked, saving
    <3> QED BY <1>1, <2>1, <3>1 DEF Page
  <2> QED BY <2>2, <2>3
<1>6. /\ PageInv'
      /\ \A o : /\ LoadsOf(o)' \subseteq Nat
                /\ \A j \in LoadsOf(o)' : Before(i, j) \in LoadsOf(o) \ {i}
                /\ \A k \in LoadsOf(o) \ {i} : After(i, k) \in LoadsOf(o)'
  <2>1. PageInv /\ MaxLoads \in Nat
    BY Opening DEF PromptsInv
  <2> HIDE DEF blocked, saving
  <2> QED BY <1>3, <1>5, <2>1, LoadRemoved
<1>7. Idle("change")' = Idle("change") /\ Idle("save")' = Idle("save")
  BY <1>3 DEF Idle
<1>8. Held(page'.busy, ~Idle("change")', LoadsOf("change")')
  <2>1. Held(page.busy, ~Idle("change"), LoadsOf("change"))
    BY <1>2 DEF PromptsInv, LockInv
  <2>2. page.busy \in BOOLEAN
    BY <1>1 DEF Page
  <2>3. Held(blocked, ~Idle("change"), LoadsOf("change")')
    <3> DEFINE W == LoadsOf("change")
               V == LoadsOf("change")'
               writing == ~Idle("change")
    <3>1. writing \in BOOLEAN /\ Held(page.busy, writing, W)
      BY <2>1 DEF Idle
    <3>2. /\ V \subseteq Nat /\ \A j \in V : Before(i, j) \in W \ {i}
          /\ \A k \in W \ {i} : After(i, k) \in V
      BY <1>6
    <3> HIDE DEF W, V, writing
    <3>3. \A j, k \in W : j = k
      BY <3>1 DEF Held
    <3>4. (V # {} <=> W \ {i} # {}) /\ \A j, k \in V : j = k
      BY <1>1, <3>2, <3>3, Renumbered
    <3>5. CASE i \in W
      <4>1. ~blocked /\ V = {} /\ ~writing
        <5>1. ~blocked
          BY <3>5 DEF W
        <5> QED BY <3>1, <3>3, <3>4, <3>5, <5>1 DEF Held
      <4>2. Held(blocked, writing, V)
        BY <4>1 DEF Held
      <4> QED BY <4>2 DEF W, V, writing
    <3>6. CASE i \notin W
      <4>1. blocked <=> page.busy
        BY <3>6 DEF W
      <4>2. V # {} <=> W # {}
        BY <3>4, <3>6
      <4> HIDE DEF blocked
      <4>3. Held(blocked, writing, V)
        BY <3>1, <3>4, <4>1, <4>2 DEF Held
      <4> QED BY <4>3 DEF W, V, writing
    <3> QED BY <3>5, <3>6
  <2> QED BY <1>5, <1>7, <2>3
<1>9. Held(page'.saving, ~Idle("save")', LoadsOf("save")')
  <2>1. Held(page.saving, ~Idle("save"), LoadsOf("save"))
    BY <1>2 DEF PromptsInv, LockInv
  <2>2. page.saving \in BOOLEAN
    BY <1>1 DEF Page
  <2>3. Held(saving, ~Idle("save"), LoadsOf("save")')
    <3> DEFINE W == LoadsOf("save")
               V == LoadsOf("save")'
               writing == ~Idle("save")
    <3>1. writing \in BOOLEAN /\ Held(page.saving, writing, W)
      BY <2>1 DEF Idle
    <3>2. /\ V \subseteq Nat /\ \A j \in V : Before(i, j) \in W \ {i}
          /\ \A k \in W \ {i} : After(i, k) \in V
      BY <1>6
    <3> HIDE DEF W, V, writing
    <3>3. \A j, k \in W : j = k
      BY <3>1 DEF Held
    <3>4. (V # {} <=> W \ {i} # {}) /\ \A j, k \in V : j = k
      BY <1>1, <3>2, <3>3, Renumbered
    <3>5. CASE i \in W
      <4>1. ~saving /\ V = {} /\ ~writing
        <5>1. ~saving
          BY <3>5 DEF W
        <5> QED BY <3>1, <3>3, <3>4, <3>5, <5>1 DEF Held
      <4>2. Held(saving, writing, V)
        BY <4>1 DEF Held
      <4> QED BY <4>2 DEF W, V, writing
    <3>6. CASE i \notin W
      <4>1. saving <=> page.saving
        BY <3>6 DEF W
      <4>2. V # {} <=> W # {}
        BY <3>4, <3>6
      <4> HIDE DEF saving
      <4>3. Held(saving, writing, V)
        BY <3>1, <3>4, <4>1, <4>2 DEF Held
      <4> QED BY <4>3 DEF W, V, writing
    <3> QED BY <3>5, <3>6
  <2> QED BY <1>5, <1>7, <2>3
<1>10. LockInv'
  BY <1>2, <1>3, <1>5, <1>8, <1>9, PromptLocks DEF PromptsInv
<1>11. StoreInv' /\ ListInv' /\ OneChangeAtATime
  BY <1>3, StoreKept, WritesKept, ListStays DEF PromptsInv
<1> QED BY <1>6, <1>10, <1>11 DEF Keeps, PromptsInv

\* Make production, and an archive that was confirmed: no other is under way.
LEMMA ChangeBeginsStep ==
    ASSUME PromptsAssumption, PromptsInv, Promote \/ ConfirmArchive
    PROVE  Keeps
<1>1. \E kind \in {"move", "archive"}, v \in 1 .. Len(catalog[Opened]) :
         Ask("change", kind, Opened, v)
  <2>1. CASE Promote
    <3>1. Shown \in 1 .. Len(catalog[Opened])
      BY <2>1, ShownIsThere DEF Promote, Manageable, Readable, PromptsInv
    <3>2. Ask("change", "move", Opened, Shown)
      BY <2>1 DEF Promote
    <3> QED BY <3>1, <3>2
  <2>2. CASE ConfirmArchive
    <3>1. page.confirm \in 1 .. Len(catalog[Opened])
      <4>1. /\ page.confirm \in Nat /\ page.confirm # 0 /\ page.confirm <= Len(catalog[Opened])
            /\ Len(catalog[Opened]) \in Nat
        BY <2>2, Opening DEF ConfirmArchive, PromptsInv, PageInv, Page
      <4> QED BY <4>1
    <3>2. Ask("change", "archive", Opened, page.confirm)
      BY <2>2 DEF ConfirmArchive
    <3> QED BY <3>1, <3>2
  <2> QED BY <2>1, <2>2
<1>2. /\ view = "prompt" /\ ~page.busy /\ page' = [page EXCEPT !.busy = TRUE, !.error = FALSE]
      /\ UNCHANGED <<catalog, label, view, list, pages, loads>>
  BY DEF Promote, ConfirmArchive, Manageable, Readable, OnPrompt, MayChange, Kept
<1>3. /\ page \in Page /\ page' \in Page /\ page'.busy /\ page'.saving = page.saving
      /\ page'.rows = page.rows /\ page'.confirm = page.confirm /\ page'.loading = page.loading
  BY <1>2 DEF PromptsInv, PageInv, Page
<1>4. /\ StoreInv' /\ ops'["change"].kind # "none"
      /\ \A d \in Caller \ {"change"} : ops'[d] = ops[d]
  <2> PICK kind \in {"move", "archive"}, v \in 1 .. Len(catalog[Opened]) :
              Ask("change", kind, Opened, v)
    BY <1>1
  <2>1. /\ v \in Nat /\ Opened \in Prompt /\ "change" \in Caller
        /\ kind \in {"save", "move", "archive"}
    BY Opening DEF Caller, PromptsInv
  <2> QED BY <1>2, <2>1, AskFacts DEF PromptsInv
<1>5. PageInv'
  BY <1>2, <1>3 DEF PromptsInv, PageInv
<1>6. LoadsOf("change")' = LoadsOf("change") /\ LoadsOf("save")' = LoadsOf("save")
  BY <1>2 DEF LoadsOf
<1>7. Idle("save")' = Idle("save") /\ ~Idle("change")'
  BY <1>4 DEF Idle, Caller
<1>8. Idle("change") /\ Held(TRUE, TRUE, LoadsOf("change"))
  <2>1. Held(page.busy, ~Idle("change"), LoadsOf("change"))
    BY <1>2 DEF PromptsInv, LockInv
  <2> QED BY <1>2, <2>1 DEF Held
<1>9. LockInv'
  <2>1. Held(page.saving, ~Idle("save"), LoadsOf("save")) /\ (page.loading => loads # <<>>)
    BY <1>2 DEF PromptsInv, LockInv
  <2>2. Held(page'.saving, ~Idle("save")', LoadsOf("save")') /\ (page'.loading => loads' # <<>>)
    BY <1>2, <1>3, <1>6, <1>7, <2>1
  <2>3. Held(page'.busy, ~Idle("change")', LoadsOf("change")')
    BY <1>3, <1>6, <1>7, <1>8 DEF Held
  <2> QED BY <1>2, <2>2, <2>3, PromptLocks DEF PromptsInv
<1>10. OneChangeAtATime
  BY <1>4, <1>8, WritesKept DEF Idle, Caller
<1> QED BY <1>2, <1>4, <1>5, <1>9, <1>10, ListStays DEF Keeps, PromptsInv

\* A new version is sent: no other save is under way.
LEMMA SaveBeginsStep ==
    ASSUME PromptsAssumption, PromptsInv, SaveVersion
    PROVE  Keeps
<1>1. /\ view = "prompt" /\ ~page.saving /\ page' = [page EXCEPT !.saving = TRUE]
      /\ Ask("save", "save", Opened, 0)
      /\ UNCHANGED <<catalog, label, view, list, pages, loads>>
  BY DEF SaveVersion, OnPrompt, Kept
<1>2. /\ page \in Page /\ page' \in Page /\ page'.saving /\ page'.busy = page.busy
      /\ page'.rows = page.rows /\ page'.confirm = page.confirm /\ page'.loading = page.loading
  BY <1>1 DEF PromptsInv, PageInv, Page
<1>3. /\ StoreInv' /\ ops'["save"].kind # "none"
      /\ \A d \in Caller \ {"save"} : ops'[d] = ops[d]
  <2>1. 0 \in Nat /\ Opened \in Prompt /\ "save" \in Caller
    BY Opening DEF Caller, PromptsInv
  <2> QED BY <1>1, <2>1, AskFacts DEF PromptsInv
<1>4. PageInv'
  BY <1>1, <1>2 DEF PromptsInv, PageInv
<1>5. LoadsOf("change")' = LoadsOf("change") /\ LoadsOf("save")' = LoadsOf("save")
  BY <1>1 DEF LoadsOf
<1>6. Idle("change")' = Idle("change") /\ ~Idle("save")'
  BY <1>3 DEF Idle, Caller
<1>7. Idle("save") /\ Held(TRUE, TRUE, LoadsOf("save"))
  <2>1. Held(page.saving, ~Idle("save"), LoadsOf("save"))
    BY <1>1 DEF PromptsInv, LockInv
  <2> QED BY <1>1, <2>1 DEF Held
<1>8. LockInv'
  <2>1. Held(page.busy, ~Idle("change"), LoadsOf("change")) /\ (page.loading => loads # <<>>)
    BY <1>1 DEF PromptsInv, LockInv
  <2>2. Held(page'.busy, ~Idle("change")', LoadsOf("change")') /\ (page'.loading => loads' # <<>>)
    BY <1>1, <1>2, <1>5, <1>6, <2>1
  <2>3. Held(page'.saving, ~Idle("save")', LoadsOf("save")')
    BY <1>2, <1>5, <1>6, <1>7 DEF Held
  <2> QED BY <1>1, <2>2, <2>3, PromptLocks DEF PromptsInv
<1>9. OneChangeAtATime
  BY <1>3, <1>7, WritesKept DEF Idle, Caller
<1> QED BY <1>1, <1>3, <1>4, <1>8, <1>9, ListStays DEF Keeps, PromptsInv

\* A change is answered: its lock is handed to the load that follows, or let go.
LEMMA ChangeIsAnsweredStep ==
    ASSUME PromptsAssumption, PromptsInv, ChangeIsAnswered
    PROVE  Keeps
<1>1. /\ view = "prompt" /\ Answered("change") /\ ops' = [ops EXCEPT !["change"] = NoOp]
      /\ UNCHANGED <<catalog, label, view, list, pages>>
  BY DEF ChangeIsAnswered, OnPrompt, Kept
<1>2. StoreInv' /\ ops'["change"].kind = "none" /\ \A d \in Caller \ {"change"} : ops'[d] = ops[d]
  <2>1. "change" \in Caller
    BY DEF Caller
  <2> QED BY <1>1, <2>1, AnswerFacts DEF PromptsInv
<1>3. Idle("change")' /\ Idle("save")' = Idle("save") /\ ~Idle("change")
  <2>1. OpIsTrue(ops["change"], "change", catalog)
    BY DEF PromptsInv, StoreInv, Caller
  <2>2. ~Idle("change")
    BY <1>1, <2>1 DEF OpIsTrue, Answered, Idle
  <2> QED BY <1>2, <2>2 DEF Idle, Caller
<1>4. /\ page.busy /\ LoadsOf("change") = {}
      /\ Held(page.saving, ~Idle("save"), LoadsOf("save"))
      /\ page.loading => loads # <<>>
  BY <1>1, <1>3 DEF PromptsInv, LockInv, Held
<1>5. page \in Page /\ page.confirm <= Len(catalog[Opened])
  BY DEF PromptsInv, PageInv
<1>6. OneChangeAtATime
  BY <1>1, <1>2, WritesKept DEF Caller
<1>7. CASE ops["change"].step = "done"
  <2>1. /\ Len(loads) < MaxLoads /\ Load("change")
        /\ \/ page' = [page EXCEPT !.confirm = 0, !.open = 0, !.loading = TRUE, !.error = FALSE]
           \/ page' = [page EXCEPT !.loading = TRUE, !.error = FALSE]
    BY <1>7 DEF ChangeIsAnswered
  <2>2. /\ page' \in Page /\ page'.rows = page.rows /\ page'.confirm \in {0, page.confirm}
        /\ page'.busy = page.busy /\ page'.saving = page.saving
    <3>1. CASE page' = [page EXCEPT !.confirm = 0, !.open = 0, !.loading = TRUE, !.error = FALSE]
      BY <1>5, <3>1 DEF Page
    <3>2. CASE page' = [page EXCEPT !.loading = TRUE, !.error = FALSE]
      BY <1>5, <3>2 DEF Page
    <3> QED BY <2>1, <3>1, <3>2
  <2>3. page'.confirm <= Len(catalog[Opened])
    BY <1>5, <2>2, Opening DEF PromptsInv
  <2>4. /\ PageInv' /\ loads' # <<>>
        /\ LoadsOf("change")' = LoadsOf("change") \cup {Len(loads) + 1}
        /\ LoadsOf("save")' = LoadsOf("save")
    BY <1>1, <2>1, <2>2, <2>3, Opening, LoadAdded DEF PromptsInv
  <2>5. Held(page'.busy, ~Idle("change")', LoadsOf("change")')
    BY <1>3, <1>4, <2>2, <2>4 DEF Held
  <2>6. LockInv'
    BY <1>1, <1>3, <1>4, <2>2, <2>4, <2>5, PromptLocks DEF PromptsInv
  <2> QED BY <1>1, <1>2, <1>6, <2>4, <2>6, ListStays DEF Keeps, PromptsInv
<1>8. CASE ops["change"].step # "done"
  <2>1. page' = [page EXCEPT !.error = TRUE, !.busy = FALSE] /\ loads' = loads
    BY <1>8 DEF ChangeIsAnswered
  <2>2. /\ page' \in Page /\ page'.rows = page.rows /\ page'.confirm = page.confirm
        /\ ~page'.busy /\ page'.saving = page.saving /\ page'.loading = page.loading
    BY <1>5, <2>1 DEF Page
  <2>3. PageInv'
    BY <1>1, <2>1, <2>2 DEF PromptsInv, PageInv
  <2>4. LoadsOf("change")' = {} /\ LoadsOf("save")' = LoadsOf("save")
    BY <1>4, <2>1 DEF LoadsOf
  <2>5. Held(page'.busy, ~Idle("change")', LoadsOf("change")')
    BY <1>3, <2>2, <2>4 DEF Held
  <2>6. LockInv'
    BY <1>1, <1>3, <1>4, <2>1, <2>2, <2>4, <2>5, PromptLocks DEF PromptsInv
  <2> QED BY <1>1, <1>2, <1>6, <2>3, <2>6, ListStays DEF Keeps, PromptsInv
<1> QED BY <1>7, <1>8

\* A save from the page is answered, likewise.
LEMMA SaveIsAnsweredStep ==
    ASSUME PromptsAssumption, PromptsInv, SaveIsAnswered
    PROVE  Keeps
<1>1. /\ view = "prompt" /\ Answered("save") /\ ops' = [ops EXCEPT !["save"] = NoOp]
      /\ UNCHANGED <<catalog, label, view, list, pages>>
  BY DEF SaveIsAnswered, OnPrompt, Kept
<1>2. StoreInv' /\ ops'["save"].kind = "none" /\ \A d \in Caller \ {"save"} : ops'[d] = ops[d]
  <2>1. "save" \in Caller
    BY DEF Caller
  <2> QED BY <1>1, <2>1, AnswerFacts DEF PromptsInv
<1>3. Idle("save")' /\ Idle("change")' = Idle("change") /\ ~Idle("save")
  <2>1. OpIsTrue(ops["save"], "save", catalog)
    BY DEF PromptsInv, StoreInv, Caller
  <2>2. ~Idle("save")
    BY <1>1, <2>1 DEF OpIsTrue, Answered, Idle
  <2> QED BY <1>2, <2>2 DEF Idle, Caller
<1>4. /\ page.saving /\ LoadsOf("save") = {}
      /\ Held(page.busy, ~Idle("change"), LoadsOf("change"))
      /\ page.loading => loads # <<>>
  BY <1>1, <1>3 DEF PromptsInv, LockInv, Held
<1>5. page \in Page /\ page.confirm <= Len(catalog[Opened])
  BY DEF PromptsInv, PageInv
<1>6. OneChangeAtATime
  BY <1>1, <1>2, WritesKept DEF Caller
<1>7. CASE ops["save"].step = "done"
  <2>1. /\ Len(loads) < MaxLoads /\ Load("save")
        /\ page' = [page EXCEPT !.form = FALSE, !.open = 0, !.loading = TRUE, !.error = FALSE]
    BY <1>7 DEF SaveIsAnswered
  <2>2. /\ page' \in Page /\ page'.rows = page.rows /\ page'.confirm = page.confirm
        /\ page'.busy = page.busy /\ page'.saving = page.saving
    BY <1>5, <2>1 DEF Page
  <2>3. /\ PageInv' /\ loads' # <<>>
        /\ LoadsOf("save")' = LoadsOf("save") \cup {Len(loads) + 1}
        /\ LoadsOf("change")' = LoadsOf("change")
    BY <1>1, <1>5, <2>1, <2>2, Opening, LoadAdded DEF PromptsInv
  <2>4. Held(page'.saving, ~Idle("save")', LoadsOf("save")')
    BY <1>3, <1>4, <2>2, <2>3 DEF Held
  <2>5. LockInv'
    BY <1>1, <1>3, <1>4, <2>2, <2>3, <2>4, PromptLocks DEF PromptsInv
  <2> QED BY <1>1, <1>2, <1>6, <2>3, <2>5, ListStays DEF Keeps, PromptsInv
<1>8. CASE ops["save"].step # "done"
  <2>1. page' = [page EXCEPT !.saving = FALSE] /\ loads' = loads
    BY <1>8 DEF SaveIsAnswered
  <2>2. /\ page' \in Page /\ page'.rows = page.rows /\ page'.confirm = page.confirm
        /\ ~page'.saving /\ page'.busy = page.busy /\ page'.loading = page.loading
    BY <1>5, <2>1 DEF Page
  <2>3. PageInv'
    BY <1>1, <2>1, <2>2 DEF PromptsInv, PageInv
  <2>4. LoadsOf("save")' = {} /\ LoadsOf("change")' = LoadsOf("change")
    BY <1>4, <2>1 DEF LoadsOf
  <2>5. Held(page'.saving, ~Idle("save")', LoadsOf("save")')
    BY <1>3, <2>2, <2>4 DEF Held
  <2>6. LockInv'
    BY <1>1, <1>3, <1>4, <2>1, <2>2, <2>4, <2>5, PromptLocks DEF PromptsInv
  <2> QED BY <1>1, <1>2, <1>6, <2>3, <2>6, ListStays DEF Keeps, PromptsInv
<1> QED BY <1>7, <1>8

-----------------------------------------------------------------------------
(* Prompts: the store's and the other users' steps, and the list's *)

\* A write goes on in the store.
LEMMA StoreGoesOn ==
    ASSUME PromptsAssumption, PromptsInv, NEW c \in Caller,
           \/ ReadHighest(c) \/ InsertVersion(c)
           \/ ReadTarget(c) \/ ReadLabel(c) \/ PointLabel(c) \/ ArchiveVersion(c)
    PROVE  Keeps
<1>1. StoreStep
  BY ReadHighestStep, InsertVersionStep, ReadTargetStep, ReadLabelStep, PointLabelStep,
     ArchiveVersionStep DEF PromptsInv
<1>2. UNCHANGED <<view, page, loads, list, pages>>
  BY DEF ReadHighest, InsertVersion, ReadTarget, ReadLabel, PointLabel, ArchiveVersion, Unread
<1>3. Idle("change")' = Idle("change") /\ Idle("save")' = Idle("save") /\ OneChangeAtATime
  BY <1>1, WritesKept DEF StoreStep, Idle, Caller
<1>4. PageInv' /\ ListInv'
  BY <1>1, <1>2, PageKept, ListStays DEF StoreStep, PromptsInv
<1>5. LockInv'
  <2>1. /\ LoadsOf("change")' = LoadsOf("change") /\ LoadsOf("save")' = LoadsOf("save")
        /\ ReadsOfSave' = ReadsOfSave
    BY <1>2 DEF LoadsOf, ReadsOfSave
  <2> QED BY <1>2, <1>3, <2>1 DEF PromptsInv, LockInv
<1> QED BY <1>1, <1>3, <1>4, <1>5 DEF StoreStep, Keeps, PromptsInv

\* Another user asks, and is answered.
LEMMA OthersStep ==
    ASSUME PromptsAssumption, PromptsInv, OtherAsks \/ OtherIsAnswered
    PROVE  Keeps
<1>1. StoreInv' /\ \A d \in Caller \ {"other"} : ops'[d] = ops[d]
  <2>0. "other" \in Caller
    BY DEF Caller
  <2>1. CASE OtherAsks
    <3>1. UNCHANGED <<catalog, label>>
      BY <2>1 DEF OtherAsks
    <3>2. PICK p \in Prompt :
             \/ Len(catalog[p]) < MaxVersions /\ Ask("other", "save", p, 0)
             \/ \E v \in Usable(p), kind \in {"move", "archive"} : Ask("other", kind, p, v)
      BY <2>1 DEF OtherAsks
    <3>3. CASE Ask("other", "save", p, 0)
      BY <2>0, <3>1, <3>3, AskFacts DEF PromptsInv
    <3>4. CASE \E v \in Usable(p), kind \in {"move", "archive"} : Ask("other", kind, p, v)
      <4> PICK v \in Usable(p), kind \in {"move", "archive"} : Ask("other", kind, p, v)
        BY <3>4
      <4>1. v \in 1 .. Len(catalog[p]) /\ v \in Nat
        <5>1. catalog[p] \in Seq(Version)
          BY DEF PromptsInv, StoreInv
        <5>2. v \in DOMAIN catalog[p]
          BY DEF Usable
        <5> QED BY <5>1, <5>2
      <4>2. kind \in {"save", "move", "archive"}
        OBVIOUS
      <4> QED BY <2>0, <3>1, <4>1, <4>2, AskFacts DEF PromptsInv
    <3> QED BY <3>2, <3>3, <3>4
  <2>2. CASE OtherIsAnswered
    BY <2>0, <2>2, AnswerFacts DEF OtherIsAnswered, PromptsInv
  <2> QED BY <2>1, <2>2
<1>2. UNCHANGED <<catalog, view, page, loads, list, pages>>
  BY DEF OtherAsks, OtherIsAnswered, Unread
<1>3. ops'["change"] = ops["change"] /\ ops'["save"] = ops["save"]
  BY <1>1 DEF Caller
<1>4. Idle("change")' = Idle("change") /\ Idle("save")' = Idle("save") /\ OneChangeAtATime
  BY <1>3, WritesKept DEF Idle
<1>5. PageInv' /\ ListInv'
  <2>1. Grows(catalog, catalog')
    BY <1>2, SameGrows DEF PromptsInv, StoreInv
  <2> QED BY <1>1, <1>2, <2>1, PageKept, ListStays DEF PromptsInv
<1>6. LockInv'
  <2>1. /\ LoadsOf("change")' = LoadsOf("change") /\ LoadsOf("save")' = LoadsOf("save")
        /\ ReadsOfSave' = ReadsOfSave
    BY <1>2 DEF LoadsOf, ReadsOfSave
  <2> QED BY <1>2, <1>4, <2>1 DEF PromptsInv, LockInv
<1> QED BY <1>1, <1>4, <1>5, <1>6 DEF Keeps, PromptsInv

\* A page of the list is asked for.
LEMMA ReadAdded ==
    ASSUME ListInv, NEW more \in BOOLEAN, NEW save \in BOOLEAN, ~(more /\ save),
           AskPage(more, save), Len(pages) < MaxLoads, MaxLoads \in Nat, IsList(list')
    PROVE  /\ ListInv' /\ Len(pages) + 1 \notin DOMAIN pages
           /\ DOMAIN pages' = DOMAIN pages \cup {Len(pages) + 1}
           /\ pages'[Len(pages) + 1].more = more
           /\ \A i \in DOMAIN pages : pages'[i] = pages[i]
           /\ ReadsOfSave' = IF save THEN ReadsOfSave \cup {Len(pages) + 1} ELSE ReadsOfSave
<1>1. PICK S : pages \in Seq(S)
  BY DEF ListInv
<1> DEFINE read == [more |-> more, save |-> save, generation |-> list'.generation,
                    early |-> more /\ Replacing, answered |-> FALSE,
                    offset |-> IF more THEN list.cursor ELSE 0, ids |-> <<>>]
<1>2. pages' = Append(pages, read)
  BY DEF AskPage
<1>3. IsRead(read) /\ read.more = more /\ read.save = save
  BY DEF IsRead
<1> HIDE DEF read
<1>4. pages \in Seq(S \cup {read}) /\ read \in S \cup {read}
  BY <1>1
<1>5. /\ pages' \in Seq(S \cup {read}) /\ Len(pages') = Len(pages) + 1
      /\ DOMAIN pages' = DOMAIN pages \cup {Len(pages) + 1} /\ Len(pages) + 1 \notin DOMAIN pages
      /\ pages'[Len(pages) + 1] = read /\ \A i \in DOMAIN pages : pages'[i] = pages[i]
  BY <1>2, <1>4, AppendFacts
<1>6. Len(pages') <= MaxLoads
  BY <1>1, <1>5
<1>7. \A i \in DOMAIN pages' : IsRead(pages'[i])
  BY <1>3, <1>5 DEF ListInv
<1>8. \E T : pages' \in Seq(T)
  BY <1>5
<1>9. ListInv'
  <2>1. IsList(list)' /\ \A i \in DOMAIN pages' : IsRead(pages[i])'
    BY <1>7 DEF IsList, IsRead
  <2> QED BY <1>6, <1>8, <2>1 DEF ListInv
<1>10. ReadsOfSave' = IF save THEN ReadsOfSave \cup {Len(pages) + 1} ELSE ReadsOfSave
  BY <1>3, <1>5 DEF ReadsOfSave
<1> QED BY <1>3, <1>5, <1>9, <1>10

\* The server reads the ids for a page of the list.
LEMMA ReadGoesOn ==
    ASSUME ListInv, NEW i \in DOMAIN pages, PageIsRead(i)
    PROVE  /\ ListInv' /\ DOMAIN pages' = DOMAIN pages
           /\ \A j \in DOMAIN pages : /\ pages'[j].more = pages[j].more
                                      /\ pages'[j].save = pages[j].save
<1>1. PICK S : pages \in Seq(S)
  BY DEF ListInv
<1> DEFINE ids == Ids
           read == [pages[i] EXCEPT !.ids = ids, !.answered = TRUE]
<1>2. pages' = [pages EXCEPT ![i] = read] /\ list' = list
  BY DEF PageIsRead
<1> HIDE DEF ids
<1>3. IsRead(read) /\ read.more = pages[i].more /\ read.save = pages[i].save
  BY DEF ListInv, IsRead
<1> HIDE DEF read
<1>4. pages \in Seq(S \cup {read}) /\ read \in S \cup {read}
  BY <1>1
<1>5. /\ pages' \in Seq(S \cup {read}) /\ Len(pages') = Len(pages) /\ DOMAIN pages' = DOMAIN pages
      /\ pages'[i] = read /\ \A j \in DOMAIN pages \ {i} : pages'[j] = pages[j]
  BY <1>2, <1>4
<1>6. \A j \in DOMAIN pages' : IsRead(pages'[j])
  BY <1>3, <1>5 DEF ListInv
<1>7. \E T : pages' \in Seq(T)
  BY <1>5
<1>8. ListInv'
  <2>1. IsList(list)' /\ \A j \in DOMAIN pages' : IsRead(pages[j])'
    BY <1>2, <1>6 DEF ListInv, IsList, IsRead
  <2> QED BY <1>5, <1>7, <2>1 DEF ListInv
<1> QED BY <1>3, <1>5, <1>8

\* A page of the list is answered or fails, and the others go on in their order.
LEMMA ReadRemoved ==
    ASSUME ListInv, NEW i \in DOMAIN pages, pages' = RemoveAt(pages, i), MaxLoads \in Nat,
           IsList(list')
    PROVE  /\ ListInv' /\ i \in Nat /\ DOMAIN pages' \subseteq Nat
           /\ \A j \in DOMAIN pages' :
                 Before(i, j) \in DOMAIN pages \ {i} /\ pages'[j] = pages[Before(i, j)]
           /\ \A k \in DOMAIN pages \ {i} :
                 After(i, k) \in DOMAIN pages' /\ pages'[After(i, k)] = pages[k]
<1>1. PICK S : pages \in Seq(S)
  BY DEF ListInv
<1>2. /\ pages' \in Seq(S) /\ Len(pages') = Len(pages) - 1
      /\ \A j \in DOMAIN pages' :
            Before(i, j) \in DOMAIN pages \ {i} /\ pages'[j] = pages[Before(i, j)]
      /\ \A k \in DOMAIN pages \ {i} :
            After(i, k) \in DOMAIN pages' /\ pages'[After(i, k)] = pages[k]
  BY <1>1, RemoveAtFacts
<1>3. DOMAIN pages' \subseteq Nat /\ i \in Nat /\ Len(pages') <= MaxLoads
  <2>1. /\ DOMAIN pages' = 1 .. Len(pages') /\ Len(pages') \in Nat /\ Len(pages) \in Nat
        /\ DOMAIN pages = 1 .. Len(pages) /\ Len(pages) <= MaxLoads
    BY <1>1, <1>2 DEF ListInv
  <2> QED BY <1>2, <2>1
<1>4. ListInv'
  <2>1. IsList(list)' /\ \A j \in DOMAIN pages' : IsRead(pages[j])'
    BY <1>2 DEF ListInv, IsList, IsRead
  <2>2. \E T : pages' \in Seq(T)
    BY <1>2
  <2> QED BY <1>3, <2>1, <2>2 DEF ListInv
<1> QED BY <1>2, <1>3, <1>4

\* The locks of the list, one by one.
LEMMA ListLocks ==
    ASSUME LockInv, view = "list", UNCHANGED <<view, page, loads>>, Idle("change")',
           Held(list'.saving, ~Idle("save")', ReadsOfSave'),
           list'.loading => \E i \in DOMAIN pages' : ~pages'[i].more,
           list'.more => \E i \in DOMAIN pages' : pages'[i].more
    PROVE  LockInv'
BY DEF LockInv

\* A fresh load: Refresh, and the one after a save.
LEMMA FreshIsList ==
    ASSUME IsList(list)
    PROVE  /\ IsList(FreshList) /\ FreshList.loading
           /\ FreshList.saving = list.saving /\ FreshList.more = list.more
BY DEF IsList, FreshList

\* Refresh, and a page more.
LEMMA ListAsksStep ==
    ASSUME PromptsAssumption, PromptsInv, RefreshList \/ LoadMore
    PROVE  Keeps
<1>1. /\ view = "list" /\ Len(pages) < MaxLoads /\ MaxLoads \in Nat /\ IsList(list)
      /\ UNCHANGED <<catalog, label, ops, view, page, loads>>
  BY Opening DEF RefreshList, LoadMore, OnList, ListKept, PromptsInv, ListInv
<1>2. PICK more \in BOOLEAN :
         /\ AskPage(more, FALSE)
         /\ list' = IF more THEN [list EXCEPT !.more = TRUE] ELSE FreshList
  BY DEF RefreshList, LoadMore
<1>3. /\ IsList(list') /\ list'.saving = list.saving
      /\ IF more THEN list'.more /\ list'.loading = list.loading
                 ELSE list'.loading /\ list'.more = list.more
  <2>1. CASE more
    <3>1. list' = [list EXCEPT !.more = TRUE]
      BY <1>2, <2>1
    <3>2. IsList(list') /\ list'.saving = list.saving /\ list'.more /\ list'.loading = list.loading
      BY <1>1, <3>1 DEF IsList
    <3> QED BY <2>1, <3>2
  <2>2. CASE ~more
    BY <1>1, <1>2, <2>2, FreshIsList
  <2> QED BY <2>1, <2>2
<1>4. /\ ListInv' /\ DOMAIN pages' = DOMAIN pages \cup {Len(pages) + 1}
      /\ pages'[Len(pages) + 1].more = more /\ \A i \in DOMAIN pages : pages'[i] = pages[i]
      /\ ReadsOfSave' = ReadsOfSave
  BY <1>1, <1>2, <1>3, ReadAdded DEF PromptsInv
<1>5. /\ Held(list.saving, ~Idle("save"), ReadsOfSave) /\ Idle("change")
      /\ list.loading => \E i \in DOMAIN pages : ~pages[i].more
      /\ list.more => \E i \in DOMAIN pages : pages[i].more
  BY <1>1 DEF PromptsInv, LockInv
<1>6. Idle("change")' = Idle("change") /\ Idle("save")' = Idle("save")
  BY <1>1 DEF Idle
<1>7. /\ list'.loading => \E i \in DOMAIN pages' : ~pages'[i].more
      /\ list'.more => \E i \in DOMAIN pages' : pages'[i].more
  BY <1>3, <1>4, <1>5
<1>8. LockInv'
  BY <1>1, <1>3, <1>4, <1>5, <1>6, <1>7, ListLocks DEF PromptsInv
<1>9. StoreInv' /\ OneChangeAtATime
  BY <1>1, StoreKept, WritesKept DEF PromptsInv
<1>10. PageInv'
  BY <1>1 DEF PromptsInv, PageInv
<1> QED BY <1>4, <1>8, <1>9, <1>10 DEF Keeps, PromptsInv

\* The server reads.
LEMMA ListReadsStep ==
    ASSUME PromptsAssumption, PromptsInv, NEW i \in DOMAIN pages, PageIsRead(i)
    PROVE  Keeps
<1>1. UNCHANGED <<catalog, label, ops, view, page, loads, list>>
  BY DEF PageIsRead, ListKept
<1>2. /\ ListInv' /\ DOMAIN pages' = DOMAIN pages
      /\ \A j \in DOMAIN pages : pages'[j].more = pages[j].more /\ pages'[j].save = pages[j].save
  BY ReadGoesOn DEF PromptsInv
<1>3. view = "list"
  <2>1. pages # <<>>
    OBVIOUS
  <2> QED BY <2>1 DEF PromptsInv, LockInv
<1>4. /\ ReadsOfSave' = ReadsOfSave
      /\ Idle("change")' = Idle("change") /\ Idle("save")' = Idle("save")
  BY <1>1, <1>2 DEF ReadsOfSave, Idle
<1>5. LockInv'
  <2>1. /\ Held(list.saving, ~Idle("save"), ReadsOfSave) /\ Idle("change")
        /\ list.loading => \E j \in DOMAIN pages : ~pages[j].more
        /\ list.more => \E j \in DOMAIN pages : pages[j].more
    BY <1>3 DEF PromptsInv, LockInv
  <2>2. /\ list'.loading => \E j \in DOMAIN pages' : ~pages'[j].more
        /\ list'.more => \E j \in DOMAIN pages' : pages'[j].more
    BY <1>1, <1>2, <2>1
  <2> QED BY <1>1, <1>3, <1>4, <2>1, <2>2, ListLocks DEF PromptsInv
<1>6. StoreInv' /\ OneChangeAtATime
  BY <1>1, StoreKept, WritesKept DEF PromptsInv
<1>7. PageInv'
  BY <1>1 DEF PromptsInv, PageInv
<1> QED BY <1>2, <1>5, <1>6, <1>7 DEF Keeps, PromptsInv

\* What a read lets go of: a page more of itself, a fresh load of "loading", and the
\* one after a save of the save.
LEMMA SettledIsList ==
    ASSUME IsList(list), NEW read, IsRead(read)
    PROVE  /\ IsList(Settled(read))
           /\ read.more => /\ ~Settled(read).more /\ Settled(read).loading = list.loading
                           /\ Settled(read).saving = list.saving
           /\ ~read.more => /\ ~Settled(read).loading /\ Settled(read).more = list.more
                            /\ Settled(read).saving <=> list.saving /\ ~read.save
<1>1. read.more \in BOOLEAN /\ read.save \in BOOLEAN
  BY DEF IsRead
<1>2. CASE read.more
  BY <1>2 DEF IsList, Settled
<1>3. CASE ~read.more
  <2> DEFINE saving == list.saving /\ ~read.save
  <2>1. saving \in BOOLEAN
    BY <1>1
  <2>2. Settled(read) = [list EXCEPT !.loading = FALSE, !.saving = saving]
    BY <1>3 DEF Settled, IsList
  <2> HIDE DEF saving
  <2>3. /\ IsList(Settled(read)) /\ ~Settled(read).loading /\ Settled(read).more = list.more
        /\ Settled(read).saving = saving
    BY <2>1, <2>2 DEF IsList
  <2> QED BY <1>3, <2>3 DEF saving
<1> QED BY <1>1, <1>2, <1>3

\* A page of the list is answered, or fails.
LEMMA ListIsAnsweredStep ==
    ASSUME PromptsAssumption, PromptsInv, NEW i \in DOMAIN pages, PageReturns(i) \/ PageFails(i)
    PROVE  Keeps
<1> DEFINE read == pages[i]
<1>1. UNCHANGED <<catalog, label, ops, view, page, loads>> /\ pages' = RemoveAt(pages, i)
  BY DEF PageReturns, PageFails, ListKept
<1>2. IsList(list) /\ IsRead(read) /\ MaxLoads \in Nat
  BY Opening DEF PromptsInv, ListInv
<1>3. view = "list"
  <2>1. pages # <<>>
    OBVIOUS
  <2> QED BY <2>1 DEF PromptsInv, LockInv
<1>4. /\ IsList(list') /\ list'.loading = Settled(read).loading
      /\ list'.more = Settled(read).more /\ list'.saving = Settled(read).saving
  <2> DEFINE settled == Settled(read)
  <2>1. IsList(settled)
    BY <1>2, SettledIsList
  <2>2. CASE list' = settled
    BY <2>1, <2>2
  <2>3. CASE list' # settled
    <3> DEFINE items == IF read.more THEN settled.items \o Items(read) ELSE Items(read)
               cursor == NextCursor(read)
               early == read.more /\ (settled.early \/ read.early)
    <3>1. list' = [settled EXCEPT !.items = items, !.cursor = cursor, !.early = early]
      BY <2>3 DEF PageReturns, PageFails
    <3> HIDE DEF settled, items, cursor, early
    <3>2. IsList(list') /\ list'.loading = settled.loading /\ list'.more = settled.more
          /\ list'.saving = settled.saving
      BY <2>1, <3>1 DEF IsList
    <3> QED BY <3>2 DEF settled
  <2> QED BY <2>2, <2>3
<1>5. /\ read.more \in BOOLEAN /\ read.save \in BOOLEAN /\ ~(read.more /\ read.save)
      /\ read.more => ~list'.more /\ list'.loading = list.loading /\ list'.saving = list.saving
      /\ ~read.more => /\ ~list'.loading /\ list'.more = list.more
                       /\ list'.saving <=> list.saving /\ ~read.save
  <2>1. read.more \in BOOLEAN /\ read.save \in BOOLEAN /\ ~(read.more /\ read.save)
    BY <1>2 DEF IsRead
  <2>2. read.more => ~list'.more /\ list'.loading = list.loading /\ list'.saving = list.saving
    BY <1>2, <1>4, SettledIsList
  <2>3. ~read.more => /\ ~list'.loading /\ list'.more = list.more
                      /\ list'.saving <=> list.saving /\ ~read.save
    BY <1>2, <1>4, SettledIsList
  <2> QED BY <2>1, <2>2, <2>3
<1>6. /\ ListInv' /\ i \in Nat /\ DOMAIN pages' \subseteq Nat
      /\ \A j \in DOMAIN pages' :
            Before(i, j) \in DOMAIN pages \ {i} /\ pages'[j] = pages[Before(i, j)]
      /\ \A k \in DOMAIN pages \ {i} :
            After(i, k) \in DOMAIN pages' /\ pages'[After(i, k)] = pages[k]
  BY <1>1, <1>2, <1>4, ReadRemoved DEF PromptsInv
<1>7. /\ Held(list.saving, ~Idle("save"), ReadsOfSave) /\ Idle("change")
      /\ list.loading => \E j \in DOMAIN pages : ~pages[j].more
      /\ list.more => \E j \in DOMAIN pages : pages[j].more
  BY <1>3 DEF PromptsInv, LockInv
<1>8. Idle("change")' = Idle("change") /\ Idle("save")' = Idle("save")
  BY <1>1 DEF Idle
<1>9. Held(list'.saving, ~Idle("save")', ReadsOfSave')
  <2> DEFINE W == ReadsOfSave
             V == ReadsOfSave'
             writing == ~Idle("save")
  <2>1. V \subseteq Nat /\ (\A j \in V : Before(i, j) \in W \ {i})
        /\ \A k \in W \ {i} : After(i, k) \in V
    BY <1>6 DEF ReadsOfSave
  <2>2. i \in W <=> read.save
    BY DEF ReadsOfSave
  <2>3. Held(list.saving, writing, W) /\ \A j, k \in W : j = k
    BY <1>7 DEF Held
  <2> HIDE DEF W, V, writing
  <2>4. (V # {} <=> W \ {i} # {}) /\ \A j, k \in V : j = k
    BY <1>6, <2>1, <2>3, Renumbered
  <2>5. list'.saving <=> list.saving /\ ~read.save
    BY <1>5
  <2>6. Held(list'.saving, writing, V)
    <3>1. CASE i \in W
      <4>1. V = {} /\ ~writing /\ ~list'.saving
        BY <2>2, <2>3, <2>4, <2>5, <3>1 DEF Held
      <4> QED BY <4>1 DEF Held
    <3>2. CASE i \notin W
      <4>1. (V # {} <=> W # {}) /\ (list'.saving <=> list.saving)
        BY <2>2, <2>4, <2>5, <3>2
      <4> QED BY <2>3, <2>4, <4>1 DEF Held
    <3> QED BY <3>1, <3>2
  <2> QED BY <1>8, <2>6 DEF V, writing
<1>10. list'.loading => \E j \in DOMAIN pages' : ~pages'[j].more
  <2> SUFFICES ASSUME list'.loading PROVE \E j \in DOMAIN pages' : ~pages'[j].more
    OBVIOUS
  <2>1. read.more /\ list.loading
    BY <1>5
  <2>2. PICK k \in DOMAIN pages : ~pages[k].more
    BY <1>7, <2>1
  <2>3. k # i
    BY <2>1, <2>2
  <2> QED BY <1>6, <2>2, <2>3
<1>11. list'.more => \E j \in DOMAIN pages' : pages'[j].more
  <2> SUFFICES ASSUME list'.more PROVE \E j \in DOMAIN pages' : pages'[j].more
    OBVIOUS
  <2>1. ~read.more /\ list.more
    BY <1>5
  <2>2. PICK k \in DOMAIN pages : pages[k].more
    BY <1>7, <2>1
  <2>3. k # i
    BY <2>1, <2>2
  <2> QED BY <1>6, <2>2, <2>3
<1>12. LockInv'
  BY <1>1, <1>3, <1>7, <1>8, <1>9, <1>10, <1>11, ListLocks DEF PromptsInv
<1>13. StoreInv' /\ OneChangeAtATime
  BY <1>1, StoreKept, WritesKept DEF PromptsInv
<1>14. PageInv'
  BY <1>1 DEF PromptsInv, PageInv
<1> QED BY <1>6, <1>12, <1>13, <1>14 DEF Keeps, PromptsInv

\* A prompt is saved from the list: no other save is under way.
LEMMA ListSavesStep ==
    ASSUME PromptsAssumption, PromptsInv, NEW p \in Prompt, SavePrompt(p)
    PROVE  Keeps
<1>1. /\ view = "list" /\ ~list.saving /\ list' = [list EXCEPT !.saving = TRUE]
      /\ Ask("save", "save", p, 0) /\ IsList(list)
      /\ UNCHANGED <<catalog, label, view, page, loads, pages>>
  BY DEF SavePrompt, OnList, ListKept, PromptsInv, ListInv
<1>2. /\ IsList(list') /\ list'.saving /\ list'.loading = list.loading /\ list'.more = list.more
  BY <1>1 DEF IsList
<1>3. /\ StoreInv' /\ ops'["save"].kind # "none"
      /\ \A d \in Caller \ {"save"} : ops'[d] = ops[d]
  <2>1. 0 \in Nat /\ "save" \in Caller
    BY DEF Caller
  <2> QED BY <1>1, <2>1, AskFacts DEF PromptsInv
<1>4. ListInv'
  <2>1. IsList(list)'
    BY <1>2 DEF IsList
  <2> QED BY <1>1, <2>1 DEF PromptsInv, ListInv, IsRead
<1>5. Idle("change")' = Idle("change") /\ ~Idle("save")' /\ ReadsOfSave' = ReadsOfSave
  BY <1>1, <1>3 DEF Idle, Caller, ReadsOfSave
<1>6. /\ Held(list.saving, ~Idle("save"), ReadsOfSave) /\ Idle("change")
      /\ list.loading => \E j \in DOMAIN pages : ~pages[j].more
      /\ list.more => \E j \in DOMAIN pages : pages[j].more
  BY <1>1 DEF PromptsInv, LockInv
<1>7. Idle("save") /\ ReadsOfSave = {}
  BY <1>1, <1>6 DEF Held
<1>8. LockInv'
  <2>1. Held(list'.saving, ~Idle("save")', ReadsOfSave')
    BY <1>2, <1>5, <1>7 DEF Held
  <2> QED BY <1>1, <1>2, <1>5, <1>6, <2>1, ListLocks DEF PromptsInv
<1>9. OneChangeAtATime
  BY <1>3, <1>7, WritesKept DEF Idle, Caller
<1>10. PageInv'
  BY <1>1 DEF PromptsInv, PageInv
<1> QED BY <1>3, <1>4, <1>8, <1>9, <1>10 DEF Keeps, PromptsInv

\* It is answered: its lock is handed to the fresh load, or let go.
LEMMA ListSaveIsAnsweredStep ==
    ASSUME PromptsAssumption, PromptsInv, SavePromptIsAnswered
    PROVE  Keeps
<1>1. /\ view = "list" /\ Answered("save") /\ ops' = [ops EXCEPT !["save"] = NoOp]
      /\ UNCHANGED <<catalog, label, view, page, loads>> /\ IsList(list) /\ MaxLoads \in Nat
  BY Opening DEF SavePromptIsAnswered, OnList, ListKept, PromptsInv, ListInv
<1>2. StoreInv' /\ ops'["save"].kind = "none" /\ \A d \in Caller \ {"save"} : ops'[d] = ops[d]
  <2>1. "save" \in Caller
    BY DEF Caller
  <2> QED BY <1>1, <2>1, AnswerFacts DEF PromptsInv
<1>3. Idle("save")' /\ Idle("change")' = Idle("change") /\ ~Idle("save")
  <2>1. OpIsTrue(ops["save"], "save", catalog)
    BY DEF PromptsInv, StoreInv, Caller
  <2>2. ~Idle("save")
    BY <1>1, <2>1 DEF OpIsTrue, Answered, Idle
  <2> QED BY <1>2, <2>2 DEF Idle, Caller
<1>4. /\ list.saving /\ ReadsOfSave = {} /\ Idle("change")
      /\ list.loading => \E j \in DOMAIN pages : ~pages[j].more
      /\ list.more => \E j \in DOMAIN pages : pages[j].more
  BY <1>1, <1>3 DEF PromptsInv, LockInv, Held
<1>5. OneChangeAtATime
  BY <1>1, <1>2, WritesKept DEF Caller
<1>6. PageInv'
  BY <1>1 DEF PromptsInv, PageInv
<1>7. CASE ops["save"].step = "done"
  <2>1. Len(pages) < MaxLoads /\ list' = FreshList /\ AskPage(FALSE, TRUE)
    BY <1>7 DEF SavePromptIsAnswered
  <2>2. IsList(list') /\ list'.loading /\ list'.saving = list.saving /\ list'.more = list.more
    BY <1>1, <2>1, FreshIsList
  <2>3. /\ ListInv' /\ DOMAIN pages' = DOMAIN pages \cup {Len(pages) + 1}
        /\ ~pages'[Len(pages) + 1].more /\ \A i \in DOMAIN pages : pages'[i] = pages[i]
        /\ ReadsOfSave' = ReadsOfSave \cup {Len(pages) + 1}
    <3> DEFINE more == FALSE
               save == TRUE
    <3>1. more \in BOOLEAN /\ save \in BOOLEAN /\ ~(more /\ save) /\ AskPage(more, save)
      BY <2>1
    <3> HIDE DEF more, save
    <3>2. /\ ListInv' /\ DOMAIN pages' = DOMAIN pages \cup {Len(pages) + 1}
          /\ pages'[Len(pages) + 1].more = more /\ \A i \in DOMAIN pages : pages'[i] = pages[i]
          /\ ReadsOfSave' = IF save THEN ReadsOfSave \cup {Len(pages) + 1} ELSE ReadsOfSave
      BY <1>1, <2>1, <2>2, <3>1, ReadAdded DEF PromptsInv
    <3> QED BY <3>2 DEF more, save
  <2>4. Held(list'.saving, ~Idle("save")', ReadsOfSave')
    BY <1>3, <1>4, <2>2, <2>3 DEF Held
  <2>5. \E j \in DOMAIN pages' : ~pages'[j].more
    BY <2>3
  <2>6. list'.more => \E j \in DOMAIN pages' : pages'[j].more
    BY <1>4, <2>2, <2>3
  <2>7. LockInv'
    BY <1>1, <1>3, <1>4, <2>4, <2>5, <2>6, ListLocks DEF PromptsInv
  <2> QED BY <1>2, <1>5, <1>6, <2>3, <2>7 DEF Keeps, PromptsInv
<1>8. CASE ops["save"].step # "done"
  <2>1. list' = [list EXCEPT !.saving = FALSE] /\ pages' = pages
    BY <1>8 DEF SavePromptIsAnswered
  <2>2. IsList(list') /\ ~list'.saving /\ list'.loading = list.loading /\ list'.more = list.more
    BY <1>1, <2>1 DEF IsList
  <2>3. ListInv'
    <3>1. IsList(list)'
      BY <2>2 DEF IsList
    <3> QED BY <2>1, <3>1 DEF PromptsInv, ListInv, IsRead
  <2>4. ReadsOfSave' = {}
    BY <1>4, <2>1 DEF ReadsOfSave
  <2>5. Held(list'.saving, ~Idle("save")', ReadsOfSave')
    BY <1>3, <2>2, <2>4 DEF Held
  <2>6. LockInv'
    BY <1>1, <1>3, <1>4, <2>1, <2>2, <2>5, ListLocks DEF PromptsInv
  <2> QED BY <1>2, <1>5, <1>6, <2>3, <2>6 DEF Keeps, PromptsInv
<1> QED BY <1>7, <1>8

-----------------------------------------------------------------------------
(* Prompts: the theorems *)

\* The invariant holds when a page opens.
LEMMA PromptsInitInv ==
    ASSUME PromptsAssumption, PromptsInit
    PROVE  PromptsInv
<1>1. Opened \in Prompt /\ MaxLoads \in Nat \ {0} /\ MaxAttempts \in Nat \ {0}
  BY DEF PromptsAssumption, Prompt
<1>2. StoreInv
  <2> DEFINE version == [archived |-> FALSE, by |-> "other"]
             versions == <<version>>
  <2>1. version \in Version
    BY DEF Version, Caller
  <2> HIDE DEF version
  <2>2. versions \in Seq(Version) /\ Len(versions) = 1
    BY <2>1
  <2>3. catalog = [p \in Prompt |-> versions]
    BY DEF PromptsInit, version
  <2> HIDE DEF versions
  <2>4. catalog \in [Prompt -> Seq(Version)] /\ \A p \in Prompt : Len(catalog[p]) = 1
    BY <2>2, <2>3
  <2>5. NoOp \in Op /\ NoOp.kind = "none" /\ NoOp.step = "none"
    BY <1>1 DEF NoOp, Op
  <2>6. ops \in [Caller -> Op] /\ \A c \in Caller : ops[c] = NoOp
    BY <2>5 DEF PromptsInit
  <2>7. \A c \in Caller : OpIsTrue(ops[c], c, catalog)
    BY <2>5, <2>6 DEF OpIsTrue
  <2>8. /\ label \in [Prompt -> [version: Nat, id: Nat]]
        /\ \A p \in Prompt : label[p].version = 0
    BY DEF PromptsInit
  <2>9. \A p \in Prompt : label[p].version <= Len(catalog[p])
    BY <2>4, <2>8
  <2> QED BY <2>4, <2>6, <2>7, <2>8, <2>9 DEF StoreInv
<1>3. /\ page \in Page /\ page.rows = <<>> /\ page.confirm = 0 /\ ~page.busy /\ ~page.saving
  BY DEF PromptsInit, Page
<1>4. Len(catalog[Opened]) \in Nat
  BY <1>1, <1>2 DEF StoreInv
<1>5. Idle("change") /\ Idle("save")
  BY DEF PromptsInit, Idle, NoOp, Caller
<1>6. IsList(list) /\ ~list.saving /\ ~list.more
  BY DEF PromptsInit, IsList
<1>7. CASE view = "prompt"
  <2> DEFINE load == [owner |-> "none", step |-> "asked", rows |-> <<>>, live |-> 0]
  <2>1. load \in PageLoad /\ load.owner = "none" /\ load.rows = <<>>
    BY DEF PageLoad
  <2>2. loads = <<load>> /\ pages = <<>>
    BY <1>7 DEF PromptsInit, OnPrompt, OnList
  <2> HIDE DEF load
  <2>3. /\ loads \in Seq(PageLoad) /\ Len(loads) = 1 /\ DOMAIN loads = {1} /\ loads[1] = load
        /\ loads # <<>>
    BY <2>1, <2>2
  <2>4. PageInv
    <3>1. Len(page.rows) = 0 /\ Len(load.rows) = 0
      BY <1>3, <2>1
    <3> QED BY <1>1, <1>3, <1>4, <2>3, <3>1 DEF PageInv
  <2>5. ListInv
    <3>1. pages \in Seq({}) /\ Len(pages) = 0 /\ DOMAIN pages = {}
      BY <2>2
    <3> QED BY <1>1, <1>6, <3>1 DEF ListInv
  <2>6. LoadsOf("change") = {} /\ LoadsOf("save") = {}
    BY <2>1, <2>3 DEF LoadsOf
  <2>7. LockInv
    BY <1>3, <1>5, <1>6, <1>7, <2>2, <2>3, <2>6 DEF LockInv, Held
  <2> QED BY <1>2, <2>4, <2>5, <2>7 DEF PromptsInv
<1>8. CASE view = "list"
  <2> DEFINE read == [more |-> FALSE, save |-> FALSE, generation |-> 1, early |-> FALSE,
                      answered |-> FALSE, offset |-> 0, ids |-> <<>>]
  <2>1. IsRead(read) /\ ~read.more /\ ~read.save
    BY DEF IsRead
  <2>2. pages = <<read>> /\ loads = <<>>
    BY <1>8 DEF PromptsInit, OnPrompt, OnList
  <2> HIDE DEF read
  <2>3. pages \in Seq({read}) /\ Len(pages) = 1 /\ DOMAIN pages = {1} /\ pages[1] = read
    BY <2>2
  <2>4. ListInv
    BY <1>1, <1>6, <2>1, <2>3 DEF ListInv
  <2>5. PageInv
    <3>1. loads \in Seq(PageLoad) /\ Len(loads) = 0 /\ DOMAIN loads = {} /\ Len(page.rows) = 0
      BY <1>3, <2>2
    <3> QED BY <1>1, <1>3, <1>4, <3>1 DEF PageInv
  <2>6. ReadsOfSave = {}
    BY <2>1, <2>3 DEF ReadsOfSave
  <2>7. LockInv
    BY <1>3, <1>5, <1>6, <1>8, <2>1, <2>2, <2>3, <2>6 DEF LockInv, Held
  <2> QED BY <1>2, <2>4, <2>5, <2>7 DEF PromptsInv
<1> QED BY <1>7, <1>8 DEF PromptsInit

\* Every step keeps it, and replaces no write that is under way.
LEMMA PromptsStepInv ==
    ASSUME PromptsAssumption, PromptsInv, [PromptsNext]_promptVars
    PROVE  PromptsInv' /\ [OneChangeAtATime]_promptVars
<1>1. CASE UNCHANGED promptVars
  <2>1. UNCHANGED <<catalog, label, ops, view, page, loads, list, pages>>
    BY <1>1 DEF promptVars
  <2>2. StoreInv' /\ ListInv'
    BY <2>1, StoreKept, ListStays DEF PromptsInv
  <2>3. PageInv'
    BY <2>1 DEF PromptsInv, PageInv
  <2>4. LockInv'
    <3>1. /\ LoadsOf("change")' = LoadsOf("change") /\ LoadsOf("save")' = LoadsOf("save")
          /\ ReadsOfSave' = ReadsOfSave
          /\ Idle("change")' = Idle("change") /\ Idle("save")' = Idle("save")
      BY <2>1 DEF LoadsOf, ReadsOfSave, Idle
    <3> QED BY <2>1, <3>1 DEF PromptsInv, LockInv
  <2> QED BY <1>1, <2>2, <2>3, <2>4 DEF PromptsInv
<1>2. CASE PromptsNext
  <2>1. CASE \E c \in Caller : \/ ReadHighest(c) \/ InsertVersion(c)
                               \/ ReadTarget(c) \/ ReadLabel(c) \/ PointLabel(c)
                               \/ ArchiveVersion(c)
    BY <2>1, StoreGoesOn DEF Keeps
  <2>2. CASE OtherAsks \/ OtherIsAnswered
    BY <2>2, OthersStep DEF Keeps
  <2>3. CASE \E i \in DOMAIN loads :
                ReadRows(i) \/ ReadLabels(i) \/ LoadReturns(i) \/ LoadFails(i)
    BY <2>3, LoadReadsStep, LoadEndsStep DEF Keeps
  <2>4. CASE \/ Refresh \/ Promote \/ AskToArchive \/ ConfirmArchive \/ CancelArchive
             \/ ChangeIsAnswered \/ OpenForm \/ CloseForm \/ SaveVersion \/ SaveIsAnswered
             \/ \E v \in DOMAIN Rows : OpenVersion(v)
    BY <2>4, RefreshStep, ChangeBeginsStep, ReadingStep, ChangeIsAnsweredStep, SaveBeginsStep,
       SaveIsAnsweredStep DEF Keeps
  <2>5. CASE RefreshList \/ LoadMore \/ SavePromptIsAnswered
    BY <2>5, ListAsksStep, ListSaveIsAnsweredStep DEF Keeps
  <2>6. CASE \E i \in DOMAIN pages : PageIsRead(i) \/ PageReturns(i) \/ PageFails(i)
    BY <2>6, ListReadsStep, ListIsAnsweredStep DEF Keeps
  <2>7. CASE \E p \in Prompt : SavePrompt(p)
    BY <2>7, ListSavesStep DEF Keeps
  <2> QED BY <1>2, <2>1, <2>2, <2>3, <2>4, <2>5, <2>6, <2>7 DEF PromptsNext
<1> QED BY <1>1, <1>2

\* The invariant holds throughout.
LEMMA PromptsInvHolds ==
    ASSUME PromptsAssumption
    PROVE  PromptsSpec => [](PromptsInv) /\ [][OneChangeAtATime]_promptVars
<1>1. PromptsInit => PromptsInv
  BY PromptsInitInv
<1>2. PromptsInv /\ [PromptsNext]_promptVars => PromptsInv' /\ [OneChangeAtATime]_promptVars
  BY PromptsStepInv
<1> QED BY <1>1, <1>2, PTL DEF PromptsSpec

\* The state of the prompts, of their pages and of the requests stays in its types, and
\* the page always shows a version there is.
THEOREM PromptTypesCorrect ==
    ASSUME PromptsAssumption
    PROVE  PromptsSpec => []PromptsTypeOK
<1>1. PromptsInv => PromptsTypeOK
  <2> SUFFICES ASSUME PromptsInv PROVE PromptsTypeOK
    OBVIOUS
  <2>1. \A p \in Prompt : /\ DOMAIN catalog[p] = 1 .. Len(catalog[p])
                          /\ ToSet(catalog[p]) \subseteq [archived: BOOLEAN, by: Caller]
                          /\ label[p].version \in 0 .. Len(catalog[p])
    <3> SUFFICES ASSUME NEW p \in Prompt
                 PROVE  /\ DOMAIN catalog[p] = 1 .. Len(catalog[p])
                        /\ ToSet(catalog[p]) \subseteq [archived: BOOLEAN, by: Caller]
                        /\ label[p].version \in 0 .. Len(catalog[p])
      OBVIOUS
    <3>1. /\ catalog[p] \in Seq(Version) /\ Len(catalog[p]) \in Nat /\ label[p].version \in Nat
          /\ label[p].version <= Len(catalog[p])
      BY DEF PromptsInv, StoreInv
    <3>2. \A v \in DOMAIN catalog[p] : catalog[p][v] \in Version
      BY <3>1
    <3> QED BY <3>1, <3>2 DEF ToSet, Version
  <2>2. Shown \in {0} \cup DOMAIN catalog[Opened]
    <3>1. Shown \in 0 .. Len(catalog[Opened]) /\ Len(catalog[Opened]) \in Nat
      BY ShownIsThere, Opening DEF PromptsInv
    <3>2. DOMAIN catalog[Opened] = 1 .. Len(catalog[Opened])
      BY <2>1, Opening DEF PromptsInv
    <3> QED BY <3>1, <3>2
  <2>3. /\ \A c \in Caller : ops[c] \in Op
        /\ view \in {"prompt", "list"} /\ Len(loads) <= MaxLoads /\ Len(pages) <= MaxLoads
    BY DEF PromptsInv, StoreInv, PageInv, ListInv, LockInv
  <2> QED BY <2>1, <2>2, <2>3 DEF PromptsTypeOK
<1> QED BY <1>1, PromptsInvHolds, PTL

\* However many users save one prompt at a time, a save that is answered as saved has a
\* version of its own (save_prompt_version).
THEOREM SavesHaveTheirVersion ==
    ASSUME PromptsAssumption
    PROVE  PromptsSpec => []SavesKeepTheirNumber
<1>1. PromptsInv => SavesKeepTheirNumber
  BY DEF PromptsInv, StoreInv, OpIsTrue, SavesKeepTheirNumber, At
<1> QED BY <1>1, PromptsInvHolds, PTL

\* A button that is blocked waits for a write, or for the load after it, in every order in which
\* loads end (promote, archiveVersion, saveVersion, savePrompt).
THEOREM LocksAreLetGo ==
    ASSUME PromptsAssumption
    PROVE  PromptsSpec => []LocksHaveAReason
<1>1. PromptsInv => LocksHaveAReason
  <2> SUFFICES ASSUME PromptsInv PROVE LocksHaveAReason
    OBVIOUS
  <2>1. CASE view = "prompt"
    <3>1. page.busy => ~Idle("change") \/ \E i \in DOMAIN loads : loads[i].owner = "change"
      BY <2>1 DEF PromptsInv, LockInv, Held, LoadsOf
    <3>2. page.saving => ~Idle("save") \/ \E i \in DOMAIN loads : loads[i].owner = "save"
      BY <2>1 DEF PromptsInv, LockInv, Held, LoadsOf
    <3>3. ~list.saving /\ ~list.more /\ (page.loading => loads # <<>>)
      BY <2>1 DEF PromptsInv, LockInv
    <3> QED BY <2>1, <3>1, <3>2, <3>3 DEF LocksHaveAReason, OnPrompt, OnList
  <2>2. CASE view = "list"
    <3>1. list.saving => ~Idle("save") \/ \E i \in DOMAIN pages : pages[i].save
      BY <2>2 DEF PromptsInv, LockInv, Held, ReadsOfSave
    <3>2. /\ ~page.busy /\ ~page.saving
          /\ list.loading => \E i \in DOMAIN pages : ~pages[i].more
          /\ list.more => \E i \in DOMAIN pages : pages[i].more
      BY <2>2 DEF PromptsInv, LockInv
    <3> QED BY <2>2, <3>1, <3>2 DEF LocksHaveAReason, OnPrompt, OnList
  <2> QED BY <2>1, <2>2 DEF PromptsInv, LockInv
<1> QED BY <1>1, PromptsInvHolds, PTL

\* The page never sends a change while one of the same kind is under way (its locks).
THEOREM WritesAreNotReplaced ==
    ASSUME PromptsAssumption
    PROVE  PromptsSpec => [][OneChangeAtATime]_promptVars
BY PromptsInvHolds, PTL

-----------------------------------------------------------------------------
(* The assignment wizard: the inductive invariant *)

ServerState ==
    [projects: SUBSET Project, targets: SUBSET Target, approved: SUBSET (Profile \cup Policy)]
TargetsState == [shown: SUBSET Target, state: {"loading", "ready", "error"}, gen: Nat]
CatalogueRead == [n: Nat, for: Project \cup {Unset}, seen: ServerState]
TargetRead == [gen: Nat, project: Project \cup {Unset}, for: Target \cup {Unset}]
Waiting == {Unset} \cup SetupRequest
Save == [binding: Choice, pass: Nat, lost: BOOLEAN]

SetupShape ==
    /\ server \in ServerState
    /\ saves \in Seq(Save) /\ Len(saves) <= MaxSaves
    /\ lists.projects \subseteq Project /\ lists.profiles \subseteq Profile
    /\ lists.policies \subseteq Policy
    /\ failed \subseteq Catalogue /\ reads \subseteq CatalogueRead /\ busy \in BOOLEAN
    /\ chosen \in Choice /\ targets \in TargetsState /\ targetReads \subseteq TargetRead
    /\ section \in 1..4 /\ pending \in Waiting
    /\ saved \in [assignment: 0..MaxSaves, details: BOOLEAN, pass: Nat]

\* A binding that the server may accept as it was chosen.
IsSound(b) ==
    /\ Home[b.target] = b.project /\ ProfileScope[b.profile] \in {Unset, b.project}
    /\ b.policy \in Gates[b.profile] \cup {Unset}
    /\ (b.policy # Unset) <=> (b.mode = "configured")

\* A policy is chosen only with release governance.
PolicyHasMode == chosen.mode = "none" => chosen.policy = Unset
\* A save under way was ready, there is room for what it creates, and it has
\* created something only if the page knew of nothing.
SaveIsDue ==
    /\ pending # Unset /\ pending.kind = "save" => IsSound(pending.item)
    /\ Waits({"save"}, "asked") /\ saved.assignment = 0 => Len(saves) < MaxSaves
    /\ Waits({"save"}, "written") => saved.assignment = 0 /\ Len(saves) > 0
\* An assignment of this pass is known to the page, unless its answer was lost or
\* is still under way.
CreatedIsKnown ==
    \A i \in DOMAIN saves :
        /\ saves[i].pass <= saved.pass
        /\ saves[i].pass = saved.pass /\ ~saves[i].lost /\ saved.assignment = 0
             => Waits({"save"}, "written") /\ i = Len(saves)
\* What is done is not asked for again.
AskedUntilDone == pending # Unset \/ saved.assignment = 0 => ~saved.details
\* Who starts a load has seen that there is none.
LoadsTakeTurns ==
    /\ reads = {} \/ \E r : reads = {r}
    /\ reads # {} => busy
    /\ Waits({"project"}, "asked") \/ Waits({"project"}, "written") => reads = {}
\* A load that selects what it brings is the one its request waits for.
LoadIsAwaited ==
    /\ \A r \in reads : r.for # Unset => Waits({"project"}, "loading")
    /\ \A t \in targetReads : t.for # Unset => Waits({"target"}, "loading")
    /\ \A t, u \in targetReads : t.for # Unset /\ u.for # Unset => t = u

SetupInv ==
    /\ SetupShape /\ PolicyHasMode /\ BindingsAreSound /\ SaveIsDue /\ AskedUntilDone
    /\ LoadsTakeTurns /\ CreatedIsKnown /\ LoadIsAwaited

-----------------------------------------------------------------------------
(* Its steps *)

\* At first nothing is chosen.
LEMMA SetupInitInv ==
    ASSUME SetupAssumption, SetupInit
    PROVE  SetupInv
<1>1. SetupShape
  <2>1. server \in ServerState
    BY DEF SetupInit, SetupAssumption, ServerState
  <2>2. reads \subseteq CatalogueRead
    BY <2>1 DEF SetupInit, CatalogueRead
  <2>3. chosen \in Choice /\ targets \in TargetsState /\ targetReads \subseteq TargetRead
    BY DEF SetupInit, EmptyForm, Choice, TargetsState
  <2>4. pending \in Waiting
    BY DEF SetupInit, Waiting
  <2>5. saved \in [assignment: 0..MaxSaves, details: BOOLEAN, pass: Nat]
    BY DEF SetupInit, NotSaved, SetupAssumption
  <2>6. saves \in Seq(Save) /\ Len(saves) <= MaxSaves
    BY DEF SetupInit, SetupAssumption
  <2> QED BY <2>1, <2>2, <2>3, <2>4, <2>5, <2>6 DEF SetupInit, SetupShape
<1>2. PolicyHasMode
  BY DEF SetupInit, EmptyForm, PolicyHasMode
<1>3. BindingsAreSound
  BY DEF SetupInit, BindingsAreSound
<1>4. SaveIsDue /\ AskedUntilDone /\ LoadsTakeTurns /\ CreatedIsKnown /\ LoadIsAwaited
  <2>1. /\ pending = Unset /\ reads = {[n |-> 1, for |-> Unset, seen |-> server]} /\ busy = TRUE
        /\ saves = <<>> /\ targetReads = {} /\ ~saved.details
    BY DEF SetupInit, NotSaved
  <2>2. SaveIsDue /\ AskedUntilDone
    BY <2>1 DEF SaveIsDue, AskedUntilDone, Waits
  <2>3. LoadsTakeTurns
    BY <2>1 DEF LoadsTakeTurns, Waits
  <2>4. CreatedIsKnown
    BY <2>1 DEF CreatedIsKnown
  <2>5. LoadIsAwaited
    <3>1. \A r \in reads : r.for = Unset
      BY <2>1
    <3> QED BY <2>1, <3>1 DEF LoadIsAwaited
  <2> QED BY <2>2, <2>3, <2>4, <2>5
<1> QED BY <1>1, <1>2, <1>3, <1>4 DEF SetupInv

\* Nothing changes.
LEMMA SetupStutters ==
    ASSUME SetupInv, UNCHANGED setupVars
    PROVE  SetupInv'
<1>1. SetupShape'
  BY DEF setupVars, SetupInv, SetupShape
<1>2. PolicyHasMode' /\ BindingsAreSound' /\ AskedUntilDone'
  BY DEF setupVars, SetupInv, PolicyHasMode, BindingsAreSound, AskedUntilDone
<1>3. SaveIsDue' /\ CreatedIsKnown'
  BY DEF setupVars, SetupInv, SaveIsDue, CreatedIsKnown, Waits, IsSound
<1>4. LoadsTakeTurns' /\ LoadIsAwaited'
  BY DEF setupVars, SetupInv, LoadsTakeTurns, LoadIsAwaited, Waits
<1> QED BY <1>1, <1>2, <1>3, <1>4 DEF SetupInv

\* A choice alone: what keeps it a choice keeps the invariant.
LEMMA ChoiceKeeps ==
    ASSUME SetupInv, chosen' \in Choice, PolicyHasMode',
           UNCHANGED <<server, saves, lists, failed, reads, busy, pending, saved, section>>,
           targets' \in TargetsState, targetReads' \subseteq TargetRead,
           \A t \in targetReads' : t \in targetReads \/ t.for = Unset
    PROVE  SetupInv'
BY DEF SetupInv, SetupShape, BindingsAreSound, SaveIsDue, AskedUntilDone, LoadsTakeTurns,
       CreatedIsKnown, LoadIsAwaited, Waits

\* The choices that follow a profile stay choices.
LEMMA FollowProfileKeeps ==
    ASSUME NEW f \in Choice, f.mode = "none" => f.policy = Unset
    PROVE  /\ FollowProfile(f) \in Choice
           /\ FollowProfile(f).mode = "none" => FollowProfile(f).policy = Unset
BY DEF FollowProfile, Choice

\* So do choices that are cleared.
LEMMA ClearedIsClear ==
    ASSUME NEW f \in Choice
    PROVE  Cleared(f) \in Choice /\ Cleared(f).policy = Unset
BY DEF Cleared, Choice

\* A load of the targets is one of its kind.
LEMMA LoadTargetsKeeps ==
    ASSUME SetupShape, NEW p \in Project \cup {Unset}, NEW t \in Target \cup {Unset},
           LoadTargets(p, t)
    PROVE  /\ targets' \in TargetsState /\ targetReads' \subseteq TargetRead
           /\ \E load : load.for = t /\ targetReads' = targetReads \cup {load}
<1>1. targets.gen \in Nat /\ targets.gen + 1 \in Nat
  BY DEF SetupShape, TargetsState
<1>2. targets' \in TargetsState
  BY <1>1 DEF SetupShape, TargetsState, LoadTargets
<1>3. [gen |-> targets.gen + 1, project |-> p, for |-> t] \in TargetRead
  BY <1>1 DEF TargetRead
<1>4. targetReads' = targetReads \cup {[gen |-> targets.gen + 1, project |-> p, for |-> t]}
  BY DEF LoadTargets
<1>5. [gen |-> targets.gen + 1, project |-> p, for |-> t].for = t
  OBVIOUS
<1> QED BY <1>2, <1>3, <1>4, <1>5 DEF SetupShape

\* Choosing in the panels.
LEMMA SelectProjectStep ==
    ASSUME SetupAssumption, SetupInv, NEW p \in Project, SelectProject(p)
    PROVE  SetupInv'
<1> DEFINE f == [chosen EXCEPT !.project = p, !.target = Unset]
<1>1. f \in Choice /\ (f.mode = "none" => f.policy = Unset)
  BY DEF SetupInv, SetupShape, PolicyHasMode, Choice
<1>2. chosen' = IF chosen.profile \in CompatibleProfiles(p) THEN FollowProfile(f) ELSE Cleared(f)
  BY DEF SelectProject
<1> HIDE DEF f
<1>3. chosen' \in Choice /\ (chosen'.mode = "none" => chosen'.policy = Unset)
  <2>1. CASE chosen.profile \in CompatibleProfiles(p)
    BY <2>1, <1>1, <1>2, FollowProfileKeeps
  <2>2. CASE chosen.profile \notin CompatibleProfiles(p)
    BY <2>2, <1>1, <1>2, ClearedIsClear
  <2> QED BY <2>1, <2>2
<1>4. /\ targets' \in TargetsState /\ targetReads' \subseteq TargetRead
      /\ \A t \in targetReads' : t \in targetReads \/ t.for = Unset
  <2>1. CASE p = chosen.project
    BY <2>1 DEF SelectProject, SetupInv, SetupShape
  <2>2. CASE p # chosen.project
    BY <2>2, LoadTargetsKeeps DEF SelectProject, SetupInv
  <2> QED BY <2>1, <2>2
<1>5. PolicyHasMode'
  BY <1>3 DEF PolicyHasMode
<1> QED BY <1>3, <1>4, <1>5, ChoiceKeeps DEF SelectProject

\* A target, a profile, a policy or a mode is chosen.
LEMMA SelectStep ==
    ASSUME SetupAssumption, SetupInv,
           \/ \E t \in Target : SelectTarget(t)
           \/ \E f \in Profile : SelectProfile(f)
           \/ \E g \in Policy : SelectPolicy(g)
           \/ \E mode \in {"none", "configured"} : ModeChange(mode)
    PROVE  SetupInv'
<1>1. /\ chosen \in Choice /\ (chosen.mode = "none" => chosen.policy = Unset)
      /\ targets \in TargetsState /\ targetReads \subseteq TargetRead
  BY DEF SetupInv, SetupShape, PolicyHasMode
<1> DEFINE Goal ==
        FormOnly /\ chosen' \in Choice /\ (chosen'.mode = "none" => chosen'.policy = Unset)
<1>2. Goal
  <2>1. ASSUME NEW t \in Target, SelectTarget(t) PROVE Goal
    BY <2>1, <1>1 DEF SelectTarget, Choice
  <2>2. ASSUME NEW f \in Profile, SelectProfile(f) PROVE Goal
    <3>1. /\ [chosen EXCEPT !.profile = f] \in Choice
          /\ [chosen EXCEPT !.profile = f].mode = chosen.mode
          /\ [chosen EXCEPT !.profile = f].policy = chosen.policy
      BY <1>1 DEF Choice
    <3> QED BY <2>2, <3>1, <1>1, FollowProfileKeeps DEF SelectProfile
  <2>3. ASSUME NEW g \in Policy, SelectPolicy(g) PROVE Goal
    BY <2>3, <1>1 DEF SelectPolicy, Choice
  <2>4. ASSUME NEW mode \in {"none", "configured"}, ModeChange(mode) PROVE Goal
    BY <2>4, <1>1 DEF ModeChange, Choice
  <2> QED BY <2>1, <2>2, <2>3, <2>4
<1>3. PolicyHasMode'
  BY <1>2 DEF PolicyHasMode
<1> QED BY <1>1, <1>2, <1>3, ChoiceKeeps DEF FormOnly

\* Going from step to step.
LEMMA GoStep ==
    ASSUME SetupAssumption, SetupInv,
           (\E step \in 1..4 : Go(step)) \/ CreateRevision
    PROVE  SetupInv'
<1>1. SetupInv /\ section' \in 1..4 /\ (saved' = saved \/ (saved.details /\ saved' = NotSaved(saved.pass + 1)))
      /\ UNCHANGED <<server, saves, lists, failed, reads, busy, chosen, targets, targetReads,
                     pending>>
  BY DEF Go, CreateRevision
<1>2. pending # Unset => saved' = saved
  BY <1>1 DEF SetupInv, AskedUntilDone
<1>3. saved' \in [assignment: 0..MaxSaves, details: BOOLEAN, pass: Nat]
  <2>1. 0 \in 0..MaxSaves /\ saved.pass + 1 \in Nat
    BY DEF SetupAssumption, SetupInv, SetupShape
  <2>2. NotSaved(saved.pass + 1) \in [assignment: 0..MaxSaves, details: BOOLEAN, pass: Nat]
    BY <2>1 DEF NotSaved
  <2> QED BY <1>1, <2>2 DEF SetupInv, SetupShape
<1>4. SaveIsDue'
  BY <1>1, <1>2 DEF SetupInv, SaveIsDue, Waits, IsSound
<1>5. CreatedIsKnown'
  <2>1. CASE saved' = saved
    BY <1>1, <2>1 DEF SetupInv, CreatedIsKnown, Waits
  <2>2. CASE saved' = NotSaved(saved.pass + 1)
    <3>1. saved'.pass = saved.pass + 1 /\ saved.pass \in Nat
      BY <2>2 DEF NotSaved, SetupInv, SetupShape
    <3>2. \A i \in DOMAIN saves : saves[i].pass \in Nat /\ saves[i].pass <= saved.pass
      <4>1. saves \in Seq(Save)
        BY DEF SetupInv, SetupShape
      <4>2. \A i \in DOMAIN saves : saves[i] \in Save
        BY <4>1
      <4>3. \A i \in DOMAIN saves : saves[i].pass <= saved.pass
        BY DEF SetupInv, CreatedIsKnown
      <4> QED BY <4>2, <4>3 DEF Save
    <3>3. \A i \in DOMAIN saves : saves[i].pass <= saved'.pass /\ saves[i].pass # saved'.pass
      BY <3>1, <3>2
    <3> QED BY <1>1, <3>3 DEF CreatedIsKnown
  <2> QED BY <1>1, <2>1, <2>2
<1>6. AskedUntilDone'
  BY <1>1, <1>2 DEF SetupInv, AskedUntilDone, NotSaved
<1> QED BY <1>1, <1>2, <1>3, <1>4, <1>5, <1>6 DEF SetupInv, SetupShape, PolicyHasMode,
           BindingsAreSound, LoadsTakeTurns, LoadIsAwaited, Waits

\* Others retire a profile or a policy.
LEMMA RetireStep ==
    ASSUME SetupInv, NEW v \in Profile \cup Policy, OthersRetire(v)
    PROVE  SetupInv'
<1>1. server' \in ServerState
  BY DEF OthersRetire, SetupInv, SetupShape, ServerState
<1> QED BY <1>1 DEF OthersRetire, SetupInv, SetupShape, PolicyHasMode, BindingsAreSound, SaveIsDue,
           AskedUntilDone, LoadsTakeTurns, CreatedIsKnown, LoadIsAwaited, Waits

\* The catalogues.
LEMMA LoadCataloguesKeeps ==
    ASSUME SetupShape, reads = {}, NEW p \in Project \cup {Unset}, LoadCatalogues(p)
    PROVE  /\ reads' \subseteq CatalogueRead /\ \E r : reads' = {r} /\ r.for = p
           /\ busy' = TRUE /\ failed' = {}
<1>1. PICK n \in 1..MaxCatalogueLoads :
          reads' = reads \cup {[n |-> n, for |-> p, seen |-> server]}
  BY DEF LoadCatalogues
<1>2. [n |-> n, for |-> p, seen |-> server] \in CatalogueRead
  BY DEF CatalogueRead, SetupShape
<1>3. reads' = {[n |-> n, for |-> p, seen |-> server]}
  BY <1>1
<1>4. [n |-> n, for |-> p, seen |-> server].for = p
  OBVIOUS
<1> QED BY <1>2, <1>3, <1>4 DEF LoadCatalogues

\* Refreshing by hand waits for the load before it.
LEMMA RefreshCataloguesStep ==
    ASSUME SetupInv, RefreshCatalogues
    PROVE  SetupInv'
<1>1. reads = {} /\ pending = Unset /\ Unset \in Project \cup {Unset}
  BY DEF RefreshCatalogues, SetupInv, LoadsTakeTurns
<1>2. /\ reads' \subseteq CatalogueRead /\ \E r : reads' = {r} /\ r.for = Unset
      /\ busy' = TRUE /\ failed' = {}
  BY <1>1, LoadCataloguesKeeps DEF RefreshCatalogues, SetupInv
<1> QED BY <1>1, <1>2 DEF RefreshCatalogues, SetupInv, SetupShape, PolicyHasMode,
           BindingsAreSound, SaveIsDue, AskedUntilDone, LoadsTakeTurns, CreatedIsKnown,
           LoadIsAwaited, Waits

\* Catalogues that arrive: their load was the only one.
LEMMA CataloguesArriveStep ==
    ASSUME SetupAssumption, SetupInv, NEW r \in reads, NEW answer \in {r.seen, server},
           NEW lost \in SUBSET Catalogue, CataloguesArrive(r, answer, lost)
    PROVE  SetupInv'
<1>1. r \in CatalogueRead /\ answer \in ServerState
  BY DEF SetupInv, SetupShape, CatalogueRead
<1>2. reads' = {} /\ busy' = FALSE /\ failed' = lost
  BY DEF CataloguesArrive, SetupInv, LoadsTakeTurns
<1>3. /\ lists'.projects = IF "projects" \in lost THEN lists.projects ELSE answer.projects
      /\ lists'.profiles = IF "profiles" \in lost THEN lists.profiles
                           ELSE Profile \cap answer.approved
      /\ lists'.policies = IF "policies" \in lost THEN lists.policies
                           ELSE Policy \cap answer.approved
  BY DEF CataloguesArrive, Catalogue
<1>4. /\ lists'.projects \subseteq Project /\ lists'.profiles \subseteq Profile
      /\ lists'.policies \subseteq Policy
  BY <1>1, <1>3 DEF SetupInv, SetupShape, ServerState
<1>5. UNCHANGED <<server, saves, section, saved>>
  BY DEF CataloguesArrive
<1>6. /\ chosen' \in Choice /\ (chosen'.mode = "none" => chosen'.policy = Unset)
      /\ pending' = pending \/ (pending' = Unset /\ Waits({"project"}, "loading"))
      /\ targets' \in TargetsState /\ targetReads' \subseteq TargetRead
      /\ \A t \in targetReads' : t \in targetReads \/ t.for = Unset
  <2>1. CASE r.for = Unset
    BY <2>1 DEF CataloguesArrive, SetupInv, SetupShape, PolicyHasMode
  <2>2. CASE r.for # Unset
    <3>1. /\ chosen' = [Cleared(chosen) EXCEPT !.project = r.for, !.target = Unset]
          /\ pending' = Unset /\ LoadTargets(r.for, Unset)
      BY <2>2 DEF CataloguesArrive
    <3>2. Cleared(chosen) \in Choice /\ Cleared(chosen).policy = Unset
      BY ClearedIsClear DEF SetupInv, SetupShape
    <3>3. chosen' \in Choice /\ chosen'.policy = Unset
      BY <1>1, <3>1, <3>2 DEF Choice, CatalogueRead
    <3>4. /\ targets' \in TargetsState /\ targetReads' \subseteq TargetRead
          /\ \E load : load.for = Unset /\ targetReads' = targetReads \cup {load}
      BY <1>1, <3>1, LoadTargetsKeeps DEF SetupInv, CatalogueRead
    <3>5. Waits({"project"}, "loading")
      BY <2>2 DEF SetupInv, LoadIsAwaited
    <3> QED BY <3>1, <3>3, <3>4, <3>5
  <2> QED BY <2>1, <2>2
<1>7. SetupShape'
  BY <1>2, <1>4, <1>5, <1>6 DEF SetupInv, SetupShape, Waiting
<1>8. SaveIsDue' /\ CreatedIsKnown' /\ LoadIsAwaited'
  BY <1>2, <1>5, <1>6 DEF SetupInv, SaveIsDue, CreatedIsKnown, LoadIsAwaited, Waits, IsSound
<1> QED BY <1>2, <1>5, <1>6, <1>7, <1>8 DEF SetupInv, PolicyHasMode, BindingsAreSound,
           AskedUntilDone, LoadsTakeTurns

\* Targets that arrive.
LEMMA TargetsArriveStep ==
    ASSUME SetupAssumption, SetupInv, NEW t \in targetReads, NEW ok \in BOOLEAN,
           TargetsArrive(t, ok)
    PROVE  SetupInv'
<1> DEFINE shown == IF ok THEN {u \in server.targets : Home[u] = t.project} ELSE {}
           key == IF Current(t) THEN KeptTarget(chosen.target, shown) ELSE chosen.target
<1>1. t \in TargetRead /\ shown \subseteq Target
  BY DEF SetupInv, SetupShape, ServerState
<1>2. key \in Target \cup {Unset}
  BY <1>1 DEF KeptTarget, SetupInv, SetupShape, Choice
<1>3. /\ targetReads' = targetReads \ {t}
      /\ targets' = IF ~Current(t) THEN targets
                    ELSE [targets EXCEPT !.shown = shown, !.state = IF ok THEN "ready" ELSE "error"]
      /\ chosen' = [chosen EXCEPT !.target = IF t.for = Unset THEN key ELSE t.for]
      /\ IF t.for = Unset THEN pending' = pending
         ELSE pending' = Unset /\ Waits({"target"}, "loading")
      /\ UNCHANGED <<server, saves, lists, failed, reads, busy, section, saved>>
  BY DEF TargetsArrive, SetupInv, LoadIsAwaited
<1> HIDE DEF shown, key
<1>4. targets' \in TargetsState /\ targetReads' \subseteq TargetRead
  BY <1>1, <1>3 DEF SetupInv, SetupShape, TargetsState
<1>5. chosen' \in Choice /\ chosen'.mode = chosen.mode /\ chosen'.policy = chosen.policy
  BY <1>1, <1>2, <1>3 DEF SetupInv, SetupShape, Choice, TargetRead
<1>6. SetupShape'
  BY <1>3, <1>4, <1>5 DEF SetupInv, SetupShape, Waiting
<1>7. SaveIsDue' /\ CreatedIsKnown'
  BY <1>3 DEF SetupInv, SaveIsDue, CreatedIsKnown, Waits, IsSound
<1>8. LoadIsAwaited'
  BY <1>3 DEF SetupInv, LoadIsAwaited, Waits
<1> QED BY <1>3, <1>5, <1>6, <1>7, <1>8 DEF SetupInv, PolicyHasMode, BindingsAreSound,
           AskedUntilDone, LoadsTakeTurns, Waits

\* Creating a project or registering a target.
LEMMA CreateStep ==
    ASSUME SetupInv, \/ \E p \in Project : CreateProject(p)
                     \/ \E t \in Target : RegisterTarget(t)
    PROVE  SetupInv'
<1>1. /\ pending = Unset /\ pending' \in Waiting /\ pending'.kind \in {"project", "target"}
      /\ pending'.kind = "project" => ~busy
      /\ Editing
      /\ UNCHANGED <<server, saves, lists, failed, reads, busy, chosen, targets, targetReads,
                     section, saved>>
  BY DEF CreateProject, RegisterTarget, Selecting, Waiting, SetupRequest, RequestStep, Listed
<1>2. ~saved.details
  BY <1>1 DEF Editing, SetupInv, AskedUntilDone
<1>3. pending'.kind = "project" => reads = {}
  BY <1>1 DEF SetupInv, LoadsTakeTurns
<1>4. SetupShape'
  BY <1>1 DEF SetupInv, SetupShape
<1>5. SaveIsDue' /\ CreatedIsKnown' /\ LoadIsAwaited'
  BY <1>1 DEF SetupInv, SaveIsDue, CreatedIsKnown, LoadIsAwaited, Waits
<1> QED BY <1>1, <1>2, <1>3, <1>4, <1>5 DEF SetupInv, PolicyHasMode, BindingsAreSound,
           AskedUntilDone, LoadsTakeTurns, Waits

\* What is pending is of its kind.
LEMMA WaitingIs ==
    ASSUME pending \in Waiting, pending # Unset
    PROVE  /\ pending.kind \in {"project", "target", "save"}
           /\ pending.kind = "project" => pending.item \in Project
           /\ pending.kind = "target" => pending.item \in Target
           /\ pending.kind = "save" => pending.item \in Choice
BY DEF Waiting, SetupRequest

\* A request that moves on to its next step.
LEMMA MovedOn ==
    ASSUME SetupAssumption, pending \in Waiting, pending # Unset, NEW step \in RequestStep,
           pending' = [pending EXCEPT !.step = step]
    PROVE  /\ pending' \in Waiting /\ pending' # Unset /\ pending'.step = step
           /\ pending'.kind = pending.kind /\ pending'.item = pending.item
<1>1. CASE pending \in [kind: {"project"}, item: Project, step: RequestStep]
  <2>1. pending' \in [kind: {"project"}, item: Project, step: RequestStep]
    BY <1>1
  <2> QED BY <1>1, <2>1 DEF Waiting, SetupRequest, SetupAssumption
<1>2. CASE pending \in [kind: {"target"}, item: Target, step: RequestStep]
  <2>1. pending' \in [kind: {"target"}, item: Target, step: RequestStep]
    BY <1>2
  <2> QED BY <1>2, <2>1 DEF Waiting, SetupRequest, SetupAssumption
<1>3. CASE pending \in [kind: {"save"}, item: Choice, step: RequestStep]
  <2>1. pending' \in [kind: {"save"}, item: Choice, step: RequestStep]
    BY <1>3
  <2> QED BY <1>3, <2>1 DEF Waiting, SetupRequest, SetupAssumption
<1> QED BY <1>1, <1>2, <1>3 DEF Waiting, SetupRequest

\* The server has created what was asked for.
LEMMA CreatesStep ==
    ASSUME SetupAssumption, SetupInv, Creates
    PROVE  SetupInv'
<1>1. /\ pending # Unset /\ pending \in Waiting /\ server \in ServerState
      /\ pending.kind \in {"project", "target"} /\ pending.step = "asked"
      /\ pending' = [pending EXCEPT !.step = "written"]
      /\ UNCHANGED <<saves, lists, failed, reads, busy, chosen, targets, targetReads, section,
                     saved>>
  BY DEF Creates, Waits, SetupInv, SetupShape
<1>2. "written" \in RequestStep
  BY DEF RequestStep
<1>3. /\ pending' \in Waiting /\ pending' # Unset /\ pending'.step = "written"
      /\ pending'.kind = pending.kind
  BY <1>1, <1>2, MovedOn
<1>4. server' \in ServerState
  <2>1. CASE pending.kind = "project"
    <3>1. server' = [server EXCEPT !.projects = @ \cup {pending.item}] /\ pending.item \in Project
      BY <1>1, <2>1, WaitingIs DEF Creates
    <3> QED BY <1>1, <3>1 DEF ServerState
  <2>2. CASE pending.kind = "target"
    <3>1. server' = [server EXCEPT !.targets = @ \cup {pending.item}] /\ pending.item \in Target
      BY <1>1, <2>2, WaitingIs DEF Creates
    <3> QED BY <1>1, <3>1 DEF ServerState
  <2> QED BY <1>1, <2>1, <2>2
<1>5. SetupShape'
  BY <1>1, <1>3, <1>4 DEF SetupInv, SetupShape
<1>6. SaveIsDue' /\ CreatedIsKnown' /\ LoadIsAwaited'
  BY <1>1, <1>3 DEF SetupInv, SaveIsDue, CreatedIsKnown, LoadIsAwaited, Waits
<1> QED BY <1>1, <1>3, <1>5, <1>6 DEF SetupInv, PolicyHasMode, BindingsAreSound, AskedUntilDone,
           LoadsTakeTurns, Waits

\* Its answer: what was created is loaded.
LEMMA CreateAnswersStep ==
    ASSUME SetupAssumption, SetupInv, CreateAnswers
    PROVE  SetupInv'
<1>1. /\ pending # Unset /\ pending \in Waiting
      /\ pending.kind \in {"project", "target"} /\ pending.step = "written"
      /\ pending' = [pending EXCEPT !.step = "loading"]
      /\ UNCHANGED <<server, saves, lists, chosen, section, saved>>
  BY DEF CreateAnswers, Waits, SetupInv, SetupShape
<1>2. "loading" \in RequestStep
  BY DEF RequestStep
<1>3. /\ pending' \in Waiting /\ pending' # Unset /\ pending'.step = "loading"
      /\ pending'.kind = pending.kind
  BY <1>1, <1>2, MovedOn
<1>4. (\A r \in reads : r.for = Unset) /\ (\A t \in targetReads : t.for = Unset)
  BY <1>1 DEF SetupInv, LoadIsAwaited, Waits
<1>5. SaveIsDue' /\ CreatedIsKnown' /\ AskedUntilDone'
  BY <1>1, <1>3 DEF SetupInv, SaveIsDue, CreatedIsKnown, AskedUntilDone, Waits
<1>6. CASE pending.kind = "project"
  <2>1. LoadCatalogues(pending.item) /\ UNCHANGED <<targets, targetReads>>
    BY <1>6 DEF CreateAnswers
  <2>2. reads = {} /\ pending.item \in Project
    BY <1>1, <1>6, WaitingIs DEF SetupInv, LoadsTakeTurns, Waits
  <2>3. /\ reads' \subseteq CatalogueRead /\ \E r : reads' = {r} /\ r.for = pending.item
        /\ busy' = TRUE /\ failed' = {}
    BY <2>1, <2>2, LoadCataloguesKeeps DEF SetupInv
  <2>4. SetupShape'
    BY <1>1, <1>3, <2>1, <2>3 DEF SetupInv, SetupShape
  <2>5. LoadIsAwaited'
    BY <1>3, <1>4, <1>6, <2>1, <2>3 DEF LoadIsAwaited, Waits
  <2> QED BY <1>1, <1>3, <1>5, <2>3, <2>4, <2>5 DEF SetupInv, PolicyHasMode, BindingsAreSound,
             LoadsTakeTurns, Waits
<1>7. CASE pending.kind = "target"
  <2>1. LoadTargets(chosen.project, pending.item) /\ UNCHANGED <<failed, reads, busy>>
    BY <1>7 DEF CreateAnswers
  <2>2. pending.item \in Target /\ chosen.project \in Project \cup {Unset}
    BY <1>1, <1>7, WaitingIs DEF SetupInv, SetupShape, Choice
  <2>3. /\ targets' \in TargetsState /\ targetReads' \subseteq TargetRead
        /\ \E load : load.for = pending.item /\ targetReads' = targetReads \cup {load}
    BY <2>1, <2>2, LoadTargetsKeeps DEF SetupInv
  <2>4. SetupShape'
    BY <1>1, <1>3, <2>1, <2>3 DEF SetupInv, SetupShape
  <2>5. LoadIsAwaited'
    BY <1>3, <1>4, <1>7, <2>1, <2>3 DEF LoadIsAwaited, Waits
  <2> QED BY <1>1, <1>3, <1>5, <1>7, <2>1, <2>4, <2>5 DEF SetupInv, PolicyHasMode,
             BindingsAreSound, LoadsTakeTurns, Waits
<1> QED BY <1>1, <1>6, <1>7

\* A request that fails, before or after the server's write.
LEMMA RequestFailsStep ==
    ASSUME SetupInv, RequestFails
    PROVE  SetupInv'
<1>1. /\ pending # Unset /\ pending.step # "loading" /\ pending' = Unset
      /\ UNCHANGED <<server, lists, failed, reads, busy, chosen, targets, targetReads,
                     section, saved>>
  BY DEF RequestFails
<1>2. saves \in Seq(Save) /\ Len(saves) \in Nat
  BY DEF SetupInv, SetupShape
<1>3. /\ saves' \in Seq(Save) /\ Len(saves') = Len(saves) /\ DOMAIN saves' = DOMAIN saves
      /\ \A i \in DOMAIN saves : /\ saves'[i].binding = saves[i].binding
                                 /\ saves'[i].pass = saves[i].pass
                                 /\ saves[i].lost \/ (Waits({"save"}, "written") /\ i = Len(saves))
                                      => saves'[i].lost
  <2>1. CASE Waits({"save"}, "written")
    <3>1. saves' = [saves EXCEPT ![Len(saves)].lost = TRUE] /\ Len(saves) \in DOMAIN saves
      BY <1>2, <2>1 DEF RequestFails, SetupInv, SaveIsDue
    <3>2. saves[Len(saves)] \in Save
      BY <1>2, <3>1
    <3>3. \A i \in DOMAIN saves : saves[i] \in Save
      BY <1>2
    <3>4. [saves[Len(saves)] EXCEPT !.lost = TRUE] \in Save
      BY <3>2 DEF Save
    <3>5. saves' \in Seq(Save) /\ Len(saves') = Len(saves) /\ DOMAIN saves' = DOMAIN saves
      BY <1>2, <3>1, <3>4
    <3>6. \A i \in DOMAIN saves : saves'[i] = IF i = Len(saves) THEN [saves[i] EXCEPT !.lost = TRUE]
                                              ELSE saves[i]
      BY <1>2, <3>1
    <3> QED BY <3>3, <3>5, <3>6 DEF Save
  <2>2. CASE ~Waits({"save"}, "written")
    BY <1>2, <2>2 DEF RequestFails
  <2> QED BY <2>1, <2>2
<1>4. SetupShape'
  BY <1>1, <1>3 DEF SetupInv, SetupShape, Waiting
<1>5. CreatedIsKnown'
  BY <1>1, <1>3 DEF SetupInv, CreatedIsKnown
<1>6. BindingsAreSound'
  BY <1>3 DEF SetupInv, BindingsAreSound
<1>7. LoadIsAwaited'
  BY <1>1 DEF SetupInv, LoadIsAwaited, Waits
<1> QED BY <1>1, <1>4, <1>5, <1>6, <1>7 DEF SetupInv, PolicyHasMode, SaveIsDue, AskedUntilDone,
           LoadsTakeTurns, Waits

\* What is ready to be saved is sound: it was derived from one profile.
LEMMA ReadyIsSound ==
    ASSUME SetupAssumption, SetupInv, ContractSectionReadiness(4)
    PROVE  Binding \in Choice /\ IsSound(Binding)
<1>1. /\ SelectedProject # Unset /\ SelectedTarget # Unset /\ SelectedProfile # Unset
      /\ PolicyChoiceReady
  BY DEF ContractSectionReadiness
<1>2. chosen \in Choice /\ chosen.project \in Project /\ SelectedProject = chosen.project
  BY <1>1 DEF SelectedProject, Within, SetupInv, SetupShape, Choice
<1>3. SelectedTarget \in Target /\ Home[SelectedTarget] = chosen.project
  BY <1>1 DEF SelectedTarget, Within, SetupInv, SetupShape, TargetsState
<1>4. SelectedProfile \in Profile /\ ProfileScope[SelectedProfile] \in {Unset, chosen.project}
  BY <1>1 DEF SelectedProfile, Within, CompatibleProfiles, SetupInv, SetupShape
<1>5. /\ SelectedPolicy \in Gates[SelectedProfile] \cup {Unset}
      /\ SelectedPolicy \in Policy \cup {Unset}
  BY <1>1 DEF SelectedPolicy, Within, CompatiblePolicies, SetupInv, SetupShape
<1>6. SelectedPolicy \in {chosen.policy, Unset} /\ chosen.mode \in {"none", "configured"}
  BY <1>2 DEF SelectedPolicy, Within, Choice
<1>7. SelectedPolicy # Unset <=> chosen.mode = "configured"
  BY <1>1, <1>6 DEF PolicyChoiceReady, SetupInv, PolicyHasMode
<1>8. /\ Binding.project = chosen.project /\ Binding.target = SelectedTarget
      /\ Binding.profile = SelectedProfile /\ Binding.policy = SelectedPolicy
      /\ Binding.mode = chosen.mode
  BY <1>2 DEF Binding
<1>9. Binding \in Choice
  BY <1>2, <1>3, <1>4, <1>5, <1>6 DEF Binding, Choice
<1> QED BY <1>3, <1>4, <1>5, <1>7, <1>8, <1>9 DEF IsSound

\* A save, or the retry of its details, is sent.
LEMMA FinishStep ==
    ASSUME SetupAssumption, SetupInv, FinishSetup \/ RetryDetails
    PROVE  SetupInv'
<1>1. /\ pending = Unset /\ pending' = [kind |-> "save", item |-> Binding, step |-> "asked"]
      /\ ContractSectionReadiness(4)
      /\ UNCHANGED <<server, saves, lists, failed, reads, busy, chosen, targets, targetReads,
                     section, saved>>
      /\ ~saved.details /\ (saved.assignment = 0 => Len(saves) < MaxSaves)
  BY DEF FinishSetup, RetryDetails, Editing, SetupInv, AskedUntilDone
<1>2. Binding \in Choice /\ IsSound(Binding)
  BY <1>1, ReadyIsSound
<1>3. /\ pending' \in Waiting /\ pending'.kind = "save" /\ pending'.item = Binding
      /\ pending'.step = "asked"
  BY <1>1, <1>2 DEF Waiting, SetupRequest, RequestStep
<1>4. SetupShape'
  BY <1>1, <1>3 DEF SetupInv, SetupShape
<1>5. SaveIsDue' /\ CreatedIsKnown' /\ LoadIsAwaited'
  BY <1>1, <1>2, <1>3 DEF SetupInv, SaveIsDue, CreatedIsKnown, LoadIsAwaited, Waits, IsSound
<1> QED BY <1>1, <1>3, <1>4, <1>5 DEF SetupInv, PolicyHasMode, BindingsAreSound,
           AskedUntilDone, LoadsTakeTurns, Waits

\* What is created while the page knows of nothing follows only what was lost.
LEMMA OnlyLostBefore ==
    ASSUME SetupInv, CreateAssignment
    PROVE  \A i \in DOMAIN saves : saves[i].pass = saved.pass => saves[i].lost
<1>1. saved.assignment = 0 /\ ~Waits({"save"}, "written")
  BY DEF CreateAssignment, MustCreate, Waits
<1>2. saves \in Seq(Save)
  BY DEF SetupInv, SetupShape
<1> QED BY <1>1, <1>2 DEF SetupInv, CreatedIsKnown, Save

\* The server creates the assignment, for which there was room.
LEMMA CreateAssignmentStep ==
    ASSUME SetupAssumption, SetupInv, CreateAssignment
    PROVE  SetupInv'
<1> DEFINE new == [binding |-> pending.item, pass |-> saved.pass, lost |-> FALSE]
<1>1. /\ pending # Unset /\ pending \in Waiting /\ pending.kind = "save" /\ pending.step = "asked"
      /\ saved.assignment = 0 /\ pending' = [pending EXCEPT !.step = "written"]
      /\ saves' = Append(saves, new)
      /\ UNCHANGED <<server, lists, failed, reads, busy, chosen, targets, targetReads, section,
                     saved>>
  BY DEF CreateAssignment, Waits, MustCreate, SetupInv, SetupShape
<1>2. IsSound(pending.item) /\ Len(saves) < MaxSaves
  BY <1>1 DEF SetupInv, SaveIsDue, Waits
<1>3. "written" \in RequestStep
  BY DEF RequestStep
<1>4. /\ pending' \in Waiting /\ pending' # Unset /\ pending'.step = "written"
      /\ pending'.kind = "save" /\ pending'.item = pending.item
  BY <1>1, <1>3, MovedOn
<1>5. pending.item \in Choice /\ saved.pass \in Nat
  BY <1>1, WaitingIs DEF SetupInv, SetupShape
<1>6. new \in Save /\ new.binding = pending.item /\ new.pass = saved.pass
  BY <1>5 DEF Save
<1> HIDE DEF new
<1>7. /\ saves \in Seq(Save) /\ Len(saves) \in Nat /\ MaxSaves \in Nat
  BY DEF SetupInv, SetupShape, SetupAssumption
<1>8. /\ saves' \in Seq(Save) /\ Len(saves') = Len(saves) + 1
      /\ \A i \in DOMAIN saves' : (i \in DOMAIN saves /\ saves'[i] = saves[i])
                                  \/ (i = Len(saves') /\ saves'[i] = new)
  BY <1>1, <1>6, <1>7
<1>9. Len(saves') <= MaxSaves /\ Len(saves') > 0
  BY <1>2, <1>7, <1>8
<1>10. SetupShape'
  BY <1>1, <1>4, <1>8, <1>9 DEF SetupInv, SetupShape
<1>11. BindingsAreSound'
  BY <1>2, <1>6, <1>8 DEF SetupInv, BindingsAreSound, IsSound
<1>12. CreatedIsKnown'
  <2>1. Waits({"save"}, "written")'
    BY <1>4 DEF Waits
  <2>2. saved.pass <= saved.pass
    BY <1>5
  <2> QED BY <1>1, <1>6, <1>8, <2>1, <2>2, OnlyLostBefore DEF SetupInv, CreatedIsKnown
<1>13. SaveIsDue'
  BY <1>1, <1>2, <1>4, <1>9 DEF SaveIsDue, Waits, IsSound
<1>14. LoadIsAwaited'
  BY <1>1, <1>4 DEF SetupInv, LoadIsAwaited, Waits
<1> QED BY <1>1, <1>4, <1>10, <1>11, <1>12, <1>13, <1>14 DEF SetupInv, PolicyHasMode,
           AskedUntilDone, LoadsTakeTurns, Waits

\* The answer of a save: the page knows the assignment.
LEMMA SaveAnswersStep ==
    ASSUME SetupAssumption, SetupInv, NEW details \in BOOLEAN, SaveAnswers(details)
    PROVE  SetupInv'
<1>1. /\ pending # Unset /\ pending.kind = "save" /\ pending' = Unset
      /\ UNCHANGED <<server, saves, lists, failed, reads, busy, chosen, targets, targetReads,
                     section>>
  BY DEF SaveAnswers, Waits
<1>2. /\ saved \in [assignment: 0..MaxSaves, details: BOOLEAN, pass: Nat]
      /\ Len(saves) \in Nat /\ MaxSaves \in Nat /\ Len(saves) <= MaxSaves
  BY DEF SetupInv, SetupShape, SetupAssumption
<1>3. /\ saved' \in [assignment: 0..MaxSaves, details: BOOLEAN, pass: Nat]
      /\ saved'.assignment # 0 /\ saved'.pass = saved.pass
  <2>1. CASE saved.assignment = 0
    <3>1. Len(saves) > 0
      BY <2>1 DEF SaveAnswers, MustCreate, SetupInv, SaveIsDue
    <3>2. saved' = [saved EXCEPT !.assignment = Len(saves), !.details = details]
      BY <2>1 DEF SaveAnswers, MustCreate
    <3>3. Len(saves) \in 0..MaxSaves /\ Len(saves) # 0
      BY <1>2, <3>1
    <3> QED BY <1>2, <3>2, <3>3
  <2>2. CASE saved.assignment # 0
    <3>1. saved' = [saved EXCEPT !.details = details]
      BY <1>2, <2>2 DEF SaveAnswers, MustCreate
    <3> QED BY <1>2, <2>2, <3>1
  <2> QED BY <2>1, <2>2
<1>4. SetupShape'
  BY <1>1, <1>3 DEF SetupInv, SetupShape, Waiting
<1>5. CreatedIsKnown'
  BY <1>1, <1>3 DEF SetupInv, CreatedIsKnown
<1>6. LoadIsAwaited'
  BY <1>1 DEF SetupInv, LoadIsAwaited, Waits
<1> QED BY <1>1, <1>3, <1>4, <1>5, <1>6 DEF SetupInv, PolicyHasMode, BindingsAreSound, SaveIsDue,
           AskedUntilDone, LoadsTakeTurns, Waits

\* The invariant of the wizard is inductive.
LEMMA SetupStepInv ==
    ASSUME SetupAssumption, SetupInv, [SetupNext]_setupVars
    PROVE  SetupInv'
<1>1. CASE UNCHANGED setupVars
  BY <1>1, SetupStutters
<1>2. CASE SetupNext
  <2>1. CASE RefreshCatalogues \/ Creates \/ CreateAnswers \/ RequestFails
    BY <2>1, RefreshCataloguesStep, CreatesStep, CreateAnswersStep, RequestFailsStep
  <2>2. CASE \/ FinishSetup \/ RetryDetails \/ CreateAssignment
             \/ \E details \in BOOLEAN : SaveAnswers(details)
    BY <2>2, FinishStep, CreateAssignmentStep, SaveAnswersStep
  <2>3. CASE CreateRevision \/ \E step \in 1..4 : Go(step)
    BY <2>3, GoStep
  <2>4. CASE \E r \in reads : \E answer \in {r.seen, server}, lost \in SUBSET Catalogue :
                CataloguesArrive(r, answer, lost)
    BY <2>4, CataloguesArriveStep
  <2>5. CASE \E v \in Profile \cup Policy : OthersRetire(v)
    BY <2>5, RetireStep
  <2>6. CASE \E t \in targetReads, ok \in BOOLEAN : TargetsArrive(t, ok)
    BY <2>6, TargetsArriveStep
  <2>7. CASE \E p \in Project : SelectProject(p) \/ CreateProject(p)
    BY <2>7, SelectProjectStep, CreateStep
  <2>8. CASE \E t \in Target : SelectTarget(t) \/ RegisterTarget(t)
    BY <2>8, SelectStep, CreateStep
  <2>9. CASE \/ \E f \in Profile : SelectProfile(f)
             \/ \E g \in Policy : SelectPolicy(g)
             \/ \E mode \in {"none", "configured"} : ModeChange(mode)
    BY <2>9, SelectStep
  <2> QED BY <1>2, <2>1, <2>2, <2>3, <2>4, <2>5, <2>6, <2>7, <2>8, <2>9 DEF SetupNext
<1> QED BY <1>1, <1>2

\* The invariant holds throughout.
LEMMA SetupInvHolds ==
    ASSUME SetupAssumption
    PROVE  SetupSpec => []SetupInv
<1>1. SetupInit => SetupInv
  BY SetupInitInv
<1>2. SetupInv /\ [SetupNext]_setupVars => SetupInv'
  BY SetupStepInv
<1> QED BY <1>1, <1>2, PTL DEF SetupSpec

-----------------------------------------------------------------------------
(* The assignment wizard: the results *)

\* The wizard, its catalogues and its loads keep their types.
THEOREM SetupTypesCorrect ==
    ASSUME SetupAssumption
    PROVE  SetupSpec => []SetupTypeOK
<1>1. SetupInv => SetupTypeOK
  BY DEF SetupInv, SetupShape, SetupTypeOK, ServerState, Waiting, TargetsState
<1> QED BY <1>1, SetupInvHolds, PTL

\* QualityContractsWorkspace: whatever is retired, reloaded or created between the choices
\* and the answer, a created assignment binds a target of its project, a profile of that
\* project or of none, and a policy that the profile can carry exactly when one was asked
\* for; and the loads of the catalogues, which carry no number, never overlap.
THEOREM AssignmentsAreSound ==
    ASSUME SetupAssumption
    PROVE  SetupSpec => []SetupIsTrue
<1>1. SetupInv => SetupIsTrue
  <2> SUFFICES ASSUME SetupInv PROVE SetupIsTrue
    OBVIOUS
  <2>1. CASE reads = {}
    BY <2>1, FS_EmptySet DEF SetupInv, SetupIsTrue, OneLoadAtATime
  <2>2. CASE reads # {}
    <3>1. PICK r : reads = {r}
      BY <2>2 DEF SetupInv, LoadsTakeTurns
    <3>2. Cardinality(reads) = 1
      BY <3>1, FS_Singleton
    <3> QED BY <3>2 DEF SetupInv, SetupIsTrue, OneLoadAtATime
  <2> QED BY <2>1, <2>2
<1> QED BY <1>1, SetupInvHolds, PTL

\* A step other than the server's creates no assignment.
LEMMA OthersCreateNone ==
    ASSUME SetupInv, SetupNext, ~CreateAssignment
    PROVE  Len(saves') = Len(saves)
<1>1. CASE RequestFails
  <2>1. saves \in Seq(Save)
    BY DEF SetupInv, SetupShape
  <2>2. Len([saves EXCEPT ![Len(saves)].lost = TRUE]) = Len(saves)
    BY <2>1
  <2> QED BY <1>1, <2>2 DEF RequestFails
<1>2. CASE ~RequestFails
  BY <1>2 DEF SetupNext, RefreshCatalogues, Creates, CreateAnswers, FinishSetup, RetryDetails,
     SaveAnswers, CreateRevision, CataloguesArrive, OthersRetire, TargetsArrive, SelectProject,
     CreateProject, SelectTarget, RegisterTarget, SelectProfile, SelectPolicy, ModeChange, Go,
     FormOnly
<1> QED BY <1>1, <1>2

\* finishSetup and create_assignment: however often a save is tried again, and whatever is
\* chosen between the tries, one pass of the wizard creates a second assignment only when
\* the answer of each one before it was lost.
THEOREM RetriesCreateNone ==
    ASSUME SetupAssumption
    PROVE  SetupSpec => [][RetryCreatesNone]_setupVars
<1>1. SetupInv /\ [SetupNext]_setupVars => [RetryCreatesNone]_setupVars
  <2> SUFFICES ASSUME SetupInv, SetupNext, Len(saves') > Len(saves)
               PROVE  \A i \in DOMAIN saves : saves[i].pass = saved.pass => saves[i].lost
    BY DEF RetryCreatesNone
  <2>1. Len(saves) \in Nat
    BY DEF SetupInv, SetupShape
  <2>2. CreateAssignment
    BY <2>1, OthersCreateNone
  <2> QED BY <2>2, OnlyLostBefore
<1> QED BY <1>1, SetupInvHolds, PTL DEF SetupSpec

-----------------------------------------------------------------------------
(* The data set of a run: the invariant                                         *)

GoldenRead == [for : Agent, known : SUBSET Datasets, active : BOOLEAN]
WriteBack == [to : SomeDataset, rows : SomeDataset, version : BOOLEAN]
Publication == [target : NewVersions, known : SUBSET Datasets, step : 1 .. 4]

\* What the types leave open.
ChoiceShape ==
    /\ picker \in [listed : SUBSET Datasets, more : BOOLEAN, paging : SUBSET Datasets,
                   paged : BOOLEAN, loading : BOOLEAN]
    /\ golden \subseteq GoldenRead
    /\ back \in [rows : SomeDataset, ticked : BOOLEAN, consent : BOOLEAN, result : SomeDataset,
                 busy : BOOLEAN, asked : SomeDataset, commit : {None} \cup WriteBack]
    /\ publish \in {None} \cup Publication
    /\ tally \in [consents : Nat, drafts : Nat]

\* Whatever an inventory lists is published, also one that a handler has kept
\* while it waited.
ListedArePublished ==
    /\ picker.listed \subseteq published /\ picker.paging \subseteq published
    /\ FirstPage \subseteq published
    /\ \A g \in golden : g.known \subseteq published
    /\ publish # None => publish.known \subseteq published
    /\ publish # None /\ publish.step = 4 => publish.target \in published

\* A read of a golden dataset counts only for the agent on screen.
ActiveIsForAgent == \A g \in golden : g.active => g.for = agent

\* The preview has one read under way while it loads, for what was chosen.
PreviewReadsTheChoice ==
    /\ \A d, e \in preview.asked : d = e
    /\ preview.asked # {} => preview.loading
    /\ dialog = "preview" => preview.asked \subseteq {choice.name} \cup choice.replaced

\* A write-back under way holds its dialog, and its consent is not spent yet.
ConsentIsHeld ==
    /\ back.asked # None => back.busy /\ dialog = "writeback" /\ back.commit = None
    /\ back.commit # None => /\ back.busy /\ dialog = "writeback"
                             /\ back.commit.version => back.consent
    /\ tally.drafts + (IF back.consent THEN 1 ELSE 0) <= tally.consents

ChoiceInv ==
    /\ ChoiceTypeOK /\ ChoiceShape
    /\ ListedArePublished /\ ChosenIsPublished
    /\ ActiveIsForAgent
    /\ PreviewReadsTheChoice /\ PreviewIsOfTheChoice
    /\ ConsentIsHeld

-----------------------------------------------------------------------------
(* The data set of a run: steps                                                 *)

\* Nothing is chosen, read or written at first.
LEMMA ChoiceInitInv == ASSUME DatasetChoiceAssumption, ChoiceInit PROVE ChoiceInv
<1>1. ChoiceShape
  BY DEF ChoiceInit, ChoiceShape, Inventory, SomeDataset, None, GoldenRead
<1>2. ChoiceTypeOK
  BY DEF ChoiceInit, ChoiceTypeOK, Inventory, SomeDataset, None
<1>3. ListedArePublished /\ ChosenIsPublished
  BY DEF ChoiceInit, ListedArePublished, ChosenIsPublished, Inventory, DatasetChoiceAssumption
<1>4. ActiveIsForAgent /\ PreviewReadsTheChoice /\ PreviewIsOfTheChoice /\ ConsentIsHeld
  BY DEF ChoiceInit, ActiveIsForAgent, PreviewReadsTheChoice, PreviewIsOfTheChoice, ConsentIsHeld
<1> QED BY <1>1, <1>2, <1>3, <1>4 DEF ChoiceInv

\* What a step may do to the inventory, with or without opening its dialog.
LEMMA PickerKeeps ==
    ASSUME ChoiceInv,
           UNCHANGED <<published, parent, choice, agent, golden, preview, back, publish, tally>>,
           picker' \in [listed : SUBSET Datasets, more : BOOLEAN, paging : SUBSET Datasets,
                        paged : BOOLEAN, loading : BOOLEAN],
           picker'.listed \subseteq published, picker'.paging \subseteq published,
           dialog' = dialog \/ (dialog = "none" /\ dialog' = "picker")
    PROVE  ChoiceInv'
<1>1. ChoiceShape' /\ ChoiceTypeOK'
  BY DEF ChoiceInv, ChoiceShape, ChoiceTypeOK
<1>2. ListedArePublished' /\ ChosenIsPublished' /\ ActiveIsForAgent'
  BY DEF ChoiceInv, ListedArePublished, ChosenIsPublished, ActiveIsForAgent
<1>3. PreviewReadsTheChoice' /\ PreviewIsOfTheChoice'
  BY DEF ChoiceInv, PreviewReadsTheChoice, PreviewIsOfTheChoice
<1>4. ConsentIsHeld'
  BY DEF ChoiceInv, ConsentIsHeld
<1> QED BY <1>1, <1>2, <1>3, <1>4 DEF ChoiceInv

\* The inventory is loaded, paged and opened.
LEMMA PickerSteps ==
    ASSUME DatasetChoiceAssumption, ChoiceInv,
           \/ RefreshInventory \/ LoadArrives \/ OpenPicker \/ LoadMoreDatasets \/ MoreArrives
    PROVE  ChoiceInv'
<1> DEFINE PickerShape == [listed : SUBSET Datasets, more : BOOLEAN, paging : SUBSET Datasets,
                           paged : BOOLEAN, loading : BOOLEAN]
<1>1. /\ picker \in PickerShape /\ published \subseteq Datasets /\ FirstPage \subseteq Datasets
      /\ picker.listed \subseteq published /\ picker.paging \subseteq published
      /\ FirstPage \subseteq published
  BY DEF ChoiceInv, ChoiceShape, ChoiceTypeOK, ListedArePublished, DatasetChoiceAssumption
<1>2. CASE RefreshInventory
  BY <1>1, <1>2, PickerKeeps DEF RefreshInventory
<1>3. CASE LoadArrives
  <2>1. /\ UNCHANGED <<published, parent, choice, agent, golden, dialog, preview, back, publish,
                       tally>>
        /\ \/ picker' = [picker EXCEPT !.loading = FALSE]
           \/ picker' = [picker EXCEPT !.loading = FALSE, !.listed = FirstPage, !.more = TRUE]
    BY <1>3 DEF LoadArrives
  <2>2. picker' \in PickerShape
    BY <1>1, <2>1
  <2>3. picker'.listed \subseteq published /\ picker'.paging \subseteq published
    BY <1>1, <2>1
  <2> QED BY <2>1, <2>2, <2>3, PickerKeeps
<1>4. CASE OpenPicker
  BY <1>1, <1>4, PickerKeeps DEF OpenPicker
<1>5. CASE LoadMoreDatasets
  <2>1. /\ UNCHANGED <<published, parent, choice, agent, golden, dialog, preview, back, publish,
                       tally>>
        /\ picker' = [picker EXCEPT !.paging = picker.listed, !.paged = TRUE]
    BY <1>5 DEF LoadMoreDatasets
  <2>2. /\ picker' \in PickerShape
        /\ picker'.listed \subseteq published /\ picker'.paging \subseteq published
    BY <1>1, <2>1
  <2> QED BY <2>1, <2>2, PickerKeeps
<1>6. CASE MoreArrives
  <2>1. /\ UNCHANGED <<published, parent, choice, agent, golden, dialog, preview, back, publish,
                       tally>>
        /\ \/ picker' = [picker EXCEPT !.paged = FALSE, !.paging = {}]
           \/ picker' = [picker EXCEPT !.listed = picker.paging \cup (published \ FirstPage),
                                       !.more = FALSE, !.paged = FALSE, !.paging = {}]
    BY <1>6 DEF MoreArrives
  <2>2. /\ picker' \in PickerShape
        /\ picker'.listed \subseteq published /\ picker'.paging \subseteq published
    <3>1. picker.paging \cup (published \ FirstPage) \subseteq published
      BY <1>1
    <3> QED BY <1>1, <2>1, <3>1
  <2> QED BY <2>1, <2>2, PickerKeeps
<1> QED BY <1>2, <1>3, <1>4, <1>5, <1>6

\* A data set is chosen on purpose: the rows of another are dropped, and no dialog
\* shows them.
LEMMA ChoosingKeeps ==
    ASSUME ChoiceInv, NEW d \in published,
           UNCHANGED <<published, parent, agent, back, publish, tally>>,
           choice' = [name |-> d, picked |-> d, replaced |-> {}],
           preview' = NoRows,
           dialog' = "none" \/ (dialog' = dialog /\ dialog # "preview"),
           dialog = "writeback" => dialog' = dialog,
           picker' \in [listed : SUBSET Datasets, more : BOOLEAN, paging : SUBSET Datasets,
                        paged : BOOLEAN, loading : BOOLEAN],
           picker'.listed \subseteq published, picker'.paging \subseteq published,
           golden' \subseteq GoldenRead,
           \A g \in golden' : g.known \subseteq published /\ (g.active => g.for = agent)
    PROVE  ChoiceInv'
<1>1. d \in Datasets
  BY DEF ChoiceInv, ChoiceTypeOK
<1>2. choice' \in [name: SomeDataset, picked: SomeDataset, replaced: SUBSET SomeDataset]
  BY <1>1 DEF SomeDataset
<1>3. /\ preview' \in [rows: SomeDataset, loading: BOOLEAN, asked: SUBSET Datasets]
      /\ preview'.asked = preview.asked /\ preview'.loading = preview.loading
  BY DEF ChoiceInv, ChoiceTypeOK, NoRows, SomeDataset
<1>4. ChoiceShape' /\ ChoiceTypeOK'
  BY <1>2, <1>3 DEF ChoiceInv, ChoiceShape, ChoiceTypeOK
<1>5. ListedArePublished' /\ ChosenIsPublished' /\ ActiveIsForAgent'
  BY DEF ChoiceInv, ListedArePublished, ChosenIsPublished, ActiveIsForAgent
<1>6. PreviewReadsTheChoice' /\ PreviewIsOfTheChoice'
  BY <1>3 DEF ChoiceInv, PreviewReadsTheChoice, PreviewIsOfTheChoice
<1>7. ConsentIsHeld'
  BY DEF ChoiceInv, ConsentIsHeld
<1> QED BY <1>4, <1>5, <1>6, <1>7 DEF ChoiceInv

\* Reads of golden datasets begin, stop to count and end.
LEMMA GoldenKeeps ==
    ASSUME ChoiceInv, golden' \subseteq GoldenRead, agent' \in Agent,
           UNCHANGED <<published, parent, picker, choice, dialog, preview, back, publish, tally>>,
           \A g \in golden' : g.known \subseteq published /\ (g.active => g.for = agent')
    PROVE  ChoiceInv'
<1>1. ChoiceShape' /\ ChoiceTypeOK'
  BY DEF ChoiceInv, ChoiceShape, ChoiceTypeOK
<1>2. ListedArePublished' /\ ChosenIsPublished' /\ ActiveIsForAgent'
  BY DEF ChoiceInv, ListedArePublished, ChosenIsPublished, ActiveIsForAgent
<1>3. PreviewReadsTheChoice' /\ PreviewIsOfTheChoice' /\ ConsentIsHeld'
  BY DEF ChoiceInv, PreviewReadsTheChoice, PreviewIsOfTheChoice, ConsentIsHeld
<1> QED BY <1>1, <1>2, <1>3 DEF ChoiceInv

\* Reads that are superseded count for no agent.
LEMMA SupersededFacts ==
    ASSUME ChoiceInv
    PROVE  Superseded \subseteq GoldenRead
           /\ \A g \in Superseded : g.known \subseteq published /\ ~g.active
<1>1. ASSUME NEW g \in golden
      PROVE  LET h == [g EXCEPT !.active = FALSE] IN
             h \in GoldenRead /\ h.known \subseteq published /\ ~h.active
  BY DEF ChoiceInv, ChoiceShape, ListedArePublished, GoldenRead
<1> QED BY <1>1 DEF Superseded

\* A data set, an agent or the agent's golden data set is chosen.
LEMMA ChoosingSteps ==
    ASSUME DatasetChoiceAssumption, ChoiceInv,
           \/ \E d \in Datasets : ChooseDataset(d)
           \/ \E a \in Agent : PickAgent(a)
           \/ AskGolden
           \/ \E g \in golden : GoldenArrives(g) \/ GoldenFails(g)
    PROVE  ChoiceInv'
<1> DEFINE PickerShape == [listed : SUBSET Datasets, more : BOOLEAN, paging : SUBSET Datasets,
                           paged : BOOLEAN, loading : BOOLEAN]
<1>1. /\ picker \in PickerShape /\ published \subseteq Datasets
      /\ picker.listed \subseteq published /\ picker.paging \subseteq published
      /\ golden \subseteq GoldenRead
      /\ \A g \in golden : g.known \subseteq published /\ (g.active => g.for = agent)
      /\ agent \in Agent
  BY DEF ChoiceInv, ChoiceShape, ChoiceTypeOK, ListedArePublished, ActiveIsForAgent
<1>2. ASSUME NEW d \in Datasets, ChooseDataset(d)
      PROVE  ChoiceInv'
  <2>1. /\ d \in Options /\ dialog = "picker" /\ dialog' = "none" /\ golden' = Superseded
        /\ choice' = [name |-> d, picked |-> d, replaced |-> {}] /\ preview' = NoRows
        /\ UNCHANGED <<published, parent, picker, agent, back, publish, tally>>
    BY <1>2 DEF ChooseDataset
  <2>2. d \in published
    BY <1>1, <2>1 DEF Options
  <2>3. golden' \subseteq GoldenRead
        /\ \A g \in golden' : g.known \subseteq published /\ (g.active => g.for = agent)
    BY <2>1, SupersededFacts
  <2> QED BY <1>1, <2>1, <2>2, <2>3, ChoosingKeeps
<1>3. ASSUME NEW a \in Agent, PickAgent(a)
      PROVE  ChoiceInv'
  <2>1. /\ agent' = a /\ golden' = Superseded
        /\ UNCHANGED <<published, parent, picker, choice, dialog, preview, back, publish, tally>>
    BY <1>3 DEF PickAgent
  <2>2. golden' \subseteq GoldenRead
        /\ \A g \in golden' : g.known \subseteq published /\ (g.active => g.for = agent')
    BY <2>1, SupersededFacts
  <2> QED BY <2>1, <2>2, GoldenKeeps
<1>4. CASE AskGolden
  <2> DEFINE r == [for |-> agent, known |-> picker.listed, active |-> TRUE]
  <2>1. /\ golden' = golden \cup {r}
        /\ UNCHANGED <<published, parent, picker, choice, agent, dialog, preview, back, publish,
                       tally>>
    BY <1>4 DEF AskGolden
  <2>2. r \in GoldenRead /\ r.known \subseteq published /\ r.for = agent
    BY <1>1 DEF GoldenRead
  <2> HIDE DEF r
  <2> QED BY <1>1, <2>1, <2>2, GoldenKeeps
<1>5. ASSUME NEW g \in golden, GoldenFails(g)
      PROVE  ChoiceInv'
  BY <1>1, <1>5, GoldenKeeps DEF GoldenFails
<1>6. ASSUME NEW g \in golden, GoldenArrives(g)
      PROVE  ChoiceInv'
  <2> DEFINE items == EnsureRequested(g.known, Golden[g.for])
  <2>1. /\ golden' = golden \ {g}
        /\ UNCHANGED <<published, parent, agent, back, publish, tally>>
        /\ IF Wanted(g) /\ Golden[g.for] \in items
           THEN /\ picker' = [picker EXCEPT !.listed = picker.listed \cup items]
                /\ choice' = [name |-> Golden[g.for], picked |-> Golden[g.for], replaced |-> {}]
                /\ preview' = NoRows /\ dialog' = Closed("preview")
           ELSE UNCHANGED <<picker, choice, preview, dialog>>
    BY <1>6 DEF GoldenArrives
  <2>2. items \subseteq published
    BY <1>1 DEF EnsureRequested
  <2>3. /\ golden' \subseteq GoldenRead
        /\ \A h \in golden' : h.known \subseteq published /\ (h.active => h.for = agent)
    BY <1>1, <2>1
  <2> HIDE DEF items
  <2>4. CASE Wanted(g) /\ Golden[g.for] \in items
    <3>1. /\ picker' = [picker EXCEPT !.listed = picker.listed \cup items]
          /\ choice' = [name |-> Golden[g.for], picked |-> Golden[g.for], replaced |-> {}]
          /\ preview' = NoRows /\ dialog' = Closed("preview")
      BY <2>1, <2>4
    <3>2. /\ picker' \in PickerShape
          /\ picker'.listed \subseteq published /\ picker'.paging \subseteq published
      BY <1>1, <2>2, <3>1
    <3>3. /\ dialog' = "none" \/ (dialog' = dialog /\ dialog # "preview")
          /\ dialog = "writeback" => dialog' = dialog
      BY <3>1 DEF Closed
    <3>4. Golden[g.for] \in published
      BY <2>2, <2>4
    <3> QED BY <2>1, <2>3, <3>1, <3>2, <3>3, <3>4, ChoosingKeeps
  <2>5. CASE ~(Wanted(g) /\ Golden[g.for] \in items)
    BY <1>1, <2>1, <2>3, <2>5, GoldenKeeps
  <2> QED BY <2>4, <2>5
<1> QED BY <1>2, <1>3, <1>4, <1>5, <1>6

\* The preview reads what is chosen.
LEMMA PreviewSteps ==
    ASSUME ChoiceInv, PreviewDataset \/ \E d \in Datasets : PreviewArrives(d)
    PROVE  ChoiceInv'
<1>1. /\ preview \in [rows: SomeDataset, loading: BOOLEAN, asked: SUBSET Datasets]
      /\ \A d, e \in preview.asked : d = e
      /\ preview.asked # {} => preview.loading
      /\ dialog = "preview" => preview.asked \subseteq {choice.name} \cup choice.replaced
  BY DEF ChoiceInv, ChoiceTypeOK, PreviewReadsTheChoice
<1>2. ASSUME UNCHANGED <<published, parent, picker, choice, agent, golden, back, publish, tally>>,
             preview' \in [rows: SomeDataset, loading: BOOLEAN, asked: SUBSET Datasets],
             PreviewReadsTheChoice', PreviewIsOfTheChoice',
             dialog' = dialog \/ (dialog = "none" /\ dialog' = "preview")
      PROVE  ChoiceInv'
  BY <1>2
  DEF ChoiceInv, ChoiceShape, ChoiceTypeOK, ListedArePublished, ChosenIsPublished,
      ActiveIsForAgent, ConsentIsHeld
<1>3. CASE PreviewDataset
  <2>1. /\ UNCHANGED <<published, parent, picker, choice, agent, golden, back, publish, tally>>
        /\ dialog = "none" /\ dialog' = "preview" /\ ~preview.loading
        /\ SelectedDataset # None
        /\ preview' = [preview EXCEPT !.loading = TRUE, !.asked = preview.asked \cup {choice.name}]
    BY <1>3 DEF PreviewDataset, MayPreview
  <2>2. choice.name \in Datasets /\ preview.asked = {}
    BY <1>1, <2>1 DEF SelectedDataset, Options, ChoiceInv, ChoiceTypeOK
  <2>3. /\ preview' \in [rows: SomeDataset, loading: BOOLEAN, asked: SUBSET Datasets]
        /\ preview'.loading /\ preview'.asked = {choice.name}
    BY <1>1, <2>1, <2>2
  <2>4. PreviewReadsTheChoice' /\ PreviewIsOfTheChoice'
    BY <2>1, <2>3 DEF PreviewReadsTheChoice, PreviewIsOfTheChoice
  <2> QED BY <1>2, <2>1, <2>3, <2>4
<1>4. ASSUME NEW d \in Datasets, PreviewArrives(d)
      PROVE  ChoiceInv'
  <2>1. /\ UNCHANGED <<published, parent, picker, choice, agent, golden, dialog, back, publish,
                       tally>>
        /\ d \in preview.asked
    BY <1>4 DEF PreviewArrives
  <2>2. PICK rows \in {d, None} :
            preview' = [rows |-> rows, loading |-> FALSE, asked |-> preview.asked \ {d}]
    BY <1>4 DEF PreviewArrives
  <2>3. /\ preview' \in [rows: SomeDataset, loading: BOOLEAN, asked: SUBSET Datasets]
        /\ preview'.rows \in {d, None} /\ preview'.asked = {}
    BY <1>1, <2>1, <2>2 DEF SomeDataset
  <2>4. PreviewReadsTheChoice' /\ PreviewIsOfTheChoice'
    BY <1>1, <2>1, <2>3 DEF PreviewReadsTheChoice, PreviewIsOfTheChoice
  <2> QED BY <1>2, <2>1, <2>3, <2>4
<1> QED BY <1>3, <1>4

\* A step of the write-back: what it leaves alone stays right.
LEMMA BackKeeps ==
    ASSUME ChoiceInv,
           UNCHANGED <<published, picker, choice, agent, golden, preview, publish>>,
           parent' \in [NewVersions -> SomeDataset],
           back' \in [rows : SomeDataset, ticked : BOOLEAN, consent : BOOLEAN,
                      result : SomeDataset, busy : BOOLEAN, asked : SomeDataset,
                      commit : {None} \cup WriteBack],
           tally' \in [consents : Nat, drafts : Nat],
           dialog' = dialog \/ (dialog' # "preview" /\ dialog' \in {"none", "writeback"}),
           ConsentIsHeld'
    PROVE  ChoiceInv'
<1>1. ChoiceTypeOK' /\ ChoiceShape'
  BY DEF ChoiceInv, ChoiceTypeOK, ChoiceShape
<1>2. PreviewReadsTheChoice' /\ PreviewIsOfTheChoice'
  BY DEF ChoiceInv, PreviewReadsTheChoice, PreviewIsOfTheChoice
<1>3. ListedArePublished' /\ ChosenIsPublished' /\ ActiveIsForAgent'
  BY DEF ChoiceInv, ListedArePublished, ChosenIsPublished, ActiveIsForAgent
<1> QED BY <1>1, <1>2, <1>3 DEF ChoiceInv

\* The dialog of the write-back: opening, reading, ticking, consenting.
LEMMA WriteBackSteps ==
    ASSUME ChoiceInv, CloseDialog \/ OpenWriteBack \/ RowsArrive \/ TickRow \/ Consent
    PROVE  ChoiceInv'
<1> DEFINE Back == [rows : SomeDataset, ticked : BOOLEAN, consent : BOOLEAN,
                    result : SomeDataset, busy : BOOLEAN, asked : SomeDataset,
                    commit : {None} \cup WriteBack]
<1>1. /\ back \in Back /\ parent \in [NewVersions -> SomeDataset] /\ None \in SomeDataset
      /\ tally \in [consents : Nat, drafts : Nat] /\ choice.name \in SomeDataset
      /\ ConsentIsHeld
  BY DEF ChoiceInv, ChoiceShape, ChoiceTypeOK, SomeDataset
<1>2. CASE CloseDialog
  <2>1. /\ UNCHANGED <<published, parent, picker, choice, agent, golden, preview, back, publish,
                       tally>>
        /\ dialog = "writeback" => ~back.busy
        /\ dialog' = "none"
    BY <1>2 DEF CloseDialog
  <2>2. ConsentIsHeld'
    BY <1>1, <2>1 DEF ConsentIsHeld
  <2> QED BY <1>1, <2>1, <2>2, BackKeeps
<1>3. CASE OpenWriteBack
  <2>1. /\ UNCHANGED <<published, parent, picker, choice, agent, golden, preview, publish, tally>>
        /\ dialog = "none" /\ dialog' = "writeback"
        /\ back' = [back EXCEPT !.result = None, !.busy = TRUE, !.asked = choice.name]
    BY <1>3 DEF OpenWriteBack
  <2>2. /\ back' \in Back /\ back'.busy /\ back'.commit = back.commit
        /\ back'.consent = back.consent
    BY <1>1, <2>1
  <2>3. ConsentIsHeld'
    BY <1>1, <2>1, <2>2 DEF ConsentIsHeld
  <2> QED BY <1>1, <2>1, <2>2, <2>3, BackKeeps
<1>4. CASE RowsArrive
  <2>1. /\ UNCHANGED <<published, parent, picker, choice, agent, golden, dialog, preview, publish,
                       tally>>
        /\ back.asked # None
    BY <1>4 DEF RowsArrive
  <2>2. PICK rows \in {back.asked, None} :
           back' = [back EXCEPT !.rows = rows, !.asked = None, !.busy = FALSE,
                                !.ticked = (rows = None /\ back.ticked)]
    BY <1>4 DEF RowsArrive
  <2>3. rows \in SomeDataset /\ (rows = None /\ back.ticked) \in BOOLEAN
    BY <1>1
  <2>4. /\ back' \in Back /\ back'.asked = None /\ back'.commit = back.commit
        /\ back'.consent = back.consent
    BY <1>1, <2>2, <2>3
  <2>5. ConsentIsHeld'
    BY <1>1, <2>1, <2>4 DEF ConsentIsHeld
  <2> QED BY <1>1, <2>1, <2>4, <2>5, BackKeeps
<1>5. CASE TickRow
  <2>1. /\ UNCHANGED <<published, parent, picker, choice, agent, golden, dialog, preview, publish,
                       tally>>
        /\ back' = [back EXCEPT !.ticked = ~back.ticked]
    BY <1>5 DEF TickRow
  <2>2. /\ back' \in Back /\ back'.asked = back.asked /\ back'.commit = back.commit
        /\ back'.consent = back.consent /\ back'.busy = back.busy
    BY <1>1, <2>1
  <2>3. ConsentIsHeld'
    BY <1>1, <2>1, <2>2 DEF ConsentIsHeld
  <2> QED BY <1>1, <2>1, <2>2, <2>3, BackKeeps
<1>6. CASE Consent
  <2>1. /\ UNCHANGED <<published, parent, picker, choice, agent, golden, dialog, preview, publish>>
        /\ ~back.busy
        /\ back' = [back EXCEPT !.consent = ~back.consent]
        /\ tally' = IF back.consent THEN tally
                    ELSE [tally EXCEPT !.consents = tally.consents + 1]
    BY <1>6 DEF Consent, EditingWriteBack
  <2>2. /\ back' \in Back /\ back'.asked = back.asked /\ back'.commit = back.commit
        /\ back'.consent = ~back.consent /\ back'.busy = back.busy
    BY <1>1, <2>1
  <2>3. /\ tally' \in [consents : Nat, drafts : Nat] /\ tally'.drafts = tally.drafts
        /\ tally'.consents = IF back.consent THEN tally.consents ELSE tally.consents + 1
        /\ tally.consents \in Nat /\ tally.drafts \in Nat
    BY <1>1, <2>1
  <2>4. tally'.drafts + (IF back'.consent THEN 1 ELSE 0) <= tally'.consents
    BY <1>1, <2>2, <2>3 DEF ConsentIsHeld
  <2>5. ConsentIsHeld'
    BY <1>1, <2>1, <2>2, <2>4 DEF ConsentIsHeld
  <2> QED BY <1>1, <2>1, <2>2, <2>3, <2>5, BackKeeps
<1> QED BY <1>2, <1>3, <1>4, <1>5, <1>6

\* The rows ticked are written: a new version spends the consent.
LEMMA CommitSteps ==
    ASSUME DatasetChoiceAssumption, ChoiceInv, Commit \/ CommitWrites \/ CommitFails
    PROVE  ChoiceInv'
<1> DEFINE Back == [rows : SomeDataset, ticked : BOOLEAN, consent : BOOLEAN,
                    result : SomeDataset, busy : BOOLEAN, asked : SomeDataset,
                    commit : {None} \cup WriteBack]
<1>1. /\ back \in Back /\ parent \in [NewVersions -> SomeDataset] /\ None \in SomeDataset
      /\ tally \in [consents : Nat, drafts : Nat] /\ choice.name \in SomeDataset
      /\ tally.consents \in Nat /\ tally.drafts \in Nat
      /\ ConsentIsHeld
  BY DEF ChoiceInv, ChoiceShape, ChoiceTypeOK, SomeDataset
<1>2. CASE Commit
  <2> DEFINE w == [to |-> choice.name, rows |-> back.rows, version |-> back.consent]
  <2>1. /\ UNCHANGED <<published, parent, picker, choice, agent, golden, dialog, preview, publish,
                       tally>>
        /\ dialog = "writeback" /\ ~back.busy
        /\ back' = [back EXCEPT !.busy = TRUE, !.commit = w]
    BY <1>2 DEF Commit, EditingWriteBack
  <2>2. w \in WriteBack /\ w.version = back.consent
    BY <1>1 DEF WriteBack
  <2> HIDE DEF w
  <2>3. /\ back' \in Back /\ back'.asked = back.asked /\ back'.commit = w
        /\ back'.consent = back.consent /\ back'.busy
    BY <1>1, <2>1, <2>2
  <2>4. back.asked = None
    BY <1>1, <2>1 DEF ConsentIsHeld
  <2>5. ConsentIsHeld'
    BY <1>1, <2>1, <2>2, <2>3, <2>4 DEF ConsentIsHeld
  <2> QED BY <1>1, <2>1, <2>3, <2>5, BackKeeps
<1>3. CASE CommitFails
  <2>1. /\ UNCHANGED <<published, parent, picker, choice, agent, golden, dialog, preview, publish,
                       tally>>
        /\ back.commit # None
        /\ back' = [back EXCEPT !.commit = None, !.busy = FALSE]
    BY <1>3 DEF CommitFails
  <2>2. /\ back' \in Back /\ back'.asked = back.asked /\ back'.commit = None
        /\ back'.consent = back.consent
    BY <1>1, <2>1
  <2>3. back.asked = None
    BY <1>1, <2>1 DEF ConsentIsHeld
  <2>4. ConsentIsHeld'
    BY <1>1, <2>1, <2>2, <2>3 DEF ConsentIsHeld
  <2> QED BY <1>1, <2>1, <2>2, <2>4, BackKeeps
<1>4. CASE CommitWrites
  <2>1. /\ UNCHANGED <<published, picker, choice, agent, golden, dialog, preview, publish>>
        /\ back.commit # None /\ back.commit \in WriteBack /\ back.commit.to \in SomeDataset
        /\ back.asked = None
    <3>1. back.commit # None /\ back.commit \in WriteBack
      BY <1>1, <1>4 DEF CommitWrites
    <3> QED BY <1>1, <1>4, <3>1 DEF CommitWrites, ConsentIsHeld, WriteBack
  <2>2. CASE back.commit.to \in published
    <3>1. back.commit.version /\ tally' = [tally EXCEPT !.drafts = tally.drafts + 1]
      BY <1>4, <2>2 DEF CommitWrites
    <3>2. PICK v \in NewVersions :
             /\ parent' = [parent EXCEPT ![v] = back.commit.to]
             /\ \E rows \in {back.rows, back.commit.to} :
                  back' = SpendConsent([back EXCEPT !.result = v, !.commit = None, !.busy = FALSE,
                                          !.rows = rows,
                                          !.ticked = (rows # back.commit.to /\ back.ticked)])
      BY <1>4, <2>2 DEF CommitWrites
    <3>3. PICK rows \in {back.rows, back.commit.to} :
             back' = SpendConsent([back EXCEPT !.result = v, !.commit = None, !.busy = FALSE,
                                     !.rows = rows,
                                     !.ticked = (rows # back.commit.to /\ back.ticked)])
      BY <3>2
    <3>4. /\ rows \in SomeDataset /\ v \in SomeDataset
          /\ (rows # back.commit.to /\ back.ticked) \in BOOLEAN
      <4>1. NewVersions \subseteq Datasets
        BY DEF DatasetChoiceAssumption
      <4> QED BY <1>1, <2>1, <4>1 DEF SomeDataset
    <3> DEFINE b == [back EXCEPT !.result = v, !.commit = None, !.busy = FALSE, !.rows = rows,
                                 !.ticked = (rows # back.commit.to /\ back.ticked)]
    <3>5. b \in Back /\ b.asked = back.asked /\ b.commit = None
      BY <1>1, <3>4
    <3>6. back' = SpendConsent(b)
      BY <3>3
    <3> HIDE DEF b
    <3>7. back' \in Back /\ back'.asked = None /\ back'.commit = None /\ ~back'.consent
      BY <2>1, <3>5, <3>6 DEF SpendConsent
    <3>8. /\ tally' \in [consents : Nat, drafts : Nat] /\ tally'.drafts = tally.drafts + 1
          /\ tally'.consents = tally.consents
      BY <1>1, <3>1
    <3>9. ConsentIsHeld'
      BY <1>1, <2>1, <3>1, <3>7, <3>8 DEF ConsentIsHeld
    <3>10. parent' \in [NewVersions -> SomeDataset]
      BY <1>1, <2>1, <3>2
    <3> QED BY <2>1, <3>7, <3>8, <3>9, <3>10, BackKeeps
  <2>3. CASE back.commit.to \notin published
    <3>1. /\ back' = [back EXCEPT !.result = back.commit.to, !.rows = back.commit.to,
                                  !.ticked = FALSE, !.commit = None, !.busy = FALSE]
          /\ UNCHANGED <<parent, tally>>
      BY <1>4, <2>3 DEF CommitWrites
    <3>2. /\ back' \in Back /\ back'.asked = None /\ back'.commit = None
          /\ back'.consent = back.consent
      BY <1>1, <2>1, <3>1
    <3>3. ConsentIsHeld'
      BY <1>1, <3>1, <3>2 DEF ConsentIsHeld
    <3> QED BY <1>1, <2>1, <3>1, <3>2, <3>3, BackKeeps
  <2> QED BY <2>2, <2>3
<1> QED BY <1>2, <1>3, <1>4

\* A new version is published, and the run is taken over to it.
LEMMA PublishSteps ==
    ASSUME DatasetChoiceAssumption, ChoiceInv,
           PublishVersion \/ PublishStep \/ PublishFails \/ Retarget
    PROVE  ChoiceInv'
<1>1. /\ publish \in {None} \cup Publication /\ published \subseteq Datasets
      /\ picker.listed \subseteq published /\ picker.listed \subseteq Datasets
      /\ publish # None => publish.known \subseteq published
      /\ publish # None /\ publish.step = 4 => publish.target \in published
  BY DEF ChoiceInv, ChoiceShape, ChoiceTypeOK, ListedArePublished
<1>2. ASSUME UNCHANGED <<parent, picker, choice, agent, golden, dialog, preview, back, tally>>,
             published \subseteq published', published' \subseteq Datasets,
             publish' \in {None} \cup Publication,
             publish' # None => publish'.known \subseteq published',
             publish' # None /\ publish'.step = 4 => publish'.target \in published'
      PROVE  ChoiceInv'
  <2>1. ChoiceTypeOK' /\ ChoiceShape'
    BY <1>2 DEF ChoiceInv, ChoiceTypeOK, ChoiceShape
  <2>2. ListedArePublished' /\ ChosenIsPublished'
    BY <1>2 DEF ChoiceInv, ListedArePublished, ChosenIsPublished
  <2> QED
    BY <1>2, <2>1, <2>2
    DEF ChoiceInv, ActiveIsForAgent, PreviewReadsTheChoice, PreviewIsOfTheChoice, ConsentIsHeld
<1>3. CASE PublishVersion
  <2> DEFINE p == [target |-> back.result, known |-> picker.listed, step |-> 1]
  <2>1. /\ UNCHANGED <<published, parent, picker, choice, agent, golden, dialog, preview, back,
                       tally>>
        /\ back.result \in NewVersions /\ publish' = p
    BY <1>3 DEF PublishVersion
  <2>2. p \in Publication /\ p.known = picker.listed /\ p.step = 1
    BY <1>1, <2>1 DEF Publication
  <2> HIDE DEF p
  <2> QED BY <1>1, <1>2, <2>1, <2>2
<1>4. CASE PublishStep
  <2>1. /\ UNCHANGED <<parent, picker, choice, agent, golden, dialog, preview, back, tally>>
        /\ publish # None /\ publish.step < 4
        /\ publish' = [publish EXCEPT !.step = publish.step + 1]
        /\ published' = IF publish.step = 3 THEN published \cup {publish.target} ELSE published
    BY <1>4 DEF PublishStep
  <2>2. publish \in Publication
    BY <1>1, <2>1
  <2>3. /\ publish' \in Publication /\ publish'.target = publish.target
        /\ publish'.known = publish.known /\ publish'.step = publish.step + 1
        /\ publish.step \in 1 .. 4 /\ publish.target \in NewVersions
    BY <2>1, <2>2 DEF Publication
  <2>4. publish.target \in Datasets
    BY <2>3 DEF DatasetChoiceAssumption
  <2>5. published \subseteq published' /\ published' \subseteq Datasets
    BY <1>1, <2>1, <2>4
  <2>6. publish'.known \subseteq published'
    BY <1>1, <2>1, <2>3, <2>5
  <2>7. publish'.step = 4 => publish'.target \in published'
    BY <2>1, <2>3
  <2> QED BY <1>2, <2>1, <2>3, <2>5, <2>6, <2>7
<1>5. CASE PublishFails
  BY <1>1, <1>2, <1>5 DEF PublishFails
<1>6. CASE Retarget
  <2> DEFINE items == EnsureRequested(publish.known, publish.target)
  <2>1. /\ UNCHANGED <<published, parent, agent, golden, dialog, preview, back, tally>>
        /\ publish # None /\ publish.step = 4 /\ publish' = None
        /\ picker' = [picker EXCEPT !.listed = items]
        /\ choice' = [choice EXCEPT !.name = publish.target,
                                    !.replaced = choice.replaced \cup {choice.name}]
    BY <1>6 DEF Retarget
  <2>2. items \subseteq published /\ publish.target \in published
    BY <1>1, <2>1 DEF EnsureRequested
  <2> HIDE DEF items
  <2>3. /\ choice' \in [name: SomeDataset, picked: SomeDataset, replaced: SUBSET SomeDataset]
        /\ choice'.name = publish.target /\ choice'.replaced = choice.replaced \cup {choice.name}
    <3>1. choice \in [name: SomeDataset, picked: SomeDataset, replaced: SUBSET SomeDataset]
      BY DEF ChoiceInv, ChoiceTypeOK
    <3>2. publish.target \in SomeDataset
      BY <1>1, <2>2 DEF SomeDataset
    <3> QED BY <2>1, <3>1, <3>2
  <2>4. /\ picker' \in [listed : SUBSET Datasets, more : BOOLEAN, paging : SUBSET Datasets,
                        paged : BOOLEAN, loading : BOOLEAN]
        /\ picker'.listed = items /\ picker'.paging = picker.paging
    BY <1>1, <2>1, <2>2 DEF ChoiceInv, ChoiceShape
  <2>5. ChoiceTypeOK' /\ ChoiceShape'
    BY <1>1, <2>1, <2>2, <2>3, <2>4 DEF ChoiceInv, ChoiceTypeOK, ChoiceShape
  <2>6. ListedArePublished' /\ ChosenIsPublished' /\ ActiveIsForAgent'
    BY <2>1, <2>2, <2>3, <2>4 DEF ChoiceInv, ListedArePublished, ChosenIsPublished, ActiveIsForAgent
  <2>7. PreviewReadsTheChoice' /\ PreviewIsOfTheChoice' /\ ConsentIsHeld'
    BY <2>1, <2>3 DEF ChoiceInv, PreviewReadsTheChoice, PreviewIsOfTheChoice, ConsentIsHeld
  <2> QED BY <2>5, <2>6, <2>7 DEF ChoiceInv
<1> QED BY <1>3, <1>4, <1>5, <1>6

\* Every step keeps the invariant of the choice.
LEMMA ChoiceStepInv ==
    ASSUME DatasetChoiceAssumption, ChoiceInv, [ChoiceNext]_choiceVars
    PROVE  ChoiceInv'
<1>1. CASE UNCHANGED choiceVars
  BY <1>1
  DEF choiceVars, ChoiceInv, ChoiceTypeOK, ChoiceShape, ListedArePublished, ChosenIsPublished,
      ActiveIsForAgent, PreviewReadsTheChoice, PreviewIsOfTheChoice, ConsentIsHeld
<1>2. CASE RefreshInventory \/ LoadArrives \/ OpenPicker \/ LoadMoreDatasets \/ MoreArrives
  BY <1>2, PickerSteps
<1>3. CASE PreviewDataset \/ \E d \in Datasets : PreviewArrives(d)
  BY <1>3, PreviewSteps
<1>4. CASE CloseDialog \/ OpenWriteBack \/ RowsArrive \/ TickRow \/ Consent
  BY <1>4, WriteBackSteps
<1>5. CASE Commit \/ CommitWrites \/ CommitFails
  BY <1>5, CommitSteps
<1>6. CASE PublishVersion \/ PublishStep \/ PublishFails \/ Retarget
  BY <1>6, PublishSteps
<1>7. CASE \/ \E d \in Datasets : ChooseDataset(d)
           \/ \E a \in Agent : PickAgent(a)
           \/ AskGolden
           \/ \E g \in golden : GoldenArrives(g) \/ GoldenFails(g)
  BY <1>7, ChoosingSteps
<1> QED BY <1>1, <1>2, <1>3, <1>4, <1>5, <1>6, <1>7 DEF ChoiceNext

\* The invariant of the choice, for any data sets, agents, versions and reads.
LEMMA ChoiceInvHolds ==
    ASSUME DatasetChoiceAssumption
    PROVE  ChoiceSpec => []ChoiceInv
<1>1. ChoiceInit => ChoiceInv
  BY ChoiceInitInv
<1>2. ChoiceInv /\ [ChoiceNext]_choiceVars => ChoiceInv'
  BY ChoiceStepInv
<1> QED BY <1>1, <1>2, PTL DEF ChoiceSpec

\* The picker, the choice, the preview and the versions keep their types.
THEOREM ChoiceTypesCorrect ==
    ASSUME DatasetChoiceAssumption
    PROVE  ChoiceSpec => []ChoiceTypeOK
<1>1. ChoiceInv => ChoiceTypeOK
  BY DEF ChoiceInv
<1> QED BY <1>1, ChoiceInvHolds, PTL

\* EvaluationWorkbench: whatever reads overtake each other, what is chosen is published,
\* the rows previewed are of what is chosen or was until a publication replaced it, and
\* each consent makes at most one draft.
THEOREM ChoicesAreTrue ==
    ASSUME DatasetChoiceAssumption
    PROVE  ChoiceSpec => []ChoiceIsTrue
<1>1. ASSUME ChoiceInv
      PROVE  tally.drafts <= tally.consents
  <2>1. tally.drafts \in Nat /\ tally.consents \in Nat
    BY <1>1 DEF ChoiceInv, ChoiceShape
  <2>2. tally.drafts + (IF back.consent THEN 1 ELSE 0) <= tally.consents
    BY <1>1 DEF ChoiceInv, ConsentIsHeld
  <2> QED BY <2>1, <2>2
<1>2. ChoiceInv => ChoiceIsTrue
  BY <1>1 DEF ChoiceInv, ChoiceIsTrue, OneDraftPerConsent
<1> QED BY <1>2, ChoiceInvHolds, PTL

\* useAgentGoldenDataset: a golden data set that arrives late, after another agent or data
\* set was picked, is never chosen.
THEOREM GoldenIsForItsAgent ==
    ASSUME DatasetChoiceAssumption
    PROVE  ChoiceSpec => [][GoldenIsForThisAgent]_choiceVars
<1>1. ASSUME ChoiceInv, ChoiceNext
      PROVE  GoldenIsForThisAgent
  <2> SUFFICES ASSUME choice'.picked # choice.picked, dialog # "picker"
               PROVE  choice'.picked = Golden[agent]
    BY DEF GoldenIsForThisAgent
  <2>1. CASE \E g \in golden : GoldenArrives(g)
    <3>1. PICK g \in golden : GoldenArrives(g)
      BY <2>1
    <3>2. g.active /\ choice' = [name |-> Golden[g.for], picked |-> Golden[g.for], replaced |-> {}]
      BY <3>1 DEF GoldenArrives, Wanted
    <3>3. g.for = agent
      BY <1>1, <3>2 DEF ChoiceInv, ActiveIsForAgent
    <3> QED BY <3>2, <3>3
  <2>2. CASE Retarget
    <3>1. choice' = [choice EXCEPT !.name = publish.target,
                                   !.replaced = choice.replaced \cup {choice.name}]
      BY <2>2 DEF Retarget
    <3>2. choice \in [name: SomeDataset, picked: SomeDataset, replaced: SUBSET SomeDataset]
      BY <1>1 DEF ChoiceInv, ChoiceTypeOK
    <3> QED BY <3>1, <3>2
  <2>3. CASE \E d \in Datasets : ChooseDataset(d)
    BY <2>3 DEF ChooseDataset
  <2>4. CASE UNCHANGED choice
    BY <2>4
  <2> QED
    BY <1>1, <2>1, <2>2, <2>3, <2>4
    DEF ChoiceNext, RefreshInventory, LoadArrives, OpenPicker, LoadMoreDatasets, MoreArrives,
        PreviewDataset, CloseDialog, AskGolden, OpenWriteBack, RowsArrive, TickRow, Consent,
        Commit, CommitWrites, CommitFails, PublishVersion, PublishStep, PublishFails,
        PreviewArrives, PickAgent, GoldenFails
<1>2. ASSUME ChoiceInv, [ChoiceNext]_choiceVars
      PROVE  [GoldenIsForThisAgent]_choiceVars
  BY <1>1, <1>2
<1> QED BY <1>2, ChoiceInvHolds, PTL DEF ChoiceSpec
================================================================================
