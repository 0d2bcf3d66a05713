--------------------------- MODULE ExperimentsList ---------------------------
(***************************************************************************)
(* The experiments tab (app/experiments/page.tsx): the paged list of       *)
(* workspaces with its archive (ExperimentsView), the runs an expanded row *)
(* shows (ExperimentsTable), and the dialog that makes an experiment out   *)
(* of the run history (CreateFromRunsDialog).                              *)
(*                                                                         *)
(* A request is answered in one step and returns in another; what it saw   *)
(* is in `saw', "failed" when it was refused or lost.                      *)
(***************************************************************************)
EXTENDS Integers, Sequences, SequencesExt, FiniteSets, FiniteSetsExt

CONSTANTS
    Experiment,     \* the workspaces, as a sequence: newest first
    History,        \* the run history, as a sequence: newest first
    EvaluationOf,   \* the evaluation of each run
    BasisOf,        \* its comparison basis
    WorkspaceOf,    \* the workspace an evaluation was promoted to, or Nothing
    Name,           \* the names typed
    Nothing,
    PageSize,       \* EXPERIMENTS_PER_PAGE; 20
    RunsPerLoad,    \* 100
    MaxPicked,      \* 4
    MaxLoads, MaxActs   \* bounds

VARIABLES
    archived,   \* the archived workspaces of the backend
    created,    \* the experiments this page has created or filled, in order
    view,       \* lifecycle and page chosen
    list,       \* rows, total, loading, error; `of' is the view the rows answer
    loads,      \* the list's requests; only the last one is live
    changes,    \* archive and restore calls under way
    table,      \* the expanded rows and what their panels show
    history,    \* the runs loaded for the dialog
    runLoads,   \* their requests
    dialog,     \* Nothing, or the form
    acts

listVars == <<archived, view, list, loads, changes, table>>
dialogVars == <<created, history, runLoads, dialog>>
experimentsVars == <<listVars, dialogVars, acts>>

Act == acts < MaxActs /\ acts' = acts + 1
Evaluation == {EvaluationOf[r] : r \in ToSet(History)}
AtMost(s, n) == SubSeq(s, 1, IF Len(s) < n THEN Len(s) ELSE n)

-----------------------------------------------------------------------------
(* The list *)

\* listExperimentWorkspaces: one page of one lifecycle, and the unpaged total.
Listed(v) == SelectSeq(Experiment, LAMBDA e : (e \in archived) = (v.lifecycle = "archived"))
PageOf(v) == [rows |-> SubSeq(Listed(v), (v.page - 1) * PageSize + 1,
                              Min({v.page * PageSize, Len(Listed(v))})),
              total |-> Len(Listed(v))]

\* The cleanup of the load effect, and the load that follows it; a load takes
\* the table down, and with it what its rows had open.
Superseded(ls) == [i \in DOMAIN ls |-> [ls[i] EXCEPT !.live = FALSE]]
Closed == [open |-> {}, panel |-> [e \in ToSet(Experiment) |-> "unread"], reads |-> {}]
Load(v, ls) ==
    /\ Len(ls) < MaxLoads
    /\ view' = v
    /\ loads' = Append(Superseded(ls), [live |-> TRUE, of |-> v, saw |-> Nothing])
    /\ list' = [list EXCEPT !.loading = TRUE, !.error = FALSE]
    /\ table' = Closed

LoadAnswered(i) ==
    /\ loads[i].saw = Nothing
    /\ \E ok \in BOOLEAN :
          loads' = [loads EXCEPT ![i].saw = [ok |-> ok, answer |-> PageOf(loads[i].of)]]
    /\ UNCHANGED <<archived, view, list, changes, table, dialogVars, acts>>

\* loadMoreRuns; the dialog's effect asks for the first page of the history once
\* the tenant is known.
AskRuns(offset) ==
    /\ Len(runLoads) < MaxLoads
    /\ runLoads' = Append(runLoads, [offset |-> offset])
    /\ history' = [history EXCEPT !.loading = TRUE, !.error = FALSE]
FirstRuns == IF ~history.read THEN AskRuns(0) ELSE UNCHANGED <<history, runLoads>>

Counts(l) == l.live
\* An empty page past the first falls back on the first.
Stranded(rows, page) == rows = <<>> /\ page > 1
LoadReturns(i) ==
    LET l == loads[i]
        shown == [rows |-> l.saw.answer.rows, total |-> l.saw.answer.total, loading |-> FALSE,
                  error |-> FALSE, of |-> l.of, known |-> TRUE]
    IN /\ l.saw # Nothing
       /\ IF ~Counts(l) THEN loads' = RemoveAt(loads, i) /\ UNCHANGED <<view, list, table>>
          ELSE IF ~l.saw.ok
          THEN /\ list' = [list EXCEPT !.loading = FALSE, !.error = TRUE]
               /\ loads' = RemoveAt(loads, i) /\ UNCHANGED <<view, table>>
          ELSE IF Stranded(l.saw.answer.rows, view.page)
          THEN /\ view' = [view EXCEPT !.page = 1]
               /\ loads' = Append(RemoveAt(loads, i),
                                  [live |-> TRUE, of |-> [view EXCEPT !.page = 1], saw |-> Nothing])
               /\ list' = [shown EXCEPT !.loading = TRUE] /\ table' = Closed
          ELSE list' = shown /\ loads' = RemoveAt(loads, i) /\ UNCHANGED <<view, table>>
       /\ IF Counts(l) /\ l.saw.ok /\ ~list.known /\ dialog # Nothing THEN FirstRuns
          ELSE UNCHANGED <<history, runLoads>>
    /\ UNCHANGED <<archived, changes, created, dialog, acts>>

Shown == ~list.loading /\ ~list.error
PageCount == Max({1, (list.total + PageSize - 1) \div PageSize})

\* The lifecycle control starts over at the first page.
ChooseLifecycle(lifecycle) ==
    /\ Act /\ dialog = Nothing /\ lifecycle # view.lifecycle
    /\ Load([lifecycle |-> lifecycle, page |-> 1], loads)
    /\ UNCHANGED <<archived, changes, dialogVars>>
TurnPage(page) ==
    /\ Act /\ dialog = Nothing /\ Shown /\ list.rows # <<>>
    /\ page \in 1..PageCount /\ page - view.page \in {1, -1}
    /\ Load([view EXCEPT !.page = page], loads)
    /\ UNCHANGED <<archived, changes, dialogVars>>
Retry ==
    /\ Act /\ dialog = Nothing /\ list.error /\ ~list.loading
    /\ Load(view, loads)
    /\ UNCHANGED <<archived, changes, dialogVars>>

\* setArchived: no flag holds a second click back.
SetArchived(e) ==
    /\ Act /\ dialog = Nothing /\ Shown /\ Contains(list.rows, e)
    /\ changes' = Append(changes, [of |-> e, to |-> view.lifecycle, saw |-> Nothing])
    /\ UNCHANGED <<archived, view, list, loads, table, dialogVars>>
ChangeAnswered(i) ==
    /\ changes[i].saw = Nothing
    /\ \E ok \in BOOLEAN :
          /\ changes' = [changes EXCEPT ![i].saw = [ok |-> ok]]
          /\ archived' = IF ~ok THEN archived
                         ELSE IF changes[i].to = "active" THEN archived \cup {changes[i].of}
                         ELSE archived \ {changes[i].of}
    /\ UNCHANGED <<view, list, loads, table, dialogVars, acts>>
ChangeReturns(i) ==
    /\ changes[i].saw # Nothing
    /\ changes' = RemoveAt(changes, i)
    /\ IF changes[i].saw.ok THEN Load(view, loads) ELSE UNCHANGED <<view, list, loads, table>>
    /\ UNCHANGED <<archived, dialogVars, acts>>

\* toggleExpanded: a row's runs are read when it is first opened, and again when
\* the last read failed.
MustRead(state) == state \in {"unread", "error"}
Toggle(e) ==
    /\ Act /\ dialog = Nothing /\ Shown /\ Contains(list.rows, e)
    /\ table' = IF e \in table.open THEN [table EXCEPT !.open = @ \ {e}]
                ELSE IF MustRead(table.panel[e])
                THEN [open |-> table.open \cup {e}, panel |-> [table.panel EXCEPT ![e] = "loading"],
                      reads |-> table.reads \cup {e}]
                ELSE [table EXCEPT !.open = @ \cup {e}]
    /\ UNCHANGED <<archived, view, list, loads, changes, dialogVars>>
RetryPanel(e) ==
    /\ Act /\ dialog = Nothing /\ Shown /\ e \in table.open /\ table.panel[e] = "error"
    /\ table' = [table EXCEPT !.panel[e] = "loading", !.reads = @ \cup {e}]
    /\ UNCHANGED <<archived, view, list, loads, changes, dialogVars>>
PanelReturns(e, state) ==
    /\ e \in table.reads
    /\ table' = [table EXCEPT !.panel[e] = state, !.reads = @ \ {e}]
    /\ UNCHANGED <<archived, view, list, loads, changes, dialogVars, acts>>

-----------------------------------------------------------------------------
(* The run history of the dialog *)

\* loadMoreRuns: an answer for offset 0 replaces what is there, a later one adds
\* what is not there yet; nothing tells an overtaken answer.
Window(offset) == SubSeq(History, offset + 1, Min({offset + RunsPerLoad, Len(History)}))
AllOf(offset) == Window(offset)
Fresh(offset) == SelectSeq(Window(offset), LAMBDA r : ~Contains(history.runs, r))
RunsReturn(i, ok) ==
    LET offset == runLoads[i].offset
    IN /\ history' = IF ~ok THEN [history EXCEPT !.loading = FALSE, !.error = TRUE]
                     ELSE [history EXCEPT !.runs = IF offset = 0 THEN Window(0) ELSE @ \o Fresh(offset),
                                          !.loading = FALSE, !.read = TRUE]
       /\ runLoads' = RemoveAt(runLoads, i)
       /\ UNCHANGED <<listVars, created, dialog, acts>>
LoadMoreRuns ==
    /\ dialog # Nothing /\ dialog.stage # "left" /\ ~history.loading
    /\ history.error \/ ~history.read \/ Len(history.runs) < Len(History)
    /\ Act /\ AskRuns(Len(history.runs))
    /\ UNCHANGED <<listVars, created, dialog>>

-----------------------------------------------------------------------------
(* The dialog *)

Form == [evaluation |-> Nothing, picked |-> <<>>, baseline |-> Nothing, existing |-> Nothing,
         useExisting |-> TRUE, asking |-> {}, pending |-> FALSE, name |-> Nothing,
         confirmed |-> Nothing, stage |-> "editing"]
Editing == dialog # Nothing /\ dialog.stage = "editing" /\ ~dialog.pending

\* The effect of createOpen: the first page of the history, unless it was read.
OpenDialog ==
    /\ Act /\ dialog = Nothing
    /\ dialog' = Form
    /\ IF list.known THEN FirstRuns ELSE UNCHANGED <<history, runLoads>>
    /\ UNCHANGED <<listVars, created>>
CloseDialog ==
    /\ Act /\ Editing
    /\ dialog' = Nothing
    /\ UNCHANGED <<listVars, created, history, runLoads>>

\* The first of the picked runs, as far as it is loaded, sets the basis.
Basis == IF dialog.picked # <<>> /\ Contains(history.runs, dialog.picked[1])
         THEN BasisOf[dialog.picked[1]] ELSE Nothing
Offered(r) == Contains(history.runs, r) /\ EvaluationOf[r] = dialog.evaluation
MayPick(r) == Basis = Nothing \/ BasisOf[r] = Basis
Pick(r) ==
    /\ Act /\ Editing /\ Offered(r) /\ ~Contains(dialog.picked, r)
    /\ MayPick(r) /\ Len(dialog.picked) < MaxPicked
    /\ dialog' = [dialog EXCEPT !.picked = Append(@, r),
                                !.baseline = IF @ = Nothing THEN r ELSE @]
    /\ UNCHANGED <<listVars, created, history, runLoads>>
NextBaseline(form, r) ==
    LET rest == SelectSeq(form.picked, LAMBDA p : p # r) IN
    IF form.baseline # r THEN form.baseline ELSE IF rest = <<>> THEN Nothing ELSE rest[1]
Unpick(r) ==
    /\ Act /\ Editing /\ Contains(dialog.picked, r) /\ Offered(r)
    /\ MayPick(r)
    /\ dialog' = [dialog EXCEPT !.picked = SelectSeq(@, LAMBDA p : p # r),
                                !.baseline = NextBaseline(dialog, r)]
    /\ UNCHANGED <<listVars, created, history, runLoads>>
ChooseBaseline(r) ==
    /\ Act /\ Editing /\ Contains(dialog.picked, r) /\ Offered(r)
    /\ dialog' = [dialog EXCEPT !.baseline = r]
    /\ UNCHANGED <<listVars, created, history, runLoads>>

\* applyEvaluation, asked for first when runs are picked; its effect drops the
\* suggestion of the evaluation before and asks for the new one's workspace.
\* One level of `asking' per evaluation: a request that no longer counts is gone.
Applied(form, evaluation) ==
    [form EXCEPT !.evaluation = evaluation, !.picked = <<>>, !.baseline = Nothing,
                 !.existing = Nothing, !.pending = FALSE,
                 !.asking = IF evaluation = Nothing THEN {} ELSE {evaluation}]
ChooseEvaluation(evaluation) ==
    /\ Act /\ Editing /\ evaluation # dialog.evaluation
    /\ evaluation # Nothing => \E r \in ToSet(history.runs) : EvaluationOf[r] = evaluation
    /\ dialog' = IF dialog.picked # <<>> THEN [dialog EXCEPT !.pending = TRUE]
                 ELSE Applied(dialog, evaluation)
    /\ UNCHANGED <<listVars, created, history, runLoads>>
SwitchEvaluation(evaluation) ==
    /\ dialog # Nothing /\ dialog.pending /\ evaluation # dialog.evaluation
    /\ dialog' = Applied(dialog, evaluation)
    /\ UNCHANGED <<listVars, created, history, runLoads, acts>>
KeepSelection ==
    /\ dialog # Nothing /\ dialog.pending
    /\ dialog' = [dialog EXCEPT !.pending = FALSE]
    /\ UNCHANGED <<listVars, created, history, runLoads, acts>>

\* An archived workspace is not suggested.
Suggested(evaluation) ==
    /\ dialog # Nothing /\ evaluation \in dialog.asking
    /\ LET w == WorkspaceOf[evaluation] IN
       dialog' = IF w = Nothing \/ w \in archived THEN [dialog EXCEPT !.asking = @ \ {evaluation}]
                 ELSE [dialog EXCEPT !.asking = @ \ {evaluation}, !.existing = w,
                                     !.useExisting = TRUE]
    /\ UNCHANGED <<listVars, created, history, runLoads, acts>>
ToggleExisting ==
    /\ Act /\ Editing /\ dialog.existing # Nothing /\ dialog.picked # <<>>
    /\ dialog' = [dialog EXCEPT !.useExisting = ~@]
    /\ UNCHANGED <<listVars, created, history, runLoads>>
TypeName(name) ==
    /\ Act /\ Editing /\ name # dialog.name
    /\ dialog' = [dialog EXCEPT !.name = name]
    /\ UNCHANGED <<listVars, created, history, runLoads>>

\* submit: add to the suggested workspace; else look for the name, unless a
\* second submit confirms it, and create.
Attaches == dialog.picked # <<>> /\ dialog.existing # Nothing /\ dialog.useExisting
Confirms(form) == form.confirmed = form.name
Submit ==
    /\ Act /\ Editing /\ (dialog.name # Nothing \/ Attaches)
    /\ dialog' = [dialog EXCEPT !.stage = IF Attaches THEN "attaching"
                                          ELSE IF Confirms(dialog) THEN "creating" ELSE "checking"]
    /\ UNCHANGED <<listVars, created, history, runLoads>>
Taken(name) == \E i \in DOMAIN created : created[i].name = name
NameChecked ==
    /\ dialog # Nothing /\ dialog.stage = "checking"
    /\ dialog' = IF Taken(dialog.name)
                 THEN [dialog EXCEPT !.confirmed = dialog.name, !.stage = "editing"]
                 ELSE [dialog EXCEPT !.stage = "creating"]
    /\ UNCHANGED <<listVars, created, history, runLoads, acts>>

\* The backend refuses runs that do not share a basis.  The answer may be lost
\* after the experiment was made.
OneBasis(runs) == Cardinality({BasisOf[r] : r \in runs}) <= 1
Record ==
    [into |-> IF dialog.stage = "attaching" THEN dialog.existing ELSE Nothing,
     name |-> IF dialog.stage = "attaching" THEN Nothing ELSE dialog.name,
     runs |-> ToSet(dialog.picked), baseline |-> dialog.baseline,
     evaluation |-> dialog.evaluation,
     again |-> dialog.stage = "creating" /\ Taken(dialog.name),
     warned |-> dialog.confirmed = dialog.name]
SubmitAnswered(answer) ==
    /\ dialog # Nothing /\ dialog.stage \in {"attaching", "creating"}
    /\ answer # "refused" => OneBasis(ToSet(dialog.picked))
    /\ created' = IF answer = "refused" THEN created ELSE Append(created, Record)
    /\ dialog' = [dialog EXCEPT !.stage = IF answer = "made" THEN "left" ELSE "editing"]
    /\ UNCHANGED <<listVars, history, runLoads, acts>>

-----------------------------------------------------------------------------
FirstView == [lifecycle |-> "active", page |-> 1]
ExperimentsInit ==
    /\ archived \in SUBSET {Experiment[1]} /\ created = <<>> /\ view = FirstView
    /\ list = [rows |-> <<>>, total |-> 0, loading |-> TRUE, error |-> FALSE, of |-> FirstView,
               known |-> FALSE]
    /\ loads = <<[live |-> TRUE, of |-> FirstView, saw |-> Nothing]>>
    /\ changes = <<>> /\ table = Closed
    /\ history = [runs |-> <<>>, read |-> FALSE, loading |-> FALSE, error |-> FALSE]
    /\ runLoads = <<>> /\ dialog = Nothing /\ acts = 0

ListNext ==
    \/ \E i \in DOMAIN loads : LoadAnswered(i) \/ LoadReturns(i)
    \/ \E i \in DOMAIN changes : ChangeAnswered(i) \/ ChangeReturns(i)
    \/ \E lifecycle \in {"active", "archived"} : ChooseLifecycle(lifecycle)
    \/ \E page \in 1..Len(Experiment) : TurnPage(page)
    \/ Retry
    \/ \E e \in ToSet(Experiment) :
          \/ SetArchived(e) \/ Toggle(e) \/ RetryPanel(e)
          \/ \E state \in {"ready", "error"} : PanelReturns(e, state)
DialogNext ==
    \/ OpenDialog \/ CloseDialog \/ LoadMoreRuns \/ KeepSelection \/ ToggleExisting \/ Submit
    \/ NameChecked
    \/ \E i \in DOMAIN runLoads, ok \in BOOLEAN : RunsReturn(i, ok)
    \/ \E r \in ToSet(History) : Pick(r) \/ Unpick(r) \/ ChooseBaseline(r)
    \/ \E evaluation \in Evaluation \cup {Nothing} :
          ChooseEvaluation(evaluation) \/ SwitchEvaluation(evaluation) \/ Suggested(evaluation)
    \/ \E name \in Name : TypeName(name)
    \/ \E answer \in {"made", "lost", "refused"} : SubmitAnswered(answer)
ExperimentsNext == ListNext \/ DialogNext
ExperimentsSpec == ExperimentsInit /\ [][ExperimentsNext]_experimentsVars

-----------------------------------------------------------------------------
\* The shape of every variable.
ExperimentsTypeOK ==
    /\ archived \subseteq ToSet(Experiment) /\ acts \in 0..MaxActs
    /\ view.lifecycle \in {"active", "archived"} /\ view.page \in 1..Len(Experiment)
    /\ Len(list.rows) <= PageSize /\ Len(loads) <= MaxLoads /\ Len(runLoads) <= MaxLoads
    /\ table.open \subseteq ToSet(Experiment)
    /\ IsInjective(history.runs) /\ ToSet(history.runs) \subseteq ToSet(History)
    /\ dialog # Nothing => Len(dialog.picked) <= MaxPicked /\ IsInjective(dialog.picked)

\* The rows on display answer the lifecycle and the page chosen, however late a
\* list for another view comes back, and nobody is left on an empty page.
RowsAreOfTheView ==
    Shown => list.of = view /\ (list.rows = <<>> => view.page = 1)

\* A row never waits for its runs without a read on its way.
PanelsAreRead == \A e \in table.open : table.panel[e] = "loading" => e \in table.reads

\* What the form would send hangs together: the runs are of the evaluation
\* chosen, the baseline is one of them, and the workspace they would join is the
\* one of that evaluation.
FormHangsTogether ==
    dialog # Nothing =>
        /\ \A r \in ToSet(dialog.picked) : EvaluationOf[r] = dialog.evaluation
        /\ IF dialog.picked = <<>> THEN dialog.baseline = Nothing
           ELSE Contains(dialog.picked, dialog.baseline)
        /\ dialog.existing # Nothing => dialog.existing = WorkspaceOf[dialog.evaluation]

\* A name is given to a second experiment only after the reader was told it is
\* taken and submitted it again, a retry after a lost answer included.
SecondNameWasConfirmed ==
    \A i \in DOMAIN created : created[i].again => created[i].warned

ExperimentsAreTrue ==
    /\ RowsAreOfTheView
    /\ PanelsAreRead
    /\ FormHangsTogether
    /\ SecondNameWasConfirmed

=============================================================================
