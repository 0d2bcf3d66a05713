----------------------------- MODULE RunPrefill -----------------------------
(***************************************************************************)
(* Where the evaluation form gets its first values (EvaluationWorkbench,   *)
(* EvaluationLauncher, run-form-memory): an unfinished draft kept in the   *)
(* browser's session storage, the configuration of the run being rerun or  *)
(* the form remembered when it started, a prepared setup, an agent entry,  *)
(* an Assignment link.  The catalogues load together and fail apart; the   *)
(* prefills are one-shot effects over what the load brought.               *)
(*                                                                         *)
(* An effect runs before the next event, so an action takes the prefill    *)
(* with it; what an effect leaves to a timer is an action.  The dataset is *)
(* DatasetChoice's, the readiness check RunReadiness's; the scalar fields  *)
(* (name, labels, judge, depth) are restored as the agent is.              *)
(***************************************************************************)
EXTENDS Integers, Sequences, SequencesExt

CONSTANTS
    Check, DefaultChecks, PreparedChecks,
    Project,        \* the system Projects
    PreparedProject,
    Agent,
    BoundTo,        \* [Agent -> Project \cup {None}], system_project_id
    AgentChecks,    \* the runnable checks an agent recommends
    SavedAssignment, \* pairs <<id, version>>
    AssignedTo,     \* [SavedAssignment -> Project]
    Manifest,       \* the checks an Assignment resolves to
    None,
    Capacity,       \* how many remembered forms writeMemory keeps; 40
    MaxRuns, MaxActs, MaxVisits \* bounds

Setup == [agent: Agent \cup {None}, checks: SUBSET Check, project: Project \cup {None},
          id: {a[1] : a \in SavedAssignment} \cup {None},
          version: {a[2] : a \in SavedAssignment} \cup {None}]

PrefillAssumption ==
    /\ None \notin Setup
    /\ DefaultChecks \subseteq Check /\ PreparedChecks \subseteq Check /\ Manifest \subseteq Check
    /\ PreparedProject \in Project /\ AgentChecks \subseteq Check
    /\ BoundTo \in [Agent -> Project \cup {None}]
    /\ AssignedTo \in [SavedAssignment -> Project] /\ Manifest # {}
    /\ Capacity \in Nat /\ MaxRuns \in Nat /\ MaxActs \in Nat /\ MaxVisits \in Nat

VARIABLES
    server,     \* the Projects and Assignments not archived
    runs,       \* the runs started here, with what they were asked to do
    store,      \* the session storage: draft and remembered forms
    page,       \* the workbench on screen, or None
    form,       \* Form
    launches,   \* the starts on their way, those of left pages included
    acts, visits

prefillVars == <<server, runs, store, page, form, launches, acts, visits>>

-----------------------------------------------------------------------------
\* evaluateHrefFromRun: the link of Rerun names the run it starts from; the fields
\* it carries besides are that run's.
RerunLinks == [way: {"rerun"}, run: 1 .. MaxRuns]
Entry == [way: {"fresh", "prepared"}] \cup RerunLinks
         \cup [way: {"agent"}, agent: Agent] \cup [way: {"link"}, assignment: SavedAssignment]

\* DEFAULT_METRICS and the reset when a kind's workbench mounts
EmptyForm == [agent |-> None, checks |-> DefaultChecks, project |-> None,
              id |-> None, version |-> None]

\* lockedByAssignment, lockingAssignment: an id with a version locks the form
\* even when the list has no such Assignment.
Locked(f) == f.id # None /\ f.version # None

Assign(f, a) == [f EXCEPT !.id = a[1], !.version = a[2], !.project = AssignedTo[a]]

(* run-form-memory *)

\* rememberRunForm, writeMemory: the first Capacity entries are kept.
Remembered(memory, run, f) ==
    LET known == {i \in DOMAIN memory : memory[i].run = run}
        entry == [run |-> run, form |-> [f EXCEPT !.id = None, !.version = None]]
        next == IF known = {} THEN Append(memory, entry)
                ELSE [memory EXCEPT ![CHOOSE i \in known : TRUE] = entry]
    IN SubSeq(next, 1, IF Len(next) < Capacity THEN Len(next) ELSE Capacity)

\* recallRunForm
Recalled(memory, run) ==
    LET known == {i \in DOMAIN memory : memory[i].run = run}
    IN IF known = {} THEN None ELSE memory[CHOOSE i \in known : TRUE].form

-----------------------------------------------------------------------------
(* The prefills *)

\* restoredProjectState: a Project that is not listed is not restored, and the
\* field says so.
RestoredProject(p, wanted) ==
    IF wanted = None THEN [project |-> None, notice |-> FALSE]
    ELSE IF wanted \in p.projects THEN [project |-> wanted, notice |-> FALSE]
    ELSE [project |-> None, notice |-> TRUE]

\* The rerun's source: its configuration, or what this browser remembers of it.
Source(p) ==
    IF p.config = "read" THEN runs[p.entry.run].setup ELSE Recalled(store.memory, p.entry.run)

\* A field the source does not have keeps its value; the checks are those the
\* metric catalogue lists, none if it could not be read.
RestoreRun(p, f) ==
    LET src == Source(p)
        back == IF src = None THEN [project |-> None, notice |-> FALSE]
                ELSE RestoredProject(p, src.project)
        assigned == p.config = "read" /\ src # None /\ Locked(src)
        base == IF src = None THEN [f EXCEPT !.id = None, !.version = None]
                ELSE [f EXCEPT
                        !.agent = IF src.agent = None THEN f.agent ELSE src.agent,
                        !.checks = IF src.checks = {} THEN f.checks ELSE src.checks \cap p.metrics,
                        !.project = IF back.project = None THEN f.project ELSE back.project,
                        !.id = IF assigned THEN src.id ELSE None,
                        !.version = IF assigned THEN src.version ELSE None]
    IN [form |-> IF assigned /\ <<base.id, base.version>> \in p.assignments
                 THEN Assign(base, <<base.id, base.version>>) ELSE base,
        page |-> [p EXCEPT !.prefilled = TRUE, !.notice = back.notice,
                           !.whole = p.failed = {}]]

FollowAgent(p, f, agent) ==
    [f EXCEPT !.agent = agent, !.checks = IF AgentChecks \cap p.metrics = {} THEN @
                                         ELSE AgentChecks \cap p.metrics,
              !.project = IF BoundTo[agent] \in p.projects THEN BoundTo[agent] ELSE None]

\* The form prefill.  An agent entry waits for its agent to be listed, unless
\* the user has started to edit; the others take their one chance.
Prefill(p, f) ==
    LET done == [form |-> f, page |-> [p EXCEPT !.prefilled = TRUE]]
    IN IF p.loading \/ p.prefilled \/ p.config = "reading" \/ p.entry.way \in {"fresh", "link"}
       THEN [form |-> f, page |-> p]
       ELSE IF p.entry.way = "rerun" THEN RestoreRun(p, f)
       ELSE IF p.dirty THEN done
       ELSE IF p.entry.way = "agent"
       THEN IF "agents" \in p.failed THEN [form |-> f, page |-> [p EXCEPT !.notice = TRUE]]
            ELSE [form |-> FollowAgent(p, f, p.entry.agent),
                  page |-> [p EXCEPT !.prefilled = TRUE, !.notice = FALSE]]
       ELSE \* prepared
            [form |-> [f EXCEPT !.checks = PreparedChecks \cap p.metrics,
                                !.project = IF PreparedProject \in p.projects
                                            THEN PreparedProject ELSE None],
             page |-> [p EXCEPT !.prefilled = TRUE,
                                !.notice = PreparedProject \notin p.projects]]

\* The draft is looked at once, after the first load, and only by a visit that
\* brings no values of its own.
MayTakeDraft(entry) == entry.way \in {"fresh", "link"}
LookForDraft(p) ==
    IF p.loading \/ p.draftSeen THEN p
    ELSE [p EXCEPT !.draftSeen = TRUE,
                   !.restoring = IF MayTakeDraft(p.entry) THEN store.draft ELSE None]

\* The effects after a change: the prefill, the link's timer, the draft's.
SettleForm(p, f) ==
    LET filled == Prefill(p, f)
        q == filled.page
    IN /\ form' = filled.form
       /\ page' = LookForDraft([q EXCEPT !.linkDue = @ \/ (~q.loading /\ q.entry.way = "link"
                                                           /\ ~q.linkSeen)])

-----------------------------------------------------------------------------
Act == acts < MaxActs /\ acts' = acts + 1
OnPage == page # None

\* The launcher mounts a workbench of its own for each kind and source run,
\* which loads at once.
Open(entry) ==
    /\ page = None /\ visits < MaxVisits
    /\ entry.way = "rerun" => entry.run \in DOMAIN runs
    /\ visits' = visits + 1
    /\ page' = [entry |-> entry, loading |-> TRUE, failed |-> {}, metrics |-> {},
                projects |-> {}, assignments |-> {},
                config |-> IF entry.way = "rerun" THEN "reading" ELSE "none",
                prefilled |-> FALSE, whole |-> FALSE, notice |-> FALSE, dirty |-> FALSE,
                draftSeen |-> FALSE, restoring |-> None,
                linkSeen |-> FALSE, linkDue |-> FALSE, busy |-> FALSE]
    /\ form' = EmptyForm
    /\ UNCHANGED <<server, runs, store, launches, acts>>

\* Refresh, Retry setup: disabled while a load is on its way.  The timers of
\* the effects that depend on the load are cleared.
RefreshSetup ==
    /\ OnPage /\ Act
    /\ ~page.loading
    /\ page' = [page EXCEPT !.loading = TRUE, !.failed = {}, !.notice = FALSE,
                            !.restoring = None, !.linkDue = FALSE]
    /\ UNCHANGED <<server, runs, store, form, launches, visits>>

\* load: each catalogue answers or fails on its own; what the form holds and
\* the lists no longer have is dropped, an Assignment's id and version apart.
Pruned(f, p) ==
    [f EXCEPT !.project = IF @ \in p.projects THEN @ ELSE None,
              !.id = IF \E a \in p.assignments : a[1] = @ THEN @ ELSE None,
              !.version = IF \E a \in p.assignments : a[2] = @ THEN @ ELSE None]
LoadReturns(failing) ==
    /\ OnPage /\ page.loading
    /\ LET p == [page EXCEPT
                    !.loading = FALSE, !.failed = failing,
                    !.metrics = IF "metrics" \in failing THEN {} ELSE Check,
                    !.projects = IF "context" \in failing THEN {} ELSE server.projects,
                    !.assignments = IF "context" \in failing THEN {} ELSE server.assignments]
       IN SettleForm(p, Pruned(form, p))
    /\ UNCHANGED <<server, runs, store, launches, acts, visits>>

\* The rerun effect reads the run's configuration, or says it could not.
ConfigurationSettles(outcome) ==
    /\ OnPage /\ page.config = "reading"
    /\ SettleForm([page EXCEPT !.config = outcome], form)
    /\ UNCHANGED <<server, runs, store, launches, acts, visits>>

\* The link's timer: an Assignment that is not listed is not selected.
LinkDue ==
    /\ OnPage /\ page.linkDue
    /\ page' = [page EXCEPT !.linkSeen = TRUE, !.linkDue = FALSE]
    /\ form' = IF page.entry.assignment \in page.assignments
               THEN Assign(form, page.entry.assignment) ELSE form
    /\ UNCHANGED <<server, runs, store, launches, acts, visits>>

\* The draft's timer, set after the link's.
DraftDue ==
    /\ OnPage /\ page.restoring # None /\ ~page.linkDue
    /\ form' = [form EXCEPT
                  !.agent = IF page.restoring.agent = None THEN @ ELSE page.restoring.agent,
                  !.checks = IF page.restoring.checks = {} THEN @ ELSE page.restoring.checks,
                  !.project = IF page.restoring.project \in page.projects
                              THEN page.restoring.project ELSE @]
    /\ page' = [page EXCEPT !.restoring = None]
    /\ UNCHANGED <<server, runs, store, launches, acts, visits>>

(* The user *)

Edit(f) ==
    /\ OnPage /\ Act
    /\ SettleForm([page EXCEPT !.dirty = TRUE], f)
    /\ UNCHANGED <<server, runs, store, launches, visits>>

ToggleCheck(c) ==
    /\ OnPage /\ ~Locked(form)
    /\ c \in page.metrics
    /\ Edit([form EXCEPT !.checks = IF c \in @ THEN @ \ {c} ELSE @ \cup {c}])

\* The Project and Assignment controls of the advanced settings.
ChooseProject(p) ==
    /\ OnPage /\ ~Locked(form)
    /\ p \in page.projects
    /\ Edit([form EXCEPT !.project = p])
ChooseAssignment(a) ==
    /\ OnPage /\ a \in page.assignments
    /\ Edit(Assign(form, a))
ClearAssignment ==
    /\ OnPage /\ Locked(form)
    /\ Edit([form EXCEPT !.id = None, !.version = None])

ChooseAgent(agent) ==
    /\ OnPage /\ ~page.loading /\ "agents" \notin page.failed
    /\ Edit([FollowAgent(page, form, agent) EXCEPT !.checks = form.checks])

\* The autosave's timer: a dirty form, the draft looked for, no run started.
\* It watches the fields, so it need only be due while the draft differs.
MaySave == page.dirty /\ page.draftSeen /\ ~page.loading /\ page.entry.way # "prepared"
AutoSave ==
    /\ OnPage /\ MaySave
    /\ store.draft # [form EXCEPT !.id = None, !.version = None]
    /\ store' = [store EXCEPT !.draft = [form EXCEPT !.id = None, !.version = None]]
    /\ UNCHANGED <<server, runs, page, form, launches, acts, visits>>

\* runEvaluation: what the run is asked to do is read when it is clicked.
Run ==
    /\ OnPage /\ Act
    /\ ~page.busy /\ ~page.loading /\ page.failed \cap {"metrics", "agents"} = {}
    /\ form.agent # None /\ (~Locked(form) => form.checks # {})
    /\ Locked(form) => <<form.id, form.version>> \in page.assignments
    /\ page' = [page EXCEPT !.busy = TRUE]
    /\ launches' = Append(launches, [form |-> form, prepared |-> page.entry.way = "prepared",
                                     mine |-> TRUE])
    /\ UNCHANGED <<server, runs, store, form, visits>>

Left(pending) == [i \in DOMAIN pending |-> [pending[i] EXCEPT !.mine = FALSE]]

\* The backend (_bind_explicit_assignment): archived things receive no run, and
\* a run under an Assignment is its Project's, with its checks.
Accepts(f) ==
    /\ f.project \in server.projects \cup {None}
    /\ Locked(f) => /\ <<f.id, f.version>> \in server.assignments
                    /\ f.project \in {None, AssignedTo[<<f.id, f.version>>]}

\* The backend took it: the form is remembered, the draft forgotten, and the
\* router leaves for the run's page, whatever page is on screen by then.
Forgets(l) == ~l.prepared
KeptForm(l) == l.form
RunStarted(i) ==
    /\ Len(runs) < MaxRuns /\ Accepts(launches[i].form)
    /\ LET l == launches[i]
           run == Len(runs) + 1
           setup == IF Locked(l.form) THEN
                        [Assign(l.form, <<l.form.id, l.form.version>>) EXCEPT !.checks = Manifest]
                    ELSE l.form
       IN /\ runs' = Append(runs, [setup |-> setup, form |-> l.form])
          /\ store' = [draft |-> IF Forgets(l) THEN None ELSE store.draft,
                       memory |-> Remembered(store.memory, run, KeptForm(l))]
    /\ launches' = Left(RemoveAt(launches, i))
    /\ page' = None /\ form' = EmptyForm
    /\ UNCHANGED <<server, acts, visits>>

\* describeRunFailure: the form stays, and what the problem names is marked.
RunRefused(i) ==
    /\ page' = IF launches[i].mine THEN [page EXCEPT !.busy = FALSE, !.notice = TRUE] ELSE page
    /\ launches' = RemoveAt(launches, i)
    /\ UNCHANGED <<server, runs, store, form, acts, visits>>

\* guardInAppNavigation asks when the form is dirty; the user may agree.
LeavePage ==
    /\ OnPage
    /\ page' = None /\ form' = EmptyForm
    /\ launches' = Left(launches)
    /\ UNCHANGED <<server, runs, store, acts, visits>>

Archive ==
    /\ Act
    /\ \/ \E p \in server.projects : server' = [server EXCEPT !.projects = @ \ {p}]
       \/ \E a \in server.assignments : server' = [server EXCEPT !.assignments = @ \ {a}]
    /\ UNCHANGED <<runs, store, page, form, launches, visits>>

PrefillInit ==
    /\ server = [projects |-> Project, assignments |-> SavedAssignment]
    /\ runs = <<>>
    /\ store = [draft |-> None, memory |-> <<>>]
    /\ page = None
    /\ form = EmptyForm
    /\ launches = <<>>
    /\ acts = 0
    /\ visits = 0

PrefillNext ==
    \/ \E entry \in Entry : Open(entry)
    \/ RefreshSetup \/ LinkDue \/ DraftDue \/ AutoSave \/ Run \/ LeavePage \/ Archive
    \/ \E failing \in SUBSET {"metrics", "agents", "context"} : LoadReturns(failing)
    \/ \E outcome \in {"read", "failed"} : ConfigurationSettles(outcome)
    \/ \E c \in Check : ToggleCheck(c)
    \/ \E p \in Project : ChooseProject(p)
    \/ \E a \in SavedAssignment : ChooseAssignment(a)
    \/ ClearAssignment
    \/ \E agent \in Agent : ChooseAgent(agent)
    \/ \E i \in DOMAIN launches : RunStarted(i) \/ RunRefused(i)

PrefillSpec == PrefillInit /\ [][PrefillNext]_prefillVars

-----------------------------------------------------------------------------
Workbench ==
    [entry: Entry, loading: BOOLEAN, failed: SUBSET {"metrics", "agents", "context"},
     metrics: SUBSET Check, projects: SUBSET Project, assignments: SUBSET SavedAssignment,
     config: {"none", "reading", "read", "failed"}, prefilled: BOOLEAN, whole: BOOLEAN,
     notice: BOOLEAN, dirty: BOOLEAN, draftSeen: BOOLEAN, restoring: Setup \cup {None},
     linkSeen: BOOLEAN, linkDue: BOOLEAN, busy: BOOLEAN]

\* The state stays in its types.
PrefillTypeOK ==
    /\ server \in [projects: SUBSET Project, assignments: SUBSET SavedAssignment]
    /\ \A k \in DOMAIN runs : runs[k] \in [setup: Setup, form: Setup]
    /\ store.draft \in Setup \cup {None} /\ Len(store.memory) \leq Capacity
    /\ page = None \/ page \in Workbench
    /\ form \in Setup
    /\ \A i \in DOMAIN launches : launches[i] \in [form: Setup, prepared: BOOLEAN, mine: BOOLEAN]

\* A rerun nobody has edited holds what its source run was asked to do, once
\* its configuration was read beside catalogues that all answered: no draft,
\* later load or other entry mixes in.  A Project that is gone by then, or by
\* a later refresh, leaves the field empty.
RerunIsItsSource ==
    (OnPage /\ page.entry.way = "rerun" /\ page.prefilled /\ page.whole /\ ~page.dirty
        /\ page.config = "read") =>
    LET src == runs[page.entry.run].setup
    IN /\ form.agent = src.agent
       /\ form.checks = src.checks
       /\ form.project \in {src.project, None}

\* What is remembered of a run is the form it was started with, though the
\* user may have edited it, or left, before the backend answered.
MemoryIsTheForm ==
    \A i \in DOMAIN store.memory :
        LET entry == store.memory[i]
            f == runs[entry.run].form
        IN entry.form = [f EXCEPT !.id = None, !.version = None]

\* The conjunction the runs check.
PrefillIsTrue == RerunIsItsSource /\ MemoryIsTheForm

\* A prepared evaluation leaves the user's other draft alone: the draft only
\* changes by the autosave of another kind of visit, or as its run starts.
PreparedLeavesDraft ==
    store'.draft # store.draft =>
        \/ OnPage /\ page.entry.way # "prepared" /\ page.dirty
        \/ \E i \in DOMAIN launches : ~launches[i].prepared /\ launches' = Left(RemoveAt(launches, i))

=============================================================================
