---------------------------- MODULE ExperimentPage ----------------------------
(***************************************************************************)
(* The page of one experiment (app/experiments/[id]/page.tsx): it loads    *)
(* the experiment's summary and runs, charts the runs comparable to the    *)
(* baseline (components/experiments/analysis-panel.tsx), lets candidates   *)
(* be picked for a comparison, moves the baseline through audited calls    *)
(* that can be undone, and attaches further runs through a dialog          *)
(* (components/experiments/add-runs-dialog.tsx).  Loads carry no token,    *)
(* other users act on the same experiment, and an attachment is checked    *)
(* and made in two transactions of the backend.                            *)
(***************************************************************************)
EXTENDS Naturals, FiniteSets, SequencesExt

CONSTANTS
    Run, Nothing,
    BasisOf,         \* run -> its recorded comparison basis, or Nothing
    StartedAt,       \* run -> when it started; the backend lists the newest first
    Workspaces,      \* the sets of runs the experiment may have at first
    InitiallyDone,   \* the runs that have completed at first
    Query,           \* the sets of runs a search can find
    MAX_CANDIDATES,
    MaxLoads, MaxActs, MaxOthers   \* bounds on loads under way, user's and others' acts

ExperimentPageAssumption ==
    /\ Nothing \notin Run /\ StartedAt \in [Run -> Nat] /\ IsInjective(StartedAt)
    /\ InitiallyDone \subseteq Run /\ Workspaces \cup Query \subseteq SUBSET Run
    /\ {MAX_CANDIDATES, MaxLoads, MaxActs, MaxOthers} \subseteq Nat

MIN_COMPARISON_RUNS == 2

VARIABLES
    server,       \* links, completed runs, the baseline and its last audited change
    page,         \* what the page was last answered, its candidates and its undo
    loads,        \* loads under way, oldest first
    calls,        \* baseline calls under way
    dialog,       \* the add-runs dialog
    attach,       \* attachments under way: whose, of what, checked by the backend or not yet
    acts, others
experimentVars == <<server, page, loads, calls, dialog, attach, acts, others>>

Acting == acts < MaxActs /\ acts' = acts + 1
OthersActing == others < MaxOthers /\ others' = others + 1

NoChange == [previous |-> Nothing, run |-> Nothing]
Seen == [runs : SUBSET Run, done : SUBSET Run, baseline : Run \cup {Nothing}]
ServerView == [runs |-> server.links, done |-> server.done, baseline |-> server.baseline]
ClosedDialog == [open |-> FALSE, matches |-> {}, selected |-> {}, attaching |-> FALSE, error |-> FALSE]

NewLoad == [read |-> FALSE, seen |-> [runs |-> {}, done |-> {}, baseline |-> Nothing], late |-> FALSE]

ExperimentPageInit ==
    /\ server \in [links : Workspaces, done : {InitiallyDone}, baseline : {Nothing}, change : {NoChange}]
    /\ page = [seen |-> NewLoad.seen, candidates |-> {}, lastChange |-> NoChange,
               loaded |-> FALSE, loading |-> TRUE, error |-> FALSE, owed |-> FALSE, stale |-> FALSE]
    /\ loads = <<NewLoad>> /\ calls = <<>> /\ dialog = ClosedDialog /\ attach = {}
    /\ acts = 0 /\ others = 0

-----------------------------------------------------------------------------
(* What may be compared *)

\* One basis, recorded by both.
SameBasis(a, b) == BasisOf[a] # Nothing /\ BasisOf[a] = BasisOf[b]
IsComparableCandidate(v, b, c) ==
    b # Nothing /\ b # c /\ {b, c} \subseteq v.done /\ SameBasis(b, c)

Newest(set) == CHOOSE r \in set : \A s \in set : StartedAt[s] <= StartedAt[r]
CohortOf(v, r) == {s \in v.runs \cap v.done : SameBasis(r, s)}

\* The first cohort of at least two in the order the runs are listed.
Anchors(v) == {r \in v.runs \cap v.done : Cardinality(CohortOf(v, r)) >= MIN_COMPARISON_RUNS}
LatestComparableRuns(v) == IF Anchors(v) = {} THEN {} ELSE CohortOf(v, Newest(Anchors(v)))
FallbackBaselineRun(v) ==
    IF LatestComparableRuns(v) = {} THEN Nothing ELSE Newest(LatestComparableRuns(v))
BaselineRun(v) == IF v.baseline \in v.runs THEN v.baseline ELSE FallbackBaselineRun(v)

ComparableCandidateRuns(v, b, ids) == {r \in v.runs \cap ids : IsComparableCandidate(v, b, r)}
SelectedCandidates == ComparableCandidateRuns(page.seen, BaselineRun(page.seen), page.candidates)
CanCompare == Cardinality(LatestComparableRuns(page.seen)) >= MIN_COMPARISON_RUNS

\* The comparison the page links to, when it links to one.
CompareHref ==
    LET b == BaselineRun(page.seen) IN
    IF /\ CanCompare /\ b # Nothing /\ SelectedCandidates # {}
       /\ b \in page.seen.done /\ BasisOf[b] # Nothing
    THEN [base |-> b, candidates |-> SelectedCandidates] ELSE Nothing

Selectable(r) ==
    LET b == BaselineRun(page.seen) IN
    /\ IsComparableCandidate(page.seen, b, r)
    /\ r \in SelectedCandidates \/ Cardinality(SelectedCandidates) < MAX_CANDIDATES

NextCandidateIds(current, r, b) ==
    IF r \in current THEN current \ {r}
    ELSE IF Cardinality(current \ {b}) >= MAX_CANDIDATES THEN current
    ELSE current \cup {r}

-----------------------------------------------------------------------------
(* Loading *)

MayLoad == Len(loads) < MaxLoads
\* While it loads the page shows nothing else: a dialog starts afresh after it.
LoadAgain(p, d) ==
    /\ MayLoad /\ loads' = Append(loads, NewLoad)
    /\ page' = [p EXCEPT !.loading = TRUE, !.error = FALSE, !.owed = FALSE]
    /\ dialog' = [d EXCEPT !.matches = {}, !.selected = {}]

\* The two requests of a load are answered in any order: here the runs no later
\* than the summary that names the baseline.
LoadReads(i) ==
    /\ ~loads[i].read
    /\ loads' = [loads EXCEPT ![i].read = TRUE, ![i].seen = ServerView]
    /\ UNCHANGED <<server, page, calls, dialog, attach, acts, others>>

Taken(i) ==
    loads' = [k \in 1 .. Len(loads) - 1 |->
                 IF k < i THEN [loads[k] EXCEPT !.late = TRUE] ELSE loads[k + 1]]

LoadArrives(i) ==
    /\ loads[i].read /\ Taken(i)
    /\ LET v == loads[i].seen
           b == IF v.baseline = Nothing THEN FallbackBaselineRun(v) ELSE v.baseline
           known == IF b \in v.runs THEN b ELSE Nothing
       IN page' = [page EXCEPT !.seen = v, !.loaded = TRUE, !.loading = FALSE, !.stale = loads[i].late,
                               !.candidates = ComparableCandidateRuns(v, known, page.candidates)]
    /\ UNCHANGED <<server, calls, dialog, attach, acts, others>>

LoadFails(i) ==
    /\ Acting /\ Taken(i)
    /\ page' = [page EXCEPT !.loading = FALSE, !.error = TRUE, !.owed = TRUE]
    /\ UNCHANGED <<server, calls, dialog, attach, others>>

Retry ==
    /\ page.error /\ ~page.loading /\ Acting /\ LoadAgain(page, dialog)
    /\ UNCHANGED <<server, calls, attach, others>>

-----------------------------------------------------------------------------
(* Candidates and the baseline: nothing is offered while the page loads *)

Idle == page.loaded /\ ~page.loading

ToggleCandidate(r) ==
    /\ Idle /\ r \in page.seen.runs /\ Selectable(r) /\ Acting
    /\ page' = [page EXCEPT !.candidates =
                   NextCandidateIds(SelectedCandidates, r, BaselineRun(page.seen))]
    /\ UNCHANGED <<server, loads, calls, dialog, attach, others>>

Call(kind, r) == [kind |-> kind, run |-> r, done |-> FALSE, change |-> NoChange]

MakeBaseline(r) ==
    /\ Idle /\ Cardinality(page.seen.runs) >= MIN_COMPARISON_RUNS
    /\ r \in page.seen.runs \cap page.seen.done /\ BasisOf[r] # Nothing
    /\ Acting /\ calls' = Append(calls, Call("promote", r))
    /\ page' = [page EXCEPT !.candidates = @ \ {r}]
    /\ UNCHANGED <<server, loads, dialog, attach, others>>

UndoBaselineChange ==
    /\ Idle /\ Cardinality(page.seen.runs) # 1 /\ page.lastChange.previous # Nothing
    /\ Acting /\ calls' = Append(calls, Call("undo", Nothing))
    /\ UNCHANGED <<server, page, loads, dialog, attach, others>>

\* promote_baseline and undo_baseline of the store; an undo goes back over the
\* last audited change, whoever made it.
Promoted(r) ==
    [server EXCEPT !.baseline = r, !.change = [previous |-> server.baseline, run |-> r]]

CallCommits(i) ==
    /\ ~calls[i].done
    /\ server' = Promoted(IF calls[i].kind = "promote" THEN calls[i].run ELSE server.change.previous)
    /\ calls' = [calls EXCEPT ![i].done = TRUE, ![i].change = server'.change]
    /\ UNCHANGED <<page, loads, dialog, attach, acts, others>>

CallReturns(i) ==
    /\ calls[i].done /\ calls' = RemoveAt(calls, i)
    /\ LoadAgain([page EXCEPT !.lastChange =
                     IF calls[i].kind = "promote" THEN calls[i].change ELSE NoChange], dialog)
    /\ UNCHANGED <<server, attach, acts, others>>

\* The answer is lost: the page says the baseline could not be changed.
CallFails(i) ==
    /\ Acting /\ calls' = RemoveAt(calls, i)
    /\ page' = [page EXCEPT !.error = TRUE, !.owed = TRUE]
    /\ UNCHANGED <<server, loads, dialog, attach, others>>

-----------------------------------------------------------------------------
(* The add-runs dialog *)

CanJoinExperiment(done, r) == r \in done /\ BasisOf[r] # Nothing

\* The workspace's basis: of its newest run that could join, else its newest run.
WorkspaceBasis(v) ==
    LET joinable == {r \in v.runs : CanJoinExperiment(v.done, r)} IN
    IF joinable # {} THEN BasisOf[Newest(joinable)]
    ELSE IF v.runs # {} THEN BasisOf[Newest(v.runs)] ELSE Nothing

AttachableCandidates(matches) ==
    {r \in matches \ page.seen.runs :
        /\ BasisOf[r] # Nothing
        /\ WorkspaceBasis(page.seen) # Nothing => BasisOf[r] = WorkspaceBasis(page.seen)}

\* What a further choice is held to: the workspace's basis, else the first choice's.
SelectedBasis ==
    IF \E r \in page.seen.runs : CanJoinExperiment(page.seen.done, r)
    THEN {WorkspaceBasis(page.seen)} ELSE {BasisOf[r] : r \in dialog.selected}
Incompatible(r) == SelectedBasis # {} /\ BasisOf[r] \notin SelectedBasis

SetDialog(d) == dialog' = d /\ UNCHANGED <<server, page, loads, calls, attach, acts, others>>

OpenAttach == Idle /\ ~dialog.open /\ SetDialog([ClosedDialog EXCEPT !.open = TRUE])
CloseAttach == Idle /\ dialog.open /\ ~dialog.attaching /\ SetDialog(ClosedDialog)

SearchRuns(found) ==
    /\ dialog.open /\ Idle
    /\ SetDialog([dialog EXCEPT !.matches = found \cap server.done])

ToggleSelected(r) ==
    /\ dialog.open /\ Idle /\ ~dialog.attaching
    /\ r \in AttachableCandidates(dialog.matches) /\ ~Incompatible(r)
    /\ SetDialog([dialog EXCEPT !.selected = IF r \in @ THEN @ \ {r} ELSE @ \cup {r}])

Attachment(own, set) == [own |-> own, runs |-> set, checked |-> ~own]

OnAttach ==
    /\ dialog.open /\ Idle /\ ~dialog.attaching /\ dialog.selected # {} /\ Acting
    /\ dialog' = [dialog EXCEPT !.attaching = TRUE, !.error = FALSE]
    /\ attach' = attach \cup {Attachment(TRUE, dialog.selected)}
    /\ UNCHANGED <<server, page, loads, calls, others>>

\* attach_experiment_workspace_runs: every run completed, all of one basis, the
\* basis of the newest run already there.
AttachFailures(set) ==
    LET expected == BasisOf[Newest(IF server.links = {} THEN set ELSE server.links)] IN
    {r \in set : r \notin server.done \/ expected = Nothing \/ BasisOf[r] # expected}

Refuse(a) ==
    /\ attach' = attach \ {a}
    /\ dialog' = [dialog EXCEPT !.attaching = FALSE, !.error = TRUE]

\* A check and the link that follows it are two transactions.
AttachChecks(a) ==
    /\ a.own /\ ~a.checked
    /\ IF AttachFailures(a.runs) # {} THEN Refuse(a)
       ELSE attach' = (attach \ {a}) \cup {[a EXCEPT !.checked = TRUE]} /\ UNCHANGED dialog
    /\ UNCHANGED <<server, page, loads, calls, acts, others>>

Linked(set) == [server EXCEPT !.links = @ \cup set]

\* The page's own attachment closes the dialog and loads again.
AttachLinks(a) ==
    /\ a.own /\ a.checked
    /\ server' = Linked(a.runs) /\ attach' = attach \ {a}
    /\ LoadAgain(page, ClosedDialog)
    /\ UNCHANGED <<calls, acts, others>>

\* It was made and the answer is lost: the dialog says it was not.
AttachAnswerIsLost(a) ==
    /\ a.own /\ a.checked /\ Acting
    /\ server' = Linked(a.runs) /\ Refuse(a)
    /\ UNCHANGED <<page, loads, calls, others>>

-----------------------------------------------------------------------------
(* Others *)

OthersPromote(r) ==
    /\ r \in server.links /\ OthersActing /\ server' = Promoted(r)
    /\ UNCHANGED <<page, loads, calls, dialog, attach, acts>>

OthersCheck(r) ==
    /\ r \in server.done \ server.links /\ AttachFailures({r}) = {} /\ OthersActing
    /\ attach' = attach \cup {Attachment(FALSE, {r})}
    /\ UNCHANGED <<server, page, loads, calls, dialog, acts>>

OthersLink(a) ==
    /\ ~a.own
    /\ server' = Linked(a.runs) /\ attach' = attach \ {a}
    /\ UNCHANGED <<page, loads, calls, dialog, acts, others>>

Completes(r) ==
    /\ r \notin server.done /\ server' = [server EXCEPT !.done = @ \cup {r}]
    /\ UNCHANGED <<page, loads, calls, dialog, attach, acts, others>>

ExperimentPageNext ==
    \/ Retry \/ UndoBaselineChange \/ OpenAttach \/ CloseAttach \/ OnAttach
    \/ \E i \in DOMAIN loads : LoadReads(i) \/ LoadArrives(i) \/ LoadFails(i)
    \/ \E i \in DOMAIN calls : CallCommits(i) \/ CallReturns(i) \/ CallFails(i)
    \/ \E r \in Run : \/ ToggleCandidate(r) \/ MakeBaseline(r) \/ ToggleSelected(r)
                      \/ OthersPromote(r) \/ OthersCheck(r) \/ Completes(r)
    \/ \E found \in Query : SearchRuns(found)
    \/ \E a \in attach : AttachChecks(a) \/ AttachLinks(a) \/ AttachAnswerIsLost(a) \/ OthersLink(a)

ExperimentPageSpec == ExperimentPageInit /\ [][ExperimentPageNext]_experimentVars

-----------------------------------------------------------------------------
ExperimentPageTypeOK ==
    /\ server.links \subseteq Run /\ server.done \subseteq Run
    /\ server.baseline \in Run \cup {Nothing}
    /\ page.seen \in Seen /\ page.candidates \subseteq Run
    /\ Len(loads) <= MaxLoads /\ \A i \in DOMAIN loads : loads[i].seen \in Seen
    /\ dialog.selected \subseteq Run /\ dialog.matches \subseteq Run
    /\ acts <= MaxActs /\ others <= MaxOthers

\* The comparison the page links to is one compare_runs accepts: a linked
\* baseline and at most three other linked runs of its basis, however the
\* baseline was moved, by whom, and whichever load answered last.
OfferedComparisonIsAccepted ==
    CompareHref # Nothing =>
       /\ {CompareHref.base} \cup CompareHref.candidates \subseteq server.links
       /\ \A c \in CompareHref.candidates : c # CompareHref.base /\ SameBasis(CompareHref.base, c)
       /\ Cardinality(CompareHref.candidates) <= MAX_CANDIDATES

\* A checkbox that is offered does what it says: no stale choice uses up a slot.
OfferedBoxesToggle ==
    \A r \in page.seen.runs : Selectable(r) =>
       LET b == BaselineRun(page.seen)
           next == ComparableCandidateRuns(page.seen, b, NextCandidateIds(SelectedCandidates, r, b))
       IN (r \in next) # (r \in SelectedCandidates) /\ Cardinality(next) <= MAX_CANDIDATES

\* Once the page's own baseline calls have been answered and its loads are over,
\* it shows the baseline its user chose (unless others acted, a load was
\* overtaken by an older one, or it says that something failed).
OwnBaselineIsShown ==
    (calls = <<>> /\ loads = <<>> /\ others = 0 /\ ~page.stale /\ ~page.owed) =>
       page.seen.baseline = server.baseline

\* The dialog only lets runs be chosen together that the backend attaches, as
\* long as nobody else has attached any meanwhile.
ChosenRunsAreAccepted ==
    (dialog.open /\ Idle /\ page.seen.runs = server.links) =>
       AttachFailures(dialog.selected) = {}

ExperimentPageIsTrue ==
    /\ OfferedComparisonIsAccepted
    /\ OfferedBoxesToggle
    /\ OwnBaselineIsShown
    /\ ChosenRunsAreAccepted

=============================================================================
