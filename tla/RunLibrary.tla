------------------------------ MODULE RunLibrary ------------------------------
(***************************************************************************)
(* The run history: the page that loads the list of runs, lays the live    *)
(* snapshots of the runs under way over it and polls while one is active   *)
(* (RunsList, loadRunsWithLiveStatus), and the library it renders, where   *)
(* runs are picked for a comparison, opened, stopped and archived          *)
(* (ExperimentsLibrary).                                                   *)
(*                                                                         *)
(* The selection and the open report live in the URL.  A change is made    *)
(* to the local copy and asked of the router; the URL follows later, and   *)
(* whenever it or the list changes the local copy is taken from it again.  *)
(***************************************************************************)
EXTENDS Sequences, SequencesExt, FiniteSets, Integers

CONSTANTS
    RunId, Experiment,
    ExperimentOf, \* [Run -> Experiment]
    Basis,        \* [Run -> ...]: the comparison key of a run
    Matching,     \* the runs the reader's filter keeps
    Highlight,    \* the run named by the URL the page was opened with, or None
    None,
    MaxComparison,  \* MAX_COMPARISON_RUNS
    MaxLoads,     \* bounds the loads under way
    MaxTries      \* bounds what the reader does and what fails

RunState == {"active", "completed", "stopped"}
Shown == RunState \cup {"absent"}
\* A load under way: what the list said of each run, the runs whose snapshots it
\* asks for, and what it has read of all of them.
Load == [quiet : BOOLEAN, waiter : {"stop", "lifecycle", None}, listed : [RunId -> Shown],
         archived : SUBSET Experiment, tracked : (SUBSET RunId) \cup {None},
         failed : SUBSET RunId, read : [RunId -> Shown] \cup {None}]

RunLibraryAssumption ==
    /\ None \notin RunId \cup Experiment /\ Highlight \in RunId \cup {None}
    /\ ExperimentOf \in [RunId -> Experiment] /\ DOMAIN Basis = RunId /\ Matching \subseteq RunId
    /\ MaxComparison \in Nat \ {0, 1}
    /\ MaxLoads \in Nat \ {0} /\ MaxTries \in Nat
    /\ None \notin Load

VARIABLES
    backend,    \* [run: [RunId -> RunState], archived: SUBSET Experiment,
                \*  launched: the runs started in this tab, kept for the properties]
    remembered, \* the run ids in the session storage of the tab
    unread,     \* runs whose snapshot once could not be read, and whose id was dropped
    loads,      \* [1..MaxLoads -> Load or None]
    library,    \* [shown, archived, loading, error, loaded, polling]
    url,        \* [selected, open, narrow, archived]: the committed URL
    going,      \* the URL asked of the router and not there yet, or None
    tray,       \* selectedRunIds
    dialog,     \* [kind, on, asked]: the lifecycle or the stop dialog
    busy,       \* stopBusy and lifecycleBusy
    acts        \* what has been counted against MaxActs

runLibraryVars ==
    <<backend, remembered, unread, loads, library, url, going, tray, dialog, busy, acts>>

MaybeRun == RunId \cup {None}
Selection == SeqOf(RunId, MaxComparison)
Url == [selected : Selection, open : MaybeRun, narrow : BOOLEAN, archived : BOOLEAN]
Closed == [kind |-> "none", on |-> None, asked |-> FALSE]
BusyFlag(kind) == IF kind = "stop" THEN "stop" ELSE "lifecycle"
NoRuns == [r \in RunId |-> "absent"]

\* hasActiveRunStatus
Polls(shown, ids) ==
    \/ Highlight # None /\ shown[Highlight] \in {"active", "absent"}
    \/ \E r \in RunId : shown[r] = "active"
    \/ ids # {}

NewLoad(quiet, waiter) ==
    [quiet |-> quiet, waiter |-> waiter, listed |-> NoRuns, archived |-> {},
     tracked |-> None, failed |-> {}, read |-> None]

\* The page opens: with the runs launched in this tab, a selection of the URL,
\* and the first load.
RunLibraryInit ==
    /\ \E s \in [RunId -> {"active", "completed"}] :
       \E l \in SUBSET {r \in RunId : s[r] = "active"} :
         /\ backend = [run |-> s, archived |-> {}, launched |-> l]
         /\ remembered = l
    /\ unread = {}
    /\ loads = [i \in 1..MaxLoads |-> IF i = 1 THEN NewLoad(FALSE, None) ELSE None]
    /\ library = [shown |-> NoRuns, archived |-> {}, loading |-> TRUE, error |-> FALSE,
                  loaded |-> FALSE, polling |-> Polls(NoRuns, remembered)]
    /\ \E selected \in {<<>>} \cup {<<r>> : r \in {q \in RunId : backend.run[q] = "completed"}} :
         url = [selected |-> selected, open |-> None, narrow |-> FALSE, archived |-> FALSE]
    /\ going = None /\ tray = url.selected /\ dialog = Closed /\ busy = {}
    /\ acts = 0

-----------------------------------------------------------------------------
(* The server *)

RunEnds(r) ==
    /\ backend.run[r] = "active"
    /\ backend' = [backend EXCEPT !.run[r] = "completed"]
    /\ UNCHANGED <<remembered, unread, loads, library, url, going, tray, dialog, busy, acts>>

-----------------------------------------------------------------------------
(* load and loadRunsWithLiveStatus *)

Tries == acts < MaxTries /\ acts' = acts + 1
CountedFaults(faults) == IF faults = {} THEN UNCHANGED acts ELSE Tries
Free(i) == loads[i] = None
\* Which slot a load takes makes no difference.
Takes(i) == Free(i) /\ \A j \in 1..(i - 1) : ~Free(j)
Poll(i) ==
    /\ library.polling /\ Takes(i)
    /\ \A j \in 1..MaxLoads : ~Free(j) => ~loads[j].quiet \/ loads[j].waiter # None
    /\ loads' = [loads EXCEPT ![i] = NewLoad(TRUE, None)]
    /\ library' = [library EXCEPT !.loading = @ \/ ~library.loaded]
    /\ UNCHANGED <<backend, remembered, unread, url, going, tray, dialog, busy, acts>>
ManualRefresh(i) ==
    /\ ~library.loading /\ Takes(i) /\ Tries
    /\ \A j \in 1..MaxLoads : ~Free(j) => loads[j].quiet
    /\ loads' = [loads EXCEPT ![i] = NewLoad(FALSE, None)]
    /\ library' = [library EXCEPT !.error = FALSE]
    /\ UNCHANGED <<backend, remembered, unread, url, going, tray, dialog, busy>>

Tracked(listed) ==
    remembered \cup ({Highlight} \ {None}) \cup {r \in RunId : listed[r] = "active"}
\* listRuns answers.  The list is read in two parts, so a run that ends in
\* between, or one beyond the window, may be missing from it.
RunsArrive(i, missing) ==
    /\ ~Free(i) /\ loads[i].tracked = None
    /\ CountedFaults(missing)
    /\ LET listed == [r \in RunId |-> IF r \in missing THEN "absent" ELSE backend.run[r]] IN
       loads' = [loads EXCEPT ![i].listed = listed, ![i].archived = backend.archived,
                              ![i].tracked = Tracked(listed)]
    /\ UNCHANGED <<backend, remembered, unread, library, url, going, tray, dialog, busy>>

\* The library takes its copies from the URL again.
Found(u, shown) == [u EXCEPT !.open = IF @ # None /\ shown[@] # "absent" THEN @ ELSE None]
\* The stop or the lifecycle action that awaited this load is over.
StillBusy(i) == busy \ {loads[i].waiter}
Settle(i, next) ==
    /\ loads' = [loads EXCEPT ![i] = None]
    /\ library' = [next EXCEPT !.loading = FALSE]
    /\ busy' = StillBusy(i)

\* getRun has answered for every tracked run, except for those that failed.
SnapshotsRead(i, failed) ==
    /\ ~Free(i) /\ loads[i].tracked # None /\ loads[i].read = None
    /\ failed \subseteq loads[i].tracked /\ CountedFaults(failed)
    /\ loads' = [loads EXCEPT ![i].failed = failed,
                 ![i].read = [r \in RunId |-> IF r \in loads[i].tracked \ failed
                                              THEN backend.run[r] ELSE loads[i].listed[r]]]
    /\ UNCHANGED <<backend, remembered, unread, library, url, going, tray, dialog, busy>>
\* The ids read as active are remembered, and no others; the list is shown.
SnapshotsArrive(i) ==
    /\ ~Free(i) /\ loads[i].read # None
    /\ LET read == loads[i].tracked \ loads[i].failed
           active == {r \in read : loads[i].read[r] = "active"}
       IN /\ remembered' = active
          /\ unread' = unread \cup loads[i].failed
          /\ Settle(i, [library EXCEPT !.shown = loads[i].read, !.archived = loads[i].archived,
                                    !.loaded = TRUE, !.polling = Polls(loads[i].read, active)])
    /\ tray' = url.selected
    /\ UNCHANGED <<backend, url, going, dialog, acts>>
\* A quiet load that fails changes nothing; any other one empties the list.
LoadFails(i) ==
    /\ ~Free(i) /\ loads[i].tracked = None /\ Tries
    /\ IF loads[i].quiet
       THEN Settle(i, library) /\ UNCHANGED tray
       ELSE /\ Settle(i, [library EXCEPT !.shown = NoRuns, !.error = TRUE,
                                         !.polling = Polls(NoRuns, remembered)])
            /\ tray' = url.selected
    /\ UNCHANGED <<backend, remembered, unread, url, going, dialog>>

-----------------------------------------------------------------------------
(* The selection and the URL *)

\* navigateLibrary: the rest of the URL is the one rendered last.
Navigate(to) ==
    /\ Tries
    /\ going' = to
    /\ UNCHANGED <<backend, remembered, unread, loads, library, url, busy>>
\* The URL arrives, and the library synchronises with it.
UrlArrives ==
    /\ going # None
    /\ url' = going /\ going' = None /\ tray' = going.selected
    /\ UNCHANGED <<backend, remembered, unread, loads, library, dialog, busy, acts>>

IsRunComplete(r) == library.shown[r] = "completed"
ListedRuns == {r \in RunId : library.shown[r] # "absent"}
RunIsArchived(r) == ExperimentOf[r] \in library.archived
RunMatchesFilters(r) == url.narrow => r \in Matching
\* groupRunsByName: the runs of one evaluation make a group.
SameGroup(r, q) == ExperimentOf[r] = ExperimentOf[q]
Comparable(r, q) == Basis[r] = Basis[q]
\* The rows of the lifecycle view, after the filters.
Rows == {r \in ListedRuns : (url.archived <=> RunIsArchived(r)) /\ RunMatchesFilters(r)}
\* selectableRunIds: at least two complete runs of an evaluation share a basis.
SelectableRuns ==
    {r \in Rows : /\ IsRunComplete(r)
                  /\ \E q \in Rows \ {r} : IsRunComplete(q) /\ Comparable(q, r) /\ SameGroup(q, r)}
SelectedRuns == SelectSeq(tray, LAMBDA r : r \in ListedRuns)
\* A run joins runs of its own evaluation and basis only.
Joins(r) == SelectedRuns # <<>> => Comparable(r, SelectedRuns[1]) /\ SameGroup(r, SelectedRuns[1])
\* The checkbox of a row, and toggleRunSelected behind it.
MayJoin(r) ==
    /\ r \in SelectableRuns /\ Len(tray) < MaxComparison
    /\ Joins(r)

ToggleRun(r) ==
    /\ r \in Rows /\ dialog = Closed /\ url.open = None
    /\ IF Contains(tray, r) THEN tray' = Remove(tray, r) ELSE MayJoin(r) /\ tray' = Append(tray, r)
    /\ Navigate([url EXCEPT !.selected = tray'])
    /\ UNCHANGED dialog
\* The tray: drop a run, make one the baseline, clear.
TrayRemove(r) ==
    /\ Contains(SelectedRuns, r) /\ tray' = Remove(tray, r)
    /\ Navigate([url EXCEPT !.selected = tray']) /\ UNCHANGED dialog
MakeBaseline(r) ==
    /\ Contains(SelectedRuns, r) /\ r # SelectedRuns[1]
    /\ Navigate([url EXCEPT !.selected = <<r>> \o Remove(tray, r)]) /\ UNCHANGED <<tray, dialog>>
Clear ==
    /\ SelectedRuns # <<>> /\ tray' = <<>>
    /\ Navigate([url EXCEPT !.selected = <<>>]) /\ UNCHANGED dialog
\* Search, filters, sorting, paging and expanding rewrite the URL, too.
UpdateFilters ==
    /\ Navigate([url EXCEPT !.narrow = ~@]) /\ UNCHANGED <<tray, dialog>>
SelectLifecycleView ==
    /\ tray' = <<>>
    /\ Navigate([url EXCEPT !.archived = ~@, !.selected = <<>>, !.open = None]) /\ UNCHANGED dialog
OpenRunReport(r) ==
    /\ r \in Rows /\ IsRunComplete(r) /\ url.open = None
    /\ Navigate([url EXCEPT !.open = r]) /\ UNCHANGED <<tray, dialog>>
CloseRunReport ==
    /\ Found(url, library.shown).open # None
    /\ Navigate([url EXCEPT !.open = None]) /\ UNCHANGED <<tray, dialog>>

\* comparisonHrefForRuns(selectedRuns, baseline)
ComparisonHref(runs) ==
    /\ Len(runs) \in 2..MaxComparison
    /\ \A i \in DOMAIN runs : IsRunComplete(runs[i]) /\ Comparable(runs[i], runs[1])

-----------------------------------------------------------------------------
(* Stopping a run, archiving and restoring an evaluation *)

OnlyDialog == UNCHANGED <<backend, remembered, unread, loads, library, url, going, tray>>
RequestStop(r) ==
    /\ r \in Rows /\ library.shown[r] = "active" /\ dialog = Closed
    /\ dialog' = [kind |-> "stop", on |-> r, asked |-> FALSE]
    /\ Tries /\ OnlyDialog /\ UNCHANGED busy
RequestLifecycle(e) ==
    /\ \E r \in Rows : ExperimentOf[r] = e
    /\ dialog = Closed
    /\ dialog' = [kind |-> IF url.archived THEN "restore" ELSE "archive", on |-> e, asked |-> FALSE]
    /\ Tries /\ OnlyDialog /\ UNCHANGED busy
Idle == dialog # Closed /\ BusyFlag(dialog.kind) \notin busy
CancelDialog ==
    /\ Idle /\ dialog' = Closed
    /\ OnlyDialog /\ UNCHANGED <<busy, acts>>
Confirm ==
    /\ Idle
    /\ dialog' = [dialog EXCEPT !.asked = TRUE]
    /\ busy' = busy \cup {BusyFlag(dialog.kind)}
    /\ OnlyDialog /\ UNCHANGED acts
\* The call is served; the dialog closes, still busy until the list is read again.
CallServed(i) ==
    /\ dialog.asked /\ Takes(i)
    /\ backend' = CASE dialog.kind = "stop" ->
                        [backend EXCEPT !.run[dialog.on] = IF @ = "active" THEN "stopped" ELSE @]
                   [] dialog.kind = "archive" -> [backend EXCEPT !.archived = @ \cup {dialog.on}]
                   [] OTHER -> [backend EXCEPT !.archived = @ \ {dialog.on}]
    /\ dialog' = Closed
    /\ tray' = IF dialog.kind = "stop" THEN tray ELSE <<>>
    /\ loads' = [loads EXCEPT ![i] = NewLoad(TRUE, BusyFlag(dialog.kind))]
    /\ library' = [library EXCEPT !.loading = @ \/ ~library.loaded]
    /\ UNCHANGED <<remembered, unread, url, going, busy, acts>>
CallFails ==
    /\ dialog.asked
    /\ dialog' = [dialog EXCEPT !.asked = FALSE]
    /\ busy' = busy \ {BusyFlag(dialog.kind)}
    /\ OnlyDialog /\ UNCHANGED acts

RunLibraryNext ==
    \/ \E r \in RunId : RunEnds(r)
    \/ \E i \in 1..MaxLoads :
         \/ Poll(i) \/ ManualRefresh(i) \/ LoadFails(i) \/ CallServed(i)
         \/ RunsArrive(i, {}) \/ \E r \in RunId : backend.run[r] = "active" /\ RunsArrive(i, {r})
         \/ SnapshotsArrive(i) \/ SnapshotsRead(i, {}) \/ \E r \in RunId : SnapshotsRead(i, {r})
    \/ UrlArrives
    \/ \E r \in RunId :
         ToggleRun(r) \/ TrayRemove(r) \/ MakeBaseline(r) \/ OpenRunReport(r) \/ RequestStop(r)
    \/ Clear \/ UpdateFilters \/ SelectLifecycleView \/ CloseRunReport
    \/ \E e \in Experiment : RequestLifecycle(e)
    \/ CancelDialog \/ Confirm \/ CallFails

RunLibrarySpec == RunLibraryInit /\ [][RunLibraryNext]_runLibraryVars

-----------------------------------------------------------------------------
(* Properties *)

\* Every variable has its type.
RunLibraryTypeOK ==
    /\ backend.run \in [RunId -> RunState] /\ backend.archived \subseteq Experiment
    /\ remembered \subseteq RunId /\ unread \subseteq RunId
    /\ library.shown \in [RunId -> Shown] /\ library.archived \subseteq Experiment
    /\ library.loading \in BOOLEAN /\ library.polling \in BOOLEAN
    /\ \A i \in 1..MaxLoads : ~Free(i) => loads[i].listed \in [RunId -> Shown]
    /\ url \in Url /\ (going # None => going \in Url) /\ tray \in Selection
    /\ busy \subseteq {"stop", "lifecycle"} /\ dialog.asked \in BOOLEAN

AtRest == ~library.polling /\ ~library.error /\ \A i \in 1..MaxLoads : Free(i)
\* Once the page has stopped polling and nothing is under way, what it shows
\* of a run is what became of it, and a run launched in this tab is shown,
\* even one the list missed, unless its own snapshot could not be read.
LaunchesAreFollowed ==
    AtRest => \A r \in RunId :
        \/ library.shown[r] = backend.run[r] /\ backend.run[r] # "active"
        \/ library.shown[r] = "absent" /\ (r \in unread \/ r \notin backend.launched)

\* With the URL arrived and the list at rest, the runs in the tray are 
\* comparable, so the Compare button the tray offers leads somewhere.
TrayCanBeCompared ==
    AtRest /\ going = None /\ Len(SelectedRuns) >= 2 => ComparisonHref(SelectedRuns)

\* A dialog is busy only while its call or the refresh after it is under way.
BusyIsReal ==
    \A flag \in busy : \/ dialog.asked /\ BusyFlag(dialog.kind) = flag
                       \/ \E i \in 1..MaxLoads : ~Free(i) /\ loads[i].waiter = flag

RunLibraryIsTrue == LaunchesAreFollowed /\ TrayCanBeCompared /\ BusyIsReal
=============================================================================
