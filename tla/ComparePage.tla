----------------------------- MODULE ComparePage -----------------------------
(***************************************************************************)
(* The comparison page (app/experiments/[id]/compare/page.tsx).  Its URL   *)
(* names the runs and the view; the view is mirrored to the URL through a  *)
(* router that answers later and drops a navigation that is overtaken, and *)
(* an effect re-reads the URL when somebody else has navigated.  The runs  *)
(* are loaded without a token; their comparison and their items are loaded *)
(* by effects that cancel what they replace; the evidence of one sample is *)
(* loaded by its click and never cancelled.                                *)
(***************************************************************************)
EXTENDS Naturals, FiniteSets, SequencesExt

CONSTANTS
    Run, Sample, Nothing,
    Existing,      \* the runs the backend still has
    Members,       \* the runs linked to the experiment of the page
    BasisOf,       \* run -> its comparison basis
    Link,          \* the run ids a link to the page may name, baseline first
    Metric,        \* the choices of the metric filter
    AllMetrics,
    MaxActs, MaxLoads   \* bounds on user acts and failures, and on loads under way

ComparePageAssumption ==
    /\ Nothing \notin Sample /\ Existing \subseteq Run /\ Members \subseteq Existing
    /\ AllMetrics \in Metric /\ \A ids \in Link : ids \in Seq(Run) /\ IsInjective(ids)
    /\ MaxActs \in Nat /\ MaxLoads \in Nat

MAX_COMPARISON_RUNS == 4

VARIABLES
    url,          \* what the router has committed: the runs named and the view
    pending,      \* the navigation it works on, or Nothing
    lastNavQuery, \* the page's last write or the last navigation it has read
    view,         \* the view state of the page
    runs,         \* runs loaded, the selection, loading, the error shown
    loads,        \* loads of runs under way, oldest first
    compare,      \* comparison under way and its results, and the runs it refused
    items,        \* items of the selected runs: request under way, runs answered
    evidence,     \* the evidence shown, its loads, and (history) whether since the last click
                  \* on a sample an address selected another one
    asked,        \* (history) the view last asked for, whether a router at work was overtaken,
                  \* and the runs of every address visited
    acts
compareVars == <<url, pending, lastNavQuery, view, runs, loads, compare, items, evidence, asked, acts>>
urlVars == <<url, pending, lastNavQuery, view, asked>>

View == [metricFilter : Metric, selectedSample : Sample \cup {Nothing}]
FirstView == [metricFilter |-> AllMetrics, selectedSample |-> Nothing]
Url(ids, v) == [ids |-> ids, view |-> v]
Acting == acts < MaxActs /\ acts' = acts + 1

-----------------------------------------------------------------------------
(* The view and the URL *)

\* Effect: the committed URL and a view that differ are written out.  It reads
\* the view of the render it belongs to.
Mirror(u, v, waiting, last) ==
    IF u.view = v THEN [pending |-> waiting, last |-> last]
    ELSE [pending |-> Url(u.ids, v), last |-> Url(u.ids, v)]

\* A local change of the view, and the effect after it.
SetView(v) ==
    LET m == Mirror(url, v, pending, lastNavQuery) IN
    /\ view' = v
    /\ asked' = IF v = view THEN asked
                ELSE [asked EXCEPT !.view = v, !.hurried = pending \notin {Nothing, lastNavQuery}]
    /\ pending' = m.pending /\ lastNavQuery' = m.last
    /\ UNCHANGED url

-----------------------------------------------------------------------------
(* Effects of the selection: its comparison and its items *)

NoResults == [ids |-> <<>>, metric |-> AllMetrics]
NoRequest == <<>>

\* Cancel the comparison under way; with two runs or more, ask for another.
CompareAgain(ids, metric) ==
    IF Len(ids) < 2 THEN [compare EXCEPT !.request = NoRequest]
    ELSE [compare EXCEPT !.request = <<[ids |-> ids, metric |-> metric]>>,
                         !.loading = TRUE, !.incompatible = {}]
StartComparing(ids, metric) == CompareAgain(ids, metric)

ItemsAgain(ids) == IF ids = <<>> THEN items ELSE [items EXCEPT !.request = <<ids>>]

\* Asking for a comparison clears whatever error was shown.
ErrorAfter(ids, error) == IF Len(ids) < 2 THEN error ELSE Nothing

-----------------------------------------------------------------------------
(* Loading the runs a URL names *)

MayLoad == Len(loads) < MaxLoads
RequestedComparisonRunIds(u) ==
    SubSeq(u.ids, 1, IF Len(u.ids) < MAX_COMPARISON_RUNS THEN Len(u.ids) ELSE MAX_COMPARISON_RUNS)
NewLoad(u) == [ids |-> RequestedComparisonRunIds(u), late |-> FALSE]

StartLoading(u) ==
    /\ MayLoad /\ loads' = Append(loads, NewLoad(u))
    /\ runs' = [runs EXCEPT !.loading = TRUE, !.error = Nothing]

Taken(i) ==
    loads' = [k \in 1 .. Len(loads) - 1 |->
                 IF k < i THEN [loads[k] EXCEPT !.late = TRUE] ELSE loads[k + 1]]

\* getRun answers every run asked for, or the load fails.
Answerable(ids) == ToSet(ids) \subseteq Existing
ResolveComparisonSelection(ids, list) == SelectSeq(ids, LAMBDA r : r \in list)

LoadArrives(i) ==
    /\ Answerable(loads[i].ids) /\ Taken(i)
    /\ LET list == Members \cup ToSet(loads[i].ids)
           ids == ResolveComparisonSelection(loads[i].ids, list)
       IN /\ runs' = [list |-> list, selected |-> ids, loading |-> FALSE,
                      error |-> ErrorAfter(ids, runs.error), picked |-> FALSE, stale |-> loads[i].late]
          /\ compare' = StartComparing(ids, view.metricFilter)
          /\ items' = ItemsAgain(ids)
    /\ UNCHANGED <<urlVars, evidence, acts>>

LoadFails(i) ==
    /\ IF Answerable(loads[i].ids) THEN Acting ELSE UNCHANGED acts
    /\ Taken(i) /\ runs' = [runs EXCEPT !.loading = FALSE, !.error = "load", !.stale = TRUE]
    /\ UNCHANGED <<urlVars, compare, items, evidence>>

-----------------------------------------------------------------------------
(* The router commits: the effects re-read a foreign URL, and mirror the view *)

\* First pass, with the view still as it was; then the view just read.
ReadUrl(u) ==
    LET next == IF u # lastNavQuery THEN u.view ELSE view
        first == Mirror(u, view, Nothing, u)
        second == Mirror(u, next, first.pending, first.last)
    IN /\ view' = next
       /\ pending' = second.pending /\ lastNavQuery' = second.last

RouterCommits ==
    /\ pending # Nothing /\ url' = pending
    /\ ReadUrl(pending)
    /\ IF pending.ids # url.ids THEN StartLoading(pending) ELSE UNCHANGED <<runs, loads>>
    /\ IF view'.metricFilter # view.metricFilter
       THEN compare' = StartComparing(runs.selected, view'.metricFilter) ELSE UNCHANGED compare
    /\ asked' = [asked EXCEPT !.visited = @ \cup {pending.ids}]
    /\ evidence' = [evidence EXCEPT !.readdressed = @ \/ view'.selectedSample # view.selectedSample]
    /\ UNCHANGED <<items, acts>>

\* Somebody follows a link or goes back: a router at work on another drops it.
Navigate(ids, v) ==
    /\ Acting /\ Url(ids, v) # url
    /\ pending' = Url(ids, v) /\ asked' = [asked EXCEPT !.view = v, !.hurried = pending # Nothing]
    /\ UNCHANGED <<url, lastNavQuery, view, runs, loads, compare, items, evidence>>

-----------------------------------------------------------------------------
(* What the page offers once its runs are loaded *)

Shown == ~runs.loading /\ Cardinality(runs.list) >= 2 /\ Len(runs.selected) >= 2
Tables == Shown /\ compare.incompatible = {}

ChangeMetric(m) ==
    /\ Tables /\ m # view.metricFilter /\ Acting
    /\ SetView([view EXCEPT !.metricFilter = m])
    /\ compare' = StartComparing(runs.selected, m)
    /\ runs' = [runs EXCEPT !.error = ErrorAfter(runs.selected, @)]
    /\ UNCHANGED <<loads, items, evidence>>

\* Another selection closes the sample and its evidence.
Select(ids) ==
    /\ runs' = [runs EXCEPT !.selected = ids, !.picked = TRUE, !.error = ErrorAfter(ids, @)]
    /\ SetView([view EXCEPT !.selectedSample = Nothing])
    /\ compare' = StartComparing(ids, view.metricFilter)
    /\ items' = ItemsAgain(ids)
    /\ evidence' = [evidence EXCEPT !.shown = Nothing]
    /\ UNCHANGED loads

UpdateRun(i, r) ==
    /\ Shown /\ r \in runs.list \ ToSet(runs.selected) /\ Acting
    /\ Select([runs.selected EXCEPT ![i] = r])

RemoveRun(r) ==
    /\ Shown /\ r \in compare.incompatible /\ Acting
    /\ Select(SelectSeq(runs.selected, LAMBDA s : s # r))

-----------------------------------------------------------------------------
(* Answers *)

\* What compare_runs of the store accepts.
Accepts(base, r) == {base, r} \subseteq Members /\ BasisOf[base] = BasisOf[r]

\* A comparison is whole or nothing; lost answers count as refusals.
CompareArrives(k, lost) ==
    LET asking == compare.request[k]
        candidates == ToSet(Tail(asking.ids))
        refused == {r \in candidates : r \in lost \/ ~Accepts(Head(asking.ids), r)}
    IN /\ lost \subseteq candidates
       /\ IF lost = {} THEN UNCHANGED acts ELSE Acting
       /\ compare' = [request |-> RemoveAt(compare.request, k), loading |-> FALSE, incompatible |-> refused,
                      results |-> IF refused = {} THEN asking ELSE NoResults]
       /\ runs' = [runs EXCEPT !.error = IF refused = {} THEN Nothing ELSE "compare"]
       /\ UNCHANGED <<urlVars, loads, items, evidence>>

ItemsArrive(lost) ==
    /\ items.request # NoRequest /\ lost \subseteq ToSet(Head(items.request))
    /\ IF lost = {} THEN UNCHANGED acts ELSE Acting
    /\ items' = [request |-> NoRequest, answered |-> ToSet(Head(items.request)) \ lost]
    /\ UNCHANGED <<urlVars, runs, loads, compare, evidence>>

-----------------------------------------------------------------------------
(* The evidence of one sample *)

OpenSample(s) ==
    /\ Tables /\ compare.results # NoResults /\ s # view.selectedSample /\ Acting
    /\ Len(evidence.loads) < MaxLoads
    /\ SetView([view EXCEPT !.selectedSample = s])
    /\ evidence' = [shown |-> Nothing, loading |-> TRUE, readdressed |-> FALSE,
                    loads |-> Append(evidence.loads, [sample |-> s, late |-> FALSE,
                                 runs |-> ToSet(runs.selected) \cap items.answered])]
    /\ UNCHANGED <<runs, loads, compare, items>>

\* What arrives is shown, whatever is selected by now.  An evidence load overtaken
\* by a later one is marked (history).
EvidenceArrives(i) ==
    /\ evidence' = [evidence EXCEPT !.shown = evidence.loads[i], !.loading = FALSE, !.loads =
                       [k \in 1 .. Len(evidence.loads) - 1 |->
                           IF k < i THEN [evidence.loads[k] EXCEPT !.late = TRUE]
                           ELSE evidence.loads[k + 1]]]
    /\ UNCHANGED <<urlVars, runs, loads, compare, items, acts>>

CloseSample ==
    /\ Tables /\ view.selectedSample # Nothing /\ Acting
    /\ SetView([view EXCEPT !.selectedSample = Nothing])
    /\ evidence' = [evidence EXCEPT !.shown = Nothing]
    /\ UNCHANGED <<runs, loads, compare, items>>

-----------------------------------------------------------------------------
ComparePageInit ==
    /\ url \in {Url(ids, v) : ids \in Link, v \in {FirstView}}
    /\ pending = Nothing /\ lastNavQuery = url /\ view = url.view /\ evidence = [shown |-> Nothing, loading |-> FALSE, loads |-> <<>>, readdressed |-> FALSE]
    /\ asked = [view |-> url.view, hurried |-> FALSE, visited |-> {url.ids}]
    /\ runs = [list |-> {}, selected |-> <<>>, loading |-> TRUE, error |-> Nothing,
               picked |-> FALSE, stale |-> FALSE]
    /\ loads = <<NewLoad(url)>>
    /\ compare = [request |-> NoRequest, loading |-> FALSE, incompatible |-> {},
                  results |-> NoResults]
    /\ items = [request |-> NoRequest, answered |-> {}]
    /\ acts = 0

ComparePageNext ==
    \/ RouterCommits \/ CloseSample
    \/ \E i \in DOMAIN loads : LoadArrives(i) \/ LoadFails(i)
    \/ \E ids \in Link, v \in View : Navigate(ids, v)
    \/ \E m \in Metric : ChangeMetric(m)
    \/ \E r \in Run : RemoveRun(r) \/ \E i \in DOMAIN runs.selected : UpdateRun(i, r)
    \/ \E lost \in SUBSET Run :
          ItemsArrive(lost) \/ \E k \in DOMAIN compare.request : CompareArrives(k, lost)
    \/ \E s \in Sample : OpenSample(s)
    \/ \E i \in DOMAIN evidence.loads : EvidenceArrives(i)

ComparePageSpec == ComparePageInit /\ [][ComparePageNext]_compareVars

-----------------------------------------------------------------------------
ComparePageTypeOK ==
    /\ view \in View /\ asked.view \in View /\ url.view \in View /\ url.ids \in Link
    /\ runs.list \subseteq Run /\ ToSet(runs.selected) \subseteq runs.list
    /\ compare.incompatible \subseteq Run /\ Len(loads) <= MaxLoads
    /\ Len(evidence.loads) <= MaxLoads /\ acts <= MaxActs

\* Once the router is at rest the URL and the page show one view, and it is the
\* one last asked for, by a click or by a navigation made while it was at rest.
ViewIsTheOneAskedFor ==
    pending = Nothing => view = url.view /\ (asked.hurried \/ view = asked.view)

\* Tables that are not announced as being confirmed are of the runs in the
\* columns, under the metric chosen, and of every one of them.
ResultsAreOfTheSelection ==
    (Tables /\ ~compare.loading /\ runs.error = Nothing) =>
       compare.results = [ids |-> runs.selected, metric |-> view.metricFilter]

\* The runs offered for removal are candidates of the selection shown, so that
\* removing them leaves the baseline, and with it what can be compared.
RemovalsAreOfTheSelection ==
    Len(runs.selected) >= 2 => compare.incompatible \subseteq ToSet(Tail(runs.selected))

\* Once its loads are over, the page shows the runs its URL names, unless a run
\* was picked on the page.  Nothing cancels a load, so when an older one was the
\* last to answer, or one failed, the runs may be those of another address: one
\* that was visited, and whole.
SelectionIsTheOneNamed ==
    (loads = <<>> /\ ~runs.picked) =>
        \/ runs.selected = RequestedComparisonRunIds(url)
        \/ runs.stale /\ \E ids \in asked.visited :
              runs.selected \in {<<>>, RequestedComparisonRunIds(Url(ids, FirstView))}

\* Evidence beside a sample is evidence of that sample.  It is keyed by run only
\* and its loads are never cancelled either, so that of another sample can stand
\* there: as long as a load is under way, when one was overtaken, or when an
\* address and not a click has selected the sample.
EvidenceIsOfTheSample ==
    Tables /\ Nothing \notin {view.selectedSample, evidence.shown} /\ ~evidence.loading =>
        \/ evidence.shown.sample = view.selectedSample
        \/ evidence.loads # <<>> \/ evidence.shown.late \/ evidence.readdressed

\* No run is in two columns.
ColumnsAreDistinct == IsInjective(runs.selected)

ComparePageIsTrue ==
    /\ ViewIsTheOneAskedFor
    /\ ResultsAreOfTheSelection
    /\ RemovalsAreOfTheSelection
    /\ SelectionIsTheOneNamed
    /\ EvidenceIsOfTheSample
    /\ ColumnsAreDistinct

=============================================================================
