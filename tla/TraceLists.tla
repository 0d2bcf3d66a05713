------------------------------ MODULE TraceLists ------------------------------
(***************************************************************************)
(* The traces tab of a project: a list read page by page with a keyset     *)
(* cursor while new traces arrive, filters that restart it, and traces     *)
(* hidden and shown again from its rows. Answers arrive in any order; a    *)
(* sequence number tells the page which of them are still wanted.          *)
(*                                                                         *)
(* The zero-delay timer between a change of the query and loadFirst is     *)
(* part of the change: no answer of a server is as fast.                   *)
(***************************************************************************)
EXTENDS Integers, Sequences, FiniteSets

CONSTANTS
    Query,          \* what the filters can ask for
    FirstQuery,     \* the query of the link that opened the tab
    Matching,       \* [Query -> SUBSET (1 .. MaxTrace)]
    InitialTraces,  \* traces captured before the tab opens
    MaxTrace,       \* bound: traces, numbered in order of capture
    PageSize,       \* LONG_LIST_PER_PAGE
    MaxChanges,     \* bound: changes of the filters
    MaxToggles,     \* bound: traces hidden or shown again
    MaxFailures     \* bound: reads that fail

TraceListAssumption ==
    /\ FirstQuery \in Query
    /\ MaxTrace \in Nat /\ InitialTraces \in 0 .. MaxTrace
    /\ Matching \in [Query -> SUBSET (1 .. MaxTrace)]
    /\ PageSize \in Nat \ {0}
    /\ MaxChanges \in Nat /\ MaxToggles \in Nat /\ MaxFailures \in Nat

VARIABLES
    captured,   \* Nat: traces captured so far
    hidden,     \* SUBSET Trace: hidden on the server
    filters,    \* [typed: Query, applied: View]: the form, and queryOptions
    list,       \* TracesPageState, with the view that it was read for
    tab,        \* [loading, loadingMore, error: BOOLEAN]
    requestSeq, \* Nat
    reads,      \* SUBSET Read: list requests on their way
    toggles,    \* SUBSET Toggle: hide and unhide requests on their way
    everHidden, \* SUBSET Trace: traces that were ever hidden
    overtaken,  \* BOOLEAN: a toggle ended under other filters than it began
    spent       \* [changes, toggles, failures: Nat]

traceVars == <<captured, hidden, filters, list, tab, requestSeq, reads, toggles,
               everHidden, overtaken, spent>>

Trace == 1 .. MaxTrace
View == [query: Query, showHidden: BOOLEAN]
Page == [items: Seq(Trace), total: Nat, next: Trace \cup {0}, more: BOOLEAN,
         hiddenCount: Nat]
NoPage == [items |-> <<>>, total |-> 0, next |-> 0, more |-> FALSE, hiddenCount |-> 0]
\* cursor 0: the first page, which replaces the list.
Read == [seq: Nat, view: View, cursor: Trace \cup {0}]
Toggle == [trace: Trace, hide: BOOLEAN, view: View, done: BOOLEAN]

Loaded(items) == {items[i] : i \in 1 .. Len(items)}
ListState == [items: Seq(Trace), total: Nat, next: Trace \cup {0}, more: BOOLEAN,
              hiddenCount: Nat, view: View]

-----------------------------------------------------------------------------
(* The server *)

Visible(view) ==
    {t \in Matching[view.query] : t <= captured /\ (view.showHidden \/ t \notin hidden)}

\* Newest first, after the cursor.
Newest(S) == CHOOSE t \in S : \A u \in S : u <= t
NewestFirst[S \in SUBSET Trace] ==
    IF S = {} THEN <<>> ELSE <<Newest(S)>> \o NewestFirst[S \ {Newest(S)}]

PageOf(view, cursor) ==
    LET rest == {t \in Visible(view) : cursor = 0 \/ t < cursor}
        items == SubSeq(NewestFirst[rest], 1, IF Cardinality(rest) < PageSize
                                              THEN Cardinality(rest) ELSE PageSize)
        more == Cardinality(rest) > PageSize
    IN [items |-> items, total |-> Cardinality(Visible(view)),
        next |-> IF more THEN items[Len(items)] ELSE 0, more |-> more,
        hiddenCount |-> Cardinality({t \in Matching[view.query] : t <= captured} \cap hidden)]

Capture ==
    /\ captured < MaxTrace /\ captured' = captured + 1
    /\ UNCHANGED <<hidden, filters, list, tab, requestSeq, reads, toggles, everHidden, overtaken, spent>>

-----------------------------------------------------------------------------
(* components/tracing/trace-workspace.ts *)

\* A page is newest first, and so is what of it the list does not hold yet.
AppendTracesPage(prev, page, view, reset) ==
    LET base == IF reset THEN <<>> ELSE prev.items
        fresh == NewestFirst[Loaded(page.items) \ Loaded(base)]
        items == base \o fresh
    IN [items |-> items, total |-> page.total, next |-> page.next,
        more |-> page.more \/ page.next # 0 \/ page.total > Len(items),
        hiddenCount |-> page.hiddenCount, view |-> view]

CanLoadMoreTraces == list.more /\ list.next # 0

EmptyTracesPageState(view) == AppendTracesPage(list, NoPage, view, TRUE)

-----------------------------------------------------------------------------
(* The tab *)

LoadFirst(view) ==
    /\ requestSeq' = requestSeq + 1
    /\ reads' = reads \cup {[seq |-> requestSeq + 1, view |-> view, cursor |-> 0]}

TraceInit ==
    LET view == [query |-> FirstQuery, showHidden |-> FALSE] IN
    /\ captured = InitialTraces /\ hidden = {} /\ everHidden = {} /\ overtaken = FALSE
    /\ filters = [typed |-> FirstQuery, applied |-> view]
    /\ list = [items |-> <<>>, total |-> 0, next |-> 0, more |-> FALSE,
               hiddenCount |-> 0, view |-> view]
    /\ tab = [loading |-> TRUE, loadingMore |-> FALSE, error |-> FALSE]
    /\ requestSeq = 1
    /\ reads = {[seq |-> 1, view |-> view, cursor |-> 0]}
    /\ toggles = {}
    /\ spent = [changes |-> 0, toggles |-> 0, failures |-> 0]

\* queryOptions change: the list restarts.
Apply(typed, view) ==
    /\ filters' = [typed |-> typed, applied |-> view]
    /\ LoadFirst(view)
    /\ tab' = [tab EXCEPT !.loading = TRUE, !.error = FALSE]
    /\ UNCHANGED <<captured, hidden, list, toggles, everHidden, overtaken>>

\* A text filter waits for 300 ms.
TypeSearch(q) ==
    /\ q # filters.typed /\ spent.changes < MaxChanges
    /\ filters' = [filters EXCEPT !.typed = q]
    /\ spent' = [spent EXCEPT !.changes = @ + 1]
    /\ UNCHANGED <<captured, hidden, list, tab, requestSeq, reads, toggles, everHidden, overtaken>>

Debounced ==
    /\ filters.typed # filters.applied.query
    /\ Apply(filters.typed, [filters.applied EXCEPT !.query = filters.typed])
    /\ UNCHANGED spent

ToggleShowHidden ==
    /\ list.hiddenCount > 0 \/ filters.applied.showHidden
    /\ spent.changes < MaxChanges
    /\ spent' = [spent EXCEPT !.changes = @ + 1]
    /\ Apply(filters.typed, [filters.applied EXCEPT !.showHidden = ~@])

Retry ==
    /\ ~tab.loading /\ tab.error /\ list.items = <<>>
    /\ Apply(filters.typed, filters.applied)
    /\ UNCHANGED spent

LoadMore ==
    /\ ~tab.loading /\ list.items # <<>> /\ CanLoadMoreTraces /\ ~tab.loadingMore
    /\ tab' = [tab EXCEPT !.loadingMore = TRUE, !.error = FALSE]
    /\ reads' = reads \cup
          {[seq |-> requestSeq, view |-> filters.applied, cursor |-> list.next]}
    /\ UNCHANGED <<captured, hidden, filters, list, requestSeq, toggles, everHidden, overtaken, spent>>

\* An answer that no newer loadFirst has overtaken.
Wanted(r) == r.seq = requestSeq

\* setLoading of the latest first page, setLoadingMore of any further page.
Settle(r, error) ==
    tab' = [loading |-> IF r.cursor = 0 /\ Wanted(r) THEN FALSE ELSE tab.loading,
            loadingMore |-> IF r.cursor = 0 THEN tab.loadingMore ELSE FALSE,
            error |-> tab.error \/ (error /\ Wanted(r))]

ReadArrives(r) ==
    /\ reads' = reads \ {r}
    /\ list' = IF Wanted(r)
               THEN AppendTracesPage(list, PageOf(r.view, r.cursor), r.view, r.cursor = 0)
               ELSE list
    /\ Settle(r, FALSE)
    /\ UNCHANGED <<captured, hidden, filters, requestSeq, toggles, everHidden, overtaken, spent>>

ReadFails(r) ==
    /\ spent.failures < MaxFailures
    /\ spent' = [spent EXCEPT !.failures = @ + 1]
    /\ reads' = reads \ {r}
    /\ list' = IF Wanted(r) /\ r.cursor = 0
               THEN EmptyTracesPageState(r.view) ELSE list
    /\ Settle(r, TRUE)
    /\ UNCHANGED <<captured, hidden, filters, requestSeq, toggles, everHidden, overtaken>>

-----------------------------------------------------------------------------
(* Hiding traces: toggleHidden keeps the loadFirst of the render it came from *)

ToggleHidden(t) ==
    /\ ~tab.loading /\ t \in Loaded(list.items) /\ spent.toggles < MaxToggles
    /\ spent' = [spent EXCEPT !.toggles = @ + 1]
    /\ toggles' = toggles \cup {[trace |-> t, hide |-> t \notin hidden,
                                 view |-> filters.applied, done |-> FALSE]}
    /\ UNCHANGED <<captured, hidden, filters, list, tab, requestSeq, reads, everHidden, overtaken>>

ToggleCommits(r) ==
    /\ ~r.done
    /\ hidden' = IF r.hide THEN hidden \cup {r.trace} ELSE hidden \ {r.trace}
    /\ everHidden' = everHidden \cup {r.trace}
    /\ toggles' = (toggles \ {r}) \cup {[r EXCEPT !.done = TRUE]}
    /\ UNCHANGED <<captured, filters, list, tab, requestSeq, reads, overtaken, spent>>

ToggleReturns(r) ==
    /\ r.done
    /\ toggles' = toggles \ {r}
    /\ LoadFirst(r.view)
    /\ tab' = [tab EXCEPT !.loading = TRUE, !.error = FALSE]
    /\ overtaken' = (overtaken \/ r.view # filters.applied)
    /\ UNCHANGED <<captured, hidden, filters, list, everHidden, spent>>

ToggleFails(r) ==
    /\ toggles' = toggles \ {r}
    /\ UNCHANGED <<captured, hidden, filters, list, tab, requestSeq, reads, everHidden, overtaken, spent>>

TraceNext ==
    \/ Capture \/ Debounced \/ ToggleShowHidden \/ Retry \/ LoadMore
    \/ \E q \in Query : TypeSearch(q)
    \/ \E r \in reads : ReadArrives(r) \/ ReadFails(r)
    \/ \E t \in Trace : ToggleHidden(t)
    \/ \E r \in toggles : ToggleCommits(r) \/ ToggleReturns(r) \/ ToggleFails(r)

TraceSpec == TraceInit /\ [][TraceNext]_traceVars

-----------------------------------------------------------------------------
TraceTypeOK ==
    /\ captured \in 0 .. MaxTrace
    /\ hidden \subseteq Trace /\ everHidden \subseteq Trace
    /\ filters \in [typed: Query, applied: View]
    /\ list \in ListState
    /\ tab \in [loading: BOOLEAN, loadingMore: BOOLEAN, error: BOOLEAN]
    /\ requestSeq \in Nat
    /\ reads \subseteq Read
    /\ toggles \subseteq Toggle
    /\ overtaken \in BOOLEAN
    /\ spent \in [changes: Nat, toggles: Nat, failures: Nat]

\* traces/page.tsx, comment on loadFirst: "a stale in-flight response must never
\* overwrite a newer filter's results". What a list that is not loading shows was
\* read for the filters in force, but for the reload that ends a toggle begun
\* under other filters.
FiltersWinUntilToggle == overtaken \/ tab.loading \/ list.view = filters.applied

\* trace-workspace.ts, comment on appendTracesPage: however pages, new traces,
\* reloads and late answers interleave, the list is newest first and without
\* repetition, and it leaves out no trace of its view between its first and its
\* last row; once nothing is left to load, none after its last row either.
LoadedWithoutGaps ==
    LET items == list.items
        due == {t \in Matching[list.view.query] : t <= captured /\ t \notin everHidden}
    IN
    ~overtaken /\ items # <<>> =>
        /\ \A i \in 1 .. Len(items) - 1 : items[i] > items[i + 1]
        /\ {t \in due : items[Len(items)] <= t /\ t <= items[1]} \subseteq Loaded(items)
        /\ ~CanLoadMoreTraces => {t \in due : t <= items[1]} \subseteq Loaded(items)
=============================================================================
