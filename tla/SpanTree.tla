------------------------------- MODULE SpanTree -------------------------------
(***************************************************************************)
(* The span tree of the trace inspector: rows in depth-first order from a  *)
(* flat list of archived spans whose parents may be missing, be the span   *)
(* itself or form a cycle; transport spans hidden; rows collapsed; a cap   *)
(* on the rows rendered; a selection that the URL restores and the         *)
(* keyboard moves.                                                         *)
(*                                                                         *)
(* Span ids are unique in a payload, and number its order.                 *)
(***************************************************************************)
EXTENDS Integers, Sequences, FiniteSets, SequencesExt

CONSTANTS
    SpanCount,      \* spans of the trace
    DepthLimit,     \* DEFAULT_EXPANDED_DEPTH
    Cap             \* INITIAL_SPAN_RENDER_CAP

SpanTreeAssumption ==
    /\ SpanCount \in Nat \ {0} /\ DepthLimit \in Nat /\ Cap \in Nat \ {0}

VARIABLES
    parent,     \* [Span -> Span or 0]: 0 when none of the payload's spans
    kind,       \* [Span -> Kind]: the recorded OpenInference type
    allRows,    \* spanTreeRows of the payload
    rows,       \* the rows left by filterSpanRows
    selected,   \* Span or 0: effectiveSelected
    showOther,  \* BOOLEAN
    expanded,   \* SUBSET Span
    showAll     \* BOOLEAN

treeVars == <<parent, kind, allRows, rows, selected, showOther, expanded, showAll>>

Span == 1 .. SpanCount
\* "none": an untyped (transport or framework) span. The other typed spans are
\* treated as "none" by the token sums and as "llm" by the tree.
Kind == {"llm", "none"}
Row == [span: Span, depth: Nat, hasChildren: BOOLEAN, parentId: Span \cup {0},
        isLastChild: BOOLEAN]
Payload == [i \in Span |-> i]
IsInfraSpan(s) == kind[s] = "none"

-----------------------------------------------------------------------------
(* spanTreeRows, for the spans listed and their parents *)

IsChild(spans, up, s) == up[s] # s /\ up[s] \in Range(spans)

Visited(list) == {list[i].span : i \in DOMAIN list}
Kids(spans, up, s, list) ==
    SelectSeq(spans, LAMBDA k : IsChild(spans, up, k) /\ up[k] = s
                                  /\ k \notin Visited(list) \cup {s})

\* The frames are popped from the end, so a span's kids are pushed last first.
KidFrames(kids, frame) ==
    Reverse([i \in 1 .. Len(kids) |->
        [span |-> kids[i], depth |-> frame.depth + 1, parentId |-> frame.span,
         isLastChild |-> i = Len(kids)]])

RECURSIVE Walk(_, _, _, _)
Walk(spans, up, stack, list) ==
    IF stack = <<>> THEN list
    ELSE LET frame == Last(stack)
             kids == Kids(spans, up, frame.span, list)
             row == [span |-> frame.span, depth |-> frame.depth,
                     hasChildren |-> kids # <<>>, parentId |-> frame.parentId,
                     isLastChild |-> frame.isLastChild]
         IN IF frame.span \in Visited(list)
            THEN Walk(spans, up, Front(stack), list)
            ELSE Walk(spans, up, Front(stack) \o KidFrames(kids, frame), Append(list, row))

RootFrame(s, last) == [span |-> s, depth |-> 0, parentId |-> 0, isLastChild |-> last]

\* A cycle reaches no root: its first span is taken for one.
SpanTreeRows(spans, up) ==
    LET roots == SelectSeq(spans, LAMBDA s : ~IsChild(spans, up, s))
        reached == FoldLeft(LAMBDA list, s :
                        Walk(spans, up, <<RootFrame(s, s = Last(roots))>>, list), <<>>, roots)
    IN FoldLeft(LAMBDA list, s : Walk(spans, up, <<RootFrame(s, TRUE)>>, list), reached, spans)

-----------------------------------------------------------------------------
(* Rows: ancestors, transport spans, expansion, the cap *)

RowOf(list, s) == CHOOSE i \in DOMAIN list : list[i].span = s
ParentId(list, s) == IF s \in Visited(list) THEN list[RowOf(list, s)].parentId ELSE 0

RECURSIVE Ancestors(_, _)
Ancestors(list, s) ==
    LET p == ParentId(list, s) IN IF p = 0 THEN {} ELSE {p} \cup Ancestors(list, p)

\* The nearest ancestor that is kept.
RECURSIVE KeptParent(_, _, _)
KeptParent(list, keep, s) ==
    LET p == ParentId(list, s) IN
    IF p = 0 \/ p \in keep THEN p ELSE KeptParent(list, keep, p)

\* filterSpanRows with no query: hideInfra drops the untyped spans and rebuilds
\* the tree of the others.
FilterSpanRows(list, hideInfra) ==
    LET keep == {s \in Visited(list) : ~IsInfraSpan(s)}
        spans == SelectSeq([i \in DOMAIN list |-> list[i].span], LAMBDA s : s \in keep)
    IN IF hideInfra
       THEN SpanTreeRows(spans, [s \in Span |-> IF s \in keep THEN KeptParent(list, keep, s) ELSE 0])
       ELSE list

DefaultExpanded(list) ==
    {list[i].span : i \in {j \in DOMAIN list : list[j].hasChildren /\ list[j].depth < DepthLimit}}

ExpandSpanAncestors(list, open, s) == IF s = 0 THEN open ELSE open \cup Ancestors(list, s)

\* A row shows when the row above it in the tree shows and is expanded.
VisibleSpanRows(list, open) ==
    FoldLeft(LAMBDA vis, row :
                IF row.parentId = 0 \/ row.parentId \in Visited(vis) \cap open
                THEN Append(vis, row) ELSE vis,
             <<>>, list)

RECURSIVE Cut(_, _)
Cut(list, cut) ==
    IF cut > 1 /\ list[cut + 1].depth > list[cut].depth THEN Cut(list, cut - 1) ELSE cut
CappedSpanRows(list, all) ==
    IF all \/ Len(list) <= Cap THEN list ELSE SubSeq(list, 1, Cut(list, Cap))

-----------------------------------------------------------------------------
(* TraceInspector and SpanTreePane *)

IncludeOther(s, other) == other \/ IF s = 0 THEN FALSE ELSE IsInfraSpan(s)
Rendered == CappedSpanRows(VisibleSpanRows(rows, expanded), showAll)

\* resolveSelectedSpanId, among the typed spans unless the link names another.
Resolve(requested) ==
    LET choices == IF requested \in Span THEN Payload
                   ELSE SelectSeq(Payload, LAMBDA s : ~IsInfraSpan(s))
        roots == SelectSeq(choices, LAMBDA s : parent[s] = 0)
    IN CASE requested \in Range(choices) -> requested
         [] requested \notin Range(choices) /\ roots # <<>> -> Head(roots)
         [] requested \notin Range(choices) /\ roots = <<>> /\ choices # <<>> -> Head(choices)
         [] OTHER -> 0

\* New rows seed the expansion again; a new selection opens its ancestors.
Seed(list, s) == ExpandSpanAncestors(list, DefaultExpanded(list), s)
Rebuild(s, other) ==
    /\ rows' = FilterSpanRows(allRows, ~IncludeOther(s, other))
    /\ expanded' = Seed(rows', s)
    /\ showAll' = FALSE

TreeInit ==
    /\ parent \in [Span -> Span \cup {0}]
    /\ kind \in [Span -> Kind]
    /\ allRows = SpanTreeRows(Payload, parent)
    /\ selected \in {Resolve(requested) : requested \in Span \cup {0}}
    /\ rows = FilterSpanRows(allRows, ~IncludeOther(selected, FALSE))
    /\ expanded = Seed(rows, selected)
    /\ showOther = FALSE /\ showAll = FALSE

Select(s) ==
    /\ selected' = s
    /\ IF IncludeOther(s, showOther) # IncludeOther(selected, showOther)
       THEN Rebuild(s, showOther)
       ELSE expanded' = ExpandSpanAncestors(rows, expanded, s) /\ UNCHANGED <<rows, showAll>>
    /\ UNCHANGED <<parent, kind, allRows, showOther>>

ToggleSpanExpanded(s) ==
    /\ expanded' = IF s \in expanded THEN expanded \ {s} ELSE expanded \cup {s}
    /\ UNCHANGED <<parent, kind, allRows, rows, selected, showOther, showAll>>

ClickRow == \E i \in DOMAIN Rendered : Select(Rendered[i].span)
ClickToggle == \E i \in DOMAIN Rendered :
    Rendered[i].hasChildren /\ ToggleSpanExpanded(Rendered[i].span)

\* spanTreeKeyAction of the row that has the focus.
MoveTo(from, to) == to # from /\ to \in DOMAIN Rendered /\ Select(Rendered[to].span)
ArrowsAndEnds(i) == \E to \in {i - 1, i + 1, 1, Len(Rendered)} : MoveTo(i, to)
ArrowRight(i) ==
    LET row == Rendered[i] IN
    row.hasChildren /\ IF row.span \in expanded THEN MoveTo(i, i + 1)
                       ELSE ToggleSpanExpanded(row.span)
ArrowLeft(i) ==
    LET row == Rendered[i] IN
    IF row.hasChildren /\ row.span \in expanded THEN ToggleSpanExpanded(row.span)
    ELSE \E to \in DOMAIN Rendered : Rendered[to].span = row.parentId /\ MoveTo(i, to)
PressKey == \E i \in DOMAIN Rendered : ArrowsAndEnds(i) \/ ArrowRight(i) \/ ArrowLeft(i)

ShowOther ==
    /\ \E s \in Span : IsInfraSpan(s)
    /\ ~IncludeOther(selected, FALSE)
    /\ showOther' = ~showOther
    /\ Rebuild(selected, ~showOther)
    /\ UNCHANGED <<parent, kind, allRows, selected>>

ShowAll ==
    /\ Len(Rendered) < Len(VisibleSpanRows(rows, expanded))
    /\ showAll' = TRUE
    /\ UNCHANGED <<parent, kind, allRows, rows, selected, showOther, expanded>>

TreeNext == ClickRow \/ ClickToggle \/ PressKey \/ ShowOther \/ ShowAll

TreeSpec == TreeInit /\ [][TreeNext]_treeVars

-----------------------------------------------------------------------------
(* traceLlmTokenHint: which LLM spans are counted *)

\* Walks up from every LLM span until the path is known; an LLM span met on the
\* way has an LLM descendant.
RECURSIVE Climb(_, _)
Climb(s, walked) ==
    IF s = 0 \/ s \in walked THEN walked ELSE Climb(parent[s], walked \cup {s})
LlmSpans == {s \in Span : kind[s] = "llm"}
Shadowed ==
    LlmSpans \cap FoldLeft(LAMBDA walked, s : IF s \in LlmSpans THEN Climb(parent[s], walked)
                                              ELSE walked, {}, Payload)
Counted == LlmSpans \ Shadowed

-----------------------------------------------------------------------------
TreeTypeOK ==
    /\ parent \in [Span -> Span \cup {0}] /\ kind \in [Span -> Kind]
    /\ selected \in Span \cup {0} /\ expanded \subseteq Span
    /\ showOther \in BOOLEAN /\ showAll \in BOOLEAN

\* span-tree.ts, comment on spanTreeRows: "no span is ever lost or duplicated",
\* whatever parents were recorded; a row stands right under its parent's rows,
\* one level deeper, and says truly whether it has children and is the last.
IsTreeOf(list, S) ==
    /\ Visited(list) = S /\ Len(list) = Cardinality(S)
    /\ \A i \in DOMAIN list :
        LET row == list[i]
            siblings == {j \in DOMAIN list : list[j].parentId = row.parentId}
        IN
        /\ row.parentId = 0 <=> row.depth = 0
        /\ row.parentId # 0 => \E j \in 1 .. i - 1 :
                /\ list[j].span = row.parentId /\ row.depth = list[j].depth + 1
                /\ \A k \in j + 1 .. i - 1 : list[k].depth > list[j].depth
        /\ row.hasChildren <=> \E j \in DOMAIN list : list[j].parentId = row.span
        /\ row.parentId # 0 => (row.isLastChild <=> \A j \in siblings : j <= i)
\* A recorded parent is only dropped for a span whose path reaches no root.
ReachesRoot(s) == \E a \in Climb(s, {}) : parent[a] = 0 \/ parent[a] = a
KeepsParents(list) ==
    \A i \in DOMAIN list :
        LET s == list[i].span IN
        \/ list[i].parentId = parent[s]
        \/ list[i].parentId = 0 /\ (parent[s] = s \/ ~ReachesRoot(s))
TreeIsWhole == IsTreeOf(allRows, Span) /\ KeepsParents(allRows)

\* Hiding the untyped spans keeps every other one, in the same order, under the
\* nearest ancestor that is left.
OrderIn(list, S) == SelectSeq([i \in DOMAIN list |-> list[i].span], LAMBDA s : s \in S)
HidingKeepsTheRest ==
    LET list == FilterSpanRows(allRows, TRUE)
        typed == {s \in Span : ~IsInfraSpan(s)}
    IN
    /\ IsTreeOf(list, typed)
    /\ OrderIn(list, typed) = OrderIn(allRows, typed)
    /\ \A s \in typed : Ancestors(list, s) = Ancestors(allRows, s) \cap typed

\* span-tree.ts, comment in cappedSpanRows: a row that says it is expanded is
\* followed by its first child, so that the right arrow never ends nowhere; only
\* a tree that is cut down to one row may split a parent from its children.
CapKeepsFirstChild ==
    \A i \in DOMAIN Rendered :
        Rendered[i].hasChildren /\ Rendered[i].span \in expanded /\ Len(Rendered) > 1
            => i < Len(Rendered) /\ Rendered[i + 1].parentId = Rendered[i].span

\* trace-workspace.ts, comment on traceLlmTokenHint: tokens are summed over the
\* innermost LLM spans, so that no usage is counted twice along a path, and none
\* is left out outside of cycles.
InnermostAreCounted ==
    \A s \in LlmSpans :
        LET below == {d \in LlmSpans : s \in Climb(parent[d], {})} IN
        s \in Counted <=> below = {}

TreeIsTrue ==
    TreeIsWhole /\ HidingKeepsTheRest /\ CapKeepsFirstChild /\ InnermostAreCounted

\* span-tree-pane.tsx, comment on the derived state: a selection always has its
\* ancestors open when it is made or when the rows are built again.
SelectionRevealed ==
    selected' # selected \/ showOther' # showOther
    => selected' = 0 \/ selected' \in Visited(VisibleSpanRows(rows, expanded))'
=============================================================================
