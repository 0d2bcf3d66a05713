-------------------------- MODULE MCConsoleSetup ---------------------------
(* The pages on which an evaluation is set up and started, the traces, and what *)
(* every page stands on, on small instances: one visit of one page, as in      *)
(* MCConsoleReview. v1 to v17 hold the variables of the page that is shown.    *)
EXTENDS Naturals, Sequences, TLC

CONSTANTS Nothing, Still, m1, m2, m3, m4, m5, m6, m7

VARIABLES page, v1, v2, v3, v4, v5, v6, v7, v8, v9, v10, v11, v12, v13, v14, v15, v16, v17
vars == <<page, v1, v2, v3, v4, v5, v6, v7, v8, v9, v10, v11, v12, v13, v14, v15, v16, v17>>

\* The slots that a page with fewer variables leaves alone.
From13 == <<v13, v14, v15, v16, v17>>
From12 == <<v12, From13>>
From11 == <<v11, From12>>
From10 == <<v10, From11>>
From9  == <<v9, From10>>
From7  == <<v7, v8, From9>>
Idle13 == v13 = Nothing /\ v14 = Nothing /\ v15 = Nothing /\ v16 = Nothing /\ v17 = Nothing
Idle12 == v12 = Nothing /\ Idle13
Idle11 == v11 = Nothing /\ Idle12
Idle10 == v10 = Nothing /\ Idle11
Idle9  == v9 = Nothing /\ Idle10
Idle7  == v7 = Nothing /\ v8 = Nothing /\ Idle9

-----------------------------------------------------------------------------
(* The workbench *)

RF == INSTANCE RunForm WITH
    Model <- {m1, m2}, Text <- {m3}, MaxEdits <- 3, MaxLoads <- 1,
    offered <- v1, listed <- v2, loads <- v3, loading <- v4, applied <- v5, form <- v6,
    dirty <- v7, saving <- v8, readiness <- v9, checking <- v10, due <- v11, checks <- v12,
    draft <- v13, saveDue <- v14, launch <- v15, done <- v16, launched <- v17

DC == INSTANCE DatasetChoice WITH
    Datasets <- {m1, m2, m3, m4}, Agent <- {m5, m6}, NoDataset <- Nothing, FirstPage <- {m1},
    Unpublished <- {m2, m3, m4}, NewVersions <- {m3, m4}, Golden <- (m5 :> m2) @@ (m6 :> m1),
    MaxConsents <- 1, MaxUnderWay <- 2,
    published <- v1, parent <- v2, picker <- v3, choice <- v4, agent <- v5, golden <- v6,
    dialog <- v7, preview <- v8, back <- v9, publish <- v10, tally <- v11

RR == INSTANCE RunReadiness WITH
    Metric <- {"tone", "match", "trace"},
    Depth <- ("tone" :> 0) @@ ("match" :> 0) @@ ("trace" :> 1),
    Group <- {{"tone", "match"}, {"trace"}}, Template <- {"template"},
    Scored <- ("template" :> "match"), Manifest <- {"tone"}, ManifestDepth <- 0,
    Dataset <- {m1, m2}, NeedsReference <- {"match"}, Reference <- {m1}, MaxEdits <- 2,
    form <- v1, manifest <- v2, readiness <- v3, checking <- v4, due <- v5, calls <- v6,
    launch <- v7, launched <- v8, edits <- v9

RP == INSTANCE RunPrefill WITH
    Check <- {"tone", "match"}, DefaultChecks <- {"tone"}, PreparedChecks <- {"match"},
    Project <- {m1, m2}, PreparedProject <- m1, Agent <- {m3}, BoundTo <- (m3 :> m2),
    AgentChecks <- {"match"}, SavedAssignment <- {<<m4, m5>>},
    AssignedTo <- (<<m4, m5>> :> m1), None <- Nothing,
    Manifest <- {"tone", "match"}, Capacity <- 2, MaxRuns <- 1, MaxActs <- 2, MaxVisits <- 3,
    server <- v1, runs <- v2, store <- v3, page <- v4, form <- v5, launches <- v6,
    acts <- v7, visits <- v8

-----------------------------------------------------------------------------
(* Governance, data sets, prompts *)

AS == INSTANCE AssignmentSetup WITH
    Project <- {m1, m2}, Target <- {m3, m4}, Profile <- {m5, m6}, Policy <- {m7}, FirstProject <- m1,
    Registered <- {m3}, Home <- (m3 :> m1) @@ (m4 :> m2), ProfileScope <- (m5 :> Nothing) @@ (m6 :> m1),
    Gates <- (m5 :> {m7}) @@ (m6 :> {}),
    Unset <- Nothing,
    MaxRetired <- 0, MaxCatalogueLoads <- 2, MaxTargetLoads <- 2, MaxSaves <- 1,
    server <- v1, saves <- v2, lists <- v3, failed <- v4, reads <- v5, busy <- v6, chosen <- v7,
    targets <- v8, targetReads <- v9, section <- v10, pending <- v11, saved <- v12

\* The same wizard with little to choose from, which may be retired, saved again
\* and again: after an error, for its details, and started over.
AR == INSTANCE AssignmentSetup WITH
    Project <- {m1}, Target <- {m3}, Profile <- {m5}, Policy <- {m7}, FirstProject <- m1,
    Registered <- {}, Home <- (m3 :> m1), ProfileScope <- (m5 :> Nothing),
    Gates <- (m5 :> {m7}),
    Unset <- Nothing,
    MaxRetired <- 1, MaxCatalogueLoads <- 2, MaxTargetLoads <- 1, MaxSaves <- 3,
    server <- v1, saves <- v2, lists <- v3, failed <- v4, reads <- v5, busy <- v6, chosen <- v7,
    targets <- v8, targetReads <- v9, section <- v10, pending <- v11, saved <- v12

GV == INSTANCE Governance WITH
    Profile <- {m1}, Policy <- {m3}, Assignment <- {m2},
    MaxCalls <- 2, MaxLoads <- 2, MaxRefreshes <- 0, Overlap <- 2,
    records <- v1, own <- v2, overlooked <- v3, calls <- v4, asked <- v5, catalogue <- v6,
    loads <- v7, pending <- v8, dialogs <- v9

\* The same page over one profile, whose reader refreshes it.
GR == INSTANCE Governance WITH
    Profile <- {m1}, Policy <- {}, Assignment <- {},
    MaxCalls <- 2, MaxLoads <- 2, MaxRefreshes <- 1, Overlap <- 2,
    records <- v1, own <- v2, overlooked <- v3, calls <- v4, asked <- v5, catalogue <- v6,
    loads <- v7, pending <- v8, dialogs <- v9

\* The same page over one profile, with a request more and no reload: an approval
\* under way while others retire and reinstate the profile.
GA == INSTANCE Governance WITH
    Profile <- {m1}, Policy <- {}, Assignment <- {},
    MaxCalls <- 3, MaxLoads <- 0, MaxRefreshes <- 0, Overlap <- 2,
    records <- v1, own <- v2, overlooked <- v3, calls <- v4, asked <- v5, catalogue <- v6,
    loads <- v7, pending <- v8, dialogs <- v9

GW == INSTANCE GenerationWatch WITH
    JobId <- {m1, m2}, Imported <- {m3}, MaxErrors <- 1, MaxReads <- 2, MaxUses <- 5,
    server <- v1, url <- v2, going <- v3, genJob <- v4, watch <- v5, form <- v6, call <- v7,
    cancels <- v8, reads <- v9, list <- v10, uses <- v11

DP == INSTANCE DatasetPage WITH
    PageSize <- 1, InitialRows <- 2, MaxRows <- 3, MaxLoads <- 2, MaxActs <- 3,
    dataset <- v1, page <- v2, records <- v3, loads <- v4, more <- v5, calls <- v6,
    button <- v7, decision <- v8, answered <- v9, overlap <- v10, acts <- v11

PR == INSTANCE Prompts WITH
    Prompts <- 3, Opened <- 1, PageSize <- 1, MaxAttempts <- 2, MaxVersions <- 2,
    MaxLoads <- 2, MaxActs <- 3,
    catalog <- v1, label <- v2, ops <- v3, view <- v4, page <- v5, loads <- v6, list <- v7,
    pages <- v8, acts <- v9

-----------------------------------------------------------------------------
(* Traces *)

TL == INSTANCE TraceLists WITH
    Query <- {m1, m2}, FirstQuery <- m1,
    Matching <- (m1 :> (1 .. 4)) @@ (m2 :> {1, 3}),
    InitialTraces <- 3, MaxTrace <- 4, PageSize <- 1,
    MaxChanges <- 1, MaxToggles <- 1, MaxFailures <- 1,
    captured <- v1, hidden <- v2, filters <- v3, list <- v4, tab <- v5, requestSeq <- v6,
    reads <- v7, toggles <- v8, everHidden <- v9, overtaken <- v10, spent <- v11

ST == INSTANCE SpanTree WITH
    SpanCount <- 3, DepthLimit <- 1, Cap <- 2,
    parent <- v1, kind <- v2, allRows <- v3, rows <- v4, selected <- v5, showOther <- v6,
    expanded <- v7, showAll <- v8

-----------------------------------------------------------------------------
(* The gateway and the telemetry of every page *)

AG == INSTANCE ApiGateway WITH
    Subject <- {m1, m2}, MintedId <- {m3},
    Body <- {[kind |-> "text"], [kind |-> "array", details |-> <<"bad", "good">>],
             [kind |-> "coded", code |-> "absent", message |-> "long", recovery |-> "short",
              details |-> <<"good", "good">>]},
    DetailLimit <- 1, MaxProbes <- 2, MaxCalls <- 1, MaxActs <- 2,
    world <- v1, gate <- v2, probes <- v3, sent <- v4, jar <- v5, calls <- v6, made <- v7,
    seen <- v8, shown <- v9, loggedOut <- v10, acts <- v11

Attr(key, value) == [key |-> key, value |-> value]
Span(attrs, events) == [attrs |-> attrs, events |-> events]
Busy == Span(<<Attr("url.full", "dirty"), Attr("listed", "number")>>, 2)
Odd == Span(<<Attr("enum", "dirty"), Attr("listed", "nested"), Attr("http.route", "dirty")>>, 0)
Points(name, points) == [name |-> name, points |-> points]
Post(signal, items) ==
    [from |-> "other", tries |-> 1, origin |-> "same", subject |-> TRUE, size |-> "fits", form |-> "json",
     signal |-> signal, items |-> items]

BT == INSTANCE BrowserTelemetry WITH
    SpanShape <- {Span(<<Attr("http.route", "plain"), Attr("unlisted", "plain")>>, 0)},
    Vital <- {"vital"},
    Request <-
        {Post("traces", <<Busy, Nothing, Odd, Busy>>),
         Post("metrics", <<Points("unknown", << <<Attr("enum", "plain")>> >>),
                           Points("known", << <<Attr("enum", "plain")>>, <<Attr("enum", "plain")>>,
                                              <<Attr("http.route", "dirty")>> >>), Nothing>>),
         Post("errors", <<[attrs |-> <<Attr("http.route", "dirty")>>], Nothing, [attrs |-> <<>>]>>),
         [Post("traces", <<Busy>>) EXCEPT !.origin = "cross"],
         [Post("traces", <<Busy>>) EXCEPT !.subject = FALSE],
         [Post("metrics", <<>>) EXCEPT !.form = "odd"], [Post("errors", <<>>) EXCEPT !.form = "odd"],
         [Post("traces", <<Busy>>) EXCEPT !.size = "over"], Post("logs", <<Busy>>)},
    MaxQueue <- 2, MaxBatch <- 1, MaxPerPage <- 1, MaxSpans <- 2, MaxPoints <- 2, MaxErrors <- 2,
    MaxEvents <- 1, MaxTries <- 2, MaxPosts <- 2, MaxActs <- 4,
    provider <- v1, sdk <- v2, posts <- v3, relay <- v4, last <- v5, acts <- v6

-----------------------------------------------------------------------------
(* One visit *)

ASSUME SetupConstants ==
    /\ RF!RunFormAssumption /\ DC!DatasetChoiceAssumption /\ RR!ReadinessAssumption
    /\ RP!PrefillAssumption /\ AS!SetupAssumption /\ AR!SetupAssumption
    /\ GV!GovernanceAssumption /\ GR!GovernanceAssumption /\ GA!GovernanceAssumption
    /\ GW!GenerationWatchAssumption /\ DP!DatasetPageAssumption /\ PR!PromptsAssumption
    /\ TL!TraceListAssumption /\ ST!SpanTreeAssumption /\ AG!GatewayAssumption
    /\ BT!BatchFits

Init ==
    \/ page = "form" /\ RF!RunFormInit
    \/ page = "choice" /\ DC!ChoiceInit /\ Idle12
    \/ page = "readiness" /\ RR!ReadinessInit /\ Idle10
    \/ page = "prefill" /\ RP!PrefillInit /\ Idle9
    \/ page = "assignment" /\ AS!SetupInit /\ Idle13
    \/ page = "retries" /\ AR!SetupInit /\ Idle13
    \/ page = "governance" /\ GV!GovernanceInit /\ Idle10
    \/ page = "refreshed" /\ GR!GovernanceInit /\ Idle10
    \/ page = "approval" /\ GA!GovernanceInit /\ Idle10
    \/ page = "datasets" /\ GW!WatchInit /\ Idle12
    \/ page = "dataset" /\ DP!DatasetPageInit /\ Idle12
    \/ page = "prompts" /\ PR!PromptsInit /\ Idle10
    \/ page = "traces" /\ TL!TraceInit /\ Idle12
    \/ page = "spans" /\ ST!TreeInit /\ Idle9
    \/ page = "gate" /\ AG!GatewayInit /\ Idle12
    \/ page = "telemetry" /\ BT!TelemetryInit /\ Idle7

Step ==
    \/ page = "form" /\ RF!RunFormNext
    \/ page = "choice" /\ DC!ChoiceNext /\ UNCHANGED From12
    \/ page = "readiness" /\ RR!ReadinessNext /\ UNCHANGED From10
    \/ page = "prefill" /\ RP!PrefillNext /\ UNCHANGED From9
    \/ page = "assignment" /\ AS!SetupNext /\ UNCHANGED From13
    \/ page = "retries" /\ AR!SetupNext /\ UNCHANGED From13
    \/ page = "governance" /\ GV!GovernanceNext /\ UNCHANGED From10
    \/ page = "refreshed" /\ GR!GovernanceNext /\ UNCHANGED From10
    \/ page = "approval" /\ GA!GovernanceNext /\ UNCHANGED From10
    \/ page = "datasets" /\ GW!WatchNext /\ UNCHANGED From12
    \/ page = "dataset" /\ DP!DatasetPageNext /\ UNCHANGED From12
    \/ page = "prompts" /\ PR!PromptsNext /\ UNCHANGED From10
    \/ page = "traces" /\ TL!TraceNext /\ UNCHANGED From12
    \/ page = "spans" /\ ST!TreeNext /\ UNCHANGED From9
    \/ page = "gate" /\ AG!GatewayNext /\ UNCHANGED From12
    \/ page = "telemetry" /\ BT!TelemetryNext /\ UNCHANGED From7

Next == UNCHANGED page /\ Step
Spec == Init /\ [][Next]_vars

-----------------------------------------------------------------------------
(* Properties *)

\* Whatever page is shown, its state keeps its type.
SetupConsoleTypeOK ==
    /\ page = "form" => RF!RunFormTypeOK
    /\ page = "choice" => DC!ChoiceTypeOK
    /\ page = "readiness" => RR!ReadinessTypeOK
    /\ page = "prefill" => RP!PrefillTypeOK
    /\ page = "assignment" => AS!SetupTypeOK
    /\ page = "retries" => AR!SetupTypeOK
    /\ page = "governance" => GV!GovernanceTypeOK
    /\ page = "refreshed" => GR!GovernanceTypeOK
    /\ page = "approval" => GA!GovernanceTypeOK
    /\ page = "datasets" => GW!WatchTypeOK
    /\ page = "dataset" => DP!DatasetPageTypeOK
    /\ page = "prompts" => PR!PromptsTypeOK
    /\ page = "traces" => TL!TraceTypeOK
    /\ page = "spans" => ST!TreeTypeOK
    /\ page = "gate" => AG!GatewayTypeOK
    /\ page = "telemetry" => BT!TelemetryTypeOK

\* The run that the workbench starts is the one on its screen: checked as it
\* stands, with the text, the data set and the checks shown, and a form taken
\* over from a draft, a rerun or a preparation is that one's.
RunIsAsShown ==
    /\ page = "form" => RF!RunFormIsTrue
    /\ page = "choice" => DC!ChoiceIsTrue
    /\ page = "readiness" => RR!ReadinessIsTrue
    /\ page = "prefill" => RP!PrefillIsTrue

\* A page that changes records on the server shows what it and others have made
\* of them; nothing untested is approved but by an approval that others overtook;
\* a list of traces keeps to its filters and has no gaps.
RecordsAreAsShown ==
    /\ page = "assignment" => AS!SetupIsTrue
    /\ page = "retries" => AR!SetupIsTrue
    /\ page = "governance" => GV!GovernanceIsTrue /\ GV!ApprovedWasTested
    /\ page = "refreshed" => GR!GovernanceIsTrue /\ GR!ApprovedWasTested
    /\ page = "approval" => GA!GovernanceIsTrue /\ GA!ApprovedWasTested
    /\ page = "datasets" => GW!WatchIsTrue
    /\ page = "dataset" => DP!DatasetPageIsTrue
    /\ page = "prompts" => PR!PromptsAreTrue
    /\ page = "traces" => TL!FiltersWinUntilToggle /\ TL!LoadedWithoutGaps
    /\ page = "spans" => ST!TreeIsTrue
    /\ page = "gate" => AG!GatewayIsTrue
    /\ page = "telemetry" => BT!TelemetryIsTrue

\* No step of a page takes back a choice, doubles a request or reaches beyond
\* what it was asked to do: a late answer chooses no data set, a click ticks no
\* check that cannot run, a preparation leaves the draft alone, a retry creates a
\* second assignment only when the answer of the first was lost, a lock waits for
\* its answer, a span that becomes selected is one the tree shows.
StepsKeepToTheirTask ==
    [][ /\ page = "choice" => DC!GoldenIsForThisAgent
        /\ page = "readiness" => RR!TicksOnlyWhatCanRun
        /\ page = "prefill" => RP!PreparedLeavesDraft
        /\ page = "assignment" => AS!RetryCreatesNone
        /\ page = "retries" => AR!RetryCreatesNone
        /\ page = "prompts" => PR!OneChangeAtATime
        /\ page = "spans" => ST!SelectionRevealed ]_vars
=============================================================================
