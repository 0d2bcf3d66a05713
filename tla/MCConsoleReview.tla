-------------------------- MODULE MCConsoleReview --------------------------
(* The pages on which results are read, compared and decided upon, on small   *)
(* instances. A browser tab shows one page at a time: the page's state comes   *)
(* into being when it mounts and is dropped when it is left, so what a tab     *)
(* does is a sequence of visits, each of which starts from the page's own      *)
(* initial states. A behaviour here is one visit of any of the pages: `page`   *)
(* says of which, and v1 to v11 hold its variables in their order of           *)
(* declaration.                                                               *)
EXTENDS Naturals, Sequences, TLC

CONSTANTS Nothing, m1, m2, m3, m4, m5, m6, m7

VARIABLES page, v1, v2, v3, v4, v5, v6, v7, v8, v9, v10, v11
vars == <<page, v1, v2, v3, v4, v5, v6, v7, v8, v9, v10, v11>>

\* The slots that a page with fewer variables leaves alone.
From3  == <<v3, v4, v5, v6, v7, v8, v9, v10, v11>>
From4  == <<v4, v5, v6, v7, v8, v9, v10, v11>>
From6  == <<v6, v7, v8, v9, v10, v11>>
From9  == <<v9, v10, v11>>
From10 == <<v10, v11>>
From11 == <<v11>>
Idle11 == v11 = Nothing
Idle10 == v10 = Nothing /\ Idle11
Idle9 == v9 = Nothing /\ Idle10
Idle6 == v6 = Nothing /\ v7 = Nothing /\ v8 = Nothing /\ Idle9
Idle4 == v4 = Nothing /\ v5 = Nothing /\ Idle6
Idle3 == v3 = Nothing /\ Idle4

-----------------------------------------------------------------------------
(* Reviews, runs *)

RV == INSTANCE Reviews WITH
    Finding <- {m1, m2}, NoFinding <- Nothing, Unread <- "unread",
    MaxOthers <- 1, MaxSubmits <- 1, MaxReads <- 1,
    finding <- v1, agreed <- v2, settled <- v3, decisions <- v4, cases <- v5, page <- v6,
    details <- v7, answers <- v8, requests <- v9, budget <- v10

RL == INSTANCE RunLibrary WITH
    RunId <- {m1, m2}, Experiment <- {m3}, ExperimentOf <- (m1 :> m3) @@ (m2 :> m3),
    Basis <- (m1 :> 1) @@ (m2 :> 1), Matching <- {m1}, Highlight <- Nothing, None <- Nothing,
    MaxComparison <- 2, MaxLoads <- 1, MaxTries <- 2,
    backend <- v1, remembered <- v2, unread <- v3, loads <- v4, library <- v5, url <- v6,
    going <- v7, tray <- v8, dialog <- v9, busy <- v10, acts <- v11

-----------------------------------------------------------------------------
(* The report of a run, its figures, its cases *)

RR == INSTANCE RunReport WITH
    CaseCount <- 3, Attention <- {2}, Unknown <- m1, NoCase <- Nothing, MaxInputs <- 4,
    runStatus <- v1, embedded <- v2, address <- v3, params <- v4, runPage <- v5, report <- v6,
    rescore <- v7, inputs <- v8

\* One metric is a check of a quality contract, one a check of safety, which is
\* the likelier cause; "advice" decides nothing and "latency" is a measurement.
Row(tone, safety, advice, latency) ==
    ("tone" :> tone) @@ ("safety" :> safety) @@ ("advice" :> advice) @@ ("latency" :> latency)
Alike(row) == [n \in {1, 2} |-> row]

RX == INSTANCE RunExtract WITH
    Run <- {m1, m2, m3}, Case <- {1, 2}, Required <- {"tone", "safety"},
    Diagnostic <- {"advice"}, Ops <- {"latency"}, Basis <- {1},
    Number <- (m1 :> 1) @@ (m2 :> 1) @@ (m3 :> 2), Governed <- {m1}, Exploratory <- {m3},
    Tables <- (m1 :> {Alike(Row(x, w, y, "measured")) : x \in {"pass", "warn", "unscored"},
                                  w \in {"pass", "error"}, y \in {"fail", "unscored"}}
                    \cup {Alike(Row("na", "na", "na", "measured")), Alike(Row("pass", "pass", "error", "na")),
                          <<Row("pass", "pass", "pass", "na"), Row("warn", "pass", "pass", "na")>>})
              @@ (m2 :> {Alike(Row("pass", "pass", "pass", "measured"))})
              @@ (m3 :> {Alike(Row("pass", "pass", "pass", "measured"))}),
    Quality <- {"tone"}, CausalOrder <- <<"safety", "tone">>,
    Source <- (m1 :> "agent") @@ (m2 :> "provided") @@ (m3 :> Nothing),
    Endpoint <- (m1 :> "live") @@ (m2 :> "live") @@ (m3 :> "golden"), ReleaseGoverned <- {m2},
    runs <- v1, order <- v2

CV == INSTANCE CaseVerdicts WITH
    Case <- {1, 2}, Required <- {"tone"}, Diagnostic <- {"advice"}, Ops <- {"latency"},
    Controls <- {"tone"},
    Kinds <- ("tone" :> {"pass", "warn", "fail", "unscored", "error", "na"})
             @@ ("advice" :> {"pass", "fail", "unscored", "error", "na"})
             @@ ("latency" :> {"measured", "unscored", "error"}),
    rows <- v1, cases <- v2, run <- v3

CD == INSTANCE CaseDrawer WITH
    CaseId <- {m1, m2}, Replayable <- {m1, m2}, Captured <- {m1},
    Dataset <- {m3, m4, m5}, Published <- {m3, m4}, Drafts <- {}, Prompt <- {m6}, Text <- {m7},
    Unset <- Nothing, PageCount <- 2, MaxMoves <- 5,
    shown <- v1, content <- v2, orphans <- v3, standing <- v4, records <- v5, versions <- v6,
    replays <- v7, findings <- v8, consents <- v9, moves <- v10

-----------------------------------------------------------------------------
(* Experiments, comparisons, releases *)

EL == INSTANCE ExperimentsList WITH
    Experiment <- <<m1, m2>>, History <- <<m3, m4, m5>>,
    EvaluationOf <- (m3 :> m7) @@ (m4 :> m6) @@ (m5 :> m6), BasisOf <- (m3 :> 1) @@ (m4 :> 1) @@ (m5 :> 2),
    WorkspaceOf <- (m6 :> m1) @@ (m7 :> Nothing), Name <- {"name"},
    PageSize <- 1, RunsPerLoad <- 2, MaxPicked <- 2, MaxLoads <- 2, MaxActs <- 4,
    archived <- v1, created <- v2, view <- v3, list <- v4, loads <- v5, changes <- v6,
    table <- v7, history <- v8, runLoads <- v9, dialog <- v10, acts <- v11

EP == INSTANCE ExperimentPage WITH
    Run <- {m1, m2, m3, m4}, BasisOf <- (m1 :> 1) @@ (m2 :> 1) @@ (m3 :> 1) @@ (m4 :> 2),
    StartedAt <- (m1 :> 1) @@ (m2 :> 2) @@ (m3 :> 3) @@ (m4 :> 4),
    Workspaces <- {{}, {m1, m2, m3}}, InitiallyDone <- {m1, m2, m4}, Query <- {{m1, m2, m3, m4}},
    MAX_CANDIDATES <- 1, MaxLoads <- 2, MaxActs <- 2, MaxOthers <- 1,
    server <- v1, page <- v2, loads <- v3, calls <- v4, dialog <- v5, attach <- v6,
    acts <- v7, others <- v8

CP == INSTANCE ComparePage WITH
    Run <- {m1, m2, m3}, Sample <- {"case", "other"}, Existing <- {m1, m2, m3}, Members <- {m1, m2, m3},
    BasisOf <- (m1 :> 1) @@ (m2 :> 1) @@ (m3 :> 2), Link <- {<<m1, m2>>, <<m1, m2, m3>>},
    Metric <- {"all", "tone"}, AllMetrics <- "all", MaxActs <- 2, MaxLoads <- 2,
    url <- v1, pending <- v2, lastNavQuery <- v3, view <- v4, runs <- v5, loads <- v6,
    compare <- v7, items <- v8, evidence <- v9, asked <- v10, acts <- v11

\* The same page without a filter, for longer: one sample is opened after another.
CE == INSTANCE ComparePage WITH
    Run <- {m1, m2, m3}, Sample <- {"case", "other"}, Existing <- {m1, m2, m3}, Members <- {m1, m2, m3},
    BasisOf <- (m1 :> 1) @@ (m2 :> 1) @@ (m3 :> 2), Link <- {<<m1, m2>>, <<m1, m2, m3>>},
    Metric <- {"all"}, AllMetrics <- "all", MaxActs <- 3, MaxLoads <- 2,
    url <- v1, pending <- v2, lastNavQuery <- v3, view <- v4, runs <- v5, loads <- v6,
    compare <- v7, items <- v8, evidence <- v9, asked <- v10, acts <- v11

RD == INSTANCE ReleaseDecisions WITH
    Run <- {m1, m2}, Panel <- {m1, m2}, Pinned <- {}, Editor <- {m3, m4}, MaxActs <- 2,
    roles <- v1, record <- v2, panels <- v3, deciding <- v4, editing <- v5

-----------------------------------------------------------------------------
(* One visit *)

ASSUME ReviewConstants ==
    /\ RV!ReviewAssumption
    /\ RL!RunLibraryAssumption /\ RR!RunReportAssumption /\ CV!VerdictsAssumption
    /\ RX!FiguresAssumption /\ RX!ExtractAssumption /\ CD!CaseDrawerAssumption
    /\ EP!ExperimentPageAssumption /\ CP!ComparePageAssumption /\ CE!ComparePageAssumption /\ RD!ReleaseAssumption

Init ==
    \/ page = "reviews" /\ RV!ReviewInit /\ Idle11
    \/ page = "runs" /\ RL!RunLibraryInit
    \/ page = "report" /\ RR!RunReportInit /\ Idle9
    \/ page = "figures" /\ RX!FiguresInit /\ Idle3
    \/ page = "verdicts" /\ CV!VerdictsInit /\ Idle4
    \/ page = "case" /\ CD!CaseDrawerInit /\ Idle11
    \/ page = "experiments" /\ EL!ExperimentsInit
    \/ page = "experiment" /\ EP!ExperimentPageInit /\ Idle9
    \/ page = "compare" /\ CP!ComparePageInit
    \/ page = "evidence" /\ CE!ComparePageInit
    \/ page = "release" /\ RD!ReleaseInit /\ Idle6

Step ==
    \/ page = "reviews" /\ RV!ReviewNext /\ UNCHANGED From11
    \/ page = "runs" /\ RL!RunLibraryNext
    \/ page = "report" /\ RR!RunReportNext /\ UNCHANGED From9
    \/ page = "figures" /\ RX!FiguresNext /\ UNCHANGED From3
    \/ page = "verdicts" /\ CV!VerdictsNext /\ UNCHANGED From4
    \/ page = "case" /\ CD!CaseDrawerNext /\ UNCHANGED From11
    \/ page = "experiments" /\ EL!ExperimentsNext
    \/ page = "experiment" /\ EP!ExperimentPageNext /\ UNCHANGED From9
    \/ page = "compare" /\ CP!ComparePageNext
    \/ page = "evidence" /\ CE!ComparePageNext
    \/ page = "release" /\ RD!ReleaseNext /\ UNCHANGED From6

Next == UNCHANGED page /\ Step
Spec == Init /\ [][Next]_vars

-----------------------------------------------------------------------------
(* Properties *)

\* Whatever page is shown, its state keeps its type.
ReviewConsoleTypeOK ==
    /\ page = "reviews" => RV!ReviewTypeOK
    /\ page = "runs" => RL!RunLibraryTypeOK
    /\ page = "report" => RR!RunReportTypeOK
    /\ page = "figures" => RX!FiguresTypeOK
    /\ page = "verdicts" => CV!VerdictsTypeOK
    /\ page = "case" => CD!CaseDrawerTypeOK
    /\ page = "experiments" => EL!ExperimentsTypeOK
    /\ page = "experiment" => EP!ExperimentPageTypeOK
    /\ page = "compare" => CP!ComparePageTypeOK
    /\ page = "evidence" => CE!ComparePageTypeOK
    /\ page = "release" => RD!ReleaseTypeOK

\* What a reader is told of a result is what was recorded of it: the figures of
\* runs, reports, comparisons and exported files, the verdicts of cases, the
\* case on screen beside its dialogs and calls, the decision beside its baseline.
ResultsAreTold ==
    /\ page = "report" => RR!RunReportIsTrue
    /\ page = "figures" => RX!FiguresAreTrue /\ RX!ExtractsAreTrue
    /\ page = "verdicts" => CV!VerdictsAreTrue
    /\ page = "case" => CD!CaseDrawerIsTrue
    /\ page = "compare" => CP!ComparePageIsTrue
    /\ page = "evidence" => CE!ComparePageIsTrue
    /\ page = "release" => RD!ReleaseIsTrue

\* A list keeps to the filters, pages and selections that its reader sees,
\* however its loads, polls and actions overtake each other; no action goes to
\* another row than the one it was asked of.
ListsKeepTheirPlace ==
    /\ page = "reviews" => RV!DecisionIsForItsFinding /\ RV!CompletedWasReviewed /\ RV!CaseWasConfirmed
    /\ page = "runs" => RL!RunLibraryIsTrue
    /\ page = "experiments" => EL!ExperimentsAreTrue
    /\ page = "experiment" => EP!ExperimentPageIsTrue
=============================================================================
