----------------------------- MODULE RunExtract -----------------------------
(***************************************************************************)
(* What leaves the console about a run: the files of lib/eval-export.ts    *)
(* (one set of sections, written as JSON, CSV or a printed page) and the   *)
(* recommendation of lib/run-recommendation.ts that stands over the report *)
(* and its actions.  Both are computed from the run RunFigures records;    *)
(* the root cause they quote is the engine's (evaluation/rca.py).          *)
(***************************************************************************)
EXTENDS RunFigures

CONSTANTS
    Quality,         \* the checks of a quality contract, ids "quality.*"
    CausalOrder,     \* CAUSAL_ORDER_WITH_GT: metrics, the likely cause first
    Source,          \* run -> its recorded response source, or Nothing
    Endpoint,        \* run -> "live", "golden" or Nothing
    ReleaseGoverned  \* runs with a gate policy

ExtractAssumption ==
    /\ Quality \subseteq Metric /\ ToSet(CausalOrder) \subseteq Metric
    /\ Source \in [Run -> {"agent", "llm", "provided", "baseline", Nothing}]
    /\ Endpoint \in [Run -> {"live", "golden", Nothing}]
    /\ ReleaseGoverned \subseteq Run

-----------------------------------------------------------------------------
(* Where the answers came from *)

\* runInvokesTarget: the recorded source, else the endpoint, else nothing.
RunInvokesTarget(r) ==
    CASE Source[r] \in {"provided", "baseline"} -> FALSE
      [] Source[r] \in {"agent", "llm"} -> TRUE
      [] Source[r] = Nothing /\ Endpoint[r] = Nothing -> Nothing
      [] OTHER -> Endpoint[r] # "golden"
ExportedEndpoint(r) == IF RunInvokesTarget(r) = TRUE THEN Endpoint[r] ELSE Nothing

-----------------------------------------------------------------------------
(* The sections of a file *)

Counted(run, m, g) == {c \in Case : run.rows[c][m] = g}
GateCounts(run, m) == [g \in GateResult |-> Counted(run, m, g)]

\* averageMetricScores: a metric is averaged over its scored rows, and one
\* without any is left out.
ScoredCases(run, m) == {c \in Case : IsScored(run.rows[c][m])}
AveragedMetrics(run) == {m \in Metric \ Quality : ScoredCases(run, m) # {}}

\* metricAggregateOutcome
MetricAggregateOutcome(run, m) ==
    LET worst == WorstOf(MetricRows(run, m)) IN IF worst = Nothing THEN "not scored" ELSE worst

\* qualityContractGroups: every contract check the run has rows of.
Contracts(run) == {m \in Quality : MetricRows(run, m) # {}}
ContractGate(run, m) == WorstOf(MetricRows(run, m))
ContractState(run, m) ==
    IF ContractGate(run, m) # Nothing THEN ContractGate(run, m)
    ELSE IF MetricRows(run, m) = {"na"} THEN "not_applicable"
    ELSE IF "error" \in MetricRows(run, m) THEN "technical_error" ELSE "not_scored"
ContractTally(run) ==
    [met |-> {m \in Contracts(run) : ContractGate(run, m) = "pass"},
     partial |-> {m \in Contracts(run) : ContractGate(run, m) = "warn"},
     notMet |-> {m \in Contracts(run) : ContractGate(run, m) = "fail"},
     unavailable |-> {m \in Contracts(run) : ContractGate(run, m) = Nothing}]

\* scorerProvenanceCsv: a line for every row, scored or not.
ProvenanceOf(run, ms) ==
    {[case |-> c, metric |-> m,
      state |-> IF run.rows[c][m] = "na" THEN "not applicable" ELSE run.rows[c][m]] :
        <<c, m>> \in {cm \in Case \X ms : run.rows[cm[1]][cm[2]] # "none"}}

\* A line of averageMetricScores, with the outcome that the printed report gives it.
MetricLine(run, m) ==
    [metric |-> m, outcome |-> MetricAggregateOutcome(run, m), counts |-> GateCounts(run, m)]
MetricsExtract(run) ==
    [averages |-> {MetricLine(run, m) : m \in AveragedMetrics(run)},
     rows |-> ProvenanceOf(run, Metric \ Quality)]
QualityExtract(run) ==
    [tally |-> ContractTally(run), states |-> [m \in Contracts(run) |-> ContractState(run, m)],
     rows |-> ProvenanceOf(run, Quality)]

\* fullPayload, csvFor: the composed outcome beside the raw parts.
FullExtract(r) ==
    LET run == runs[r] IN
    [outcome |-> PresentRunOutcome(run), governed |-> r \in Governed,
     gate |-> run.gate, score |-> IF GatedRunScore(run) = Nothing THEN "not scored" ELSE "gated",
     invoked |-> RunInvokesTarget(r), endpoint |-> ExportedEndpoint(r),
     averages |-> AveragedMetrics(run), tally |-> ContractTally(run),
     rows |-> ProvenanceOf(run, Metric)]

-----------------------------------------------------------------------------
(* The recommendation *)

\* diagnose_root_cause: the first failing required metric in causal order.
FailingMetrics(run) == {m \in Required : MetricRows(run, m) \cap {"warn", "fail"} # {}}
RootCause(run) ==
    LET ordered == SelectSeq(CausalOrder, LAMBDA m : m \in FailingMetrics(run)) IN
    IF FailingMetrics(run) = {} THEN Nothing
    ELSE IF ordered # <<>> THEN Head(ordered) ELSE CHOOSE m \in FailingMetrics(run) : TRUE

\* recommendationDetailForRun.  The engine's causal_chain is CausalOrder itself,
\* whose first four entries are shown as the steps to take.
Remediation(run) ==
    [kind |-> "remediate", about |-> RootCause(run),
     steps |-> SubSeq(CausalOrder, 1, IF Len(CausalOrder) < 4 THEN Len(CausalOrder) ELSE 4)]
Advice(kind) == [kind |-> kind, about |-> Nothing, steps |-> <<>>]
PassAdvice(r) ==
    Advice(IF r \in ReleaseGoverned THEN "promote"
           ELSE IF r \in Governed THEN "baseline" ELSE "not evidence")
RecommendationDetail(r) ==
    LET run == runs[r] outcome == PresentRunOutcome(run) IN
    CASE outcome = "fail" /\ (FailingMetrics(run) # {} \/ CausalOrder # <<>>) -> Remediation(run)
      [] outcome = "pass" -> PassAdvice(r)
      [] OTHER -> Advice(outcome)

-----------------------------------------------------------------------------
\* A file is complete and counts nothing twice: every recorded row of the run is
\* a line of the metrics or of the contracts file, and of the full one; a contract
\* counted as met had no case below it, and one without a gate says why; an average
\* stands on a scored row that is a line of the same file, and passes only when no
\* case beside it warns or fails (lib/eval-export.ts, csvFor and payloadFor).
FilesHoldTheRun ==
    \A r \in Listed :
       LET run == runs[r] metrics == MetricsExtract(run) quality == QualityExtract(run)
       IN /\ metrics.rows \cap quality.rows = {}
          /\ metrics.rows \cup quality.rows = FullExtract(r).rows
          /\ Cardinality(FullExtract(r).rows) =
                Cardinality({cm \in Case \X Metric : run.rows[cm[1]][cm[2]] # "none"})
          /\ \A average \in metrics.averages :
                /\ \E line \in metrics.rows : line.metric = average.metric
                /\ average.outcome = "pass" =>
                      average.counts["pass"] # {} /\ average.counts["warn"] \cup average.counts["fail"] = {}
          /\ quality.tally.unavailable = {m \in Contracts(run) : quality.states[m] \notin GateResult}
          /\ \A m \in quality.tally.met : \A line \in quality.rows :
                line.metric = m => line.state \notin {"warn", "fail"}

\* A file read without the console does not claim more than the run has: a raw
\* gate is never left without the outcome that carries it and a gated score, and
\* a live endpoint only stands in a file whose answers came from one.
FilesClaimNoMore ==
    \A r \in Listed :
       LET file == FullExtract(r)
       IN /\ file.gate # Nothing => file.outcome = file.gate /\ file.score = "gated"
          /\ file.endpoint # Nothing => Source[r] \notin {"provided", "baseline"}

\* What the report advises fits what was judged: promotion is only advised for a
\* gate policy's pass over complete required rows, and a remedy only names a
\* metric that fell short (lib/run-recommendation.ts).
AdviceFitsTheRun ==
    \A r \in Listed :
       LET advice == RecommendationDetail(r)
       IN /\ advice.kind = "promote" =>
                r \in ReleaseGoverned /\ runs[r].gate = "pass" /\ RequiredComplete(runs[r].rows)
          /\ advice.kind = "remediate" => runs[r].verdict = "conclusive"
          /\ advice.about # Nothing => MetricRows(runs[r], advice.about) \cap {"warn", "fail"} # {}

ExtractsAreTrue ==
    /\ FilesHoldTheRun
    /\ FilesClaimNoMore
    /\ AdviceFitsTheRun

=============================================================================
