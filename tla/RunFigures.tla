------------------------------ MODULE RunFigures ------------------------------
(***************************************************************************)
(* The figures the pages draw from the runs of one experiment: a run's     *)
(* outcome and score (lib/run-outcome.ts), the counts of its cases and of  *)
(* its metrics (components/report/lib.ts, components/report/view.tsx), the *)
(* cohort that is charted, its labels and its score measure                *)
(* (lib/chart-data.ts).  The pages compute them from the rows the backend  *)
(* recorded, while runs are launched and settle one after another.         *)
(*                                                                         *)
(* A case's numbers are abstracted to what a row says of them: its gate,   *)
(* a measurement without one, an error, an abstention, or not applicable.  *)
(***************************************************************************)
EXTENDS Naturals, FiniteSets, SequencesExt

CONSTANTS
    Run, Case,
    Required,      \* metrics a case answers for
    Diagnostic,    \* optional metrics with a threshold
    Ops,           \* optional metrics without one: measurements
    Basis,         \* recorded comparison bases
    Nothing,
    Number,        \* run -> its run_number, Nothing when it has none
    Governed,      \* runs with a quality profile
    Exploratory,   \* runs launched diagnostic only
    Tables         \* run -> the tables of rows its scoring may record

FiguresAssumption ==
    /\ IsFiniteSet(Run) /\ Run # {} /\ Nothing \notin Basis
    /\ Number \in [Run -> Nat \cup {Nothing}] /\ Governed \cup Exploratory \subseteq Run

VARIABLES
    runs,          \* what the backend has recorded of each run
    order          \* the listed runs, by the time they last recorded
figureVars == <<runs, order>>

Metric == Required \cup Diagnostic \cup Ops
GateResult == {"pass", "warn", "fail"}
Row == GateResult \cup {"measured", "error", "unscored", "na", "none"}
NoRows == [c \in Case |-> [m \in Metric |-> "none"]]

Listed == {r \in Run : runs[r].status # "absent"}

RunRecord ==
    [status : {"absent", "running", "completed", "partial", "failed", "cancelled"},
     verdict : {"conclusive", "inconclusive", "none"}, gate : GateResult \cup {Nothing},
     diagnosticOnly : BOOLEAN, basis : Basis \cup {Nothing},
     rows : [Case -> [Metric -> Row]]]

FiguresInit ==
    /\ order = <<>>
    /\ runs = [r \in Run |->
                 [status |-> "absent", verdict |-> "none", gate |-> Nothing,
                  diagnosticOnly |-> r \in Exploratory, basis |-> Nothing, rows |-> NoRows]]

-----------------------------------------------------------------------------
(* The rows of a run *)

Gated(row) == row \in GateResult
IsScored(row) == row \in GateResult \cup {"measured"}
Recorded(run, c) == {m \in Metric : run.rows[c][m] # "none"}
CasesWithRows(run) == {c \in Case : Recorded(run, c) # {}}
Rows(run, c, ms) == {run.rows[c][m] : m \in ms} \ {"none"}
WorstOf(gates) ==
    IF "fail" \in gates THEN "fail" ELSE IF "warn" \in gates THEN "warn"
    ELSE IF "pass" \in gates THEN "pass" ELSE Nothing

-----------------------------------------------------------------------------
(* The outcome of a run, lib/run-outcome.ts *)

RequiredComplete(rows) ==
    \A c \in Case : \A m \in Required : rows[c][m] = "na" \/ IsScored(rows[c][m])

\* A KPI has a composite when its required rows are all scored, and an observed
\* score as soon as any row is.
HasComposite(run) ==
    /\ RequiredComplete(run.rows)
    /\ \E c \in Case, m \in Required : IsScored(run.rows[c][m])
HasObserved(run) ==
    \E c \in Case, m \in Required \cup Diagnostic : IsScored(run.rows[c][m])

GatedRunScore(run) ==
    IF run.verdict = "conclusive" /\ run.gate # Nothing /\ HasComposite(run)
    THEN "gated" ELSE Nothing
ObservedRunScore(run) == IF HasObserved(run) THEN "observed" ELSE Nothing
RunScoreBasis(run) ==
    IF GatedRunScore(run) # Nothing THEN "gated" ELSE ObservedRunScore(run)

PresentRunOutcome(run) ==
    CASE run.status \in {"running", "partial", "failed", "cancelled"} -> run.status
      [] run.status = "completed" /\ run.diagnosticOnly -> "diagnostic"
      [] run.status = "completed" /\ ~run.diagnosticOnly /\ run.verdict = "conclusive"
            /\ run.gate # Nothing -> run.gate
      [] run.status = "completed" /\ ~run.diagnosticOnly /\ run.verdict = "inconclusive" -> "inconclusive"
      [] OTHER -> "not_recorded"
RunGate(run) == IF PresentRunOutcome(run) \in GateResult THEN run.gate ELSE Nothing

-----------------------------------------------------------------------------
(* The counts of the cases: from the items of the report, from the rows *)

\* What the backend's summary of a case withholds its gate for.
Errors(run, c) == {m \in Metric : run.rows[c][m] = "error"}
UnscoredRequired(run, c) == {m \in Required : run.rows[c][m] = "unscored"}
WorstGate(run, c) ==
    IF Errors(run, c) \cup UnscoredRequired(run, c) # {} THEN Nothing
    ELSE WorstOf(Rows(run, c, Required))

PresentCaseOutcome(run, c) ==
    IF Errors(run, c) # {} THEN "technical_error"
    ELSE IF UnscoredRequired(run, c) # {} THEN "unscored"
    ELSE IF Rows(run, c, Metric) = {"na"} THEN "not_applicable"
    ELSE IF WorstGate(run, c) # Nothing THEN WorstGate(run, c)
    ELSE "not_recorded"

ItemCounts(run) == [g \in GateResult |-> {c \in Case : PresentCaseOutcome(run, c) = g}]

Withheld(run, c) == \E m \in Required : run.rows[c][m] \in {"error", "unscored"}
GatedRows(run, c) == Rows(run, c, Metric) \cap GateResult
CaseCountedAs(run, c) ==
    IF GatedRows(run, c) = {} \/ Withheld(run, c) THEN "not scored"
    ELSE WorstOf(GatedRows(run, c))
CaseCountsFromMetrics(run) ==
    [g \in GateResult |-> {c \in CasesWithRows(run) : CaseCountedAs(run, c) = g}]

-----------------------------------------------------------------------------
(* The summary of each metric, and the header over them *)

MetricRows(run, m) == {run.rows[c][m] : c \in Case} \ {"none"}
MetricState(run, m) ==
    LET rows == MetricRows(run, m) IN
    IF "error" \in rows THEN "technical_error"
    ELSE IF rows = {"na"} THEN "not_applicable"
    ELSE IF rows # {} /\ \A row \in rows \ {"na"} : IsScored(row) THEN "scored"
    ELSE "unscored"
MetricWorstGate(run, m) ==
    IF MetricState(run, m) # "scored" THEN Nothing
    ELSE IF MetricRows(run, m) \ {"na"} \subseteq GateResult THEN WorstOf(MetricRows(run, m))
    ELSE WorstOf(MetricRows(run, m) \cap {"warn", "fail"})

\* active_metrics names every metric of the run, measured or not.
MetricSummaries == Metric \ Ops
MetricsNeedingAttention(run) ==
    {m \in MetricSummaries : \/ MetricState(run, m) \in {"unscored", "technical_error"}
                             \/ MetricWorstGate(run, m) \in {"warn", "fail"}}
AllMetricsPassed(run) ==
    /\ \A m \in MetricSummaries : \/ MetricState(run, m) = "not_applicable"
                                  \/ MetricWorstGate(run, m) = "pass"
    /\ \E m \in MetricSummaries : MetricState(run, m) = "scored"
MetricsStatus(run) ==
    IF MetricsNeedingAttention(run) # {} THEN "attention"
    ELSE IF AllMetricsPassed(run) THEN "all passed" ELSE "no results"

-----------------------------------------------------------------------------
(* The charts, lib/chart-data.ts *)

RunComparisonKey(r) == runs[r].basis
RunsAreComparable(a, b) == RunComparisonKey(a) # Nothing /\ RunComparisonKey(a) = RunComparisonKey(b)
Later(a, b) == \E i, j \in DOMAIN order : order[i] = a /\ order[j] = b /\ i > j
Oldest(set) == CHOOSE r \in set : \A s \in set \ {r} : Later(s, r)
Newest(set) == CHOOSE r \in set : \A s \in set \ {r} : Later(r, s)
Position(set, r) == Cardinality({s \in set : Later(r, s)}) + 1

Cohort(set, key) == {r \in set : RunComparisonKey(r) = key}
DominantCohort(set) ==
    LET cohorts == {Cohort(set, key) : key \in Basis} \ {{}}
        Beats(a, b) == \/ Cardinality(a) > Cardinality(b)
                       \/ Cardinality(a) = Cardinality(b) /\ Later(Newest(a), Newest(b))
    IN IF cohorts = {} THEN {}
       ELSE CHOOSE a \in cohorts : \A b \in cohorts \ {a} : Beats(a, b)

IsDiagnosticRun(r) == runs[r].diagnosticOnly \/ RunGate(runs[r]) = Nothing \/ r \notin Governed
TrendPoint(r) == [score |-> RunScoreBasis(runs[r]), hollow |-> IsDiagnosticRun(r),
                  gate |-> IF IsDiagnosticRun(r) THEN Nothing ELSE RunGate(runs[r])]
Points(set) == DominantCohort(set)
Excluded(set) == set \ DominantCohort(set)

\* The bases a cohort's scores stand on decide which score is subtracted.
ScoreBases(set) == {RunScoreBasis(runs[r]) : r \in DominantCohort(set)} \ {Nothing}
ScoreMeasure(set, r) ==
    IF Cardinality(ScoreBases(set)) > 1 THEN GatedRunScore(runs[r]) ELSE RunScoreBasis(runs[r])

\* The two ends a change is told between, when there is one.
MeasureEnds(set) ==
    IF Cardinality(DominantCohort(set)) < 2 THEN {}
    ELSE {Oldest(DominantCohort(set)), Newest(DominantCohort(set))}
HasDelta(set) == MeasureEnds(set) # {} /\ \A r \in MeasureEnds(set) : ScoreMeasure(set, r) # Nothing

NumbersCollide(set) == \E a, b \in set : a # b /\ Number[a] # Nothing /\ Number[a] = Number[b]
DisplayLabel(set, r) ==
    IF Number[r] = Nothing THEN r
    ELSE IF NumbersCollide(set) THEN Position(set, r) ELSE Number[r]

-----------------------------------------------------------------------------
(* The runs *)

\* completed_at || started_at: a run that settles moves behind the others.
Record(r, run) == order' = Append(Remove(order, r), r) /\ runs' = [runs EXCEPT ![r] = run]

Launch(r) ==
    /\ runs[r].status = "absent"
    /\ \E basis \in Basis \cup {Nothing} :
          Record(r, [runs[r] EXCEPT !.status = "running", !.basis = basis])

\* EvaluationEngine.run: a verdict stands on complete required rows and evidence,
\* and the gate on composites the rows alone do not decide.
Verdicts(run, rows, captured) ==
    IF run.diagnosticOnly THEN {[verdict |-> "none", gate |-> Nothing]}
    ELSE IF ~(RequiredComplete(rows) /\ captured
              /\ \E c \in Case, m \in Required : Gated(rows[c][m]))
    THEN {[verdict |-> "inconclusive", gate |-> Nothing]}
    ELSE {[verdict |-> "conclusive", gate |-> g] : g \in GateResult}

Complete(r) ==
    /\ runs[r].status = "running"
    /\ \E rows \in Tables[r], captured \in BOOLEAN :
       \E v \in Verdicts(runs[r], rows, captured) :
          Record(r, [runs[r] EXCEPT !.status = IF captured THEN "completed" ELSE "partial",
                                    !.rows = rows, !.verdict = v.verdict, !.gate = v.gate])

Fail(r) == runs[r].status = "running" /\ Record(r, [runs[r] EXCEPT !.status = "failed"])
Cancel(r) == runs[r].status = "running" /\ Record(r, [runs[r] EXCEPT !.status = "cancelled"])

FiguresNext == \E r \in Run : Launch(r) \/ Complete(r) \/ Fail(r) \/ Cancel(r)
FiguresSpec == FiguresInit /\ [][FiguresNext]_figureVars

-----------------------------------------------------------------------------
FiguresTypeOK ==
    /\ \A r \in Run : runs[r] \in RunRecord
    /\ ToSet(order) = Listed /\ IsInjective(order)

\* The analysis compares like with like: a change is only told between two runs
\* that recorded one basis and whose scores are of one kind, no larger set of
\* comparable runs is left out of the chart, and every run the page lists is a
\* point of it or named as excluded (buildRunTrend, measuresForRuns, measureDelta).
LikeWithLike ==
    /\ HasDelta(Listed) =>
          \A a, b \in MeasureEnds(Listed) :
             /\ RunsAreComparable(a, b)
             /\ RunScoreBasis(runs[a]) = RunScoreBasis(runs[b])
    /\ \A key \in Basis : Cardinality(Cohort(Listed, key)) <= Cardinality(Points(Listed))
    /\ \A r \in Excluded(Listed) : \A p \in Points(Listed) : ~RunsAreComparable(r, p)

\* Runs shown together can be told apart by their labels, also when several
\* were numbered alike by the experiments they came from (assignRunDisplayLabels).
LabelsTellRunsApart ==
    \A a, b \in Listed : (a # b /\ Number[a] # Nothing /\ Number[b] # Nothing) =>
       DisplayLabel(Listed, a) # DisplayLabel(Listed, b)

\* A filled point is a verdict: the engine concluded it from complete required
\* rows of a governed run, and its score is the gated one (buildRunTrend).
FilledPointsAreVerdicts ==
    \A r \in Points(Listed) : ~TrendPoint(r).hollow =>
       /\ TrendPoint(r).gate # Nothing /\ TrendPoint(r).score = "gated"
       /\ RequiredComplete(runs[r].rows) /\ r \in Governed

\* The header over the metrics tells what its panel holds: "all passed" means
\* every applicable row passed, and "no results" that nothing was scored
\* (components/report/view.tsx, metricsNeedingAttention).
HeaderTellsTheMetrics ==
    \A r \in Listed :
       LET rows == UNION {MetricRows(runs[r], m) : m \in MetricSummaries} \ {"na"} IN
       CASE MetricsStatus(runs[r]) = "all passed" -> rows = {"pass"}
         [] MetricsStatus(runs[r]) = "no results" -> rows = {}
         [] OTHER -> rows # {"pass"} \/ \E m \in MetricSummaries : MetricState(runs[r], m) = "unscored"

\* The report's counts, taken from its items, and the experiment page's, taken
\* from the rows, agree on every run without optional gated or failed rows.
CountsAgreeOnRequired ==
    \A r \in Listed :
       (\A c \in Case : Rows(runs[r], c, Diagnostic \cup Ops) \subseteq {"measured", "unscored", "na"}) =>
          ItemCounts(runs[r]) = CaseCountsFromMetrics(runs[r])

FiguresAreTrue ==
    /\ LikeWithLike
    /\ LabelsTellRunsApart
    /\ FilledPointsAreVerdicts
    /\ HeaderTellsTheMetrics
    /\ CountsAgreeOnRequired

=============================================================================
