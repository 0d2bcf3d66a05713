----------------------------- MODULE CaseVerdicts -----------------------------
(***************************************************************************)
(* What the report of one run says of its cases, in every place that says  *)
(* it: the list of cases (presentCaseOutcome), the dialog of one case      *)
(* (RunItemCaseReview), the groups of the run drawer (groupScorerResults), *)
(* the quality controls (qualityOutcomes), the title of the run            *)
(* (runOutcomeTitle) and the banner that calls it eligible for release.    *)
(* Each derives its own verdict from the same rows.                        *)
(*                                                                         *)
(* The engine scores one case after another, then concludes the run.       *)
(***************************************************************************)
EXTENDS Naturals, FiniteSets, TLC

CONSTANTS
    Case,
    Required, Diagnostic, Ops,   \* metrics: required, optional, and measurements
    Controls,                    \* the required metrics that are quality controls
    Kinds,                       \* metric -> the kinds of row its scorer records
    Nothing

Metric == Required \cup Diagnostic \cup Ops
GateResult == {"pass", "warn", "fail"}
Unscored == {"unscored", "simulated"}
Row == GateResult \cup Unscored \cup {"measured", "error", "na", "none"}

VerdictsAssumption ==
    /\ IsFiniteSet(Case) /\ Controls \subseteq Required
    /\ \A m \in Metric : Kinds[m] \subseteq Row \ {"none"}
    /\ Nothing \notin GateResult

VARIABLES
    rows,   \* case -> metric -> the row recorded of it, "none" when there is none
    cases,  \* case -> "waiting", "scored", or "skipped" for an output too large
    run     \* [status, verdict, gate, capture, diagnosticOnly, governed]
verdictVars == <<rows, cases, run>>

RunRecord ==
    [status : {"running", "completed", "partial"},
     verdict : {"conclusive", "inconclusive", "none"}, gate : GateResult \cup {Nothing},
     capture : {"complete", "partial", "unknown"}, diagnosticOnly : BOOLEAN, governed : BOOLEAN]

VerdictsInit ==
    /\ rows = [c \in Case |-> [m \in Metric |-> "none"]]
    /\ cases = [c \in Case |-> "waiting"]
    /\ run \in [status : {"running"}, verdict : {"none"}, gate : {Nothing}, capture : {"unknown"},
                diagnosticOnly : BOOLEAN, governed : BOOLEAN]

-----------------------------------------------------------------------------
(* The engine *)

ScoreCase(c) ==
    /\ run.status = "running" /\ cases[c] = "waiting"
    /\ \E scored \in {f \in [Metric -> Row] : \A m \in Metric : f[m] \in Kinds[m]} :
          rows' = [rows EXCEPT ![c] = scored]
    /\ cases' = [cases EXCEPT ![c] = "scored"]
    /\ UNCHANGED run
SkipOversized(c) ==
    /\ run.status = "running" /\ cases[c] = "waiting"
    /\ cases' = [cases EXCEPT ![c] = "skipped"]
    /\ UNCHANGED <<rows, run>>

IsScored(row) == row \in GateResult \cup {"measured"}
RequiredRows == {rows[c][m] : c \in Case, m \in Required} \ {"none", "na"}
RequiredComplete == \A row \in RequiredRows : IsScored(row)
\* A KPI's gate is of composites: it need not be the worst of the rows.
Gates == IF RequiredRows = {} THEN {} ELSE GateResult

\* A caller that does not classify the evidence leaves its capture unknown,
\* and its verdict is decided by the rows alone.
Conclude ==
    /\ run.status = "running" /\ \A c \in Case : cases[c] # "waiting"
    /\ \E capture \in {"complete", "partial", "unknown"} :
       \E gate \in Gates \cup {Nothing} :
          LET conclusive == ~run.diagnosticOnly /\ RequiredComplete /\ capture # "partial" /\ Gates # {} IN
          /\ conclusive <=> gate # Nothing
          /\ run' = [run EXCEPT
                !.status = IF capture = "partial" THEN "partial" ELSE "completed",
                !.capture = capture, !.gate = gate,
                !.verdict = IF run.diagnosticOnly THEN "none"
                            ELSE IF conclusive THEN "conclusive" ELSE "inconclusive"]
    /\ UNCHANGED <<rows, cases>>

VerdictsNext == Conclude \/ \E c \in Case : ScoreCase(c) \/ SkipOversized(c)
VerdictsSpec == VerdictsInit /\ [][VerdictsNext]_verdictVars

-----------------------------------------------------------------------------
(* The list of cases *)

Of(c, metrics) == {rows[c][m] : m \in metrics}
WorstOf(gates) ==
    IF "fail" \in gates THEN "fail" ELSE IF "warn" \in gates THEN "warn"
    ELSE IF "pass" \in gates THEN "pass" ELSE Nothing

\* The backend's summary of a case, which withholds the gate of a case with an
\* error or an unscored required metric.
UnscoredRequired(c) == Of(c, Required) \cap Unscored # {}
HasError(c) == "error" \in Of(c, Metric)
SummaryGate(c) ==
    IF HasError(c) \/ UnscoredRequired(c) THEN Nothing ELSE WorstOf(Of(c, Required))
EvaluationState(c) ==
    IF cases[c] = "skipped" THEN "output too large"
    ELSE IF HasError(c) THEN "technical error" ELSE "evaluated"

\* Bug: every unscored metric counts, required or not, as it once did.
AnyUnscored(c) == Of(c, Metric) \cap Unscored # {}
Withholds(c) == UnscoredRequired(c)
PresentCaseOutcome(c) ==
    LET scored == \E m \in Metric : IsScored(rows[c][m]) IN
    IF EvaluationState(c) # "evaluated" THEN "technical error"
    ELSE IF Withholds(c) THEN IF scored THEN "partially scored" ELSE "not scored"
    ELSE IF ~scored /\ "na" \in Of(c, Metric) THEN "not applicable"
    ELSE IF SummaryGate(c) # Nothing THEN SummaryGate(c)
    ELSE "not recorded"

\* caseEvidencePresentation: why a case was not evaluated, beside its outcome.
EvaluationLabel(c) == IF EvaluationState(c) = "evaluated" THEN Nothing ELSE EvaluationState(c)
CaseRow(c) == [outcome |-> PresentCaseOutcome(c), evidence |-> EvaluationLabel(c)]

PassRate ==
    LET shown(g) == Cardinality({c \in Case : PresentCaseOutcome(c) = g}) IN
    [passed |-> shown("pass"), warned |-> shown("warn"), failed |-> shown("fail"),
     notScored |-> Cardinality({c \in Case : PresentCaseOutcome(c) \notin GateResult})]

-----------------------------------------------------------------------------
(* The dialog of one case, and the groups of the drawer *)

\* worstGate: only complete when every applicable row was scored and judged.
WorstGate(recorded) ==
    LET applicable == recorded \ {"na", "none"} IN
    IF applicable = {} \/ ~(applicable \subseteq GateResult) THEN Nothing ELSE WorstOf(applicable)

Judged(c) == Of(c, Metric \ Ops) \cap GateResult
DialogGate(c) == IF HasError(c) \/ Judged(c) = {} THEN Nothing ELSE WorstGate(Judged(c))
DialogLabel(c) ==
    IF DialogGate(c) # Nothing THEN DialogGate(c)
    ELSE IF Judged(c) = {} THEN "not recorded" ELSE "not scored"

Families == {Required, Diagnostic} \ {{}}
GroupGate(c, family) == WorstGate(Of(c, family))

\* MetricState: what the card of one row shows beside its score.
RowShows(row) ==
    CASE row = "error" -> "technical error"
      [] row = "unscored" -> "not scored"
      [] row = "measured" -> "no verdict"
      [] OTHER -> row

-----------------------------------------------------------------------------
(* The tables of the evaluators and of the metrics *)

Recorded(m) == {c \in Case : rows[c][m] # "none"}
RowsIn(m, kinds) == {c \in Case : rows[c][m] \in kinds}
EvaluatorRow(m) ==
    [passed |-> Cardinality(RowsIn(m, {"pass"})), judged |-> Cardinality(RowsIn(m, GateResult)),
     scored |-> Cardinality(RowsIn(m, GateResult \cup {"measured"})),
     errors |-> Cardinality(RowsIn(m, {"error"}))]
\* The line under a metric's worst case; without one, its badge stands alone.
MetricDetail(m) ==
    IF RowsIn(m, {"error"}) # {} THEN "errors"
    ELSE IF RowsIn(m, {"fail"}) # {} THEN "failed cases"
    ELSE IF RowsIn(m, {"warn"}) # {} THEN "warnings"
    ELSE IF \A c \in Recorded(m) : rows[c][m] \in {"pass", "na"} THEN Nothing
    ELSE "no worst case"

-----------------------------------------------------------------------------
(* The quality controls *)

ControlGate(m) ==
    LET recorded == {rows[c][m] : c \in Case} \ {"none"} IN
    IF recorded \ {"na"} = {} \/ ~(recorded \ {"na"} \subseteq GateResult) THEN Nothing
    ELSE WorstOf(recorded)
ControlState(m) ==
    LET recorded == {rows[c][m] : c \in Case} \ {"none"} IN
    CASE ControlGate(m) # Nothing -> ControlGate(m)
      [] "error" \in recorded -> "technical error"
      [] recorded \ {"na"} = {} -> "not applicable"
      [] OTHER -> "not scored"
\* A control without a row has no group.
ControlGroups == {m \in Controls : \E c \in Case : rows[c][m] # "none"}
QualityCount(states) == Cardinality({m \in ControlGroups : ControlState(m) \in states})
OutcomeSummary ==
    IF QualityCount({"warn"}) = 0 /\ QualityCount({"fail"}) = 0
       /\ QualityCount({"technical error", "not applicable", "not scored"}) = 0
    THEN "all met" ELSE "mixed"

-----------------------------------------------------------------------------
(* The run: its outcome, its title, the next step, its eligibility *)

OutcomeKind ==
    CASE run.status = "running" -> "running"
      [] run.status = "partial" -> "partial evidence"
      [] run.status = "completed" /\ run.diagnosticOnly -> "diagnostic"
      [] run.status = "completed" /\ ~run.diagnosticOnly /\ run.verdict = "inconclusive" ->
            "inconclusive"
      [] OTHER -> run.gate

RunOutcomeTitle ==
    CASE OutcomeKind # "pass" -> "by outcome"
      [] OutcomeKind = "pass" /\ PassRate.failed > 0 -> "gate passed, cases failed"
      [] OutcomeKind = "pass" /\ PassRate.failed = 0 /\ PassRate.warned > 0 -> "passed with warnings"
      [] OutcomeKind = "pass" /\ PassRate.failed + PassRate.warned = 0 /\ PassRate.notScored > 0 ->
            IF PassRate.passed = 0 THEN "gate passed, no case scored" ELSE "gate passed, cases not scored"
      [] OTHER -> "passed all checks"

OutcomeActions ==
    CASE OutcomeKind \in {"fail", "warn", "pass"} -> {"review", "compare", "run"}
      [] OutcomeKind = "diagnostic" -> {"inspect", "compare", "run"}
      [] OutcomeKind = "inconclusive" -> {"inspect", "run"}
      [] OTHER -> {}

\* runEvidencePresentation: the verdict and the capture in the evidence section.
VerdictLabel == IF run.diagnosticOnly THEN "diagnostic only" ELSE run.verdict
CaptureLabel == run.capture

\* release_gate_violation.
ReleaseEligible ==
    /\ run.governed /\ ~run.diagnosticOnly /\ run.status = "completed" /\ run.verdict = "conclusive"
    /\ run.capture = "complete" /\ run.gate = "pass"
EligibilityBanner ==
    IF ~run.governed THEN Nothing ELSE IF ReleaseEligible THEN "eligible" ELSE "not eligible"

-----------------------------------------------------------------------------
(* Properties *)

\* Every variable has its type.
VerdictsTypeOK ==
    /\ rows \in [Case -> [Metric -> Row]]
    /\ cases \in [Case -> {"waiting", "scored", "skipped"}] /\ run \in RunRecord

Scored(c) == cases[c] = "scored"

\* A scorer that crashed on a case, or a required metric left unscored, takes
\* the verdict from the case in the list; the crash takes it in the dialog and
\* in the group of the drawer, too, whose verdict stands on rows that each show
\* one.  An optional metric takes it from none.
CrashWithholdsTheVerdict ==
    \A c \in {d \in Case : Scored(d)} :
       /\ PresentCaseOutcome(c) \in GateResult <=>
             ~HasError(c) /\ ~UnscoredRequired(c) /\ Of(c, Required) \cap GateResult # {}
       /\ HasError(c) => DialogGate(c) = Nothing
       /\ EvaluationLabel(c) # Nothing <=> HasError(c)
       /\ \A family \in Families : GroupGate(c, family) # Nothing =>
             \A m \in family : RowShows(rows[c][m]) \in GateResult \cup {"na"}

\* A case whose required metrics were all judged and whose optional ones failed
\* none has one verdict: the list, the dialog and the drawer tell the same.
PlacesAgree ==
    \A c \in {d \in Case : Scored(d)} :
       Of(c, Required) \subseteq GateResult /\ Of(c, Diagnostic) \subseteq {"pass", "unscored", "na"}
       /\ ~HasError(c) /\ Required # {} =>
          /\ PresentCaseOutcome(c) = DialogLabel(c)
          /\ GroupGate(c, Required) = DialogLabel(c)

\* The table of the evaluators adds up to the list: when every required
\* evaluator passed all cases and none crashed, every case is a Pass, and a
\* failed case is one of an evaluator that passed fewer than it judged.  A
\* metric with neither badge nor line under it passed wherever it applies.
TablesAgreeWithList ==
    /\ Required # {} /\ (\A m \in Required : EvaluatorRow(m).passed = Cardinality(Case))
          /\ (\A m \in Metric : EvaluatorRow(m).errors = 0)
       => \A c \in Case : CaseRow(c) = [outcome |-> "pass", evidence |-> Nothing]
    /\ (\E c \in Case : CaseRow(c).outcome = "fail")
       => \E m \in Required : EvaluatorRow(m).passed < EvaluatorRow(m).judged
                             /\ MetricDetail(m) \in {"errors", "failed cases"}
    /\ \A m \in Required : MetricDetail(m) = Nothing => EvaluatorRow(m).passed = EvaluatorRow(m).scored

\* The title never outruns the cases below it: "passed all checks" stands over
\* cases that all passed, and a passing gate over a failed case names it.
TitleKeepsToTheCases ==
    /\ RunOutcomeTitle = "passed all checks" => \A c \in Case : PresentCaseOutcome(c) = "pass"
    /\ RunOutcomeTitle = "passed with warnings" => \A c \in Case : PresentCaseOutcome(c) # "fail"

\* A run that ended with its evidence and with a case that did not pass leads
\* its reader to the cases, also when its gate passed.
FailuresAreReviewable ==
    run.status = "completed" /\ (\E c \in Case : PresentCaseOutcome(c) # "pass") =>
       OutcomeActions \cap {"review", "inspect"} # {}

\* All controls met: each applies somewhere, and passed wherever it does.
ControlsMetArePassed ==
    OutcomeSummary = "all met" =>
       \A m \in ControlGroups :
          LET recorded == {rows[c][m] : c \in Case} \ {"none", "na"} IN recorded = {"pass"}

\* A run called eligible for release rests on complete evidence, on required
\* rows that were all scored, and on no crashed required scorer.
EligibleRestsOnEvidence ==
    EligibilityBanner = "eligible" =>
       /\ CaptureLabel = "complete" /\ VerdictLabel = "conclusive" /\ OutcomeKind = "pass"
       /\ \A c \in Case : Of(c, Required) \cap (Unscored \cup {"error"}) = {}

VerdictsAreTrue ==
    /\ CrashWithholdsTheVerdict
    /\ PlacesAgree
    /\ TablesAgreeWithList
    /\ TitleKeepsToTheCases
    /\ FailuresAreReviewable
    /\ ControlsMetArePassed
    /\ EligibleRestsOnEvidence

=============================================================================
