--------------------------- MODULE ReleaseDecisions ---------------------------
(***************************************************************************)
(* The roles the runs of one experiment hold, and the three ways they      *)
(* change: a release decision recorded from the report of a run            *)
(* (ReleaseDecisionPanel, create_decision), a run made the baseline, and   *)
(* the undo of the last baseline change (promote_baseline, undo_baseline). *)
(*                                                                         *)
(* Every request is a transaction that reads the roles and writes them     *)
(* later.  Its writes are of the rows it saw, whatever they hold by then;  *)
(* a row that already had the value it would get is not written.           *)
(***************************************************************************)
EXTENDS Naturals, Sequences, FiniteSets

CONSTANTS
    Run,        \* the runs linked to the experiment
    Panel,      \* those whose report is open in some tab
    Pinned,     \* those whose profile or policy names other approver roles
    Editor,     \* the tabs that show the experiment's page
    Nothing,
    MaxActs     \* bound: requests sent

ReleaseAssumption ==
    /\ IsFiniteSet(Run) /\ Panel \subseteq Run /\ Pinned \subseteq Run /\ Nothing \notin Run
    /\ MaxActs \in Nat

VARIABLES
    roles,      \* run -> its role in the experiment
    record,     \* [approved, decisions, changes, acts]: what the experiment keeps
    panels,     \* panel -> what it shows
    deciding,   \* panel -> the transaction of the decision it sent
    editing     \* editor -> the transaction of the baseline change it sent
releaseVars == <<roles, record, panels, deciding, editing>>

Choice == {"approved", "rejected"}
Decision == [run : Run, choice : Choice, late : BOOLEAN]  \* late: an approval was already there
Change == [old : Run \cup {Nothing}, new : Run \cup {Nothing}]
NoDecision == [step |-> "none", late |-> FALSE, saw |-> {}]
NoEdit == [step |-> "none", target |-> Nothing, saw |-> {}, retried |-> FALSE]

ReleaseTypeOK ==
    /\ roles \in [Run -> {"exploratory", "baseline", "evidence"}]
    /\ record \in [approved : BOOLEAN, decisions : Seq(Decision), changes : Seq(Change),
                   acts : 0..MaxActs]
    /\ panels \in [Panel ->
          [capable : BOOLEAN, dialog : {"none", "asking", "pending"},
           choice : Choice, recorded : 0..MaxActs, listed : 0..MaxActs,
           history : SUBSET (1..MaxActs), shown : BOOLEAN,
           refused : BOOLEAN, lost : BOOLEAN]]
    /\ deciding \in [Panel -> [step : {"none", "begun", "read", "refused", "saved"},
                               late : BOOLEAN, saw : SUBSET Run]]
    /\ editing \in [Editor -> [step : {"none", "targeted", "read"},
                               target : Run \cup {Nothing}, saw : SUBSET Run, retried : BOOLEAN]]

ReleaseInit ==
    /\ roles = [r \in Run |-> "exploratory"]
    /\ record = [approved |-> FALSE, decisions |-> <<>>, changes |-> <<>>, acts |-> 0]
    /\ panels = [p \in Panel |->
          [capable |-> FALSE, dialog |-> "none", choice |-> "approved",
           recorded |-> 0, listed |-> 0, history |-> {}, shown |-> FALSE,
           refused |-> FALSE, lost |-> FALSE]]
    /\ deciding = [p \in Panel |-> NoDecision]
    /\ editing = [e \in Editor |-> NoEdit]

Act == record.acts < MaxActs
With(role) == {r \in Run : roles[r] = role}
Rewrite(demoted, run, role) ==
    [r \in Run |-> IF r = run THEN role ELSE IF r \in demoted THEN "exploratory" ELSE roles[r]]

-----------------------------------------------------------------------------
(* The panel *)

\* The capability answers with a grant: the panel mounts, and reads the decisions
\* so far.  A failed answer leaves the panel hidden.
CapabilityGranted(p) ==
    /\ ~panels[p].capable
    /\ panels' = [panels EXCEPT ![p].capable = TRUE, ![p].listed = Len(record.decisions)]
    /\ UNCHANGED <<roles, record, deciding, editing>>
HistoryArrives(p) ==
    /\ panels[p].capable /\ ~panels[p].shown
    /\ panels' = [panels EXCEPT ![p].shown = TRUE, ![p].history = 1..panels[p].listed]
    /\ UNCHANGED <<roles, record, deciding, editing>>

\* While the identity is unresolved the button is disabled: nothing opens.
OpenConfirm(p) ==
    /\ panels[p].capable /\ panels[p].recorded = 0
    /\ panels[p].dialog = "none"
    /\ \E choice \in Choice :
          panels' = [panels EXCEPT ![p].dialog = "asking", ![p].choice = choice]
    /\ UNCHANGED <<roles, record, deciding, editing>>
CancelConfirm(p) ==
    /\ panels[p].dialog = "asking"
    /\ panels' = [panels EXCEPT ![p].dialog = "none"]
    /\ UNCHANGED <<roles, record, deciding, editing>>

MayRecord(p) == panels[p].dialog = "asking" /\ deciding[p].step = "none"

\* The request loads the experiment with its status, before anything else.
SubmitDecision(p) ==
    /\ Act /\ MayRecord(p)
    /\ panels' = [panels EXCEPT ![p].dialog = "pending"]
    /\ deciding' = [deciding EXCEPT ![p] =
          [step |-> IF p \in Pinned THEN "refused" ELSE "begun",
           late |-> record.approved, saw |-> {}]]
    /\ record' = [record EXCEPT !.acts = @ + 1]
    /\ UNCHANGED <<roles, editing>>

WithSaved(p, id) == panels[p].history \cup {id}

DecisionAnswers(p) ==
    /\ panels[p].dialog = "pending" /\ deciding[p].step \in {"refused", "saved"}
    /\ \E lost \in BOOLEAN :
          LET id == CHOOSE i \in 0..Len(record.decisions) :
                       /\ i > 0 => record.decisions[i].run = p
                       /\ \A j \in i + 1..Len(record.decisions) : record.decisions[j].run # p
              saved == deciding[p].step = "saved" /\ ~lost IN
          panels' = [panels EXCEPT ![p].dialog = "none",
              ![p].refused = @ \/ deciding[p].step = "refused",
              ![p].lost = @ \/ (lost /\ deciding[p].step = "saved"),
              ![p].recorded = IF saved THEN id ELSE @,
              ![p].history = IF saved THEN WithSaved(p, id) ELSE @]
    /\ deciding' = [deciding EXCEPT ![p] = NoDecision]
    /\ UNCHANGED <<roles, record, editing>>

-----------------------------------------------------------------------------
(* The transaction of a decision *)

Approves(p) == panels[p].choice = "approved"

\* Writing the status makes a first approval wait for the one under way; an
\* experiment that was approved already is not written, and nobody waits.
\* Bug: the links are read before the status is written.
HoldsStatus(p) == deciding[p].step = "read" /\ ~deciding[p].late
HasItsTurn(p) == deciding[p].late \/ \A q \in Panel : ~HoldsStatus(q)

ReadEvidence(p) ==
    /\ deciding[p].step = "begun" /\ Approves(p) /\ HasItsTurn(p)
    /\ deciding' = [deciding EXCEPT ![p].step = "read", ![p].saw = With("evidence")]
    /\ UNCHANGED <<roles, record, panels, editing>>

BecomesEvidence(p) == Approves(p)

CommitDecision(p) ==
    /\ deciding[p].step = IF Approves(p) THEN "read" ELSE "begun"
    /\ LET saw == deciding[p].saw IN
       roles' = IF ~BecomesEvidence(p) THEN roles
                ELSE Rewrite(saw \ {p}, p, IF p \in saw THEN roles[p] ELSE "evidence")
    /\ record' = [record EXCEPT !.approved = @ \/ Approves(p),
          !.decisions = Append(@, [run |-> p, choice |-> panels[p].choice,
                                   late |-> deciding[p].late])]
    /\ deciding' = [deciding EXCEPT ![p].step = "saved"]
    /\ UNCHANGED <<panels, editing>>

-----------------------------------------------------------------------------
(* The transactions of a baseline change *)

RequestBaseline(e, run) ==
    /\ Act /\ editing[e].step = "none"
    /\ editing' = [editing EXCEPT ![e] = [NoEdit EXCEPT !.step = "targeted", !.target = run]]
    /\ record' = [record EXCEPT !.acts = @ + 1]
    /\ UNCHANGED <<roles, panels, deciding>>

\* The undo goes back over the last change, whoever made it.
RequestUndo(e) ==
    /\ record.changes # <<>>
    /\ RequestBaseline(e, record.changes[Len(record.changes)].old)

ReadBaseline(e) ==
    /\ editing[e].step = "targeted"
    /\ editing' = [editing EXCEPT ![e].step = "read", ![e].saw = With("baseline")]
    /\ UNCHANGED <<roles, record, panels, deciding>>

\* The rows after the commit, when the partial unique index lets it through.
Edited(e) ==
    LET target == editing[e].target
        saw == editing[e].saw IN
    Rewrite(saw \ {target}, target, IF target \in saw THEN roles[target] ELSE "baseline")

Collides(e) == Cardinality({r \in Run : Edited(e)[r] = "baseline"}) > 1

CommitBaseline(e) ==
    /\ editing[e].step = "read" /\ ~Collides(e)
    /\ roles' = Edited(e)
    /\ \E old \in IF editing[e].saw = {} THEN {Nothing} ELSE editing[e].saw :
          record' = [record EXCEPT !.changes =
              Append(@, [old |-> old, new |-> editing[e].target])]
    /\ editing' = [editing EXCEPT ![e] = NoEdit]
    /\ UNCHANGED <<panels, deciding>>

\* A promotion the index rejects reads again, once.
RetryBaseline(e) ==
    /\ editing[e].step = "read" /\ Collides(e)
    /\ editing' = [editing EXCEPT ![e] =
          IF @.retried THEN NoEdit ELSE [@ EXCEPT !.step = "targeted", !.retried = TRUE]]
    /\ UNCHANGED <<roles, record, panels, deciding>>

ReleaseNext ==
    \/ \E p \in Panel :
          \/ CapabilityGranted(p) \/ HistoryArrives(p)
          \/ OpenConfirm(p) \/ CancelConfirm(p) \/ SubmitDecision(p) \/ DecisionAnswers(p)
          \/ ReadEvidence(p) \/ CommitDecision(p)
    \/ \E e \in Editor :
          \/ \E run \in Run : RequestBaseline(e, run)
          \/ RequestUndo(e) \/ ReadBaseline(e) \/ CommitBaseline(e) \/ RetryBaseline(e)
ReleaseSpec == ReleaseInit /\ [][ReleaseNext]_releaseVars

-----------------------------------------------------------------------------
(* Properties *)

Entries(p) == {i \in 1..Len(record.decisions) : record.decisions[i].run = p}

\* Two promotions at once, or an undo racing one, never leave two baselines.
OneBaseline == Cardinality(With("baseline")) <= 1

\* A run is the release evidence only by a recorded approval of that run.
EvidenceWasApproved ==
    \A r \in With("evidence") :
       \E i \in 1..Len(record.decisions) :
          record.decisions[i].run = r /\ record.decisions[i].choice = "approved"

\* However the first approvals race, only an approval that found the experiment
\* approved already can leave two runs as the evidence.
FirstApprovalsTakeTurns ==
    Cardinality(With("evidence")) > 1 =>
       \E i \in 1..Len(record.decisions) : record.decisions[i].late

\* A panel records one decision, and a second one only after it was told that
\* the first had failed although it was recorded.
RecordedOnce == \A p \in Panel : Cardinality(Entries(p)) > 1 => panels[p].lost

\* A decision recorded here joins the history the server listed; it is missing
\* from it only when the list was read before and arrived after.
HistoryIsWhole ==
    \A p \in Panel : panels[p].shown =>
       /\ 1..panels[p].listed \subseteq panels[p].history
       /\ panels[p].recorded \notin panels[p].history \cup {0} =>
             panels[p].listed < panels[p].recorded

ReleaseIsTrue ==
    /\ OneBaseline /\ EvidenceWasApproved /\ FirstApprovalsTakeTurns
    /\ RecordedOnce /\ HistoryIsWhole

=============================================================================
