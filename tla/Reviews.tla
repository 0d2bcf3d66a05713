------------------------------- MODULE Reviews -------------------------------
(***************************************************************************)
(* The review page: the queue of findings, the drawer of one finding with  *)
(* its decision form and follow-ups, and the governance records they write *)
(* on the server, which other reviewers write too.                         *)
(*                                                                         *)
(* Requests outlive the drawer that sent them: the reviewer can step to    *)
(* another finding while one is under way, and its answer then runs the    *)
(* handlers of the drawer that sent it.                                    *)
(***************************************************************************)
EXTENDS Integers, FiniteSets

CONSTANTS
    Finding,        \* findings of the tenant
    NoFinding,      \* no drawer, no fetch, an empty form
    Unread,         \* details that are not loaded
    MaxOthers,      \* bound: writes by other reviewers
    MaxSubmits,     \* bound: requests sent from the drawer
    MaxReads        \* bound: reads of the list under way

TaskStatus == {"open", "in_review", "resolved", "waived"}

ReviewAssumption ==
    /\ NoFinding \notin Finding /\ Unread \notin TaskStatus
    /\ MaxOthers \in Nat /\ MaxSubmits \in Nat /\ MaxReads \in Nat

VARIABLES
    finding,    \* [Finding -> Row]: finding and review task on the server
    agreed,     \* SUBSET Finding: findings with an agreement in their history
    settled,    \* SUBSET Finding: findings that have been resolved or waived
    decisions,  \* SUBSET DecisionRecord: decisions recorded from this page
    cases,      \* SUBSET Finding: findings preserved as regression cases
    page,       \* Page: the state of ReviewsView and of its drawer
    details,    \* [Finding -> TaskStatus or Unread]: the details cache
    answers,    \* SUBSET [Finding -> Status]: list reads on their way back
    requests,   \* SUBSET Request: writes sent from a drawer
    budget      \* [others: Nat, submits: Nat]

server == <<finding, agreed, settled, decisions, cases>>
reviewVars == <<server, page, details, answers, requests, budget>>

Status == {"open", "in_review", "resolved", "waived", "promoted"}
Outcome == {"agree", "disagree", "abstain"}
ActiveTask == {"open", "in_review"}

Row == [status: Status, task: TaskStatus, current: Outcome \cup {"none"}]
DecisionRecord == [finding: Finding, typedFor: Finding]
Request == [kind: {"decision", "remediation", "promote"}, finding: Finding,
            typedFor: Finding \cup {NoFinding}, outcome: Outcome,
            phase: {"sent", "done"}]

\* list: what the queue shows; effect: the details effect is due; fetch: the
\* fetch that is still active; typedFor: the finding under whose drawer the
\* decision form was filled in.
Page == [list: [Finding -> Status], selected: Finding \cup {NoFinding},
         effect: BOOLEAN, fetch: Finding \cup {NoFinding},
         detailsLoading: BOOLEAN, detailsError: BOOLEAN,
         typedFor: Finding \cup {NoFinding}, busy: BOOLEAN, revising: BOOLEAN]

ReviewInit ==
    /\ finding = [f \in Finding |-> [status |-> "open", task |-> "open", current |-> "none"]]
    /\ agreed = {} /\ settled = {} /\ decisions = {} /\ cases = {}
    /\ page = [list |-> [f \in Finding |-> "open"], selected |-> NoFinding,
               effect |-> FALSE, fetch |-> NoFinding, detailsLoading |-> FALSE,
               detailsError |-> FALSE, typedFor |-> NoFinding, busy |-> FALSE,
               revising |-> FALSE]
    /\ details = [f \in Finding |-> Unread]
    /\ answers = {} /\ requests = {}
    /\ budget = [others |-> 0, submits |-> 0]

-----------------------------------------------------------------------------
(* The governance store *)

\* create_review_decision: it looks at neither the task's status nor the
\* decision that its author had seen.
Decide(f, outcome) ==
    LET status == IF outcome = "agree" THEN "resolved" ELSE "in_review" IN
    /\ finding' = [finding EXCEPT ![f] =
                    [status |-> status, task |-> status, current |-> outcome]]
    /\ agreed' = IF outcome = "agree" THEN agreed \cup {f} ELSE agreed
    /\ settled' = IF outcome = "agree" THEN settled \cup {f} ELSE settled

Waive(f) ==
    /\ finding' = [finding EXCEPT ![f].status = "waived", ![f].task = "waived"]
    /\ settled' = settled \cup {f}

\* promote_finding_to_regression: only the current decision counts.
MayPromote(f) == finding[f].current = "agree"
Promote(f) ==
    /\ finding' = [finding EXCEPT ![f].status = "promoted"]
    /\ cases' = cases \cup {f}

OtherReviewer(f) ==
    /\ budget.others < MaxOthers
    /\ budget' = [budget EXCEPT !.others = @ + 1]
    /\ \/ \E outcome \in Outcome : Decide(f, outcome) /\ UNCHANGED cases
       \/ Waive(f) /\ UNCHANGED <<agreed, cases>>
       \/ MayPromote(f) /\ Promote(f) /\ UNCHANGED <<agreed, settled>>
    /\ UNCHANGED <<decisions, page, details, answers, requests>>

-----------------------------------------------------------------------------
(* The queue *)

\* A change of what the details effect depends on: its cleanup drops the active
\* fetch, and leaves detailsLoading as it is.
Rerun(p) == [p EXCEPT !.effect = TRUE, !.fetch = NoFinding]

SelectInSameDrawer(p, f) == Rerun([p EXCEPT !.selected = f])
\* The drawer is keyed by its finding: another finding gets a fresh drawer.
Select(p, f) == Rerun([p EXCEPT !.selected = f, !.typedFor = NoFinding,
                                !.busy = FALSE, !.revising = FALSE])

\* load: the initial read, the refresh button, and the refresh after a write.
\* Nothing orders two reads under way.
ReadList ==
    /\ Cardinality(answers) < MaxReads
    /\ answers' = answers \cup {[f \in Finding |-> finding[f].status]}

Refresh ==
    /\ ReadList
    /\ UNCHANGED <<server, page, details, requests, budget>>

ListArrives ==
    \E list \in answers :
        /\ answers' = answers \ {list}
        /\ page' = [page EXCEPT !.list = list]
        /\ UNCHANGED <<server, details, requests, budget>>

OpenFinding(f) ==
    /\ page.selected = NoFinding
    /\ page' = Select([page EXCEPT !.detailsError = FALSE], f)
    /\ UNCHANGED <<server, details, answers, requests, budget>>

\* Previous and Next.
StepQueue(f) ==
    /\ page.selected \notin {NoFinding, f}
    /\ page' = Select(page, f)
    /\ UNCHANGED <<server, details, answers, requests, budget>>

CloseDrawer ==
    /\ page.selected # NoFinding
    /\ page' = Select(page, NoFinding)
    /\ UNCHANGED <<server, details, answers, requests, budget>>

-----------------------------------------------------------------------------
(* The details of the selected finding *)

DetailsEffect ==
    /\ page.effect
    /\ page' = IF page.selected = NoFinding \/ details[page.selected] # Unread
               THEN [page EXCEPT !.effect = FALSE]
               ELSE [page EXCEPT !.effect = FALSE, !.fetch = page.selected,
                                 !.detailsLoading = TRUE, !.detailsError = FALSE]
    /\ UNCHANGED <<server, details, answers, requests, budget>>

DetailsArrive ==
    LET f == page.fetch IN
    /\ f # NoFinding
    /\ details' = [details EXCEPT ![f] = finding[f].task]
    /\ page' = Rerun([page EXCEPT !.detailsLoading = FALSE])
    /\ UNCHANGED <<server, answers, requests, budget>>

DetailsFail ==
    /\ page.fetch # NoFinding
    /\ page' = [page EXCEPT !.fetch = NoFinding, !.detailsLoading = FALSE,
                            !.detailsError = TRUE]
    /\ UNCHANGED <<server, details, answers, requests, budget>>

RetryDetails ==
    /\ page.selected # NoFinding /\ page.detailsError
    /\ page' = Rerun([page EXCEPT !.detailsError = FALSE])
    /\ UNCHANGED <<server, details, answers, requests, budget>>

\* reviewDrawerState, with the active task of the drawer.
HasActiveTask(f) ==
    details[f] # Unread /\ (details[f] \in ActiveTask \/ page.revising)
DrawerState(f) ==
    CASE page.detailsLoading \/ (details[f] = Unread /\ ~page.detailsError) -> "loading"
      [] ~page.detailsLoading /\ page.detailsError -> "details-error"
      [] ~page.detailsLoading /\ ~page.detailsError /\ HasActiveTask(f) -> "decision"
      [] OTHER -> "completed"

-----------------------------------------------------------------------------
(* The drawer's forms *)

Shows(state) == page.selected # NoFinding /\ DrawerState(page.selected) = state

FillDecision ==
    /\ Shows("decision") /\ page.typedFor = NoFinding
    /\ page' = [page EXCEPT !.typedFor = page.selected]
    /\ UNCHANGED <<server, details, answers, requests, budget>>

Revise ==
    /\ Shows("completed") /\ ~page.revising
    /\ page.list[page.selected] \notin {"promoted", "waived"}
    /\ page' = [page EXCEPT !.revising = TRUE]
    /\ UNCHANGED <<server, details, answers, requests, budget>>

Send(kind, outcome) ==
    /\ ~page.busy /\ budget.submits < MaxSubmits
    /\ budget' = [budget EXCEPT !.submits = @ + 1]
    /\ page' = [page EXCEPT !.busy = TRUE]
    /\ requests' = requests \cup
          {[kind |-> kind, finding |-> page.selected, typedFor |-> page.typedFor,
            outcome |-> outcome, phase |-> "sent"]}
    /\ UNCHANGED <<server, details, answers>>

RecordDecision ==
    /\ Shows("decision") /\ page.typedFor # NoFinding
    /\ \E outcome \in Outcome : Send("decision", outcome)

AssignRemediation == Shows("completed") /\ Send("remediation", "abstain")
\* The page holds no state of a remediation's progress: any status may follow.
UpdateRemediation == Shows("completed") /\ Send("remediation", "abstain")

PromoteRegression ==
    /\ Shows("completed") /\ page.list[page.selected] = "resolved"
    /\ Send("promote", "abstain")

-----------------------------------------------------------------------------
(* The requests under way *)

Commit(r) ==
    /\ r.phase = "sent"
    /\ requests' = (requests \ {r}) \cup {[r EXCEPT !.phase = "done"]}
    /\ CASE r.kind = "decision" ->
              /\ Decide(r.finding, r.outcome)
              /\ decisions' = decisions \cup {[finding |-> r.finding, typedFor |-> r.typedFor]}
              /\ UNCHANGED cases
         [] r.kind = "remediation" ->
              UNCHANGED server
         [] r.kind = "promote" ->
              /\ MayPromote(r.finding) /\ Promote(r.finding)
              /\ UNCHANGED <<agreed, settled, decisions>>
    /\ UNCHANGED <<page, details, answers, budget>>

\* refreshAndClose runs with the selection of the drawer that sent the request:
\* it forgets that finding's details, closes whatever drawer is open, and loads.
Changed(r) ==
    /\ r.phase = "done"
    /\ requests' = requests \ {r}
    /\ details' = [details EXCEPT ![r.finding] = Unread]
    /\ page' = Select(page, NoFinding)
    /\ ReadList
    /\ UNCHANGED <<server, budget>>

\* Refused, or the answer is lost: the error and the end of busy reach the
\* drawer only while it is the one that sent the request.
Refused(r) ==
    /\ requests' = requests \ {r}
    /\ page' = IF page.selected = r.finding THEN [page EXCEPT !.busy = FALSE] ELSE page
    /\ UNCHANGED <<server, details, answers, budget>>

-----------------------------------------------------------------------------
ReviewNext ==
    \/ Refresh \/ ListArrives \/ CloseDrawer
    \/ DetailsEffect \/ DetailsArrive \/ DetailsFail \/ RetryDetails
    \/ FillDecision \/ Revise \/ RecordDecision
    \/ AssignRemediation \/ UpdateRemediation \/ PromoteRegression
    \/ \E f \in Finding : OtherReviewer(f) \/ OpenFinding(f) \/ StepQueue(f)
    \/ \E r \in requests : Commit(r) \/ Changed(r) \/ Refused(r)

ReviewSpec == ReviewInit /\ [][ReviewNext]_reviewVars

-----------------------------------------------------------------------------
ReviewTypeOK ==
    /\ finding \in [Finding -> Row]
    /\ agreed \subseteq Finding /\ settled \subseteq Finding /\ cases \subseteq Finding
    /\ decisions \subseteq DecisionRecord
    /\ page \in Page
    /\ details \in [Finding -> TaskStatus \cup {Unread}]
    /\ answers \subseteq [Finding -> Status]
    /\ requests \subseteq Request
    /\ budget \in [others: Nat, submits: Nat]

\* app/reviews/page.tsx, comment on the drawer's key: a decision is never
\* recorded for one finding with what the reviewer filled in for another.
DecisionIsForItsFinding == \A d \in decisions : d.typedFor = d.finding

\* app/reviews/page.tsx, comment on reviewDrawerState: "Review completed" is
\* shown only for a finding that some reviewer has resolved or waived; a load
\* that failed or is still under way never looks like a review that was done.
CompletedWasReviewed ==
    Shows("completed") => page.selected \in settled

\* A regression case is kept only for a finding that somebody agreed with,
\* whatever the screens that offered the promotion were showing.
CaseWasConfirmed == cases \subseteq agreed

=============================================================================
