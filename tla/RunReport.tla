------------------------------ MODULE RunReport ------------------------------
(***************************************************************************)
(* The report of one run: the page of the run, which polls while the run   *)
(* is under way (app/runs/[id]/page.tsx), and the report it shows of an    *)
(* ended one, where cases are listed, filtered and opened (ReportView,     *)
(* CaseDetailsSection).                                                    *)
(*                                                                         *)
(* The open case and the filter are written to the address at once; the    *)
(* router hands them back to the page as search parameters some time       *)
(* later, and there they are a deep link again: the run is read anew and   *)
(* the named case is opened.  A report without a link opens the first case *)
(* that needs attention by itself, once.                                   *)
(***************************************************************************)
EXTENDS Naturals, FiniteSets, FiniteSetsExt

CONSTANTS
    CaseCount,   \* the cases of the run are 1..CaseCount, in their order
    Attention,   \* the cases whose presented outcome is not Pass
    Unknown,     \* an example id the run does not have
    NoCase,
    MaxInputs    \* bounds what the reader does and what fails

Case == 1..CaseCount

RunReportAssumption ==
    /\ CaseCount \in Nat \ {0} /\ Attention \subseteq Case
    /\ Unknown \notin Case /\ NoCase \notin Case \cup {Unknown}
    /\ MaxInputs \in Nat

VARIABLES
    runStatus, \* of the run, on the server
    embedded,  \* the report is a drawer of the run history, without a page of its own
    address,   \* [item, filter]: the address bar
    params,    \* the search parameters the router has handed to the page
    runPage,   \* [shown, job, error, loading, read]
    report,    \* the mounted report, or NoCase; outdated says (history) that it was
               \* mounted with search parameters that the address had already left
    rescore,   \* [busy, orphans, left]: rescoreBusy, the calls of reports since
               \* unmounted, and whether the page was left for a result
    inputs

runReportVars == <<runStatus, embedded, address, params, runPage, report, rescore, inputs>>

RunStatus == {"running", "awaiting_trace", "failed", "completed"}
ACTIVE_STATUSES == {"running", "awaiting_trace"}
CaseFilter == {"all", "attention", "passed"}
MaybeCase == Case \cup {NoCase}
Link == [item : MaybeCase \cup {Unknown}, filter : CaseFilter]
Detail == {"none", "loading", "loaded", "failed"}
Input == inputs < MaxInputs /\ inputs' = inputs + 1

\* filterCases
FilterCases(filter) ==
    CASE filter = "attention" -> Attention
      [] filter = "passed" -> Case \ Attention
      [] OTHER -> Case
\* The link the report is given: a drawer of the history has none.
Initial(p) == IF embedded THEN [item |-> NoCase, filter |-> "all"] ELSE p

Fresh(p) ==
    [items |-> "loading", filter |-> p.filter, selected |-> NoCase, autoSelected |-> FALSE,
     attention |-> NoCase, linkError |-> FALSE, expanded |-> {}, details |-> [c \in Case |-> "none"],
     outdated |-> FALSE]

RunReportInit ==
    /\ embedded \in BOOLEAN
    /\ runStatus \in IF embedded THEN {"completed"} ELSE RunStatus
    /\ address \in IF embedded THEN {[item |-> NoCase, filter |-> "all"]} ELSE Link
    /\ params = address
    /\ runPage = [shown |-> IF embedded THEN "report" ELSE "nothing", job |-> "running", error |-> FALSE,
               loading |-> ~embedded, read |-> IF embedded THEN "none" ELSE "asked"]
    /\ report = IF embedded THEN Fresh(params) ELSE NoCase
    /\ rescore = [busy |-> FALSE, orphans |-> 0, left |-> FALSE]
    /\ inputs = 0

-----------------------------------------------------------------------------
(* The cases: reading their evidence, and the effects that open one *)

\* loadCaseDetail does nothing for a case that is loaded or being read.
LoadCaseDetail(r, cases) ==
    [r EXCEPT !.details = [c \in Case |->
        IF c \in cases /\ @[c] \in {"none", "failed"} THEN "loading" ELSE @[c]]]

\* The effect of a link: open the case it names, in a list that shows it.
Hides(p) == p.item \notin FilterCases(p.filter)
OpenDeepLinked(r, p) ==
    IF p.item \notin Case THEN [r EXCEPT !.linkError = TRUE]
    ELSE LoadCaseDetail([r EXCEPT !.linkError = FALSE, !.selected = p.item,
                                  !.filter = IF Hides(p) THEN "all" ELSE @], {p.item})

\* The effect without one: open the first listed case that needs attention.
NeedingAttention(r) == FilterCases(r.filter) \cap Attention
OpenAttention(r) ==
    LET target == Min(NeedingAttention(r)) IN
    IF r.autoSelected \/ r.selected # NoCase \/ NeedingAttention(r) = {} THEN r
    ELSE LoadCaseDetail([r EXCEPT !.autoSelected = TRUE, !.attention = target,
                                  !.selected = target], {target})

\* The effects after a change; linked says that the link or the list is new.
Effects(r, p, linked) ==
    IF r.items # "loaded" THEN [r EXCEPT !.linkError = IF linked /\ r.items = "failed" THEN FALSE ELSE @]
    ELSE IF p.item = NoCase THEN OpenAttention(r)
    ELSE IF linked THEN OpenDeepLinked(r, p)
    ELSE r
\* A link whose filter would hide its case loses the filter.
AddressAfter(r, p, linked) ==
    IF linked /\ r.items = "loaded" /\ p.item \in Case /\ Hides(p)
    THEN [address EXCEPT !.filter = "all"] ELSE address

ShowsReport(r) == report' = Effects(r, Initial(params), FALSE)

-----------------------------------------------------------------------------
(* The page of the run *)

\* The report is unmounted: what it had under way goes on without it.
Unmounts ==
    /\ report' = NoCase
    /\ rescore' = [rescore EXCEPT !.busy = FALSE, !.orphans = @ + IF rescore.busy THEN 1 ELSE 0]

RunAdvances ==
    /\ runStatus \in ACTIVE_STATUSES
    /\ runStatus' \in IF runStatus = "running" THEN {"awaiting_trace", "failed", "completed"}
                     ELSE {"completed"}
    /\ UNCHANGED <<embedded, address, params, runPage, report, rescore, inputs>>

PollsAgain(s) == s \in ACTIVE_STATUSES
Continues(s) == PollsAgain(s)
\* refresh: an ended run is shown as its report, any other one as its job,
\* which is read again after a while as long as it is active.
RunArrives ==
    /\ runPage.read = "asked" /\ ~rescore.left
    /\ IF runStatus = "completed"
       THEN /\ runPage' = [runPage EXCEPT !.shown = "report", !.error = FALSE, !.loading = FALSE,
                                       !.read = "none"]
            /\ report' = IF report # NoCase THEN report
                         ELSE [Fresh(params) EXCEPT !.outdated = params # address]
            /\ UNCHANGED rescore
       ELSE /\ runPage' = [shown |-> "job", job |-> runStatus, error |-> FALSE, loading |-> FALSE,
                        read |-> IF Continues(runStatus) THEN "timer" ELSE "none"]
            /\ Unmounts
    /\ UNCHANGED <<runStatus, embedded, address, params, inputs>>
\* A read that fails is shown instead of everything else.
RunFails ==
    /\ runPage.read = "asked" /\ ~rescore.left /\ Input
    /\ runPage' = [runPage EXCEPT !.error = TRUE, !.loading = FALSE, !.read = "none"]
    /\ Unmounts
    /\ UNCHANGED <<runStatus, embedded, address, params>>
PollTimer ==
    /\ runPage.read = "timer"
    /\ runPage' = [runPage EXCEPT !.read = "asked"]
    /\ UNCHANGED <<runStatus, embedded, address, params, report, rescore, inputs>>
Retry ==
    /\ runPage.error /\ Input
    /\ runPage' = [runPage EXCEPT !.error = FALSE, !.loading = TRUE, !.read = "asked"]
    /\ UNCHANGED <<runStatus, embedded, address, params, report, rescore>>

\* The router hands the address to the page.  Another case named by it makes
\* the page read the run again; the report takes it for a link.
SearchParamsArrive ==
    /\ params # address
    /\ params' = address
    /\ runPage' = IF embedded \/ address.item = params.item THEN runPage
                  ELSE [runPage EXCEPT !.read = "asked"]
    /\ IF report = NoCase THEN UNCHANGED <<report, address>>
       ELSE /\ report' = Effects(report, Initial(address), Initial(address) # Initial(params))
            /\ address' = AddressAfter(report, Initial(address), Initial(address) # Initial(params))
    /\ UNCHANGED <<runStatus, embedded, rescore, inputs>>

-----------------------------------------------------------------------------
(* The report *)

Mounted == report # NoCase
SamePage == UNCHANGED <<runStatus, embedded, params, runPage, rescore>>

ItemsArrive ==
    /\ Mounted /\ report.items = "loading"
    /\ LET r == [report EXCEPT !.items = "loaded", !.expanded = {}, !.selected = NoCase] IN
       /\ report' = Effects(r, Initial(params), TRUE)
       /\ address' = AddressAfter(r, Initial(params), TRUE)
    /\ SamePage /\ UNCHANGED inputs
ItemsFail ==
    /\ Mounted /\ report.items = "loading" /\ Input
    /\ report' = Effects([report EXCEPT !.items = "failed"], Initial(params), TRUE)
    /\ SamePage /\ UNCHANGED address
RetryLoadCases ==
    /\ Mounted /\ report.items = "failed" /\ Input
    /\ report' = [report EXCEPT !.items = "loading"]
    /\ SamePage /\ UNCHANGED address

DetailArrives(c) ==
    /\ Mounted /\ report.details[c] = "loading"
    /\ report' = [report EXCEPT !.details[c] = "loaded"]
    /\ SamePage /\ UNCHANGED <<address, inputs>>
DetailFails(c) ==
    /\ Mounted /\ report.details[c] = "loading" /\ Input
    /\ report' = [report EXCEPT !.details[c] = "failed"]
    /\ SamePage /\ UNCHANGED address
RetryDetail(c) ==
    /\ Mounted /\ report.details[c] = "failed" /\ Input
    /\ IF embedded THEN c \in report.expanded ELSE c = report.selected
    /\ report' = LoadCaseDetail(report, {c})
    /\ SamePage /\ UNCHANGED address

Listed(c) == Mounted /\ report.items = "loaded" /\ c \in FilterCases(report.filter)
\* The open case covers the list, except in the drawer of the history.
AtTheList == Mounted /\ report.items = "loaded" /\ (embedded \/ report.selected = NoCase)

InspectOf(r, c) == LoadCaseDetail([r EXCEPT !.selected = c], {c})
InspectCase(c) ==
    /\ report' = InspectOf(report, c)
    /\ address' = [item |-> c, filter |-> report.filter]
    /\ SamePage
OpenCase(c) == ~embedded /\ AtTheList /\ Listed(c) /\ Input /\ InspectCase(c)
\* moveCase, to the neighbour of the open case in the filtered list.
Below(c) == {d \in FilterCases(report.filter) : d < c}
Above(c) == {d \in FilterCases(report.filter) : d > c}
MoveCase ==
    /\ ~embedded /\ Mounted /\ report.selected # NoCase /\ Listed(report.selected) /\ Input
    /\ \/ Below(report.selected) # {} /\ InspectCase(Max(Below(report.selected)))
       \/ Above(report.selected) # {} /\ InspectCase(Min(Above(report.selected)))
CloseCaseInspector ==
    /\ ~embedded /\ Mounted /\ report.selected # NoCase /\ Input
    /\ ShowsReport([report EXCEPT !.selected = NoCase])
    /\ address' = [address EXCEPT !.item = NoCase]
    /\ SamePage
ChangeCaseFilter(filter) ==
    /\ AtTheList /\ filter # report.filter /\ Input
    /\ ShowsReport([report EXCEPT !.filter = filter])
    /\ address' = [address EXCEPT !.filter = filter]
    /\ SamePage

\* In the drawer of the history the cases unfold in place, and whatever is
\* unfolded is read.
Expand(cases) ==
    /\ embedded /\ AtTheList /\ Input
    /\ report' = LoadCaseDetail([report EXCEPT !.expanded = cases], cases)
    /\ SamePage /\ UNCHANGED address
ToggleCase(c) == Listed(c) /\ Expand(SymDiff(report.expanded, {c}))
ExpandAllCases == Mounted /\ Expand(Case)

\* handleRescore: the run that results is opened, even if the report has been
\* unmounted since; after a failure it may be tried again.
Rescore ==
    /\ ~embedded /\ Mounted /\ report.selected = NoCase /\ ~rescore.busy /\ Input
    /\ rescore' = [rescore EXCEPT !.busy = TRUE]
    /\ UNCHANGED <<runStatus, embedded, address, params, runPage, report>>
RescoreEnds(own, created) ==
    /\ IF own THEN rescore.busy ELSE rescore.orphans > 0
    /\ IF created THEN report' = NoCase /\ rescore' = [busy |-> FALSE, orphans |-> 0, left |-> TRUE]
       ELSE /\ rescore' = IF own THEN [rescore EXCEPT !.busy = FALSE]
                          ELSE [rescore EXCEPT !.orphans = @ - 1]
            /\ UNCHANGED report
    /\ UNCHANGED <<runStatus, embedded, address, params, runPage, inputs>>

RunReportNext ==
    \/ RunAdvances \/ RunArrives \/ RunFails \/ PollTimer \/ Retry \/ SearchParamsArrive
    \/ ItemsArrive \/ ItemsFail \/ RetryLoadCases
    \/ \E c \in Case : \/ DetailArrives(c) \/ DetailFails(c) \/ RetryDetail(c)
                       \/ OpenCase(c) \/ ToggleCase(c)
    \/ MoveCase \/ CloseCaseInspector \/ ExpandAllCases
    \/ \E filter \in CaseFilter : ChangeCaseFilter(filter)
    \/ Rescore \/ \E own, created \in BOOLEAN : RescoreEnds(own, created)

RunReportSpec == RunReportInit /\ [][RunReportNext]_runReportVars

-----------------------------------------------------------------------------
(* Properties *)

\* Every variable has its type.
RunReportTypeOK ==
    /\ runStatus \in RunStatus /\ embedded \in BOOLEAN /\ address \in Link /\ params \in Link
    /\ runPage \in [shown : {"nothing", "job", "report"}, job : RunStatus, error : BOOLEAN,
                 loading : BOOLEAN, read : {"none", "asked", "timer"}]
    /\ report # NoCase =>
         report \in [items : {"loading", "loaded", "failed"}, filter : CaseFilter, selected : MaybeCase,
                     autoSelected : BOOLEAN, attention : MaybeCase, linkError : BOOLEAN,
                     expanded : SUBSET Case, details : [Case -> Detail], outdated : BOOLEAN]
    /\ rescore \in [busy : BOOLEAN, orphans : 0..MaxInputs, left : BOOLEAN]
    /\ inputs \in 0..MaxInputs

\* A page that reads no more and reports no error shows what became of the
\* run: refresh goes on until the run has ended (awaiting_trace is not an end).
OutcomeIsShown ==
    runPage.read = "none" /\ ~runPage.error =>
        IF runStatus = "completed" THEN runPage.shown = "report"
        ELSE runPage.shown = "job" /\ runPage.job = runStatus

\* The open case is one the list shows under its filter, so that its position
\* is counted among them and previous and next lead to listed cases.  A report
\* mounted with outdated parameters keeps their filter when the link arrives, which
\* is tested only against its own filter.
OpenCaseIsListed ==
    ~embedded /\ Mounted /\ report.selected # NoCase /\ ~report.outdated
        => Listed(report.selected)

\* An open case has its evidence, or is reading it, or reports the failure:
\* the inspector is never blank.  The same holds of an unfolded case.
OpenCaseHasEvidence ==
    Mounted => \A c \in report.expanded \cup ({report.selected} \ {NoCase}) : report.details[c] # "none"

\* Once the router has caught up, the case the address names is open, so a
\* copied address leads to what its reader saw.
AddressIsOpen ==
    /\ ~embedded /\ Mounted /\ params = address /\ address.item # NoCase
    /\ report.items = "loaded"
    => IF address.item \in Case THEN report.selected = address.item ELSE report.linkError

RunReportIsTrue == OutcomeIsShown /\ OpenCaseIsListed /\ OpenCaseHasEvidence /\ AddressIsOpen

=============================================================================
