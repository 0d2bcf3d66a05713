------------------------------ MODULE DatasetPage ------------------------------
(***************************************************************************)
(* The page of one dataset: its status with the actions that it offers,    *)
(* its records read page by page, a file that adds records, the report of  *)
(* a validation.  Every change is followed by a reload, which reads the    *)
(* dataset and its first records by two requests; reloads carry no number, *)
(* and whichever answers last is shown.  Other people change the dataset.  *)
(***************************************************************************)
EXTENDS Sequences, SequencesExt, FiniteSets, Integers

CONSTANTS
    PageSize,  \* RECORDS_PAGE_SIZE
    InitialRows, MaxRows, \* records at first, and bound
    MaxLoads,  \* bounds the reloads under way
    MaxActs    \* bounds what the reader and others do and what fails

DatasetPageAssumption ==
    /\ PageSize \in Nat \ {0} /\ MaxRows \in Nat /\ InitialRows \in 0 .. MaxRows
    /\ MaxLoads \in Nat \ {0} /\ MaxActs \in Nat

VARIABLES
    dataset,  \* [status, rows, revision]: the dataset on the server
    page,     \* [status, revision, alert, loading, stale]: what is shown of it
    records,  \* [shown, total, failed, crossed]: the table of records
    loads,    \* Seq(Load): the reloads under way, oldest first
    more,     \* [asked, offset, items, total, crossed]: a further page of records
    calls,    \* Seq([action, done, revision]): the requests to change it under way
    button,   \* actionLoading
    decision, \* pendingDecision
    answered, \* the highest revision that an answered request of this page made
    overlap,  \* whether a decision was ever confirmed while another action was under way
    acts      \* what has been counted against MaxActs

datasetPageVars ==
    <<dataset, page, records, loads, more, calls, button, decision, answered, overlap, acts>>

Statuses == {"DRAFT", "VALIDATED", "APPROVED", "PUBLISHED", "DEPRECATED", "RETIRED", "REJECTED"}
Transitions == {"approve", "reject", "reopen", "publish", "deprecate", "retire"}
Copies == {"restore-draft", "create-version"}
Decisions == Transitions \cup Copies \cup {"delete"}
Action == Decisions \cup {"validate", "upload"}

\* What is offered for the status shown, and what the server does when asked.
Offered ==
    [DRAFT |-> {"validate"}, VALIDATED |-> {"approve", "reject"}, APPROVED |-> {"publish"},
     PUBLISHED |-> {"deprecate"}, DEPRECATED |-> {"retire"},
     REJECTED |-> {"reopen", "create-version"}, RETIRED |-> {"restore-draft"}]
TargetStatus ==
    [approve |-> "APPROVED", reject |-> "REJECTED", reopen |-> "DRAFT", publish |-> "PUBLISHED",
     deprecate |-> "DEPRECATED", retire |-> "RETIRED"]

Acting == acts < MaxActs /\ acts' = acts + 1

-----------------------------------------------------------------------------
(* The server *)

Rows(offset) == [i \in 1 .. (IF offset + PageSize < dataset.rows THEN PageSize
                             ELSE IF offset < dataset.rows THEN dataset.rows - offset ELSE 0)
                     |-> offset + i]

\* Whether the server accepts a request, and the dataset after it.
Accepts(action) ==
    IF dataset.status = "gone" THEN FALSE
    ELSE CASE action \in {"validate", "upload", "delete"} -> dataset.status = "DRAFT"
           [] action \in Copies -> TRUE
           [] OTHER -> action \in Offered[dataset.status]

AfterAction(action, grade) ==
    [status |-> CASE action = "validate" -> grade
                  [] action = "delete" -> "gone"
                  [] action \in Transitions -> TargetStatus[action]
                  [] OTHER -> dataset.status,
     rows |-> IF action = "upload" /\ dataset.rows < MaxRows THEN dataset.rows + 1 ELSE dataset.rows,
     revision |-> IF action \in Copies THEN dataset.revision ELSE dataset.revision + 1]

OthersAct(action) ==
    /\ Acting /\ Accepts(action) /\ action \notin Copies
    /\ dataset' = AfterAction(action, "VALIDATED")
    /\ UNCHANGED <<page, records, loads, more, calls, button, decision, answered, overlap>>

-----------------------------------------------------------------------------
(* Reloads *)

\* A reload that an action waits for frees its button.
NewLoad(frees) == [status |-> "unread", revision |-> 0, rows |-> <<>>, total |-> -1,
                   late |-> FALSE, frees |-> frees]
Load(frees) == loads' = Append(loads, NewLoad(frees))
MayLoad == Len(loads) < MaxLoads

ReadsDataset(i) ==
    /\ loads[i].status = "unread"
    /\ loads' = [loads EXCEPT ![i].status = dataset.status, ![i].revision = dataset.revision]
    /\ UNCHANGED <<dataset, page, records, more, calls, button, decision, answered, overlap, acts>>

ReadsRecords(i) ==
    /\ loads[i].total = -1 /\ dataset.status # "gone"
    /\ loads' = [loads EXCEPT ![i].rows = Rows(0), ![i].total = dataset.rows]
    /\ UNCHANGED <<dataset, page, records, more, calls, button, decision, answered, overlap, acts>>

Taken(i) ==
    loads' = [k \in 1 .. Len(loads) - 1 |->
                 IF k < i THEN [loads[k] EXCEPT !.late = TRUE] ELSE loads[k + 1]]

Free(i) == button' = IF loads[i].frees THEN "none" ELSE button

\* A reading of the records that failed is shown as such in its own panel.
Loaded(i) ==
    /\ loads[i].status \in Statuses
    /\ IF loads[i].total = -1 THEN Acting ELSE UNCHANGED acts
    /\ Taken(i)
    /\ page' = [status |-> loads[i].status, revision |-> loads[i].revision, alert |-> FALSE,
                loading |-> FALSE, stale |-> loads[i].late]
    /\ records' = [shown |-> loads[i].rows, total |-> loads[i].total,
                   failed |-> loads[i].total = -1, crossed |-> FALSE]
    /\ more' = [more EXCEPT !.crossed = more.asked]
    /\ Free(i) /\ UNCHANGED <<dataset, calls, decision, answered, overlap>>

\* The dataset itself cannot be read: its page is replaced by an alert.
LoadFails(i) ==
    /\ loads[i].status \in {"unread", "gone"}
    /\ IF loads[i].status = "gone" THEN UNCHANGED acts ELSE Acting
    /\ Taken(i)
    /\ page' = [page EXCEPT !.alert = TRUE, !.loading = FALSE, !.stale = loads[i].late]
    /\ Free(i) /\ UNCHANGED <<dataset, records, more, calls, decision, answered, overlap>>

Shown == ~page.alert /\ ~page.loading

Retry ==
    /\ Acting /\ MayLoad /\ ~page.loading /\ (page.alert \/ records.failed) /\ Load(FALSE)
    /\ page' = [page EXCEPT !.alert = FALSE]
    /\ UNCHANGED <<dataset, records, more, calls, button, decision, answered, overlap>>

LoadMoreRecords ==
    /\ Shown /\ Len(records.shown) < records.total /\ ~more.asked
    /\ more' = [asked |-> TRUE, offset |-> Len(records.shown), items |-> <<>>, total |-> -1,
                crossed |-> FALSE]
    /\ UNCHANGED <<dataset, page, records, loads, calls, button, decision, answered, overlap, acts>>

MoreRead ==
    /\ more.asked /\ more.total = -1 /\ dataset.status # "gone"
    /\ more' = [more EXCEPT !.items = Rows(more.offset), !.total = dataset.rows]
    /\ UNCHANGED <<dataset, page, records, loads, calls, button, decision, answered, overlap, acts>>

NoMore == [asked |-> FALSE, offset |-> 0, items |-> <<>>, total |-> -1, crossed |-> FALSE]

MoreArrives ==
    /\ more.asked /\ more.total # -1
    /\ records' = [records EXCEPT !.shown = @ \o more.items, !.total = more.total,
                                  !.crossed = @ \/ more.crossed]
    /\ more' = NoMore
    /\ UNCHANGED <<dataset, page, loads, calls, button, decision, answered, overlap, acts>>

MoreFails ==
    /\ more.asked /\ Acting /\ more' = NoMore
    /\ UNCHANGED <<dataset, page, records, loads, calls, button, decision, answered, overlap>>

-----------------------------------------------------------------------------
(* Actions *)

Ask(action) == calls' = Append(calls, [action |-> action, done |-> FALSE, revision |-> 0])

\* Everything but a validation is confirmed first.  A dialog covers the page.
RunAction(action) ==
    /\ Shown /\ decision = "none" /\ button = "none" /\ action \in Offered[page.status] /\ Acting
    /\ IF action = "validate"
       THEN Ask(action) /\ button' = action /\ UNCHANGED decision
       ELSE decision' = action /\ UNCHANGED <<calls, button>>
    /\ UNCHANGED <<dataset, page, records, loads, more, answered, overlap>>

\* The only button that an action under way does not disable.
AskDelete ==
    /\ Shown /\ decision = "none" /\ page.status = "DRAFT" /\ Acting
    /\ decision' = "delete"
    /\ UNCHANGED <<dataset, page, records, loads, more, calls, button, answered, overlap>>

CancelDecision ==
    /\ Shown /\ decision # "none" /\ button # decision
    /\ decision' = "none"
    /\ UNCHANGED <<dataset, page, records, loads, more, calls, button, answered, overlap, acts>>

MayConfirm == Shown /\ decision # "none" /\ button # decision

ConfirmDecision ==
    /\ MayConfirm /\ Acting
    /\ Ask(decision) /\ button' = decision
    /\ overlap' = (overlap \/ button # "none")
    /\ UNCHANGED <<dataset, page, records, loads, more, decision, answered>>

\* A file is taken while anything else is under way.
Upload ==
    /\ Shown /\ decision = "none" /\ page.status = "DRAFT" /\ Acting
    /\ Ask("upload")
    /\ UNCHANGED <<dataset, page, records, loads, more, button, decision, answered, overlap>>

Served(i, grade) ==
    /\ ~calls[i].done /\ Accepts(calls[i].action)
    /\ dataset' = AfterAction(calls[i].action, grade)
    /\ calls' = [calls EXCEPT ![i].done = TRUE, ![i].revision = dataset'.revision]
    /\ UNCHANGED <<page, records, loads, more, button, decision, answered, overlap, acts>>

Leaves(action) == action \in Copies \cup {"delete"}
Reloads(action) == MayLoad /\ Load(action # "upload")

\* A copy or a deletion goes to another page; until it is there, this one stays.
Answered(i) ==
    LET c == calls[i] IN
    /\ c.done /\ calls' = RemoveAt(calls, i)
    /\ IF Leaves(c.action) THEN button' = "none" /\ UNCHANGED <<loads, answered>>
       ELSE /\ Reloads(c.action) /\ UNCHANGED button
            /\ answered' = IF c.revision < answered THEN answered ELSE c.revision
    /\ decision' = IF c.action \in {"validate", "upload", "delete"} THEN decision ELSE "none"
    /\ UNCHANGED <<dataset, page, records, more, overlap, acts>>

\* Refused, or served and the answer lost: nothing is read again.
CallFails(i) ==
    /\ IF calls[i].done \/ Accepts(calls[i].action) THEN Acting ELSE UNCHANGED acts
    /\ calls' = RemoveAt(calls, i)
    /\ button' = IF calls[i].action = "upload" THEN button ELSE "none"
    /\ UNCHANGED <<dataset, page, records, loads, more, decision, answered, overlap>>

-----------------------------------------------------------------------------
DatasetPageInit ==
    /\ dataset \in [status : Statuses, rows : {InitialRows}, revision : {0}]
    /\ page = [status |-> "DRAFT", revision |-> 0, alert |-> FALSE, loading |-> TRUE, stale |-> FALSE]
    /\ records = [shown |-> <<>>, total |-> -1, failed |-> FALSE, crossed |-> FALSE]
    /\ loads = <<NewLoad(FALSE)>> /\ more = NoMore /\ calls = <<>> /\ button = "none" /\ decision = "none"
    /\ answered = 0 /\ overlap = FALSE /\ acts = 0

DatasetPageNext ==
    \/ \E a \in Action : OthersAct(a) \/ RunAction(a)
    \/ \E i \in DOMAIN loads : ReadsDataset(i) \/ ReadsRecords(i) \/ Loaded(i) \/ LoadFails(i)
    \/ Retry \/ LoadMoreRecords \/ MoreRead \/ MoreArrives \/ MoreFails
    \/ AskDelete \/ CancelDecision \/ ConfirmDecision \/ Upload
    \/ \E i \in DOMAIN calls : \/ \E g \in {"VALIDATED", "REJECTED", "DRAFT"} : Served(i, g)
                               \/ Answered(i) \/ CallFails(i)

DatasetPageSpec == DatasetPageInit /\ [][DatasetPageNext]_datasetPageVars
-----------------------------------------------------------------------------
DatasetPageTypeOK ==
    /\ dataset \in [status : Statuses \cup {"gone"}, rows : 0 .. MaxRows, revision : 0 .. MaxActs]
    /\ page \in [status : Statuses, revision : 0 .. MaxActs, alert : BOOLEAN, loading : BOOLEAN,
                 stale : BOOLEAN]
    /\ \A i \in DOMAIN records.shown : records.shown[i] \in 1 .. MaxRows
    /\ records.total \in -1 .. MaxRows /\ {records.failed, records.crossed} \subseteq BOOLEAN
    /\ Len(loads) <= MaxLoads
    /\ more.asked \in BOOLEAN /\ more.offset \in 0 .. MaxRows
    /\ \A i \in DOMAIN calls : calls[i].action \in Action
    /\ button \in Action \cup {"none"} /\ decision \in Decisions \cup {"none"}
    /\ answered \in 0 .. MaxActs /\ overlap \in BOOLEAN /\ acts \in 0 .. MaxActs

\* The records shown are the first of the dataset, in order and none twice,
\* whatever is added meanwhile, unless a reload answered while a further page
\* was on its way.
RecordsAreAPrefix ==
    records.crossed \/ \A i \in DOMAIN records.shown : records.shown[i] = i

\* A change that this page asked for and that was answered is in the status it
\* shows, once no reload is on its way and unless an older one answered last.
OwnChangeIsShown ==
    loads = <<>> /\ ~page.stale /\ ~page.alert => page.revision >= answered

\* No decision about the lifecycle is under way twice: a dialog keeps its button
\* until the request of its decision has been answered.  Only a deletion that was
\* confirmed beside another action can break this, by freeing the one button state
\* (actionLoading) that all actions share.
DecisionAskedOnce ==
    overlap \/ \A i, k \in DOMAIN calls :
        calls[i].action = calls[k].action /\ calls[i].action \in Transitions => i = k

DatasetPageIsTrue == RecordsAreAPrefix /\ OwnChangeIsShown /\ DecisionAskedOnce
=============================================================================
