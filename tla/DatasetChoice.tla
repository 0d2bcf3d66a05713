----------------------------- MODULE DatasetChoice -----------------------------
(***************************************************************************)
(* The evidence of the run being set up (EvaluationWorkbench, step 1, and  *)
(* the expected-tools dialog of its last step): the picker's inventory,    *)
(* the chosen dataset, the preview of its rows, the agent's golden         *)
(* dataset, and the write-back of expected tools into a new version that   *)
(* can be published and taken over by the run.                             *)
(*                                                                         *)
(* Every handler reads the form of the render it was created in and goes   *)
(* on after its awaits; the form may have changed by then.                 *)
(***************************************************************************)
EXTENDS FiniteSets, Integers

CONSTANTS
    Datasets, Agent,
    NoDataset,      \* nothing chosen, read, written or under way
    FirstPage,      \* the published datasets of the first page
    Unpublished,    \* the datasets that are still drafts
    NewVersions,    \* names for the new versions
    Golden,         \* [Agent -> Datasets]: recommended_dataset_id
    MaxConsents,    \* bounds how often a new version is opted into
    MaxUnderWay     \* bounds the requests under way at once

DatasetChoiceAssumption ==
    /\ FirstPage \subseteq Datasets /\ Unpublished \subseteq Datasets /\ NewVersions \subseteq Datasets
    /\ NoDataset \notin Datasets /\ NewVersions \subseteq Unpublished
    /\ FirstPage \cap Unpublished = {}
    /\ Golden \in [Agent -> Datasets \ NewVersions]
    /\ MaxConsents \in Nat /\ MaxUnderWay \in Nat

VARIABLES
    published,  \* SUBSET Datasets, on the server
    parent,     \* [NewVersions -> Datasets or NoDataset]: the drafts created
    picker,     \* [listed, more, paging, loading]: the picker's inventory
    choice,     \* [name, picked, replaced]: datasetName, what was chosen on purpose,
                \* and what publications have since replaced
    agent,
    golden,     \* reads of a golden dataset under way
    dialog,     \* the modal dialog on screen
    preview,    \* [rows, loading, asked]
    back,       \* [rows, ticked, consent, result, busy, asked, commit]
    publish,    \* [target, known, step], or NoDataset: publishing
    tally       \* [consents, drafts]

choiceVars == <<published, parent, picker, choice, agent, golden, dialog, preview, back, publish, tally>>

None == NoDataset
SomeDataset == Datasets \cup {None}

Inventory(listed, more) == [listed |-> listed, more |-> more, paging |-> {}, paged |-> FALSE, loading |-> FALSE]

ChoiceInit ==
    /\ published = Datasets \ Unpublished
    /\ parent = [v \in NewVersions |-> None]
    /\ picker = [Inventory({}, FALSE) EXCEPT !.loading = TRUE]
    /\ choice = [name |-> None, picked |-> None, replaced |-> {}]
    /\ agent \in Agent
    /\ golden = {}
    /\ dialog = "none"
    /\ preview = [rows |-> None, loading |-> FALSE, asked |-> {}]
    /\ back = [rows |-> None, ticked |-> FALSE, consent |-> FALSE, result |-> None,
               busy |-> FALSE, asked |-> None, commit |-> None]
    /\ publish = None
    /\ tally = [consents |-> 0, drafts |-> 0]

Busy(flag) == IF flag THEN 1 ELSE 0
MayAsk == Cardinality(golden) + Cardinality(preview.asked) + Busy(picker.paged) + Busy(picker.loading)
            + Busy(back.busy) + Busy(publish # None) < MaxUnderWay

-----------------------------------------------------------------------------
(* The inventory *)

\* datasetPickerOptions: of each lineage, the latest version that is listed.
Options == picker.listed \ {parent[v] : v \in NewVersions \cap picker.listed}
SelectedDataset == IF choice.name \in Options THEN choice.name ELSE None

\* ensureRequestedDataset: a dataset that is not published is reported as
\* unreadable, as one that cannot be read.
EnsureRequested(known, d) == IF d \in published THEN known \cup {d} ELSE known

RefreshInventory ==
    /\ dialog = "none" /\ ~picker.loading /\ MayAsk
    /\ picker' = [picker EXCEPT !.loading = TRUE]
    /\ UNCHANGED <<published, parent, choice, agent, golden, dialog, preview, back, publish, tally>>
\* The first page replaces the inventory; a read that fails leaves it.
LoadArrives ==
    /\ picker.loading
    /\ \/ picker' = [picker EXCEPT !.loading = FALSE]
       \/ picker' = [picker EXCEPT !.loading = FALSE, !.listed = FirstPage, !.more = TRUE]
    /\ UNCHANGED <<published, parent, choice, agent, golden, dialog, preview, back, publish, tally>>

OpenPicker ==
    /\ dialog = "none" /\ ~picker.loading /\ Options # {}
    /\ dialog' = "picker"
    /\ UNCHANGED <<published, parent, picker, choice, agent, golden, preview, back, publish, tally>>
\* loadMoreDatasets, with the inventory of the render that offered it.
LoadMoreDatasets ==
    /\ dialog = "picker" /\ picker.more /\ ~picker.paged /\ MayAsk
    /\ picker' = [picker EXCEPT !.paging = picker.listed, !.paged = TRUE]
    /\ UNCHANGED <<published, parent, choice, agent, golden, dialog, preview, back, publish, tally>>
MoreArrives ==
    /\ picker.paged
    /\ \/ picker' = [picker EXCEPT !.paged = FALSE, !.paging = {}]
       \/ picker' = [picker EXCEPT !.listed = picker.paging \cup (published \ FirstPage),
                                   !.more = FALSE, !.paged = FALSE, !.paging = {}]
    /\ UNCHANGED <<published, parent, choice, agent, golden, dialog, preview, back, publish, tally>>

-----------------------------------------------------------------------------
(* The choice *)

NoRows == [preview EXCEPT !.rows = None]
Closed(d) == IF dialog = d THEN "none" ELSE dialog
Superseded == {[g EXCEPT !.active = FALSE] : g \in golden}

ChooseDataset(d) ==
    /\ dialog = "picker" /\ d \in Options
    /\ choice' = [name |-> d, picked |-> d, replaced |-> {}]
    /\ golden' = Superseded
    /\ preview' = NoRows /\ dialog' = "none"
    /\ UNCHANGED <<published, parent, picker, agent, back, publish, tally>>
PickAgent(a) ==
    /\ dialog = "none" /\ a # agent
    /\ agent' = a /\ golden' = Superseded
    /\ UNCHANGED <<published, parent, picker, choice, dialog, preview, back, publish, tally>>

\* useAgentGoldenDataset: the button is disabled while the last read counts.
AskGolden ==
    /\ dialog = "none" /\ choice.name # Golden[agent] /\ \A g \in golden : ~g.active
    /\ MayAsk
    /\ golden' = golden \cup {[for |-> agent, known |-> picker.listed, active |-> TRUE]}
    /\ UNCHANGED <<published, parent, picker, choice, agent, dialog, preview, back, publish, tally>>
WantedAlways(g) == TRUE
Wanted(g) == g.active
GoldenArrives(g) ==
    LET items == EnsureRequested(g.known, Golden[g.for]) IN
    /\ g \in golden
    /\ golden' = golden \ {g}
    /\ IF Wanted(g) /\ Golden[g.for] \in items
       THEN /\ picker' = [picker EXCEPT !.listed = @ \cup items]
            /\ choice' = [name |-> Golden[g.for], picked |-> Golden[g.for], replaced |-> {}]
            /\ preview' = NoRows /\ dialog' = Closed("preview")
       ELSE UNCHANGED <<picker, choice, preview, dialog>>
    /\ UNCHANGED <<published, parent, agent, back, publish, tally>>
GoldenFails(g) ==
    /\ g \in golden
    /\ golden' = golden \ {g}
    /\ UNCHANGED <<published, parent, picker, choice, agent, dialog, preview, back, publish, tally>>

-----------------------------------------------------------------------------
(* The preview *)

MayPreview == ~preview.loading
PreviewDataset ==
    /\ dialog = "none" /\ ~picker.loading /\ SelectedDataset # None /\ MayPreview /\ MayAsk
    /\ dialog' = "preview"
    /\ preview' = [preview EXCEPT !.loading = TRUE, !.asked = @ \cup {choice.name}]
    /\ UNCHANGED <<published, parent, picker, choice, agent, golden, back, publish, tally>>
PreviewArrives(d) ==
    /\ d \in preview.asked
    /\ \E rows \in {d, None} :
            preview' = [rows |-> rows, loading |-> FALSE, asked |-> preview.asked \ {d}]
    /\ UNCHANGED <<published, parent, picker, choice, agent, golden, dialog, back, publish, tally>>

-----------------------------------------------------------------------------
(* Writing the expected tools back *)

CloseDialog ==
    /\ dialog # "none" /\ (dialog = "writeback" => ~back.busy)
    /\ dialog' = "none"
    /\ UNCHANGED <<published, parent, picker, choice, agent, golden, preview, back, publish, tally>>

OpenWriteBack ==
    /\ dialog = "none" /\ choice.name # None /\ MayAsk
    /\ dialog' = "writeback"
    /\ back' = [back EXCEPT !.result = None, !.busy = TRUE, !.asked = choice.name]
    /\ UNCHANGED <<published, parent, picker, choice, agent, golden, preview, publish, tally>>
RowsArrive ==
    /\ back.asked # None
    /\ \E rows \in {back.asked, None} :
            back' = [back EXCEPT !.rows = rows, !.asked = None, !.busy = FALSE,
                                 !.ticked = (rows = None /\ back.ticked)]
    /\ UNCHANGED <<published, parent, picker, choice, agent, golden, dialog, preview, publish, tally>>

EditingWriteBack == dialog = "writeback" /\ back.result = None /\ ~back.busy
TickRow ==
    /\ EditingWriteBack /\ back.rows # None
    /\ back' = [back EXCEPT !.ticked = ~@]
    /\ UNCHANGED <<published, parent, picker, choice, agent, golden, dialog, preview, publish, tally>>
Immutable == SelectedDataset # None
Consent ==
    /\ EditingWriteBack /\ Immutable /\ tally.consents < MaxConsents
    /\ back' = [back EXCEPT !.consent = ~@]
    /\ tally' = IF back.consent THEN tally ELSE [tally EXCEPT !.consents = @ + 1]
    /\ UNCHANGED <<published, parent, picker, choice, agent, golden, dialog, preview, publish>>

\* commitWriteBack: the rows ticked, into the dataset chosen at the click.
Commit ==
    /\ EditingWriteBack /\ back.ticked /\ (Immutable => back.consent) /\ MayAsk
    /\ back' = [back EXCEPT !.busy = TRUE,
                            !.commit = [to |-> choice.name, rows |-> back.rows,
                                        version |-> back.consent]]
    /\ UNCHANGED <<published, parent, picker, choice, agent, golden, dialog, preview, publish, tally>>
SpendConsent(b) == [b EXCEPT !.consent = FALSE]
\* A new version, if it was opted into and the dataset is immutable; the rows
\* are then read again.
CommitWrites ==
    /\ back.commit # None
    /\ IF back.commit.to \in published
       THEN /\ back.commit.version
            /\ \E v \in NewVersions :
                /\ parent[v] = None
                /\ parent' = [parent EXCEPT ![v] = back.commit.to]
                /\ \E rows \in {back.rows, back.commit.to} :
                     back' = SpendConsent([back EXCEPT !.result = v, !.commit = None, !.busy = FALSE,
                                            !.rows = rows, !.ticked = (rows # back.commit.to /\ @)])
            /\ tally' = [tally EXCEPT !.drafts = @ + 1]
       ELSE /\ back' = [back EXCEPT !.result = back.commit.to, !.rows = back.commit.to,
                                    !.ticked = FALSE, !.commit = None, !.busy = FALSE]
            /\ UNCHANGED <<parent, tally>>
    /\ UNCHANGED <<published, picker, choice, agent, golden, dialog, preview, publish>>
CommitFails ==
    /\ back.commit # None
    /\ back' = [back EXCEPT !.commit = None, !.busy = FALSE]
    /\ UNCHANGED <<published, parent, picker, choice, agent, golden, dialog, preview, publish, tally>>

\* publishWrittenVersion: validate, approve, publish, then the run is retargeted.
PublishVersion ==
    /\ dialog = "writeback" /\ back.result \in NewVersions /\ publish = None /\ MayAsk
    /\ publish' = [target |-> back.result, known |-> picker.listed, step |-> 1]
    /\ UNCHANGED <<published, parent, picker, choice, agent, golden, dialog, preview, back, tally>>
PublishStep ==
    /\ IF publish = None THEN FALSE ELSE publish.step < 4
    /\ publish' = [publish EXCEPT !.step = @ + 1]
    /\ published' = IF publish.step = 3 THEN published \cup {publish.target} ELSE published
    /\ UNCHANGED <<parent, picker, choice, agent, golden, dialog, preview, back, tally>>
PublishFails ==
    /\ publish # None
    /\ publish' = None
    /\ UNCHANGED <<published, parent, picker, choice, agent, golden, dialog, preview, back, tally>>
Retarget ==
    /\ IF publish = None THEN FALSE ELSE publish.step = 4
    /\ picker' = [picker EXCEPT !.listed = EnsureRequested(publish.known, publish.target)]
    /\ choice' = [choice EXCEPT !.name = publish.target, !.replaced = @ \cup {choice.name}]
    /\ publish' = None
    /\ UNCHANGED <<published, parent, agent, golden, dialog, preview, back, tally>>

-----------------------------------------------------------------------------
ChoiceNext ==
    \/ RefreshInventory \/ LoadArrives \/ OpenPicker \/ LoadMoreDatasets \/ MoreArrives
    \/ PreviewDataset \/ CloseDialog
    \/ AskGolden \/ OpenWriteBack \/ RowsArrive \/ TickRow \/ Consent
    \/ Commit \/ CommitWrites \/ CommitFails
    \/ PublishVersion \/ PublishStep \/ PublishFails \/ Retarget
    \/ \E d \in Datasets : ChooseDataset(d) \/ PreviewArrives(d)
    \/ \E a \in Agent : PickAgent(a)
    \/ \E g \in golden : GoldenArrives(g) \/ GoldenFails(g)

ChoiceSpec == ChoiceInit /\ [][ChoiceNext]_choiceVars

-----------------------------------------------------------------------------
ChoiceTypeOK ==
    /\ published \subseteq Datasets /\ picker.listed \subseteq Datasets
    /\ parent \in [NewVersions -> SomeDataset]
    /\ choice \in [name: SomeDataset, picked: SomeDataset, replaced: SUBSET SomeDataset]
    /\ agent \in Agent /\ dialog \in {"none", "picker", "preview", "writeback"}
    /\ preview \in [rows: SomeDataset, loading: BOOLEAN, asked: SUBSET Datasets]
    /\ back.result \in SomeDataset /\ back.rows \in SomeDataset

\* workbench.tsx, comment in ensureRequestedDataset: the form is never seeded
\* with evidence that a run may not use; what is chosen is published.
ChosenIsPublished == choice.name \in published \cup {None}

\* DatasetPreviewDialog: the rows on screen, once loaded, are of the dataset in
\* the dialog's title, or of one that was chosen until a publication took the run
\* over to a new version; a slow read never shows any other dataset.
PreviewIsOfTheChoice ==
    dialog = "preview" /\ ~preview.loading
        => preview.rows \in {choice.name, None} \cup choice.replaced

\* openWriteBack, comment on consent: each opt-in creates one draft at most.
OneDraftPerConsent == tally.drafts <= tally.consents

\* useAgentGoldenDataset: a golden dataset takes over the choice only for the
\* agent on screen, never after another agent or dataset has been picked.
GoldenIsForThisAgent ==
    choice'.picked # choice.picked /\ dialog # "picker" => choice'.picked = Golden[agent]

ChoiceIsTrue == ChosenIsPublished /\ PreviewIsOfTheChoice /\ OneDraftPerConsent
=============================================================================
