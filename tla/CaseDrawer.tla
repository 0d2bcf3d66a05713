------------------------------ MODULE CaseDrawer ------------------------------
(***************************************************************************)
(* The drawer of one case of a run's report (components/run-item-drawer),  *)
(* with the panels that replace its body: promoting the case into a        *)
(* dataset (promote-run-item), replaying it with another prompt            *)
(* (replay-run-item, system-prompt-panel), and the review of the case      *)
(* itself (run-item-inspector): its trace, its large tool result, what     *)
(* reviewers think of its judge, and sending its score to review.          *)
(*                                                                         *)
(* None of the calls keeps the reader from leaving: Previous, Next and     *)
(* Close work while a promotion or a replay is under way.  The state of a  *)
(* case then goes, because the drawer's content is keyed by its case, and  *)
(* the call goes on at the server.                                         *)
(***************************************************************************)
EXTENDS Naturals, FiniteSets, Sequences, SequencesExt

CONSTANTS
    CaseId,      \* cases of one run
    Replayable,  \* those whose recorded question can be sent again
    Captured,    \* those with an answer that can serve as an expectation
    Dataset,     \* names of datasets, existing or not
    Published,   \* those that exist and are published
    Drafts,      \* those that exist as drafts
    Prompt,      \* saved prompt versions
    Text,        \* texts the reader may type; a saved prompt's text is the prompt itself
    Unset,
    PageCount,   \* pages of a large tool result
    MaxMoves     \* bounds what the reader does and what fails

CaseDrawerAssumption ==
    /\ Replayable \subseteq CaseId /\ Captured \subseteq CaseId
    /\ Published \subseteq Dataset /\ Drafts \subseteq Dataset /\ Published \cap Drafts = {}
    /\ Unset \notin CaseId \cup Dataset \cup Prompt \cup Text
    /\ Prompt \cap Text = {} /\ PageCount \in Nat \ {0} /\ MaxMoves \in Nat

VARIABLES
    shown,    \* the case of the drawer, or Unset
    content,  \* the mounted content of the drawer
    orphans,  \* calls of contents since unmounted, which the server still carries out
    standing, \* of every dataset: absent, DRAFT, PUBLISHED or RETIRED
    records,  \* of every dataset: the cases promoted into it
    versions, \* of every dataset: how many drafts promotions made of it
    replays,  \* the cases replayed, in the order of their recording
    findings, \* the cases whose score is under review
    consents, \* (history) <<case, dataset>>: copying that dataset was agreed to, for that case
    moves

caseDrawerVars ==
    <<shown, content, orphans, standing, records, versions, replays, findings, consents, moves>>
store == <<standing, records, versions, replays, findings>>

Uses == moves < MaxMoves /\ moves' = moves + 1
DatasetStatus == {"absent", "DRAFT", "PUBLISHED", "RETIRED"}
Call == [kind : {"create", "promote", "replay"}, case : CaseId, target : Dataset \cup {Unset},
         consent : BOOLEAN, prompt : Prompt \cup Text \cup {Unset}, recorded : 0..MaxMoves]
CallOutcome == [case : CaseId \cup {Unset}, ok : BOOLEAN, made : Dataset \cup {Unset}]
NoCall == [kind |-> "none"]
NoOutcome == [case |-> Unset, ok |-> FALSE, made |-> Unset]

FreshContent ==
    [panel |-> "case", config |-> "loading",
     listed |-> [d \in Dataset |-> "absent"], listing |-> FALSE,
     mode |-> "existing", selected |-> Unset, newName |-> Unset, source |-> "output",
     createVersion |-> FALSE, promote |-> NoCall, created |-> Unset, promoted |-> NoOutcome,
     prompts |-> "none", supply |-> "custom", ref |-> Unset, text |-> Unset, replay |-> NoCall,
     replayed |-> NoOutcome, result |-> 0, reading |-> "none", from |-> 0, history |-> <<>>,
     agreement |-> "loading", queued |-> "loading", review |-> "idle", sent |-> Unset,
     trace |-> "closed", pages |-> <<>>, reads |-> <<>>]

CaseDrawerInit ==
    /\ shown \in CaseId /\ content = FreshContent /\ orphans = {}
    /\ standing = [d \in Dataset |-> IF d \in Published THEN "PUBLISHED"
                                   ELSE IF d \in Drafts THEN "DRAFT" ELSE "absent"]
    /\ records = [d \in Dataset |-> {}] /\ versions = [d \in Dataset |-> 0]
    /\ replays = <<>> /\ findings = {} /\ consents = {} /\ moves = 0

Becomes(changed) == content' = changed
Elsewhere == UNCHANGED <<orphans, consents>> /\ UNCHANGED store
Quietly == UNCHANGED <<shown, moves>> /\ Elsewhere
ByReader == shown # Unset /\ Uses /\ UNCHANGED shown /\ Elsewhere

-----------------------------------------------------------------------------
(* The drawer: another case has another content *)

Keyed(k) == FreshContent
ContentOf(k) == Keyed(k)
\* Previous, Next, Close and opening a case.
Show(c) ==
    /\ Uses /\ c # shown
    /\ shown' = c /\ content' = ContentOf(content)
    /\ orphans' = orphans \cup ({content.promote, content.replay} \ {NoCall})
    /\ UNCHANGED consents /\ UNCHANGED store

\* The configuration the run was launched with.
ConfigArrives ==
    /\ shown # Unset /\ content.config = "loading"
    /\ Becomes([content EXCEPT !.config = "ready"]) /\ Quietly
ConfigFails ==
    /\ content.config = "loading" /\ ByReader
    /\ Becomes([content EXCEPT !.config = "failed"])
RetryConfig ==
    /\ content.config = "failed" /\ ByReader
    /\ Becomes([content EXCEPT !.config = "loading"])

-----------------------------------------------------------------------------
(* Promoting the case into a dataset *)

OpenPromote ==
    /\ content.panel = "case" /\ ByReader
    /\ Becomes([content EXCEPT !.panel = "promote", !.promoted = NoOutcome, !.listing = TRUE,
                              !.listed = [d \in Dataset |-> "absent"]])
DatasetsArrive ==
    /\ content.listing
    /\ Becomes([content EXCEPT !.listing = FALSE, !.listed = standing]) /\ Quietly
\* The failure is shown in place of what a promotion may have failed with.
DatasetsFail ==
    /\ content.listing /\ ByReader
    /\ Becomes([content EXCEPT !.listing = FALSE, !.promoted = IF @.ok THEN @ ELSE NoOutcome])

Editable == content.panel = "promote" /\ content.promote = NoCall
Selectable == {d \in Dataset : content.listed[d] \notin {"absent", "RETIRED"}}
\* Consent to copy one immutable dataset does not carry over to another.
SelectDataset(d) ==
    /\ Editable /\ content.mode = "existing" /\ d \in Selectable /\ d # content.selected /\ ByReader
    /\ Becomes([content EXCEPT !.selected = d, !.createVersion = FALSE, !.promoted = NoOutcome])
ChooseDataset(d) == SelectDataset(d)
ChangeTargetMode ==
    /\ Editable /\ ByReader
    /\ Becomes([content EXCEPT !.mode = IF @ = "new" THEN "existing" ELSE "new",
                              !.createVersion = FALSE, !.promoted = NoOutcome])
ChangeNewDatasetName(d) ==
    /\ Editable /\ content.mode = "new" /\ d # content.newName /\ ByReader
    /\ Becomes([content EXCEPT !.newName = d, !.promoted = NoOutcome])
\* The reviewer's own answer is typed in when it is chosen.
ChangeExpectedSource ==
    /\ Editable /\ ByReader
    /\ \/ /\ content.source = "output"
          /\ Becomes([content EXCEPT !.source = "reviewer", !.promoted = NoOutcome])
       \/ /\ content.source = "reviewer" /\ shown \in Captured
          /\ Becomes([content EXCEPT !.source = "output", !.promoted = NoOutcome])

Chosen == content.mode = "existing" /\ content.selected \in Selectable
Immutable == Chosen /\ content.listed[content.selected] # "DRAFT"
ToggleCreateVersion ==
    /\ Editable /\ Immutable /\ shown # Unset /\ Uses
    /\ Becomes([content EXCEPT !.createVersion = ~@])
    /\ consents' = IF content.createVersion THEN consents ELSE consents \cup {<<shown, content.selected>>}
    /\ UNCHANGED <<shown, orphans>> /\ UNCHANGED store

CanCommit ==
    /\ content.source = "output" => shown \in Captured
    /\ IF content.mode = "existing" THEN Chosen ELSE content.newName # Unset
    /\ Immutable => content.createVersion
CommitPromote ==
    /\ Editable /\ CanCommit /\ ByReader
    /\ Becomes([content EXCEPT !.promoted = NoOutcome, !.created = Unset, !.promote =
           [kind |-> IF content.mode = "new" THEN "create" ELSE "promote", case |-> shown,
            target |-> IF content.mode = "new" THEN content.newName ELSE content.selected,
            consent |-> content.createVersion, prompt |-> Unset, recorded |-> 0]])

\* The two calls at the server.  A dataset past its draft is copied into the
\* next draft with the case in it, if the caller agreed to that.
CallsUnderWay == orphans \cup ({content.promote, content.replay} \ {NoCall})
Creates(call) == call.kind = "create" /\ standing[call.target] = "absent"
Writes(call) == call.kind = "promote" /\ standing[call.target] = "DRAFT"
Copies(call) == call.kind = "promote" /\ standing[call.target] = "PUBLISHED" /\ call.consent
Carried(call) ==
    /\ standing' = IF Creates(call) THEN [standing EXCEPT ![call.target] = "DRAFT"] ELSE standing
    /\ records' = IF Writes(call) THEN [records EXCEPT ![call.target] = @ \cup {call.case}] ELSE records
    /\ versions' = IF Copies(call) THEN [versions EXCEPT ![call.target] = @ + 1] ELSE versions
    /\ replays' = IF call.kind = "replay" /\ call.recorded = 0 THEN Append(replays, call.case) ELSE replays
    /\ UNCHANGED findings
Succeeds(call) == Creates(call) \/ Writes(call) \/ Copies(call) \/ call.kind = "replay"

\* After the creation comes the promotion; what a failure says of a dataset
\* that was created and stayed empty.
Failure(call, made) == [case |-> call.case, ok |-> FALSE, made |-> made]
Reported(call, made) == Failure(call, made)
PromoteAdvances(succeeds) ==
    LET call == content.promote IN
    content' = IF ~succeeds
               THEN [content EXCEPT !.promote = NoCall, !.promoted = Reported(call, content.created)]
               ELSE IF call.kind = "create"
               THEN [content EXCEPT !.promote = [call EXCEPT !.kind = "promote"], !.created = call.target]
               ELSE [content EXCEPT !.promote = NoCall, !.created = Unset,
                                    !.promoted = [case |-> call.case, ok |-> TRUE, made |-> Unset]]
PromoteAnswered ==
    /\ content.promote # NoCall /\ shown # Unset
    /\ Carried(content.promote) /\ PromoteAdvances(Succeeds(content.promote))
    /\ UNCHANGED <<shown, orphans, consents, moves>>
\* A call is lost before the server has carried it out, or its answer after.
PromoteFails(before) ==
    /\ content.promote # NoCall /\ shown # Unset /\ Uses
    /\ IF before THEN UNCHANGED store ELSE Carried(content.promote)
    /\ PromoteAdvances(FALSE)
    /\ UNCHANGED <<shown, orphans, consents>>
\* The call of a content that is gone; a creation goes on to its promotion.
OrphanEnds(call) ==
    /\ call \in orphans
    /\ Carried(call)
    /\ orphans' = (orphans \ {call}) \cup
           (IF Creates(call) THEN {[call EXCEPT !.kind = "promote"]} ELSE {})
    /\ UNCHANGED <<shown, content, consents, moves>>

-----------------------------------------------------------------------------
(* Replaying the case with another prompt *)

\* replayDisabledReason
ReplayOffered == content.config = "ready" /\ shown \in Replayable
OpenReplay ==
    /\ content.panel = "case" /\ ReplayOffered /\ ByReader
    /\ Becomes([content EXCEPT !.panel = "replay",
                               !.supply = IF content.ref = Unset THEN "custom" ELSE "saved",
                               !.prompts = "loading", !.reading = "loading",
                               !.from = Len(replays)])
PromptsArrive ==
    /\ content.prompts = "loading"
    /\ Becomes([content EXCEPT !.prompts = "loaded"]) /\ Quietly
PromptsFail ==
    /\ content.prompts = "loading" /\ ByReader
    /\ Becomes([content EXCEPT !.prompts = "failed"])
RetryPrompts ==
    /\ content.panel = "replay" /\ content.prompts = "failed" /\ ByReader
    /\ Becomes([content EXCEPT !.prompts = "loading"])

Composing == content.panel = "replay" /\ content.replay = NoCall
OfferLibrary == content.prompts = "loaded" /\ Prompt # {}
ActiveSupply == IF OfferLibrary THEN content.supply ELSE "custom"
SwitchSupply ==
    /\ Composing /\ OfferLibrary /\ ByReader
    /\ Becomes([content EXCEPT !.supply = IF @ = "saved" THEN "custom" ELSE "saved"])
StartFromSaved(p) ==
    /\ Composing /\ ActiveSupply = "saved" /\ p # content.ref /\ ByReader
    /\ Becomes([content EXCEPT !.ref = p, !.text = p])
\* Editing the text clears the reference.
EditedText(t) == [content EXCEPT !.text = t, !.ref = Unset]
TextChangedTo(t) == EditedText(t)
ChangeText(t) ==
    /\ Composing /\ ActiveSupply = "custom" /\ t # content.text /\ ByReader
    /\ Becomes(TextChangedTo(t))

CommitReplay ==
    /\ Composing /\ (content.ref # Unset \/ content.text # Unset) /\ ByReader
    /\ Becomes([content EXCEPT !.replayed = NoOutcome, !.result = 0, !.replay =
           [kind |-> "replay", case |-> shown, target |-> Unset, consent |-> FALSE,
            recorded |-> 0, prompt |-> IF content.ref # Unset THEN content.ref ELSE content.text]])
\* The server records the replay, whatever the model answers; the list of
\* replays may be read before the answer comes, or the answer never comes.
ReplayRecorded ==
    /\ content.replay # NoCall /\ content.replay.recorded = 0
    /\ Carried(content.replay)
    /\ Becomes([content EXCEPT !.replay.recorded = Len(replays')])
    /\ UNCHANGED <<shown, orphans, consents, moves>>
\* The answer is put before the replays already listed.
ReplayAnswered ==
    /\ content.replay # NoCall /\ content.replay.recorded # 0 /\ shown # Unset
    /\ Becomes([content EXCEPT !.replay = NoCall, !.result = content.replay.recorded,
                              !.history = <<content.replay.recorded>> \o @,
                              !.replayed = [case |-> content.replay.case, ok |-> TRUE, made |-> Unset]])
    /\ Quietly
ReplayFails ==
    /\ content.replay # NoCall /\ ByReader
    /\ Becomes([content EXCEPT !.replay = NoCall, !.replayed = Failure(content.replay, Unset)])

\* The list of replays, newest first; those already known stay.
OfCase(n, c) == {r \in 1..n : replays[r] = c}
Descending(s) == \A i, j \in DOMAIN s : i < j => s[i] > s[j]
NewestFirst(ids) == CHOOSE s \in [1..Cardinality(ids) -> ids] : ToSet(s) = ids /\ Descending(s)
Merged(own, read) == NewestFirst(ToSet(own) \cup read)
HistoryAfter(own, read) == Merged(own, read)
\* The answer tells what was recorded when the server read it, up to n.
ReplaysArrive(n) ==
    /\ content.reading = "loading" /\ shown # Unset /\ n >= content.from
    /\ Becomes([content EXCEPT !.reading = "none", !.history = HistoryAfter(@, OfCase(n, shown))])
    /\ Quietly
ReplaysFail ==
    /\ content.reading = "loading" /\ ByReader
    /\ Becomes([content EXCEPT !.reading = "failed"])
RetryReplays ==
    /\ content.panel = "replay" /\ content.reading = "failed" /\ ByReader
    /\ Becomes([content EXCEPT !.reading = "loading", !.from = Len(replays)])
SelectReplay ==
    /\ Composing /\ ByReader
    /\ \E r \in ToSet(content.history) \ {content.result} : Becomes([content EXCEPT !.result = r])

\* Back to the case, from either panel; the review of the case is new.
Back ==
    /\ content.panel # "case" /\ content.promote = NoCall /\ content.replay = NoCall /\ ByReader
    /\ Becomes([content EXCEPT !.panel = "case", !.agreement = "loading", !.queued = "loading",
                               !.review = "idle", !.sent = Unset, !.trace = "closed",
                               !.pages = <<>>, !.reads = <<>>])

-----------------------------------------------------------------------------
(* The review of the case *)

OnCase == shown # Unset /\ content.panel = "case"

AgreementArrives ==
    /\ OnCase /\ content.agreement = "loading"
    /\ Becomes([content EXCEPT !.agreement = "read"]) /\ Quietly
AgreementFails ==
    /\ OnCase /\ content.agreement = "loading" /\ ByReader
    /\ Becomes([content EXCEPT !.agreement = "failed"])
\* The case's findings are read once; a failure leaves the button as it is.
FindingsArrive ==
    /\ OnCase /\ content.queued = "loading"
    /\ Becomes([content EXCEPT !.queued = IF shown \in findings THEN "yes" ELSE "no"]) /\ Quietly
FindingsFail ==
    /\ OnCase /\ content.queued = "loading" /\ ByReader
    /\ Becomes([content EXCEPT !.queued = "no"])

Queued == content.queued = "yes" \/ content.review = "queued"
SendToReview ==
    /\ OnCase /\ ~Queued /\ content.review # "sending" /\ ByReader
    /\ Becomes([content EXCEPT !.review = "sending", !.sent = shown])
\* openCaseForReview is idempotent: a second send finds the first one's finding.
ReviewOpened ==
    /\ OnCase /\ content.review = "sending"
    /\ findings' = findings \cup {content.sent}
    /\ Becomes([content EXCEPT !.review = "queued"])
    /\ UNCHANGED <<shown, orphans, consents, moves, standing, records, versions, replays>>
ReviewFails(before) ==
    /\ OnCase /\ content.review = "sending" /\ Uses
    /\ findings' = IF before THEN findings ELSE findings \cup {content.sent}
    /\ Becomes([content EXCEPT !.review = "failed"])
    /\ UNCHANGED <<shown, orphans, consents, standing, records, versions, replays>>

\* The archived trace is read only once its section is open.
ToggleTrace ==
    /\ OnCase /\ ByReader
    /\ Becomes([content EXCEPT !.trace = IF @ = "closed" THEN "loading" ELSE "closed"])
TraceArrives ==
    /\ OnCase /\ content.trace = "loading"
    /\ \E t \in {"available", "pending"} : Becomes([content EXCEPT !.trace = t])
    /\ Quietly
TraceFails ==
    /\ OnCase /\ content.trace = "loading" /\ ByReader
    /\ Becomes([content EXCEPT !.trace = "failed"])
ReadTraceAgain ==
    /\ OnCase /\ content.trace \in {"pending", "failed"} /\ ByReader
    /\ Becomes([content EXCEPT !.trace = "loading"])

\* A large tool result is read page after page, one at a time.
NextOffset == Len(content.pages) + 1
MayReadPage == content.reads = <<>>
MayLoadPage == MayReadPage
LoadPage ==
    /\ OnCase /\ NextOffset <= PageCount /\ MayLoadPage /\ ByReader
    /\ Becomes([content EXCEPT !.reads = Append(@, NextOffset)])
PageArrives ==
    /\ OnCase /\ content.reads # <<>>
    /\ Becomes([content EXCEPT !.reads = Tail(@), !.pages = Append(@, Head(content.reads))]) /\ Quietly
PageFails ==
    /\ OnCase /\ content.reads # <<>> /\ ByReader
    /\ Becomes([content EXCEPT !.reads = Tail(@)])

-----------------------------------------------------------------------------

\* Somebody else publishes a draft or retires a dataset.
OthersMove(d) ==
    /\ standing[d] \in {"DRAFT", "PUBLISHED"} /\ Uses
    /\ standing' = [standing EXCEPT ![d] = IF @ = "DRAFT" THEN "PUBLISHED" ELSE "RETIRED"]
    /\ UNCHANGED <<shown, content, orphans, records, versions, replays, findings, consents>>

PromoteNext ==
    \/ OpenPromote \/ DatasetsArrive \/ DatasetsFail \/ ChangeTargetMode \/ ChangeExpectedSource
    \/ \E d \in Dataset : ChooseDataset(d) \/ ChangeNewDatasetName(d) \/ OthersMove(d)
    \/ ToggleCreateVersion \/ CommitPromote \/ PromoteAnswered
    \/ \E before \in BOOLEAN : PromoteFails(before)
    \/ \E call \in orphans : OrphanEnds(call)
ReplayNext ==
    \/ OpenReplay \/ PromptsArrive \/ PromptsFail \/ RetryPrompts \/ SwitchSupply
    \/ \E p \in Prompt : StartFromSaved(p)
    \/ \E t \in Text \cup {Unset} : ChangeText(t)
    \/ CommitReplay \/ ReplayRecorded \/ ReplayAnswered \/ ReplayFails
    \/ \E n \in 0..Len(replays) : ReplaysArrive(n)
    \/ ReplaysFail \/ RetryReplays \/ SelectReplay
CaseReviewNext ==
    \/ AgreementArrives \/ AgreementFails \/ FindingsArrive \/ FindingsFail
    \/ SendToReview \/ ReviewOpened \/ \E before \in BOOLEAN : ReviewFails(before)
    \/ ToggleTrace \/ TraceArrives \/ TraceFails \/ ReadTraceAgain
    \/ LoadPage \/ PageArrives \/ PageFails
CaseDrawerNext ==
    \/ \E c \in CaseId \cup {Unset} : Show(c)
    \/ ConfigArrives \/ ConfigFails \/ RetryConfig \/ Back
    \/ PromoteNext \/ ReplayNext \/ CaseReviewNext

CaseDrawerSpec == CaseDrawerInit /\ [][CaseDrawerNext]_caseDrawerVars

-----------------------------------------------------------------------------
(* Properties *)

\* Every variable has its type.
CaseDrawerTypeOK ==
    /\ shown \in CaseId \cup {Unset} /\ orphans \subseteq Call
    /\ content.panel \in {"case", "promote", "replay"}
    /\ content.config \in {"loading", "ready", "failed"}
    /\ content.promote \in Call \cup {NoCall} /\ content.replay \in Call \cup {NoCall}
    /\ content.promoted \in CallOutcome /\ content.replayed \in CallOutcome
    /\ ToSet(content.history) \cup ({content.result} \ {0}) \subseteq DOMAIN replays
    /\ standing \in [Dataset -> DatasetStatus] /\ records \in [Dataset -> SUBSET CaseId]
    /\ versions \in [Dataset -> 0..MaxMoves] /\ replays \in Seq(CaseId) /\ findings \subseteq CaseId
    /\ consents \subseteq CaseId \X Dataset /\ moves \in 0..MaxMoves

\* What the drawer shows as the outcome of a promotion, a replay or a sending
\* is about the case it shows, however the reader moved while it was under way.
OutcomesAreOfTheCase ==
    shown # Unset =>
        /\ {content.promoted.case, content.replayed.case, content.sent} \subseteq {shown, Unset}
        /\ \A r \in ToSet(content.history) : replays[r] = shown

\* A promotion copies a published dataset only for a case and a dataset for
\* which the reader agreed to the copy: consent does not carry over.
CopiesWereAgreedTo ==
    \A call \in CallsUnderWay :
        call.consent /\ call.target # Unset => <<call.case, call.target>> \in consents

\* A dataset the drawer created for a promotion that then failed is named by
\* the failure, as long as it is shown: the reader learns of the empty dataset.
EmptyDatasetIsNamed ==
    shown # Unset /\ content.promote = NoCall /\ content.promoted.case # Unset /\ ~content.promoted.ok
    /\ content.created # Unset
    => content.promoted.made = content.created

\* A replay that was answered stays in the list of replays, also when the list
\* that arrives later was read before the replay was recorded.
AnsweredReplayIsListed ==
    shown # Unset /\ content.replayed.ok => content.result # 0 /\ content.result \in ToSet(content.history)

\* An edited prompt claims no saved version.
EditedPromptHasNoVersion == content.ref # Unset => content.text = content.ref

\* A case shown as sent to review is under review.
QueuedIsUnderReview == shown # Unset /\ Queued => shown \in findings

\* The pages of a tool result are shown in order, each once.
PagesInOrder == \A i \in DOMAIN content.pages : content.pages[i] = i

CaseDrawerIsTrue ==
    /\ OutcomesAreOfTheCase /\ CopiesWereAgreedTo /\ EmptyDatasetIsNamed /\ AnsweredReplayIsListed
    /\ EditedPromptHasNoVersion /\ QueuedIsUnderReview /\ PagesInOrder

=============================================================================
