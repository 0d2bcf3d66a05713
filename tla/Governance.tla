------------------------------ MODULE Governance ------------------------------
(***************************************************************************)
(* The lifecycle of quality profiles, gate policies and assignments: the   *)
(* catalogue page that lists and acts on them (ContractsPage, its row      *)
(* actions, drawer and dialogs) and the endpoints behind it, which read a  *)
(* record, check the transition and write the columns it changes.          *)
(*                                                                         *)
(* The page keeps no copy of its own: after every action it reloads the    *)
(* catalogue in the background, and a generation number decides which of   *)
(* several loads under way may still change what is shown.  Other people   *)
(* act on the same records.                                                *)
(***************************************************************************)
EXTENDS FiniteSets, Integers

CONSTANTS
    Profile, Policy, Assignment,
    Nothing,      \* no record, no snapshot
    MaxCalls,     \* bounds the requests ever made to change a record
    MaxRefreshes, \* lets the page be refreshed by hand only early on
    MaxLoads,     \* bounds the loads of the catalogue under way
    Overlap       \* how many requests may be between their read and their write

GovernanceAssumption ==
    /\ Profile \cap Policy = {} /\ Profile \cap Assignment = {} /\ Policy \cap Assignment = {}
    /\ Nothing \notin Profile \cup Policy \cup Assignment
    /\ MaxCalls \in Nat /\ MaxRefreshes \in Nat /\ MaxLoads \in Nat /\ Overlap \in Nat \ {0}

VARIABLES
    records,    \* [Record -> RecordView], in the database
    own,        \* [Record -> 0..MaxCalls]: the revision this page last wrote
    overlooked, \* the records last written by a request that had read an older row
    calls,      \* the requests to change a record under way
    asked,      \* how many there have been so far
    catalogue,  \* [shown, loading, generation, missing, error]
    loads,      \* the loads of the catalogue under way
    pending,    \* pendingAction: <<record, action>> or Nothing
    dialogs     \* [drawer, retire, test, override, create]: what each is open on

governanceVars == <<records, own, overlooked, calls, asked, catalogue, loads, pending, dialogs>>

Record == Profile \cup Policy \cup Assignment
Kind == {"profile", "policy", "assignment"}
KindOf(r) == IF r \in Profile THEN "profile" ELSE IF r \in Policy THEN "policy" ELSE "assignment"
Status == {"absent", "draft", "validated", "approved", "retired", "active", "archived"}
Transition == {"create", "validate", "approve", "retire", "reinstate", "archive", "restore"}
Evidence == {"mark-tested", "override"}
Action == Transition \cup Evidence
\* rev counts the writes of a record; the code has no such column.
RecordView == [status : Status, tested : BOOLEAN, rev : 0..MaxCalls]
Absent == [status |-> "absent", tested |-> FALSE, rev |-> 0]

GovernanceInit ==
    /\ \E s \in {"draft", "validated"}, t \in BOOLEAN :
         records = [r \in Record |->
             [status |-> IF r \in Assignment THEN "active" ELSE IF r \in Policy THEN "absent" ELSE s,
              tested |-> r \in Profile /\ t, rev |-> 0]]
    /\ own = [r \in Record |-> 0] /\ overlooked = {}
    /\ calls = {} /\ asked = 0
    /\ catalogue = [shown |-> [r \in Record |-> Absent], loading |-> TRUE, generation |-> 1,
                    missing |-> {}, error |-> FALSE]
    /\ loads = {[gen |-> 1, background |-> FALSE, read |-> Nothing, missing |-> {}]}
    /\ pending = Nothing
    /\ dialogs = [drawer |-> Nothing, retire |-> Nothing, test |-> Nothing,
                  override |-> Nothing, create |-> Nothing]

-----------------------------------------------------------------------------
(* The endpoints *)

Leaving(status) ==
    CASE status = "absent" -> {"create"}
      [] status = "draft" -> {"validate", "retire"}
      [] status = "validated" -> {"approve", "retire"}
      [] status = "approved" -> {"retire"}
      [] status = "retired" -> {"reinstate"}
      [] OTHER -> {"archive", "restore"}
\* _validate_lifecycle_transition, and what each endpoint demands beyond it.
Legal(r, act, v) ==
    IF act \in Evidence THEN v.status \in {"draft", "validated"}
    ELSE act \in Leaving(v.status) /\ (act = "approve" /\ r \in Profile => v.tested)

Becomes(act) ==
    CASE act \in {"create", "reinstate"} -> "draft"
      [] act = "validate" -> "validated"
      [] act = "approve" -> "approved"
      [] act = "retire" -> "retired"
      [] act = "archive" -> "archived"
      [] OTHER -> "active"
\* The columns a request writes: those it assigned, over what is there by now.
Written(act, v) ==
    [status |-> IF act \in Transition THEN Becomes(act) ELSE v.status,
     tested |-> IF act \in Evidence THEN TRUE ELSE IF act = "reinstate" THEN FALSE ELSE v.tested,
     rev |-> v.rev + 1]

\* What becomes of a request whose sender waits for the answer.
Answered(c, step) == (calls \ {c}) \cup IF c.page THEN {[c EXCEPT !.step = step]} ELSE {}

OtherAsks(r, act) ==
    /\ asked < MaxCalls /\ Legal(r, act, records[r])
    /\ calls' = calls \cup {[id |-> asked, rec |-> r, act |-> act, page |-> FALSE, step |-> "asked", seen |-> 0, gen |-> 0]}
    /\ asked' = asked + 1
    /\ UNCHANGED <<records, own, overlooked, catalogue, loads, pending, dialogs>>
\* The record is read, without a lock, and the transition checked.
Checks(c) ==
    /\ c \in calls /\ c.step = "asked"
    /\ IF Legal(c.rec, c.act, records[c.rec])
       THEN /\ Cardinality({d \in calls : d.step = "read"}) < Overlap
            /\ calls' = (calls \ {c}) \cup {[c EXCEPT !.step = "read", !.seen = records[c.rec].rev]}
       ELSE calls' = Answered(c, "refused")
    /\ UNCHANGED <<records, own, overlooked, asked, catalogue, loads, pending, dialogs>>
\* The columns are written without another look at the row: whoever changed it
\* meanwhile has been overlooked.
Commits(c) ==
    /\ c \in calls /\ c.step = "read"
    /\ records' = [records EXCEPT ![c.rec] = Written(c.act, @)]
    /\ overlooked' = IF c.seen = records[c.rec].rev THEN overlooked \ {c.rec}
                     ELSE overlooked \cup {c.rec}
    /\ own' = IF c.page THEN [own EXCEPT ![c.rec] = records[c.rec].rev + 1] ELSE own
    /\ calls' = Answered(c, "written")
    /\ UNCHANGED <<asked, catalogue, loads, pending, dialogs>>
\* Refused for what the model leaves out: no evidence, no permission, no answer.
Refuses(c) ==
    /\ c \in calls /\ c.step = "asked" /\ c.page
    /\ calls' = Answered(c, "refused")
    /\ UNCHANGED <<records, own, overlooked, asked, catalogue, loads, pending, dialogs>>

-----------------------------------------------------------------------------
(* The catalogue *)

\* load(background), up to its first await.
Load(background) ==
    /\ Cardinality(loads) < MaxLoads
    /\ catalogue' = [catalogue EXCEPT !.generation = @ + 1, !.loading = @ \/ ~background,
                                      !.missing = {}, !.error = FALSE]
    /\ loads' = loads \cup {[gen |-> catalogue.generation + 1, background |-> background,
                             read |-> Nothing, missing |-> {}]}

Refresh ==
    /\ ~catalogue.loading /\ catalogue.generation <= MaxRefreshes
    /\ Load(FALSE)
    /\ UNCHANGED <<records, own, overlooked, calls, asked, pending, dialogs>>
\* The lists are read; a list that fails is taken as empty and reported.
LoadReads(l, missing) ==
    /\ l \in loads /\ l.read = Nothing
    /\ loads' = (loads \ {l}) \cup
         {[l EXCEPT !.read = [r \in Record |-> IF KindOf(r) \in missing THEN Absent ELSE records[r]],
                    !.missing = missing]}
    /\ UNCHANGED <<records, own, overlooked, calls, asked, catalogue, pending, dialogs>>

\* The action that waited for this load, if one did, is over.
Waiting(l) == {c \in calls : c.step = "reload" /\ c.gen = l.gen}
Done(c, field, act) == IF c.act = act THEN Nothing ELSE dialogs[field]
Finish(l) ==
    /\ calls' = calls \ Waiting(l)
    /\ IF Waiting(l) = {} THEN UNCHANGED <<pending, dialogs>>
       ELSE \E c \in Waiting(l) :
         /\ pending' = IF c.act = "create" THEN pending ELSE Nothing
         /\ dialogs' = IF c.act \in {"archive", "restore"} THEN dialogs
                       ELSE [dialogs EXCEPT !.retire = Done(c, "retire", "retire"),
                                            !.test = Done(c, "test", "mark-tested"),
                                            !.override = Done(c, "override", "override"),
                                            !.create = Done(c, "create", "create")]

AnyLoad(l) == TRUE
Current(l) == l.gen = catalogue.generation
LoadArrives(l) ==
    /\ l \in loads /\ l.read # Nothing
    /\ loads' = loads \ {l}
    /\ catalogue' = IF ~Current(l) THEN catalogue
                    ELSE [catalogue EXCEPT !.shown = l.read, !.missing = l.missing,
                                           !.loading = @ /\ l.background]
    /\ Finish(l)
    /\ UNCHANGED <<records, own, overlooked, asked>>
LoadFails(l) ==
    /\ l \in loads /\ l.read = Nothing
    /\ loads' = loads \ {l}
    /\ catalogue' = IF ~Current(l) THEN catalogue
                    ELSE [catalogue EXCEPT !.error = TRUE, !.loading = @ /\ l.background]
    /\ Finish(l)
    /\ UNCHANGED <<records, own, overlooked, asked>>

-----------------------------------------------------------------------------
(* The actions of the page *)

PrimaryAction(r) ==
    LET v == catalogue.shown[r] IN
    CASE v.status = "retired" -> "reinstate"
      [] v.status = "approved" -> "retire"
      [] v.status = "active" -> "archive"
      [] v.status = "archived" -> "restore"
      [] r \in Profile /\ ~v.tested -> "mark-tested"
      [] v.status = "validated" -> "approve"
      [] OTHER -> "validate"
CanOverride(r) ==
    r \in Profile /\ catalogue.shown[r].status \in {"draft", "validated"} /\ ~catalogue.shown[r].tested

Modal == {dialogs.retire, dialogs.test, dialogs.override, dialogs.create} # {Nothing}
\* The row's menu, or the drawer that stands in for it.
Reachable(r) ==
    /\ ~Modal /\ catalogue.shown[r].status # "absent"
    /\ IF dialogs.drawer = Nothing THEN ~catalogue.loading ELSE dialogs.drawer = r

Call(r, act) ==
    /\ asked < MaxCalls
    /\ calls' = calls \cup {[id |-> asked, rec |-> r, act |-> act, page |-> TRUE, step |-> "asked", seen |-> 0, gen |-> 0]}
    /\ asked' = asked + 1
Start(r, act) ==
    /\ Call(r, act)
    /\ pending' = <<r, act>>
    /\ UNCHANGED <<records, own, overlooked, catalogue, loads, dialogs>>

OpenRecord(r) ==
    /\ Reachable(r) /\ r \notin Assignment /\ dialogs.drawer = Nothing
    /\ dialogs' = [dialogs EXCEPT !.drawer = r]
    /\ UNCHANGED <<records, own, overlooked, calls, asked, catalogue, loads, pending>>
CloseDrawer ==
    /\ ~Modal /\ dialogs.drawer # Nothing
    /\ dialogs' = [dialogs EXCEPT !.drawer = Nothing]
    /\ UNCHANGED <<records, own, overlooked, calls, asked, catalogue, loads, pending>>

\* The dialog that collects a run, a note or a confirmation first.
Asks(r, field) ==
    /\ dialogs' = [dialogs EXCEPT ![field] = r]
    /\ UNCHANGED <<records, own, overlooked, calls, asked, catalogue, loads, pending>>
RunPrimary(r) ==
    /\ Reachable(r) /\ pending # <<r, PrimaryAction(r)>>
    /\ CASE PrimaryAction(r) = "mark-tested" -> Asks(r, "test")
         [] PrimaryAction(r) = "retire" -> Asks(r, "retire")
         [] OTHER -> Start(r, PrimaryAction(r))
OverrideNotTested(r) ==
    /\ Reachable(r) /\ CanOverride(r)
    /\ Asks(r, "override")
OpenCreate(r) ==
    /\ ~Modal /\ ~catalogue.loading /\ dialogs.drawer = Nothing /\ r \notin Assignment
    /\ records[r].status = "absent"
    /\ Asks(r, "create")

PendingIs(act) == pending # Nothing /\ pending[2] = act
ConfirmRetire ==
    /\ dialogs.retire # Nothing /\ ~PendingIs("retire")
    /\ Start(dialogs.retire, "retire")
SubmitTest ==
    /\ dialogs.test # Nothing /\ pending = Nothing
    /\ Start(dialogs.test, "mark-tested")
SubmitOverride ==
    /\ dialogs.override # Nothing /\ ~PendingIs("override")
    /\ Start(dialogs.override, "override")
CreatePending == \E c \in calls : c.page /\ c.act = "create"
SubmitCreate ==
    /\ dialogs.create # Nothing /\ ~CreatePending
    /\ Call(dialogs.create, "create")
    /\ UNCHANGED <<records, own, overlooked, catalogue, loads, pending, dialogs>>
\* The scrim and the Escape key close a dialog whatever it waits for, except
\* the create dialog.
Dismiss(field) ==
    /\ dialogs[field] # Nothing /\ (field = "create" => ~CreatePending)
    /\ dialogs' = [dialogs EXCEPT ![field] = Nothing]
    /\ UNCHANGED <<records, own, overlooked, calls, asked, catalogue, loads, pending>>

\* Written: the catalogue is loaded again, archiving in the foreground.
Reload(c) ==
    /\ c \in calls /\ c.step = "written"
    /\ Load(c.act \notin {"archive", "restore"})
    /\ calls' = (calls \ {c}) \cup {[c EXCEPT !.step = "reload", !.gen = catalogue.generation + 1]}
    /\ UNCHANGED <<records, own, overlooked, asked, pending, dialogs>>
Settled(c) == IF c.act = "create" THEN pending ELSE Nothing
ActionFails(c) ==
    /\ c \in calls /\ c.step = "refused"
    /\ calls' = calls \ {c}
    /\ pending' = Settled(c)
    /\ UNCHANGED <<records, own, overlooked, asked, catalogue, loads, dialogs>>

GovernanceNext ==
    \/ \E r \in Record, act \in Action : OtherAsks(r, act)
    \/ \E c \in calls : Checks(c) \/ Commits(c) \/ Refuses(c) \/ Reload(c) \/ ActionFails(c)
    \/ Refresh
    \/ \E l \in loads : \E m \in {{}, {"profile"}} : LoadReads(l, m)
    \/ \E l \in loads : LoadArrives(l) \/ LoadFails(l)
    \/ \E r \in Record : OpenRecord(r) \/ RunPrimary(r) \/ OverrideNotTested(r) \/ OpenCreate(r)
    \/ CloseDrawer \/ ConfirmRetire \/ SubmitTest \/ SubmitOverride \/ SubmitCreate
    \/ \E field \in {"retire", "test", "override", "create"} : Dismiss(field)

GovernanceSpec == GovernanceInit /\ [][GovernanceNext]_governanceVars

-----------------------------------------------------------------------------
(* Properties *)

MaybeRecord == Record \cup {Nothing}
\* Every variable has its type.
GovernanceTypeOK ==
    /\ records \in [Record -> RecordView] /\ own \in [Record -> 0..MaxCalls]
    /\ overlooked \subseteq Record /\ asked \in 0..MaxCalls
    /\ \A c \in calls : c.seen \in 0..MaxCalls /\ c.rec \in Record /\ c.act \in Action /\ c.page \in BOOLEAN
         /\ c.step \in {"asked", "read", "written", "refused", "reload"}
    /\ catalogue.shown \in [Record -> RecordView] /\ catalogue.missing \subseteq Kind
    /\ catalogue.loading \in BOOLEAN /\ catalogue.error \in BOOLEAN
    /\ \A l \in loads : l.gen \in 1..catalogue.generation /\ l.background \in BOOLEAN
    /\ pending \in {Nothing} \cup (Record \X Action)
    /\ \A field \in DOMAIN dialogs : dialogs[field] \in MaybeRecord

\* The page never rests on a catalogue older than what it wrote itself: once
\* nothing is under way, each list that could be read shows the last change
\* made here, however the loads of several actions overlapped.
CatalogueShowsOwnWork ==
    loads = {} /\ (\A c \in calls : ~c.page) /\ ~catalogue.error
      => \A r \in Record :
            KindOf(r) \in catalogue.missing \/ catalogue.shown[r].rev >= own[r]

\* A row says Saving only while that very action is under way.
PendingHasACall ==
    pending # Nothing => \E c \in calls : c.page /\ <<c.rec, c.act>> = pending

\* store.py:6894 a reinstated profile "must earn approval again": a profile that
\* is approved has been tested, or its test overridden, since it was last
\* reinstated, whatever requests were decided side by side.  What may approve it
\* untested is one thing alone: an approval that read the row before others
\* retired and reinstated it, and wrote after them (transition_quality_profile
\* reads without a lock and writes without looking again).
ApprovedWasTested ==
    \A r \in Profile : records[r].status = "approved" => records[r].tested \/ r \in overlooked

GovernanceIsTrue == CatalogueShowsOwnWork /\ PendingHasACall
=============================================================================
