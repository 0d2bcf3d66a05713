---------------------------- MODULE AssignmentSetup ----------------------------
(***************************************************************************)
(* The wizard that binds a project, a target, an approved quality profile  *)
(* and optionally a gate policy into a new assignment                      *)
(* (QualityContractsWorkspace and its panels).                             *)
(*                                                                         *)
(* A selection is a key into catalogues that are reloaded behind it, so    *)
(* what is selected is derived anew from key and catalogue each time; and  *)
(* profile, policy and policy mode have to follow one another.  Loads of   *)
(* the targets carry a generation number; those of the catalogues do not.  *)
(* A request is one step where the server writes and another where its     *)
(* answer arrives, and the answer may be lost.                             *)
(***************************************************************************)
EXTENDS FiniteSets, Integers, Sequences

CONSTANTS
    Project, Target, Profile, Policy,
    Unset,          \* nothing selected
    FirstProject,   \* the one project that exists at first; the others can be created
    Registered,     \* the targets that exist at first
    Home,           \* [Target -> Project]
    ProfileScope,   \* [Profile -> Project or Unset]: the profile's project
    Gates,          \* [Profile -> SUBSET Policy]: the policies it can carry
    MaxRetired,     \* bounds the profiles and policies retired meanwhile
    MaxCatalogueLoads, \* bounds the loads of the catalogues under way
    MaxTargetLoads, \* bounds the loads of the targets
    MaxSaves        \* bounds the assignments created

\* What can be asked of the server: an item to create, a binding to save.
Choice ==
    [project: Project \cup {Unset}, target: Target \cup {Unset}, profile: Profile \cup {Unset},
     policy: Policy \cup {Unset}, mode: {"none", "configured"}]
RequestStep == {"asked", "written", "loading"}
SetupRequest ==
    [kind: {"project"}, item: Project, step: RequestStep]
    \cup [kind: {"target"}, item: Target, step: RequestStep]
    \cup [kind: {"save"}, item: Choice, step: RequestStep]

SetupAssumption ==
    /\ FirstProject \in Project /\ Registered \subseteq Target
    /\ Home \in [Target -> Project] /\ ProfileScope \in [Profile -> Project \cup {Unset}]
    /\ Gates \in [Profile -> SUBSET Policy]
    /\ Unset \notin Project \cup Target \cup Profile \cup Policy \cup SetupRequest
    /\ MaxRetired \in Nat /\ MaxCatalogueLoads \in Nat /\ MaxTargetLoads \in Nat /\ MaxSaves \in Nat

VARIABLES
    server,     \* [projects, targets, approved]
    saves,      \* the assignments created, in this order: [binding, pass, lost], what was
                \* bound, in which pass of the wizard, and whether the answer was lost
    lists,      \* [projects, profiles, policies]: the catalogues; what is approved of them
    failed,     \* the catalogues whose last load failed
    reads,      \* loads of the catalogues under way, with what was there when they began
    busy,
    chosen,     \* [project, target, profile, policy, mode]
    targets,    \* [shown, state, gen]
    targetReads,\* loads of the targets under way
    section,    \* activeSection: the step of the wizard, 1 to 4
    pending,    \* a request or Unset; what was written for it is then loaded
    saved       \* [assignment, details, pass]: savedAssignment, an index of saves or 0,
                \* resolvedManifest, and how often the wizard was started over

setupVars ==
    <<server, saves, lists, failed, reads, busy, chosen, targets, targetReads, section, pending, saved>>

Catalogue == {"projects", "profiles", "policies"}
EmptyForm ==
    [project |-> Unset, target |-> Unset, profile |-> Unset, policy |-> Unset, mode |-> "none"]
NotSaved(pass) == [assignment |-> 0, details |-> FALSE, pass |-> pass]

SetupInit ==
    /\ server = [projects |-> {FirstProject}, targets |-> Registered, approved |-> Profile \cup Policy]
    /\ saves = <<>>
    /\ lists = [projects |-> {}, profiles |-> {}, policies |-> {}]
    /\ failed = {} /\ busy = TRUE
    /\ reads = {[n |-> 1, for |-> Unset, seen |-> server]}
    /\ chosen = EmptyForm
    /\ targets = [shown |-> {}, state |-> "ready", gen |-> 0]
    /\ targetReads = {} /\ section = 1 /\ pending = Unset /\ saved = NotSaved(0)

-----------------------------------------------------------------------------
(* What is selected *)

\* compatibleProfiles and compatiblePolicies
CompatibleProfiles(p) ==
    IF p \notin lists.projects THEN {} ELSE {f \in lists.profiles : ProfileScope[f] \in {Unset, p}}
CompatiblePolicies(f) == IF f = Unset THEN {} ELSE Gates[f] \cap lists.policies

Within(key, set) == IF key \in set THEN key ELSE Unset
SelectedProject == Within(chosen.project, lists.projects)
SelectedTarget == Within(chosen.target, {t \in targets.shown : Home[t] = chosen.project})
SelectedProfile == Within(chosen.profile, CompatibleProfiles(chosen.project))
SelectedPolicy == Within(chosen.policy, CompatiblePolicies(SelectedProfile))

PolicyChoiceReady == chosen.mode = "none" \/ SelectedPolicy # Unset
ContractSectionReadiness(step) ==
    CASE step = 1 -> SelectedProject # Unset /\ SelectedTarget # Unset
      [] step = 2 -> SelectedProfile # Unset
      [] step = 3 -> PolicyChoiceReady
      [] OTHER -> Unset \notin {SelectedProject, SelectedTarget, SelectedProfile} /\ PolicyChoiceReady

-----------------------------------------------------------------------------
(* The catalogues *)

\* loadCatalogues, up to its await; p: the new project it will select.
LoadCatalogues(p) ==
    /\ busy' = TRUE /\ failed' = {}
    /\ \E n \in 1..MaxCatalogueLoads :
         /\ \A r \in reads : r.n # n
         /\ \A m \in 1..(n - 1) : \E r \in reads : r.n = m
         /\ reads' = reads \cup {[n |-> n, for |-> p, seen |-> server]}

Editing == saved.assignment = 0
RefreshCatalogues ==
    /\ Editing /\ ~busy /\ pending = Unset
    /\ LoadCatalogues(Unset)
    /\ UNCHANGED <<server, saves, lists, chosen, targets, targetReads, section, pending, saved>>

\* loadTargets, up to its await; item: the target registered, to be selected.
LoadTargets(p, item) ==
    /\ targets.gen < MaxTargetLoads
    /\ targets' = [targets EXCEPT !.gen = @ + 1, !.state = "loading"]
    /\ targetReads' = targetReads \cup {[gen |-> targets.gen + 1, project |-> p, for |-> item]}

Cleared(f) == [f EXCEPT !.profile = Unset, !.policy = Unset, !.mode = "none"]
\* The policy and its mode are given up together when the profile cannot carry it.
FollowProfile(f) ==
    IF f.policy \in CompatiblePolicies(f.profile) THEN f
    ELSE [f EXCEPT !.policy = Unset, !.mode = "none"]

\* A load that fails for one catalogue leaves that catalogue as it was.  The
\* project it was waited for is then selected, as by the render that asked: to
\* that render it was unknown, so nothing is compatible with it.
CataloguesArrive(r, answer, lost) ==
    /\ r \in reads
    /\ reads' = reads \ {r}
    /\ busy' = FALSE /\ failed' = lost
    /\ lists' = [c \in Catalogue |->
          IF c \in lost THEN lists[c]
          ELSE CASE c = "projects" -> answer.projects
                 [] c = "profiles" -> Profile \cap answer.approved
                 [] OTHER -> Policy \cap answer.approved]
    /\ IF r.for = Unset THEN UNCHANGED <<chosen, pending, targets, targetReads>>
       ELSE /\ chosen' = [Cleared(chosen) EXCEPT !.project = r.for, !.target = Unset]
            /\ pending' = Unset
            /\ LoadTargets(r.for, Unset)
    /\ UNCHANGED <<server, saves, section, saved>>

OthersRetire(v) ==
    /\ v \in server.approved /\ Cardinality((Profile \cup Policy) \ server.approved) < MaxRetired
    /\ server' = [server EXCEPT !.approved = @ \ {v}]
    /\ UNCHANGED <<saves, lists, failed, reads, busy, chosen, targets, targetReads, section, pending, saved>>

-----------------------------------------------------------------------------
(* The targets *)

Current(t) == t.gen = targets.gen
\* The answer; then the target it was registered for is selected, if any.
KeptTarget(key, shown) == IF key \in shown THEN key ELSE Unset
TargetsArrive(t, ok) ==
    LET shown == IF ok THEN {u \in server.targets : Home[u] = t.project} ELSE {}
        key == IF Current(t) THEN KeptTarget(chosen.target, shown) ELSE chosen.target IN
    /\ t \in targetReads
    /\ targetReads' = targetReads \ {t}
    /\ targets' = IF ~Current(t) THEN targets
                  ELSE [targets EXCEPT !.shown = shown, !.state = IF ok THEN "ready" ELSE "error"]
    /\ chosen' = [chosen EXCEPT !.target = IF t.for = Unset THEN key ELSE t.for]
    /\ pending' = IF t.for = Unset THEN pending ELSE Unset
    /\ UNCHANGED <<server, saves, lists, failed, reads, busy, section, saved>>

-----------------------------------------------------------------------------
(* The selections: every control of a panel is disabled while a save or a  *)
(* registration is pending.                                                *)

Selecting(step) == Editing /\ section = step /\ pending = Unset
\* A panel shows its list only once loaded, and loaded without an error.
Listed(c) == ~busy /\ c \notin failed
FormOnly ==
    UNCHANGED <<server, saves, lists, failed, reads, busy, targets, targetReads, section, pending, saved>>

SelectProject(p) ==
    /\ Selecting(1) /\ Listed("projects") /\ p \in lists.projects
    /\ chosen' = LET f == [chosen EXCEPT !.project = p, !.target = Unset] IN
               IF chosen.profile \in CompatibleProfiles(p) THEN FollowProfile(f) ELSE Cleared(f)
    /\ IF p = chosen.project THEN UNCHANGED <<targets, targetReads>> ELSE LoadTargets(p, Unset)
    /\ UNCHANGED <<server, saves, lists, failed, reads, busy, section, pending, saved>>
SelectTarget(t) ==
    /\ Selecting(1) /\ targets.state = "ready" /\ t \in targets.shown
    /\ chosen' = [chosen EXCEPT !.target = IF Home[t] = chosen.project THEN t ELSE Unset]
    /\ FormOnly
SelectProfile(f) ==
    /\ Selecting(2) /\ Listed("profiles") /\ f \in CompatibleProfiles(chosen.project)
    /\ chosen' = FollowProfile([chosen EXCEPT !.profile = f])
    /\ FormOnly
ModeChange(mode) ==
    /\ Selecting(3) /\ mode # chosen.mode /\ (mode = "configured" => "policies" \notin failed)
    /\ chosen' = [chosen EXCEPT !.mode = mode, !.policy = IF mode = "none" THEN Unset ELSE @]
    /\ FormOnly
SelectPolicy(g) ==
    /\ Selecting(3) /\ chosen.mode = "configured" /\ Listed("policies") /\ g \in CompatiblePolicies(SelectedProfile)
    /\ chosen' = [chosen EXCEPT !.policy = g]
    /\ FormOnly

\* The next section needs this one ready; earlier ones are always open.
Go(step) ==
    /\ Editing /\ step \in 1..4 /\ step # section
    /\ step <= section \/ (step = section + 1 /\ ContractSectionReadiness(section))
    /\ section' = step
    /\ UNCHANGED <<server, saves, lists, failed, reads, busy, chosen, targets, targetReads, pending, saved>>

CreateProject(p) ==
    /\ Selecting(1) /\ Listed("projects") /\ p \notin server.projects
    /\ pending' = [kind |-> "project", item |-> p, step |-> "asked"]
    /\ UNCHANGED <<server, saves, lists, failed, reads, busy, chosen, targets, targetReads, section, saved>>
\* createTarget and addCatalogAgent: the same but for the dialog they close.
RegisterTarget(t) ==
    /\ Selecting(1) /\ targets.state # "error" /\ SelectedProject # Unset
    /\ t \notin server.targets /\ Home[t] = chosen.project
    /\ pending' = [kind |-> "target", item |-> t, step |-> "asked"]
    /\ UNCHANGED <<server, saves, lists, failed, reads, busy, chosen, targets, targetReads, section, saved>>
Waits(kinds, step) == pending # Unset /\ pending.kind \in kinds /\ pending.step = step
Creates ==
    /\ Waits({"project", "target"}, "asked")
    /\ server' = IF pending.kind = "project"
                 THEN [server EXCEPT !.projects = @ \cup {pending.item}]
                 ELSE [server EXCEPT !.targets = @ \cup {pending.item}]
    /\ pending' = [pending EXCEPT !.step = "written"]
    /\ UNCHANGED <<saves, lists, failed, reads, busy, chosen, targets, targetReads, section, saved>>
\* What was created is loaded before it is selected; neither load throws.
CreateAnswers ==
    /\ Waits({"project", "target"}, "written")
    /\ IF pending.kind = "project"
       THEN LoadCatalogues(pending.item) /\ UNCHANGED <<targets, targetReads>>
       ELSE LoadTargets(chosen.project, pending.item) /\ UNCHANGED <<failed, reads, busy>>
    /\ pending' = [pending EXCEPT !.step = "loading"]
    /\ UNCHANGED <<server, saves, lists, chosen, section, saved>>
\* The request is refused or lost, or its answer is: to the page they are one error.
RequestFails ==
    /\ pending # Unset /\ pending.step # "loading"
    /\ saves' = IF Waits({"save"}, "written") THEN [saves EXCEPT ![Len(saves)].lost = TRUE] ELSE saves
    /\ pending' = Unset
    /\ UNCHANGED <<server, lists, failed, reads, busy, chosen, targets, targetReads, section, saved>>

-----------------------------------------------------------------------------
(* Saving *)

Binding == [project |-> SelectedProject, target |-> SelectedTarget, profile |-> SelectedProfile,
            policy |-> SelectedPolicy, mode |-> chosen.mode]
FinishSetup ==
    /\ Editing /\ section = 4 /\ pending = Unset /\ ContractSectionReadiness(4)
    /\ Len(saves) < MaxSaves
    /\ pending' = [kind |-> "save", item |-> Binding, step |-> "asked"]
    /\ UNCHANGED <<server, saves, lists, failed, reads, busy, chosen, targets, targetReads, section, saved>>
\* An assignment that the page knows of is not created again.
MustCreate == saved.assignment = 0
Resolvable(b) ==
    /\ b.project \in server.projects /\ b.target \in server.targets /\ Home[b.target] = b.project
    /\ b.profile \in server.approved /\ b.policy \in server.approved \cup {Unset}
    /\ b.policy \in Gates[b.profile] \cup {Unset}
\* The page names no assignment, so the server creates one under a new id.
CreateAssignment ==
    /\ Waits({"save"}, "asked") /\ MustCreate /\ Resolvable(pending.item)
    /\ saves' = Append(saves, [binding |-> pending.item, pass |-> saved.pass, lost |-> FALSE])
    /\ pending' = [pending EXCEPT !.step = "written"]
    /\ UNCHANGED <<server, lists, failed, reads, busy, chosen, targets, targetReads, section, saved>>
\* details: of a new assignment they came with it or were then loaded.
SaveAnswers(details) ==
    /\ Waits({"save"}, IF MustCreate THEN "written" ELSE "asked")
    /\ saved' = [saved EXCEPT !.assignment = IF MustCreate THEN Len(saves) ELSE @, !.details = details]
    /\ pending' = Unset
    /\ UNCHANGED <<server, saves, lists, failed, reads, busy, chosen, targets, targetReads, section>>
RetryDetails ==
    /\ saved.assignment # 0 /\ ~saved.details /\ pending = Unset
    /\ ContractSectionReadiness(4)
    /\ pending' = [kind |-> "save", item |-> Binding, step |-> "asked"]
    /\ UNCHANGED <<server, saves, lists, failed, reads, busy, chosen, targets, targetReads, section, saved>>
CreateRevision ==
    /\ saved.details
    /\ saved' = NotSaved(saved.pass + 1) /\ section' = 1
    /\ UNCHANGED <<server, saves, lists, failed, reads, busy, chosen, targets, targetReads, pending>>

SetupNext ==
    \/ RefreshCatalogues \/ Creates \/ CreateAnswers \/ RequestFails
    \/ FinishSetup \/ CreateAssignment \/ RetryDetails \/ CreateRevision
    \/ \E r \in reads : \E answer \in {r.seen, server}, lost \in SUBSET Catalogue : CataloguesArrive(r, answer, lost)
    \/ \E v \in Profile \cup Policy : OthersRetire(v)
    \/ \E t \in targetReads, ok \in BOOLEAN : TargetsArrive(t, ok)
    \/ \E p \in Project : SelectProject(p) \/ CreateProject(p)
    \/ \E t \in Target : SelectTarget(t) \/ RegisterTarget(t)
    \/ \E f \in Profile : SelectProfile(f)
    \/ \E g \in Policy : SelectPolicy(g)
    \/ \E mode \in {"none", "configured"} : ModeChange(mode)
    \/ \E step \in 1..4 : Go(step)
    \/ \E details \in BOOLEAN : SaveAnswers(details)

SetupSpec == SetupInit /\ [][SetupNext]_setupVars

-----------------------------------------------------------------------------
(* Properties *)

\* Every variable has its type.
SetupTypeOK ==
    /\ server.projects \subseteq Project /\ server.targets \subseteq Target
    /\ server.approved \subseteq Profile \cup Policy
    /\ lists.projects \subseteq Project /\ lists.profiles \subseteq Profile /\ lists.policies \subseteq Policy
    /\ failed \subseteq Catalogue /\ busy \in BOOLEAN /\ section \in 1..4
    /\ chosen \in Choice /\ pending \in {Unset} \cup SetupRequest
    /\ targets.shown \subseteq Target /\ targets.state \in {"loading", "ready", "error"}
    /\ saved.assignment \in 0..MaxSaves

\* An assignment binds a target of its project, a profile of that project or
\* of none, and a policy exactly when release governance was asked for, one
\* the profile can carry; whatever was reloaded, retired or created between
\* the choices.
BindingsAreSound ==
    \A i \in DOMAIN saves : LET b == saves[i].binding IN
        /\ Home[b.target] = b.project /\ ProfileScope[b.profile] \in {Unset, b.project}
        /\ b.policy \in Gates[b.profile] \cup {Unset}
        /\ (b.policy # Unset) <=> (b.mode = "configured")

\* Loads of the catalogues carry no generation number, and need none: no two
\* are ever under way at once.
OneLoadAtATime == Cardinality(reads) <= 1

SetupIsTrue == BindingsAreSound /\ OneLoadAtATime

\* One pass of the wizard creates one assignment: whatever is tried again after
\* an error, another is created only when the answer of each one before it was
\* lost.  (The request names no assignment, so then it is: the page cannot tell.)
RetryCreatesNone ==
    Len(saves') > Len(saves) =>
        \A i \in DOMAIN saves : saves[i].pass = saved.pass => saves[i].lost

=============================================================================
