----------------------------- MODULE Comparisons -----------------------------
(***************************************************************************)
(* Comparison launches ("bakeoffs") in the browser: the workbench starts   *)
(* one run per arm and leaves a record of the launch in localStorage; a    *)
(* sweeper in every open tab polls the runs of the recorded launches and,  *)
(* once they have all ended, groups the completed ones into one workspace. *)
(* POST /experiments/from-runs is not idempotent, so the sweepers of       *)
(* several tabs take a Web Lock per launch and read the record again       *)
(* inside it; a browser without Web Locks goes on without one.             *)
(*                                                                         *)
(* A record is read, changed and written back without giving up the        *)
(* JavaScript thread, so each such access is one step.                     *)
(***************************************************************************)
EXTENDS Integers, FiniteSets

CONSTANTS
    Tab,            \* browser tabs of one profile, sharing localStorage
    Launcher,       \* the tabs in which the workbench is used
    Launch,         \* comparison launches
    Arm,            \* the models or prompts of a launch
    NoTab,          \* nobody holds the lock
    NoLocks,        \* the browser has no Web Locks
    NoRecord,       \* a launch without a record
    MaxRemembered,  \* MAX_REMEMBERED_LAUNCHES
    MaxAttempts,    \* MAX_ATTEMPTS
    MinRuns,        \* MIN_COMPARISON_RUNS
    MaxLosses,      \* bound: answers of from-runs that never arrive
    MaxCloses,      \* bound: tabs closed
    MaxMisses,      \* bound: polls of a sweep with a failed read
    MaxFull         \* bound: writes that localStorage refuses

ASSUME ComparisonAssumption ==
    /\ NoTab \notin Tab /\ NoLocks \notin Tab \cup {NoTab}
    /\ IsFiniteSet(Tab) /\ Launcher \subseteq Tab
    /\ IsFiniteSet(Launch) /\ Launch # {}
    /\ MaxRemembered \in Nat \ {0}
    /\ MaxAttempts \in Nat \ {0}
    /\ MinRuns \in Nat \ {0}
    /\ MaxLosses \in Nat
    /\ MaxCloses \in Nat
    /\ MaxMisses \in Nat
    /\ MaxFull \in Nat

VARIABLES
    run,        \* [Launch -> [Arm -> RunStatus]]: the server's runs
    minted,     \* [Launch -> Nat]: workspaces the server made for a launch
    members,    \* [Launch -> SUBSET Arm]: the runs of the newest of them
    store,      \* [Launch -> Record or NoRecord]: localStorage
    used,       \* SUBSET Launch: launch ids given out
    clock,      \* Nat: launches remembered so far
    lock,       \* [Launch -> Tab, NoTab or NoLocks]: the Web Lock "bakeoff:<launch>"
    sweep,      \* [Tab -> Sweep]: BakeoffResume of each tab
    screen,     \* [Tab -> Screen]: the launch panel of each tab
    lost,       \* [Launch -> Nat]: workspaces whose answer reached no record
    closes,     \* Nat: tabs closed so far
    misses,     \* Nat: polls with a failed read so far
    full        \* Nat: writes that localStorage refused so far

server == <<run, minted, members>>
vars == <<run, minted, members, store, used, lock, sweep, screen, lost, closes, clock, misses, full>>

\* "none": the arm has no run; the others are the run's status on the server.
RunStatus == {"none", "pending", "completed", "failed"}
Terminal(status) == status \in {"completed", "failed"}

\* What a client knows of the arms: "none" stands for a null runId.
Targets == [Arm -> RunStatus]

\* workspace and groupedAt: "no" while there is no workspace, "old" once the
\* retention of a grouped record is over. created orders the records.
Record == [targets: Targets, workspace: {"no", "kept", "old"},
           attempts: 0 .. MaxAttempts, groupingFailed: BOOLEAN,
           created: Nat \ {0}]

ASSUME RecordAssumption == NoRecord \notin Record

SweepPc == {"closed", "idle", "polling", "locking", "posting", "committed",
            "tagging", "counting"}
\* list: what the sweep read of each record it has not handled yet; at: the
\* launch in hand; posted: the arms sent to from-runs.
Sweep == [pc: SweepPc, list: [Launch -> Record \cup {NoRecord}], at: Launch,
          posted: SUBSET Arm]

ScreenPhase == {"form", "starting", "panel"}
Screen == [phase: ScreenPhase, launch: Launch, unsent: SUBSET Arm,
           targets: Targets, workspace: BOOLEAN, groupingFailed: BOOLEAN]

-----------------------------------------------------------------------------
(* lib/bakeoff.ts *)

Launched(targets) == {a \in Arm : targets[a] # "none"}
Completed(targets) == {a \in Arm : targets[a] = "completed"}

StillRunningUntilEnough(targets) ==
    Cardinality(Completed(targets)) < MinRuns /\ \E a \in Launched(targets) : ~Terminal(targets[a])
\* Every launched run must have ended, not only the first MinRuns of them.
StillRunning(targets) == \E a \in Launched(targets) : ~Terminal(targets[a])
TooFew(targets) ==
    ~StillRunning(targets) /\ Cardinality(Completed(targets)) < MinRuns
Ready(targets) == ~StillRunning(targets) /\ ~TooFew(targets)

(* lib/bakeoff-store.ts *)

Stored(st) == {l \in Launch : st[l] # NoRecord}
Ungrouped(st) == {l \in Stored(st) : st[l].workspace = "no"}
Live(st) == {l \in Stored(st) : st[l].workspace # "old"}
Newest(st, S) ==
    {l \in S : Cardinality({k \in S : st[k].created > st[l].created}) < MaxRemembered}

KeptByAge(st) == {Newest(st, Live(st))}
\* The records that a write of st may keep: grouped ones past their retention
\* go, then grouped ones before ungrouped ones, then the oldest. The order of
\* the grouped ones among themselves is left open.
Kept(st) ==
    {K \in SUBSET Live(st) :
        /\ Cardinality(K) <= MaxRemembered
        /\ Cardinality(K) = MaxRemembered \/ K = Live(st)
        /\ K \cap Ungrouped(st) = Newest(st, Ungrouped(st))}

\* When setItem throws, which writeLaunches swallows, the old records stay.
WriteLaunches(st) ==
    \/ /\ \E K \in Kept(st) :
            store' = [l \in Launch |-> IF l \in K THEN st[l] ELSE NoRecord]
       /\ UNCHANGED full
    \/ /\ full < MaxFull /\ full' = full + 1
       /\ UNCHANGED store

\* updateLaunch of a record that is gone changes no record.
UpdateLaunch(l, patched) ==
    WriteLaunches(IF store[l] = NoRecord THEN store ELSE [store EXCEPT ![l] = patched])

-----------------------------------------------------------------------------
NoTargets == [a \in Arm |-> "none"]
NoLaunch == CHOOSE l \in Launch : TRUE
EmptyList == [l \in Launch |-> NoRecord]
SweepAt(pc) == [pc |-> pc, list |-> EmptyList, at |-> NoLaunch, posted |-> {}]
Form == [phase |-> "form", launch |-> NoLaunch, unsent |-> {}, targets |-> NoTargets,
         workspace |-> FALSE, groupingFailed |-> FALSE]

Init ==
    /\ run = [l \in Launch |-> NoTargets]
    /\ minted = [l \in Launch |-> 0]
    /\ members = [l \in Launch |-> {}]
    /\ store = EmptyList
    /\ used = {}
    /\ clock = 0
    /\ lock \in {[l \in Launch |-> NoTab], [l \in Launch |-> NoLocks]}
    /\ sweep \in [Tab -> {SweepAt("closed"), SweepAt("idle")}]
    /\ screen = [t \in Tab |-> Form]
    /\ lost = [l \in Launch |-> 0]
    /\ closes = 0
    /\ misses = 0
    /\ full = 0

Open(t) == sweep[t].pc # "closed"

-----------------------------------------------------------------------------
(* The server *)

RunEnds(l, a) ==
    /\ run[l][a] = "pending"
    /\ \E status \in {"completed", "failed"} : run' = [run EXCEPT ![l][a] = status]
    /\ UNCHANGED <<minted, members, store, used, lock, sweep, screen, lost, closes, clock, misses, full>>

-----------------------------------------------------------------------------
(* The workbench: launchComparison and the panel it leaves on the screen *)

LaunchComparison(t, l) ==
    /\ t \in Launcher /\ Open(t) /\ screen[t].phase = "form" /\ l \notin used
    /\ used' = used \cup {l}
    /\ screen' = [screen EXCEPT ![t] =
                    [Form EXCEPT !.phase = "starting", !.launch = l, !.unsent = Arm]]
    /\ UNCHANGED <<server, store, lock, sweep, lost, closes, clock, misses, full>>

\* createRunFromDataset of one arm: started; refused; or started with an answer
\* that does not arrive, which the loop takes for a refusal.
StartArm(t, a) ==
    LET l == screen[t].launch IN
    /\ screen[t].phase = "starting" /\ a \in screen[t].unsent
    /\ \E started, answered \in BOOLEAN :
        /\ answered => started
        /\ run' = IF started THEN [run EXCEPT ![l][a] = "pending"] ELSE run
        /\ screen' = [screen EXCEPT ![t].unsent = @ \ {a},
                        ![t].targets[a] = IF answered THEN "pending" ELSE "none"]
    /\ UNCHANGED <<minted, members, store, used, lock, sweep, lost, closes, clock, misses, full>>

\* No arm started: the launch ends in an error and leaves no record. Otherwise
\* rememberLaunch; the user may have left the screen meanwhile.
Remember(t) ==
    LET l == screen[t].launch
        targets == screen[t].targets
    IN
    /\ screen[t].phase = "starting" /\ screen[t].unsent = {}
    /\ IF Launched(targets) = {}
       THEN /\ screen' = [screen EXCEPT ![t] = Form]
            /\ UNCHANGED <<store, clock, full>>
       ELSE /\ clock' = clock + 1
            /\ WriteLaunches([store EXCEPT ![l] =
                  [targets |-> targets, workspace |-> "no", attempts |-> 0,
                   groupingFailed |-> FALSE, created |-> clock']])
            /\ \/ screen' = [screen EXCEPT ![t].phase = "panel"]
               \/ screen' = [screen EXCEPT ![t] = Form]
    /\ UNCHANGED <<server, used, lock, sweep, lost, closes, misses>>

Settled(targets) == ~StillRunning(targets)
Watching(t) ==
    LET s == screen[t] IN
    s.phase = "panel" /\ ~s.workspace /\ ~s.groupingFailed

\* The panel's timer while a run goes on: refreshTargets with reportErrors, so
\* one failed read leaves every target as it was.
PanelRefresh(t) ==
    LET s == screen[t] IN
    /\ Watching(t) /\ ~Settled(s.targets)
    /\ screen' = [screen EXCEPT ![t].targets =
                    [a \in Arm |-> IF s.targets[a] = "none" THEN "none" ELSE run[s.launch][a]]]
    /\ UNCHANGED <<server, store, used, lock, sweep, lost, closes, clock, misses, full>>

\* The panel's timer once all ended: it waits for the record to name a workspace.
PanelWatch(t) ==
    LET s == screen[t] IN
    /\ Watching(t) /\ Settled(s.targets)
    /\ Cardinality(Completed(s.targets)) >= MinRuns
    /\ \/ /\ s.launch \in Stored(store) \ Ungrouped(store)
          /\ screen' = [screen EXCEPT ![t].workspace = TRUE]
       \/ /\ \/ s.launch \notin Stored(store)
             \/ s.launch \in Ungrouped(store) /\ store[s.launch].groupingFailed
          /\ screen' = [screen EXCEPT ![t].groupingFailed = TRUE]
    /\ UNCHANGED <<server, store, used, lock, sweep, lost, closes, clock, misses, full>>

\* The redirect to the comparison, or the user leaves.
LeavePanel(t) ==
    /\ screen[t].phase = "panel"
    /\ screen' = [screen EXCEPT ![t] = Form]
    /\ UNCHANGED <<server, store, used, lock, sweep, lost, closes, clock, misses, full>>

-----------------------------------------------------------------------------
(* BakeoffResume: one sweep of a tab *)

Move(t, pc) == sweep' = [sweep EXCEPT ![t].pc = pc]

\* On to the next record that the sweep read, if any is left.
Handled(t, l) ==
    LET list == [sweep[t].list EXCEPT ![l] = NoRecord] IN
    sweep' = [sweep EXCEPT ![t] = IF Stored(list) = {} THEN SweepAt("idle")
                                  ELSE [SweepAt("polling") EXCEPT !.list = list]]

\* readLaunches, less the launches that the loop passes over.
StartSweep(t) ==
    LET owed == {l \in Ungrouped(store) : ~store[l].groupingFailed} IN
    /\ sweep[t].pc = "idle" /\ owed # {}
    /\ sweep' = [sweep EXCEPT ![t].pc = "polling", ![t].list =
                    [l \in Launch |-> IF l \in owed THEN store[l] ELSE NoRecord]]
    /\ UNCHANGED <<server, store, used, lock, screen, lost, closes, clock, misses, full>>

\* refreshTargets of the sweep: a target whose read fails keeps what the sweep
\* had read. The record takes the new targets; a launch that can never be
\* compared is forgotten, one whose runs have all ended goes on to groupLaunch.
Poll(t, l) ==
    LET old == sweep[t].list[l].targets
        asked == {a \in Launched(old) : ~Terminal(old[a])}
    IN
    /\ sweep[t].pc = "polling" /\ l \in Stored(sweep[t].list)
    /\ \E answered \in SUBSET asked :
        LET targets == [a \in Arm |-> IF a \in answered THEN run[l][a] ELSE old[a]] IN
        /\ \/ answered = asked /\ UNCHANGED misses
           \/ answered # asked /\ misses < MaxMisses /\ misses' = misses + 1
        /\ IF TooFew(targets)
           THEN WriteLaunches([store EXCEPT ![l] = NoRecord])
           ELSE UpdateLaunch(l, [store[l] EXCEPT !.targets = targets])
        /\ IF Ready(targets)
           THEN sweep' = [sweep EXCEPT ![t].pc = "locking", ![t].at = l]
           ELSE Handled(t, l)
    /\ UNCHANGED <<server, used, lock, screen, lost, closes, clock>>

(* lib/bakeoff-grouping.ts: withLock runs its function within the lock, or just *)
(* runs it where there are no locks.                                           *)
Grab(t, l) ==
    /\ lock[l] \in {NoTab, NoLocks}
    /\ lock' = [lock EXCEPT ![l] = IF @ = NoLocks THEN NoLocks ELSE t]
Release(t, l) == lock' = [lock EXCEPT ![l] = IF @ = t THEN NoTab ELSE @]

TakeLockOnSweptRecord(t) ==
    LET l == sweep[t].at IN
    /\ sweep[t].pc = "locking"
    /\ Grab(t, l)
    /\ sweep' = [sweep EXCEPT ![t].pc = "posting",
                              ![t].posted = {a \in Arm : run[l][a] = "completed"}]
    /\ UNCHANGED <<server, store, used, screen, lost, closes, clock, misses, full>>

\* groupLaunch inside the lock: the record is read again, and nothing is posted
\* when it is gone, already grouped, or not ready. The lock is then free again.
TakeLock(t) ==
    LET l == sweep[t].at
        current == store[l]
    IN
    /\ sweep[t].pc = "locking" /\ lock[l] \in {NoTab, NoLocks}
    /\ IF current # NoRecord /\ current.workspace = "no" /\ Ready(current.targets)
       THEN /\ Grab(t, l)
            /\ sweep' = [sweep EXCEPT ![t].pc = "posting",
                                      ![t].posted = Completed(current.targets)]
       ELSE Handled(t, l) /\ UNCHANGED lock
    /\ UNCHANGED <<server, store, used, screen, lost, closes, clock, misses, full>>

\* from-runs on the server: every run must be completed.
Accepts(l, posted) ==
    Cardinality(posted) >= MinRuns /\ \A a \in posted : run[l][a] = "completed"

Mint(l, posted) ==
    /\ minted' = [minted EXCEPT ![l] = @ + 1]
    /\ members' = [members EXCEPT ![l] = posted]

PostCommits(t) ==
    LET l == sweep[t].at IN
    /\ sweep[t].pc = "posting" /\ Accepts(l, sweep[t].posted)
    /\ Mint(l, sweep[t].posted)
    /\ Move(t, "committed")
    /\ UNCHANGED <<run, store, used, lock, screen, lost, closes, clock, misses, full>>

\* The record names the workspace, unless localStorage refuses the write.
PostAnswered(t) ==
    LET l == sweep[t].at IN
    /\ sweep[t].pc = "committed"
    /\ UpdateLaunch(l, [store[l] EXCEPT !.workspace = "kept"])
    /\ lost' = IF full' = full THEN lost ELSE [lost EXCEPT ![l] = @ + 1]
    /\ Move(t, "tagging")
    /\ UNCHANGED <<server, used, lock, screen, closes, clock, misses>>

\* patchExperiment, whose failure is ignored.
TagsDone(t) ==
    /\ sweep[t].pc = "tagging"
    /\ Release(t, sweep[t].at)
    /\ Handled(t, sweep[t].at)
    /\ UNCHANGED <<server, store, used, screen, lost, closes, clock, misses, full>>

\* The call fails before the server makes a workspace, or its answer is lost.
PostFails(t) ==
    LET l == sweep[t].at IN
    /\ \/ sweep[t].pc = "posting" /\ UNCHANGED lost
       \/ /\ sweep[t].pc = "committed" /\ lost[l] < MaxLosses
          /\ lost' = [lost EXCEPT ![l] = @ + 1]
    /\ Release(t, l)
    /\ Move(t, "counting")
    /\ UNCHANGED <<server, store, used, screen, closes, clock, misses, full>>

(* Mutants: the failed attempt is not added; one attempt too many.             *)
CountNothing(t) ==
    LET l == sweep[t].at
        attempts == sweep[t].list[l].attempts
    IN
    /\ sweep[t].pc = "counting"
    /\ UpdateLaunch(l, [store[l] EXCEPT !.attempts = attempts,
                            !.groupingFailed = @ \/ attempts >= MaxAttempts])
    /\ Handled(t, sweep[t].at)
    /\ UNCHANGED <<server, used, lock, screen, lost, closes, clock, misses>>
CountAttemptLate(t) ==
    LET l == sweep[t].at
        attempts == sweep[t].list[l].attempts + 1
    IN
    /\ sweep[t].pc = "counting"
    /\ UpdateLaunch(l, [store[l] EXCEPT !.attempts = attempts,
                            !.groupingFailed = @ \/ attempts > MaxAttempts])
    /\ Handled(t, sweep[t].at)
    /\ UNCHANGED <<server, used, lock, screen, lost, closes, clock, misses>>

\* The attempt is counted from the record as the sweep had read it.
CountAttempt(t) ==
    LET l == sweep[t].at
        attempts == sweep[t].list[l].attempts + 1
    IN
    /\ sweep[t].pc = "counting"
    /\ UpdateLaunch(l, [store[l] EXCEPT !.attempts = attempts,
                            !.groupingFailed = @ \/ attempts >= MaxAttempts])
    /\ Handled(t, sweep[t].at)
    /\ UNCHANGED <<server, used, lock, screen, lost, closes, clock, misses>>

-----------------------------------------------------------------------------
(* The world: retention, and tabs that close and open *)

\* An hour passes after grouping. A panel looks every three seconds, so one
\* that waits for this launch has seen the workspace.
Ages(l) ==
    /\ store[l] # NoRecord /\ store[l].workspace = "kept"
    /\ \A t \in Tab : ~(Watching(t) /\ screen[t].launch = l)
    /\ store' = [store EXCEPT ![l].workspace = "old"]
    /\ UNCHANGED <<server, used, lock, sweep, screen, lost, closes, clock, misses, full>>

\* The browser frees the tab's lock; a call in flight may still reach the
\* server, and its answer reaches nobody.
CloseTab(t) ==
    LET l == sweep[t].at
        orphaned == sweep[t].pc = "committed"
        mayCommit == sweep[t].pc = "posting" /\ Accepts(l, sweep[t].posted)
    IN
    /\ Open(t) /\ closes < MaxCloses
    /\ closes' = closes + 1
    /\ \/ ~orphaned /\ UNCHANGED <<minted, members, lost>>
       \/ /\ orphaned /\ UNCHANGED <<minted, members>>
          /\ lost' = [lost EXCEPT ![l] = @ + 1]
       \/ /\ mayCommit /\ Mint(l, sweep[t].posted)
          /\ lost' = [lost EXCEPT ![l] = @ + 1]
    /\ lock' = [k \in Launch |-> IF lock[k] = t THEN NoTab ELSE lock[k]]
    /\ sweep' = [sweep EXCEPT ![t] = SweepAt("closed")]
    /\ screen' = [screen EXCEPT ![t] = Form]
    /\ UNCHANGED <<run, store, used, clock, misses, full>>

OpenTab(t) ==
    /\ sweep[t].pc = "closed"
    /\ sweep' = [sweep EXCEPT ![t] = SweepAt("idle")]
    /\ UNCHANGED <<server, store, used, lock, screen, lost, closes, clock, misses, full>>

-----------------------------------------------------------------------------
SweepStep(t) ==
    \/ StartSweep(t) \/ (\E l \in Launch : Poll(t, l)) \/ TakeLock(t)
    \/ PostCommits(t) \/ PostAnswered(t) \/ TagsDone(t) \/ PostFails(t) \/ CountAttempt(t)

ScreenStep(t) ==
    \/ \E l \in Launch : LaunchComparison(t, l)
    \/ \E a \in Arm : StartArm(t, a)
    \/ Remember(t) \/ PanelRefresh(t) \/ PanelWatch(t) \/ LeavePanel(t)

Next ==
    \/ \E l \in Launch, a \in Arm : RunEnds(l, a)
    \/ \E l \in Launch : Ages(l)
    \/ \E t \in Tab : SweepStep(t) \/ ScreenStep(t) \/ CloseTab(t) \/ OpenTab(t)

Safety == Init /\ [][Next]_vars

\* Runs end; the timers of an open tab fire and its promises settle; Web Locks,
\* where there are any, are granted in turn.
Fairness ==
    /\ \A l \in Launch, a \in Arm : WF_vars(RunEnds(l, a))
    /\ \A t \in Tab :
        /\ WF_vars(StartSweep(t)) /\ SF_vars(TakeLock(t))
        /\ WF_vars(\E l \in Launch : Poll(t, l))
        /\ WF_vars(PostCommits(t) \/ PostAnswered(t) \/ PostFails(t))
        /\ WF_vars(TagsDone(t)) /\ WF_vars(CountAttempt(t))

Spec == Safety /\ Fairness

-----------------------------------------------------------------------------
TypeOK ==
    /\ run \in [Launch -> Targets]
    /\ minted \in [Launch -> Nat]
    /\ members \in [Launch -> SUBSET Arm]
    /\ store \in [Launch -> Record \cup {NoRecord}]
    /\ used \subseteq Launch
    /\ clock \in Nat
    /\ lock \in [Launch -> Tab \cup {NoTab, NoLocks}]
    /\ sweep \in [Tab -> Sweep]
    /\ screen \in [Tab -> Screen]
    /\ lost \in [Launch -> Nat]
    /\ closes \in Nat
    /\ misses \in Nat
    /\ full \in Nat

\* bakeoff-grouping.ts:53 "Group a launch's completed runs into one workspace,
\* at most once": however many tabs sweep, crash and retry, the server makes a
\* second workspace for a launch only after the answer to an earlier call was
\* lost, the risk the comment accepts, or could not be stored. A browser without
\* Web Locks has no more to rely on than the record: every tab may make one.
MayMint(l) == IF lock[l] = NoLocks THEN Cardinality(Tab) ELSE 1
WorkspaceMintedOnce == \A l \in Launch : minted[l] <= lost[l] + MayMint(l)

\* bakeoff.ts:115: grouping early would leave later finishers outside for ever.
\* The workspace of a grouped record holds every completed run that the launch
\* knows of, and none of its runs is still going.
GroupedWhole ==
    \A l \in Stored(store) \ Ungrouped(store) :
        LET known == Launched(store[l].targets) IN
        /\ \A a \in known : Terminal(run[l][a])
        /\ members[l] = {a \in known : run[l][a] = "completed"}

\* bakeoff-store.ts:84: a launch that still owes the user a workspace loses its
\* record only when its runs on the server can no longer make a comparison, or
\* to MAX_REMEMBERED_LAUNCHES newer launches that owe one too. A failed read is
\* no reason, and neither is a grouped record that takes up room.
Hopeless(l) ==
    TooFew([a \in Arm |-> IF store[l].targets[a] = "none" THEN "none" ELSE run[l][a]])
Crowded(l) ==
    Cardinality({k \in Ungrouped(store)' : store'[k].created > store[l].created})
        >= MaxRemembered
OwedLaunchIsKept ==
    [][\A l \in Ungrouped(store) :
        l \in Stored(store)' \/ Hopeless(l) \/ Crowded(l)]_vars

\* bakeoff-resume.tsx:67: no launch is tried for ever, even though tabs write
\* the attempts of each other's stale reads: every launch is in the end grouped,
\* given up, or gone.
Owed(l) == l \in Ungrouped(store) /\ ~store[l].groupingFailed
EventuallyResolved == \A l \in Launch : Owed(l) ~> ~Owed(l)
=============================================================================
