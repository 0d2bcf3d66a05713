-------------------------- MODULE ComparisonsProofs --------------------------
(***************************************************************************)
(* Type correctness of Comparisons; the workspaces of a launch, with Web   *)
(* Locks and without: one more than answers were lost, or one for each     *)
(* tab; the wholeness of a workspace; and the memory of what is owed: for  *)
(* any number of tabs, launches, arms and remembered launches.             *)
(*                                                                         *)
(* Of the form that launches them (RunForm): what enables Run, what runs   *)
(* and what is remembered, for any models, texts, edits and loads.         *)
(***************************************************************************)
EXTENDS Comparisons, RunForm, FiniteSetTheorems, TLAPS

-----------------------------------------------------------------------------
(* The inductive invariant *)

\* A record that still counts attempts has not used them up, and neither had
\* one that a sweep has in hand; from the lock on there is a record in hand.
AttemptsLeft ==
    /\ \A l \in Launch : store[l] # NoRecord /\ ~store[l].groupingFailed
                            => store[l].attempts < MaxAttempts
    /\ \A t \in Tab :
        /\ \A l \in Launch : sweep[t].list[l] # NoRecord
                                => sweep[t].list[l].attempts < MaxAttempts
        /\ sweep[t].pc \in {"locking", "posting", "committed", "tagging", "counting"}
            => sweep[t].list[sweep[t].at] # NoRecord

InLock == {"posting", "committed", "tagging"}
CallAt(t, l) == sweep[t].pc \in {"posting", "committed"} /\ sweep[t].at = l
CommittedAt(t, l) == sweep[t].pc = "committed" /\ sweep[t].at = l
PostingAt(t, l) == sweep[t].pc = "posting" /\ sweep[t].at = l

\* Who calls from-runs holds the launch's lock, where there are locks.
CallersHoldLock ==
    \A t \in Tab : sweep[t].pc \in InLock => lock[sweep[t].at] \in {t, NoLocks}

Untouched(l) == store[l] = NoRecord /\ minted[l] = 0 /\ \A t \in Tab : ~CallAt(t, l)

\* A launch id is given out once, and nothing is known of it until the record
\* of its launch is written.
StartsAreFresh ==
    /\ \A l \in Launch \ used : Untouched(l)
    /\ \A t \in Tab : screen[t].phase = "starting" =>
        screen[t].launch \in used /\ Untouched(screen[t].launch)
    /\ \A t, u \in Tab :
        screen[t].phase = "starting" /\ screen[u].phase = "starting"
            /\ screen[t].launch = screen[u].launch => t = u

Posting(l) == {t \in Tab : PostingAt(t, l)}
Committed(l) == {t \in Tab : CommittedAt(t, l)}
Owes(l) == store[l] # NoRecord /\ store[l].workspace = "no"

\* While a record owes a workspace, every one that was made is lost, or on its way
\* to a tab. What is made and what still may be never exceeds what is lost by more
\* than the calls that can be under way at a time.
Balanced(l) ==
    /\ Owes(l) => minted[l] <= lost[l] + Cardinality(Committed(l))
    /\ minted[l] + Cardinality(Posting(l)) <= lost[l] + MayMint(l)
OwedIsBalanced == \A l \in Launch : Balanced(l)

TypeInv == TypeOK /\ AttemptsLeft
OnceInv == CallersHoldLock /\ StartsAreFresh /\ OwedIsBalanced

-----------------------------------------------------------------------------
(* What a write leaves of the records *)

LEMMA ConstantsOK ==
    /\ NoTab \notin Tab /\ NoLocks \notin Tab \cup {NoTab} /\ IsFiniteSet(Tab)
    /\ MaxRemembered \in Nat \ {0} /\ MaxAttempts \in Nat \ {0}
    /\ MinRuns \in Nat \ {0} /\ NoLaunch \in Launch
BY ComparisonAssumption DEF ComparisonAssumption, NoLaunch

\* WriteLaunches keeps each record it is given, or drops it, or writes nothing.
LEMMA WriteKeepsOrDrops ==
    ASSUME NEW st, WriteLaunches(st), TypeOK
    PROVE  /\ store' = [l \in Launch |-> store'[l]]
           /\ \/ \A l \in Launch : store'[l] = st[l] \/ store'[l] = NoRecord
              \/ UNCHANGED store
           /\ full' = full => \A l \in Launch : store'[l] = st[l] \/ store'[l] = NoRecord
           /\ full' \in Nat
<1>0. full \in Nat /\ full + 1 # full /\ full + 1 \in Nat
  BY DEF TypeOK
<1>1. CASE /\ \E K \in Kept(st) :
                store' = [l \in Launch |-> IF l \in K THEN st[l] ELSE NoRecord]
           /\ UNCHANGED full
  BY <1>0, <1>1
<1>2. CASE UNCHANGED store /\ full' = full + 1
  BY <1>0, <1>2 DEF TypeOK
<1>3. QED
  BY <1>1, <1>2 DEF WriteLaunches

LEMMA UpdateKeepsOrDrops ==
    ASSUME NEW l \in Launch, NEW patched, UpdateLaunch(l, patched), TypeOK
    PROVE  /\ store' = [k \in Launch |-> store'[k]]
           /\ \A k \in Launch : \/ store'[k] = NoRecord
                                \/ store'[k] = store[k]
                                \/ k = l /\ store[l] # NoRecord /\ store'[l] = patched
           /\ full' = full => store'[l] \in {NoRecord, patched}
           /\ full' \in Nat
<1> DEFINE st == IF store[l] = NoRecord THEN store ELSE [store EXCEPT ![l] = patched]
<1>1. WriteLaunches(st)
  BY DEF UpdateLaunch
<1>2. \A k \in Launch : \/ k # l /\ st[k] = store[k]
                        \/ k = l /\ store[l] = NoRecord /\ st[k] = NoRecord
                        \/ k = l /\ store[l] # NoRecord /\ st[k] = patched
  BY DEF TypeOK
<1> HIDE DEF st
<1>3. QED
  BY <1>1, <1>2, WriteKeepsOrDrops

LEMMA UpdateType ==
    ASSUME NEW l \in Launch, NEW patched, UpdateLaunch(l, patched), TypeInv,
           store[l] # NoRecord => /\ patched \in Record
                                  /\ ~patched.groupingFailed => patched.attempts < MaxAttempts
    PROVE  /\ store' \in [Launch -> Record \cup {NoRecord}]
           /\ \A k \in Launch : store'[k] # NoRecord /\ ~store'[k].groupingFailed
                                    => store'[k].attempts < MaxAttempts
           /\ full' \in Nat
<1>1. full' \in Nat /\ store' = [k \in Launch |-> store'[k]]
  BY UpdateKeepsOrDrops DEF TypeInv
<1>2. \A k \in Launch : \/ store'[k] = NoRecord \/ store'[k] = store[k]
                        \/ k = l /\ store[l] # NoRecord /\ store'[l] = patched
  BY UpdateKeepsOrDrops DEF TypeInv
<1>3. \A k \in Launch : store'[k] \in Record \cup {NoRecord}
  BY <1>2 DEF TypeInv, TypeOK
<1>4. \A k \in Launch : store'[k] # NoRecord /\ ~store'[k].groupingFailed
                            => store'[k].attempts < MaxAttempts
  BY <1>2 DEF TypeInv, AttemptsLeft
<1>5. QED
  BY <1>1, <1>3, <1>4

-----------------------------------------------------------------------------
(* Records and their updates *)

LEMMA SweepFields ==
    ASSUME NEW s \in Sweep
    PROVE  /\ s.pc \in SweepPc /\ s.list \in [Launch -> Record \cup {NoRecord}]
           /\ s.at \in Launch /\ s.posted \in SUBSET Arm
BY DEF Sweep

LEMMA SweepAtType ==
    ASSUME NEW pc \in SweepPc
    PROVE  /\ SweepAt(pc) \in Sweep /\ SweepAt(pc).pc = pc
           /\ \A l \in Launch : SweepAt(pc).list[l] = NoRecord
BY ConstantsOK DEF SweepAt, Sweep, EmptyList

\* Handled leaves the sweep idle or polling the records it has left.
LEMMA HandledLeaves ==
    ASSUME TypeInv, NEW t \in Tab, NEW l \in Launch, Handled(t, l)
    PROVE  \E s \in Sweep :
              /\ sweep' = [sweep EXCEPT ![t] = s]
              /\ s.pc \in {"idle", "polling"}
              /\ \A k \in Launch : s.list[k] # NoRecord => s.list[k].attempts < MaxAttempts
              /\ \A k \in Launch : s.list[k] = sweep[t].list[k] \/ s.list[k] = NoRecord
<1> DEFINE list == [sweep[t].list EXCEPT ![l] = NoRecord]
           going == [SweepAt("polling") EXCEPT !.list = list]
           s == IF Stored(list) = {} THEN SweepAt("idle") ELSE going
<1>1. sweep[t] \in Sweep
  BY DEF TypeInv, TypeOK
<1>2. sweep[t].list \in [Launch -> Record \cup {NoRecord}]
  BY <1>1 DEF Sweep
<1>3. list \in [Launch -> Record \cup {NoRecord}]
      /\ \A k \in Launch : list[k] = sweep[t].list[k] \/ list[k] = NoRecord
  BY <1>2
<1>4. \A k \in Launch : list[k] # NoRecord => list[k].attempts < MaxAttempts
  BY <1>3 DEF TypeInv, AttemptsLeft
<1> HIDE DEF list
<1>5. /\ SweepAt("idle") \in Sweep /\ SweepAt("idle").pc = "idle"
      /\ \A k \in Launch : SweepAt("idle").list[k] = NoRecord
  BY SweepAtType DEF SweepPc
<1>6. going \in Sweep /\ going.pc = "polling" /\ going.list = list
  BY <1>3, ConstantsOK DEF SweepAt, Sweep, SweepPc
<1> HIDE DEF going
<1>7. /\ s \in Sweep /\ s.pc \in {"idle", "polling"}
      /\ \A k \in Launch : s.list[k] # NoRecord => s.list[k].attempts < MaxAttempts
      /\ \A k \in Launch : s.list[k] = sweep[t].list[k] \/ s.list[k] = NoRecord
  BY <1>3, <1>4, <1>5, <1>6 DEF list
<1>8. sweep' = [sweep EXCEPT ![t] = s]
  BY DEF Handled, going, list
<1> HIDE DEF s
<1>9. QED
  BY <1>7, <1>8

-----------------------------------------------------------------------------
(* Type correctness *)

LEMMA InitSweep ==
    ASSUME Init, NEW t \in Tab
    PROVE  /\ sweep \in [Tab -> Sweep] /\ sweep[t].pc \in {"closed", "idle"}
           /\ \A l \in Launch : sweep[t].list[l] = NoRecord
<1>1. /\ SweepAt("idle") \in Sweep /\ SweepAt("idle").pc = "idle"
      /\ \A l \in Launch : SweepAt("idle").list[l] = NoRecord
  BY SweepAtType DEF SweepPc
<1>2. /\ SweepAt("closed") \in Sweep /\ SweepAt("closed").pc = "closed"
      /\ \A l \in Launch : SweepAt("closed").list[l] = NoRecord
  BY SweepAtType DEF SweepPc
<1>3. sweep \in [Tab -> {SweepAt("closed"), SweepAt("idle")}]
  BY DEF Init
<1>4. QED
  BY <1>1, <1>2, <1>3

LEMMA InitType == Init => TypeInv
<1> SUFFICES ASSUME Init PROVE TypeInv
  OBVIOUS
<1> USE ConstantsOK DEF Init
<1>1. NoTargets \in Targets
  BY DEF NoTargets, Targets, RunStatus
<1>2. /\ \A t \in Tab : sweep[t].pc \in {"closed", "idle"}
      /\ \A t \in Tab, l \in Launch : sweep[t].list[l] = NoRecord
  BY InitSweep
<1>3. Form \in Screen
  BY <1>1 DEF Form, Screen, ScreenPhase
<1>s. sweep \in [Tab -> Sweep]
  <2>1. CASE Tab = {}
    BY <2>1
  <2>2. CASE Tab # {}
    BY <2>2, InitSweep
  <2>3. QED
    BY <2>1, <2>2
<1>4. TypeOK
  BY <1>1, <1>s, <1>3 DEF TypeOK, EmptyList
<1>5. AttemptsLeft
  BY <1>2 DEF AttemptsLeft, EmptyList
<1>6. QED
  BY <1>4, <1>5 DEF TypeInv

\* A step of one sweep: what it must leave of that sweep.
LEMMA OneSweep ==
    ASSUME TypeInv, NEW t \in Tab, NEW s \in Sweep, sweep' = [sweep EXCEPT ![t] = s],
           \A l \in Launch : s.list[l] # NoRecord => s.list[l].attempts < MaxAttempts,
           s.pc \in {"locking", "posting", "committed", "tagging", "counting"}
                => s.list[s.at] # NoRecord,
           store' \in [Launch -> Record \cup {NoRecord}],
           \A l \in Launch : store'[l] # NoRecord /\ ~store'[l].groupingFailed
                                => store'[l].attempts < MaxAttempts
    PROVE  sweep' \in [Tab -> Sweep] /\ AttemptsLeft'
<1>1. sweep' \in [Tab -> Sweep] /\ sweep'[t] = s /\ \A u \in Tab \ {t} : sweep'[u] = sweep[u]
  BY DEF TypeInv, TypeOK
<1>2. ASSUME NEW u \in Tab
      PROVE  /\ \A l \in Launch : sweep'[u].list[l] # NoRecord
                                => sweep'[u].list[l].attempts < MaxAttempts
             /\ sweep'[u].pc \in {"locking", "posting", "committed", "tagging", "counting"}
                  => sweep'[u].list[sweep'[u].at] # NoRecord
  <2>1. CASE u = t
    BY <1>1, <2>1
  <2>2. CASE u # t
    BY <1>1, <2>2 DEF TypeInv, AttemptsLeft
  <2>3. QED
    BY <2>1, <2>2
<1>3. QED
  BY <1>1, <1>2 DEF AttemptsLeft

\* A step that leaves the sweeps alone, and of the store keeps what counts.
LEMMA NoSweep ==
    ASSUME TypeInv, UNCHANGED sweep,
           \A l \in Launch : store'[l] # NoRecord /\ ~store'[l].groupingFailed
                                => store'[l].attempts < MaxAttempts
    PROVE  AttemptsLeft'
BY DEF TypeInv, AttemptsLeft

LEMMA StoreStays ==
    ASSUME TypeInv, UNCHANGED store
    PROVE  /\ store' \in [Launch -> Record \cup {NoRecord}]
           /\ \A l \in Launch : store'[l] # NoRecord /\ ~store'[l].groupingFailed
                                => store'[l].attempts < MaxAttempts
BY DEF TypeInv, TypeOK, AttemptsLeft

LEMMA RunType ==
    ASSUME TypeInv, NEW l \in Launch, NEW a \in Arm, NEW status \in RunStatus,
           run' = [run EXCEPT ![l][a] = status]
    PROVE  run' \in [Launch -> Targets]
<1>1. [run[l] EXCEPT ![a] = status] \in Targets
  BY DEF TypeInv, TypeOK, Targets
<1>2. run' = [run EXCEPT ![l] = [run[l] EXCEPT ![a] = status]]
  OBVIOUS
<1>3. QED
  BY <1>1, <1>2 DEF TypeInv, TypeOK

LEMMA ScreenStepType ==
    ASSUME TypeInv, NEW t \in Tab, ScreenStep(t)
    PROVE  TypeInv'
<1> USE DEF server
<1>0. screen[t] \in Screen /\ screen[t].launch \in Launch /\ screen[t].targets \in Targets
      /\ screen[t].unsent \subseteq Arm
  BY DEF TypeInv, TypeOK, Screen
<1>1. ASSUME NEW l \in Launch, LaunchComparison(t, l) PROVE TypeInv'
  <2>1. [Form EXCEPT !.phase = "starting", !.launch = l, !.unsent = Arm] \in Screen
    BY DEF Form, Screen, ScreenPhase, NoTargets, Targets, RunStatus
  <2>2. TypeOK'
    BY <1>1, <2>1 DEF LaunchComparison, TypeInv, TypeOK
  <2>3. AttemptsLeft'
    BY <1>1, NoSweep, StoreStays DEF LaunchComparison
  <2>4. QED
    BY <2>2, <2>3 DEF TypeInv
<1>2. ASSUME NEW a \in Arm, StartArm(t, a) PROVE TypeInv'
  <2>1. PICK started \in BOOLEAN, answered \in BOOLEAN :
          /\ run' = IF started THEN [run EXCEPT ![screen[t].launch][a] = "pending"] ELSE run
          /\ screen' = [screen EXCEPT ![t].unsent = @ \ {a},
                          ![t].targets[a] = IF answered THEN "pending" ELSE "none"]
    BY <1>2 DEF StartArm
  <2>2. run' \in [Launch -> Targets]
    <3>1. CASE started
      BY <2>1, <3>1, <1>0, RunType DEF RunStatus
    <3>2. CASE ~started
      BY <2>1, <3>2 DEF TypeInv, TypeOK
    <3>3. QED
      BY <3>1, <3>2
  <2>3. screen' \in [Tab -> Screen]
    <3> DEFINE x == [screen[t].targets EXCEPT ![a] = IF answered THEN "pending" ELSE "none"]
               s == [screen[t] EXCEPT !.unsent = @ \ {a}, !.targets = x]
    <3>1. x \in Targets
      BY <1>0 DEF Targets, RunStatus
    <3>2. screen' = [screen EXCEPT ![t] = s]
      BY <2>1, <1>0 DEF TypeInv, TypeOK, Screen
    <3> HIDE DEF x
    <3>3. s \in Screen
      BY <1>0, <3>1 DEF Screen
    <3> HIDE DEF s
    <3>4. QED
      BY <3>2, <3>3 DEF TypeInv, TypeOK
  <2>4. TypeOK'
    BY <1>2, <2>2, <2>3 DEF StartArm, TypeInv, TypeOK
  <2>5. AttemptsLeft'
    BY <1>2, NoSweep, StoreStays DEF StartArm
  <2>6. QED
    BY <2>4, <2>5 DEF TypeInv
<1>3. ASSUME Remember(t) PROVE TypeInv'
  <2> DEFINE new == [targets |-> screen[t].targets, workspace |-> "no", attempts |-> 0,
                     groupingFailed |-> FALSE, created |-> clock']
             st == [store EXCEPT ![screen[t].launch] = new]
  <2>1. Form \in Screen
    BY ConstantsOK DEF Form, Screen, ScreenPhase, NoTargets, Targets, RunStatus
  <2>2. screen' \in [Tab -> Screen]
    <3>1. [screen[t] EXCEPT !.phase = "panel"] \in Screen
      BY <1>0 DEF Screen, ScreenPhase
    <3>2. screen' = [screen EXCEPT ![t] = Form]
          \/ screen' = [screen EXCEPT ![t] = [screen[t] EXCEPT !.phase = "panel"]]
      BY <1>3 DEF Remember
    <3>3. QED
      BY <2>1, <3>1, <3>2 DEF TypeInv, TypeOK
  <2>3. CASE UNCHANGED <<store, clock, full>>
    <3>1. TypeOK'
      BY <1>3, <2>2, <2>3 DEF Remember, TypeInv, TypeOK
    <3>2. QED
      BY <1>3, <2>3, <3>1, NoSweep, StoreStays DEF Remember, TypeInv
  <2>4. CASE clock' = clock + 1 /\ WriteLaunches(st)
    <3>1. clock' \in Nat \ {0}
      BY <2>4 DEF TypeInv, TypeOK
    <3>2. new \in Record /\ new.attempts = 0
      BY <1>0, <3>1, ConstantsOK DEF Record
    <3> HIDE DEF new
    <3>3. \A l \in Launch : st[l] = store[l] \/ st[l] = new
      BY DEF TypeInv, TypeOK
    <3> HIDE DEF st
    <3>4. /\ store' = [l \in Launch |-> store'[l]] /\ full' \in Nat
          /\ \A l \in Launch : store'[l] = store[l] \/ store'[l] = new \/ store'[l] = NoRecord
      BY <2>4, <3>3, WriteKeepsOrDrops DEF TypeInv
    <3>5. store' \in [Launch -> Record \cup {NoRecord}]
      BY <3>2, <3>4 DEF TypeInv, TypeOK
    <3>6. \A l \in Launch : store'[l] # NoRecord /\ ~store'[l].groupingFailed
                                => store'[l].attempts < MaxAttempts
      BY <3>2, <3>4, ConstantsOK DEF TypeInv, AttemptsLeft
    <3>7. TypeOK'
      BY <1>3, <2>2, <3>1, <3>4, <3>5 DEF Remember, TypeInv, TypeOK
    <3>8. QED
      BY <1>3, <3>6, <3>7, NoSweep DEF Remember, TypeInv
  <2>5. QED
    BY <1>3, <2>3, <2>4 DEF Remember
<1>4. ASSUME PanelRefresh(t) PROVE TypeInv'
  <2> DEFINE x == [a \in Arm |-> IF screen[t].targets[a] = "none" THEN "none"
                                 ELSE run[screen[t].launch][a]]
  <2>1. x \in Targets
    BY <1>0 DEF TypeInv, TypeOK, Targets, RunStatus
  <2>2. screen' = [screen EXCEPT ![t] = [screen[t] EXCEPT !.targets = x]]
    BY <1>4 DEF PanelRefresh
  <2> HIDE DEF x
  <2>3. [screen[t] EXCEPT !.targets = x] \in Screen
    BY <1>0, <2>1 DEF Screen
  <2>4. TypeOK'
    BY <1>4, <2>2, <2>3 DEF PanelRefresh, TypeInv, TypeOK
  <2>5. QED
    BY <1>4, <2>4, NoSweep, StoreStays DEF PanelRefresh, TypeInv
<1>5. ASSUME PanelWatch(t) PROVE TypeInv'
  <2>1. [screen[t] EXCEPT !.workspace = TRUE] \in Screen
        /\ [screen[t] EXCEPT !.groupingFailed = TRUE] \in Screen
    BY <1>0 DEF Screen
  <2>2. screen' = [screen EXCEPT ![t] = [screen[t] EXCEPT !.workspace = TRUE]]
        \/ screen' = [screen EXCEPT ![t] = [screen[t] EXCEPT !.groupingFailed = TRUE]]
    BY <1>5 DEF PanelWatch
  <2>3. TypeOK'
    BY <1>5, <2>1, <2>2 DEF PanelWatch, TypeInv, TypeOK
  <2>4. QED
    BY <1>5, <2>3, NoSweep, StoreStays DEF PanelWatch, TypeInv
<1>6. ASSUME LeavePanel(t) PROVE TypeInv'
  <2>1. Form \in Screen
    BY ConstantsOK DEF Form, Screen, ScreenPhase, NoTargets, Targets, RunStatus
  <2>2. TypeOK'
    BY <1>6, <2>1 DEF LeavePanel, TypeInv, TypeOK
  <2>3. QED
    BY <1>6, <2>2, NoSweep, StoreStays DEF LeavePanel, TypeInv
<1>7. QED
  BY <1>1, <1>2, <1>3, <1>4, <1>5, <1>6 DEF ScreenStep

LEMMA UpdatedCount ==
    ASSUME TypeInv, NEW t \in Tab, sweep[t].pc = "counting"
    PROVE  LET l == sweep[t].at
               n == sweep[t].list[l].attempts + 1
               patched == [store[l] EXCEPT !.attempts = n, !.groupingFailed = @ \/ n >= MaxAttempts]
           IN /\ l \in Launch
              /\ store[l] # NoRecord =>
                    /\ patched \in Record /\ patched.workspace = store[l].workspace
                    /\ ~patched.groupingFailed => patched.attempts < MaxAttempts
<1> DEFINE l == sweep[t].at
           n == sweep[t].list[l].attempts + 1
           patched == [store[l] EXCEPT !.attempts = n, !.groupingFailed = @ \/ n >= MaxAttempts]
<1>1. l \in Launch /\ sweep[t].list[l] \in Record /\ sweep[t].list[l].attempts < MaxAttempts
  BY DEF TypeInv, TypeOK, AttemptsLeft, Sweep
<1>2. n \in 0 .. MaxAttempts
  BY <1>1, ConstantsOK DEF Record
<1> HIDE DEF l, n
<1>3. ASSUME store[l] # NoRecord
      PROVE  /\ patched \in Record /\ patched.workspace = store[l].workspace
             /\ ~patched.groupingFailed => patched.attempts < MaxAttempts
  <2>1. store[l] \in Record
    BY <1>1, <1>3 DEF TypeInv, TypeOK
  <2> DEFINE b == store[l].groupingFailed \/ n >= MaxAttempts
             r == [store[l] EXCEPT !.attempts = n, !.groupingFailed = b]
  <2>2. b \in BOOLEAN
    OBVIOUS
  <2>3. patched = r
    BY <2>1 DEF Record
  <2>4. r \in Record /\ r.attempts = n /\ r.groupingFailed = b /\ r.workspace = store[l].workspace
    <3> HIDE DEF b
    <3>1. QED
      BY <2>1, <2>2, <1>2 DEF Record
  <2>5. ~b => n < MaxAttempts
    BY <1>2, ConstantsOK
  <2> HIDE DEF r, patched
  <2>6. QED
    BY <2>3, <2>4, <2>5
<1>4. QED
  BY <1>1, <1>3 DEF l, n

LEMMA SweepStepType ==
    ASSUME TypeInv, NEW t \in Tab, SweepStep(t)
    PROVE  TypeInv'
<1> USE DEF server
<1>0. /\ sweep[t] \in Sweep /\ sweep[t].at \in Launch
      /\ sweep[t].list \in [Launch -> Record \cup {NoRecord}]
  BY DEF TypeInv, TypeOK, Sweep
<1>a. ASSUME NEW s \in Sweep, sweep' = [sweep EXCEPT ![t] = s], s.pc \in {"idle", "polling"},
             \A k \in Launch : s.list[k] # NoRecord => s.list[k].attempts < MaxAttempts,
             store' \in [Launch -> Record \cup {NoRecord}],
             \A k \in Launch : store'[k] # NoRecord /\ ~store'[k].groupingFailed
                                => store'[k].attempts < MaxAttempts
      PROVE  sweep' \in [Tab -> Sweep] /\ AttemptsLeft'
  BY <1>a, OneSweep
<1>b. ASSUME NEW l \in Launch, Handled(t, l),
             store' \in [Launch -> Record \cup {NoRecord}],
             \A k \in Launch : store'[k] # NoRecord /\ ~store'[k].groupingFailed
                                => store'[k].attempts < MaxAttempts
      PROVE  sweep' \in [Tab -> Sweep] /\ AttemptsLeft'
  BY <1>b, <1>a, HandledLeaves
\* A move of the program counter alone
<1>c. ASSUME NEW pc \in SweepPc, Move(t, pc), sweep[t].list[sweep[t].at] # NoRecord,
             store' \in [Launch -> Record \cup {NoRecord}],
             \A k \in Launch : store'[k] # NoRecord /\ ~store'[k].groupingFailed
                                => store'[k].attempts < MaxAttempts
      PROVE  sweep' \in [Tab -> Sweep] /\ AttemptsLeft'
  <2> DEFINE s == [sweep[t] EXCEPT !.pc = pc]
  <2>1. s \in Sweep /\ s.list = sweep[t].list /\ s.at = sweep[t].at
    BY <1>0 DEF Sweep
  <2>2. sweep' = [sweep EXCEPT ![t] = s]
    BY <1>c DEF Move
  <2> HIDE DEF s
  <2>3. \A l \in Launch : s.list[l] # NoRecord => s.list[l].attempts < MaxAttempts
    BY <2>1 DEF TypeInv, AttemptsLeft
  <2>4. QED
    BY <1>c, <2>1, <2>2, <2>3, OneSweep
<1>d. ASSUME sweep[t].pc \in {"locking", "posting", "committed", "tagging", "counting"}
      PROVE  sweep[t].list[sweep[t].at] # NoRecord
  BY <1>d DEF TypeInv, AttemptsLeft
<1>1. ASSUME StartSweep(t) PROVE TypeInv'
  <2> DEFINE owed == {l \in Ungrouped(store) : ~store[l].groupingFailed}
             x == [l \in Launch |-> IF l \in owed THEN store[l] ELSE NoRecord]
             s == [sweep[t] EXCEPT !.pc = "polling", !.list = x]
  <2>1. x \in [Launch -> Record \cup {NoRecord}]
    BY DEF TypeInv, TypeOK
  <2>2. \A l \in Launch : x[l] # NoRecord => x[l].attempts < MaxAttempts
    BY DEF TypeInv, AttemptsLeft
  <2>3. sweep' = [sweep EXCEPT ![t] = s]
    BY <1>1 DEF StartSweep
  <2> HIDE DEF x
  <2>4. s \in Sweep /\ s.pc = "polling" /\ s.list = x
    BY <1>0, <2>1 DEF SweepPc, Sweep
  <2> HIDE DEF s
  <2>5. sweep' \in [Tab -> Sweep] /\ AttemptsLeft'
    BY <1>1, <1>a, <2>2, <2>3, <2>4, StoreStays DEF StartSweep
  <2>6. QED
    BY <1>1, <2>5 DEF StartSweep, TypeInv, TypeOK
<1>2. ASSUME NEW l \in Launch, Poll(t, l) PROVE TypeInv'
  <2> DEFINE old == sweep[t].list[l].targets
             asked == {a \in Launched(old) : ~Terminal(old[a])}
  <2>1. PICK answered \in SUBSET asked :
          LET targets == [a \in Arm |-> IF a \in answered THEN run[l][a] ELSE old[a]] IN
          /\ \/ answered = asked /\ UNCHANGED misses
             \/ answered # asked /\ misses < MaxMisses /\ misses' = misses + 1
          /\ IF TooFew(targets)
             THEN WriteLaunches([store EXCEPT ![l] = NoRecord])
             ELSE UpdateLaunch(l, [store[l] EXCEPT !.targets = targets])
          /\ IF Ready(targets)
             THEN sweep' = [sweep EXCEPT ![t].pc = "locking", ![t].at = l]
             ELSE Handled(t, l)
    BY <1>2 DEF Poll
  <2> DEFINE targets == [a \in Arm |-> IF a \in answered THEN run[l][a] ELSE old[a]]
             gone == [store EXCEPT ![l] = NoRecord]
             patched == [store[l] EXCEPT !.targets = targets]
             s == [sweep[t] EXCEPT !.pc = "locking", !.at = l]
  <2>2. sweep[t].list[l] \in Record /\ sweep[t].list[l] # NoRecord
    BY <1>0, <1>2 DEF Poll, Stored
  <2>3. targets \in Targets
    BY <2>2 DEF TypeInv, TypeOK, Targets, Record
  <2>4. misses' \in Nat
    BY <2>1 DEF TypeInv, TypeOK
  <2>5. IF TooFew(targets) THEN WriteLaunches(gone) ELSE UpdateLaunch(l, patched)
    BY <2>1
  <2>6. IF Ready(targets) THEN sweep' = [sweep EXCEPT ![t] = s] ELSE Handled(t, l)
    BY <2>1
  <2>7. s \in Sweep /\ s.list = sweep[t].list /\ s.at = l
    BY <1>0 DEF SweepPc, Sweep
  <2> HIDE DEF targets, s
  <2>8. store[l] # NoRecord => /\ patched \in Record
                               /\ ~patched.groupingFailed => patched.attempts < MaxAttempts
    BY <2>3 DEF TypeInv, TypeOK, AttemptsLeft, Record
  <2>9. \A k \in Launch : gone[k] = store[k] \/ gone[k] = NoRecord
    BY DEF TypeInv, TypeOK
  <2> HIDE DEF patched, gone
  <2>10. /\ store' \in [Launch -> Record \cup {NoRecord}]
         /\ \A k \in Launch : store'[k] # NoRecord /\ ~store'[k].groupingFailed
                                => store'[k].attempts < MaxAttempts
         /\ full' \in Nat
    <3>1. CASE TooFew(targets)
      <4>1. /\ store' = [k \in Launch |-> store'[k]] /\ full' \in Nat
            /\ \A k \in Launch : store'[k] = store[k] \/ store'[k] = NoRecord
        BY <2>5, <2>9, <3>1, WriteKeepsOrDrops DEF TypeInv
      <4>2. QED
        BY <4>1 DEF TypeInv, TypeOK, AttemptsLeft
    <3>2. CASE ~TooFew(targets)
      BY <2>5, <2>8, <3>2, UpdateType
    <3>3. QED
      BY <3>1, <3>2
  <2>11. sweep' \in [Tab -> Sweep] /\ AttemptsLeft'
    <3>1. CASE Ready(targets)
      <4>1. sweep' = [sweep EXCEPT ![t] = s]
        BY <2>6, <3>1
      <4>2. \A k \in Launch : s.list[k] # NoRecord => s.list[k].attempts < MaxAttempts
        BY <2>7 DEF TypeInv, AttemptsLeft
      <4>3. QED
        BY <2>2, <2>7, <2>10, <4>1, <4>2, OneSweep
    <3>2. CASE ~Ready(targets)
      BY <1>b, <2>6, <2>10, <3>2
    <3>3. QED
      BY <3>1, <3>2
  <2>12. QED
    BY <1>2, <2>4, <2>10, <2>11 DEF Poll, TypeInv, TypeOK
<1>3. ASSUME TakeLock(t) PROVE TypeInv'
  <2>1. CASE /\ Grab(t, sweep[t].at)
             /\ sweep' = [sweep EXCEPT ![t].pc = "posting",
                                       ![t].posted = Completed(store[sweep[t].at].targets)]
    <3> DEFINE P == Completed(store[sweep[t].at].targets)
               s == [sweep[t] EXCEPT !.pc = "posting", !.posted = P]
    <3>1. P \in SUBSET Arm
      BY DEF Completed
    <3>2. sweep' = [sweep EXCEPT ![t] = s]
      BY <2>1
    <3> HIDE DEF P
    <3>3. s \in Sweep /\ s.list = sweep[t].list /\ s.at = sweep[t].at
      BY <1>0, <3>1 DEF SweepPc, Sweep
    <3> HIDE DEF s
    <3>4. \A k \in Launch : s.list[k] # NoRecord => s.list[k].attempts < MaxAttempts
      BY <3>3 DEF TypeInv, AttemptsLeft
    <3>5. s.list[s.at] # NoRecord
      BY <1>3, <1>d, <3>3 DEF TakeLock
    <3>6. sweep' \in [Tab -> Sweep] /\ AttemptsLeft'
      BY <1>3, <3>2, <3>3, <3>4, <3>5, OneSweep, StoreStays DEF TakeLock
    <3>7. lock' \in [Launch -> Tab \cup {NoTab, NoLocks}]
      BY <2>1 DEF Grab, TypeInv, TypeOK
    <3>8. QED
      BY <1>3, <2>1, <3>6, <3>7 DEF TakeLock, TypeInv, TypeOK
  <2>2. CASE Handled(t, sweep[t].at) /\ UNCHANGED lock
    <3>1. sweep' \in [Tab -> Sweep] /\ AttemptsLeft'
      BY <1>0, <1>3, <1>b, <2>2, StoreStays DEF TakeLock
    <3>2. QED
      BY <1>3, <2>2, <3>1 DEF TakeLock, TypeInv, TypeOK
  <2>3. QED
    BY <1>3, <2>1, <2>2 DEF TakeLock
<1>4. ASSUME PostCommits(t) PROVE TypeInv'
  <2>1. sweep' \in [Tab -> Sweep] /\ AttemptsLeft'
    BY <1>4, <1>c, <1>d, StoreStays DEF PostCommits, SweepPc
  <2>2. minted' \in [Launch -> Nat] /\ members' \in [Launch -> SUBSET Arm]
    BY <1>0, <1>4 DEF PostCommits, Mint, TypeInv, TypeOK, Sweep
  <2>3. QED
    BY <1>4, <2>1, <2>2 DEF PostCommits, TypeInv, TypeOK
<1>5. ASSUME PostAnswered(t) PROVE TypeInv'
  <2> DEFINE patched == [store[sweep[t].at] EXCEPT !.workspace = "kept"]
  <2>1. store[sweep[t].at] # NoRecord =>
            /\ patched \in Record
            /\ ~patched.groupingFailed => patched.attempts < MaxAttempts
    <3>1. SUFFICES ASSUME store[sweep[t].at] # NoRecord
          PROVE  patched \in Record
                 /\ (~patched.groupingFailed => patched.attempts < MaxAttempts)
      OBVIOUS
    <3>2. store[sweep[t].at] \in Record
      BY <1>0, <3>1 DEF TypeInv, TypeOK
    <3>3. /\ patched \in Record /\ patched.attempts = store[sweep[t].at].attempts
          /\ patched.groupingFailed = store[sweep[t].at].groupingFailed
      BY <3>2 DEF Record
    <3> HIDE DEF patched
    <3>4. QED
      BY <1>0, <3>1, <3>3 DEF TypeInv, AttemptsLeft
  <2>2. UpdateLaunch(sweep[t].at, patched)
    BY <1>5 DEF PostAnswered
  <2> HIDE DEF patched
  <2>3. /\ store' \in [Launch -> Record \cup {NoRecord}]
        /\ \A k \in Launch : store'[k] # NoRecord /\ ~store'[k].groupingFailed
                                => store'[k].attempts < MaxAttempts
        /\ full' \in Nat
    BY <1>0, <2>1, <2>2, UpdateType
  <2>4. sweep' \in [Tab -> Sweep] /\ AttemptsLeft'
    BY <1>5, <1>c, <1>d, <2>3 DEF PostAnswered, SweepPc
  <2>5. lost' \in [Launch -> Nat]
    BY <1>0, <1>5 DEF PostAnswered, TypeInv, TypeOK
  <2>6. QED
    BY <1>5, <2>3, <2>4, <2>5 DEF PostAnswered, TypeInv, TypeOK
<1>6. ASSUME TagsDone(t) PROVE TypeInv'
  <2>1. sweep' \in [Tab -> Sweep] /\ AttemptsLeft'
    BY <1>0, <1>6, <1>b, StoreStays DEF TagsDone
  <2>2. QED
    BY <1>6, <2>1 DEF TagsDone, Release, TypeInv, TypeOK
<1>7. ASSUME PostFails(t) PROVE TypeInv'
  <2>1. sweep' \in [Tab -> Sweep] /\ AttemptsLeft'
    BY <1>7, <1>c, <1>d, StoreStays DEF PostFails, SweepPc
  <2>2. lost' \in [Launch -> Nat]
    BY <1>0, <1>7 DEF PostFails, TypeInv, TypeOK
  <2>3. QED
    BY <1>7, <2>1, <2>2 DEF PostFails, Release, TypeInv, TypeOK
<1>8. ASSUME CountAttempt(t) PROVE TypeInv'
  <2> DEFINE n == sweep[t].list[sweep[t].at].attempts + 1
             patched == [store[sweep[t].at] EXCEPT !.attempts = n,
                                                   !.groupingFailed = @ \/ n >= MaxAttempts]
  <2>1. store[sweep[t].at] # NoRecord =>
            /\ patched \in Record
            /\ ~patched.groupingFailed => patched.attempts < MaxAttempts
    BY <1>8, UpdatedCount DEF CountAttempt
  <2>2. UpdateLaunch(sweep[t].at, patched) /\ Handled(t, sweep[t].at)
    BY <1>8 DEF CountAttempt
  <2> HIDE DEF patched
  <2>3. /\ store' \in [Launch -> Record \cup {NoRecord}]
        /\ \A k \in Launch : store'[k] # NoRecord /\ ~store'[k].groupingFailed
                                => store'[k].attempts < MaxAttempts
        /\ full' \in Nat
    BY <1>0, <2>1, <2>2, UpdateType
  <2>4. sweep' \in [Tab -> Sweep] /\ AttemptsLeft'
    BY <1>0, <1>b, <2>2, <2>3
  <2>5. QED
    BY <1>8, <2>3, <2>4 DEF CountAttempt, TypeInv, TypeOK
<1>9. QED
  BY <1>1, <1>2, <1>3, <1>4, <1>5, <1>6, <1>7, <1>8 DEF SweepStep

LEMMA WorldStepType ==
    ASSUME TypeInv,
           \/ \E l \in Launch, a \in Arm : RunEnds(l, a)
           \/ \E l \in Launch : Ages(l)
           \/ \E t \in Tab : CloseTab(t) \/ OpenTab(t)
    PROVE  TypeInv'
<1> USE DEF server
<1>1. ASSUME NEW l \in Launch, NEW a \in Arm, RunEnds(l, a) PROVE TypeInv'
  <2>1. run' \in [Launch -> Targets]
    BY <1>1, RunType DEF RunEnds, RunStatus
  <2>2. QED
    BY <1>1, <2>1, NoSweep, StoreStays DEF RunEnds, TypeInv, TypeOK
<1>2. ASSUME NEW l \in Launch, Ages(l) PROVE TypeInv'
  <2> DEFINE aged == [store[l] EXCEPT !.workspace = "old"]
  <2>1. store[l] \in Record
    BY <1>2 DEF Ages, TypeInv, TypeOK
  <2>2. /\ aged \in Record /\ aged.attempts = store[l].attempts
        /\ aged.groupingFailed = store[l].groupingFailed
    BY <2>1 DEF Record
  <2>3. store' = [store EXCEPT ![l] = aged]
    BY <1>2 DEF Ages
  <2> HIDE DEF aged
  <2>4. store' \in [Launch -> Record \cup {NoRecord}]
    BY <2>2, <2>3 DEF TypeInv, TypeOK
  <2>5. \A k \in Launch : store'[k] # NoRecord /\ ~store'[k].groupingFailed
                            => store'[k].attempts < MaxAttempts
    BY <1>2, <2>2, <2>3 DEF Ages, TypeInv, TypeOK, AttemptsLeft
  <2>6. QED
    BY <1>2, <2>4, <2>5, NoSweep DEF Ages, TypeInv, TypeOK
<1>3. ASSUME NEW t \in Tab, CloseTab(t) PROVE TypeInv'
  <2>1. sweep[t].at \in Launch /\ sweep[t].posted \in SUBSET Arm
    BY SweepFields DEF TypeInv, TypeOK
  <2>2. /\ SweepAt("closed") \in Sweep /\ SweepAt("closed").pc = "closed"
        /\ \A l \in Launch : SweepAt("closed").list[l] = NoRecord
    BY SweepAtType DEF SweepPc
  <2>3. sweep' \in [Tab -> Sweep] /\ AttemptsLeft'
    BY <1>3, <2>2, OneSweep, StoreStays DEF CloseTab
  <2>4. Form \in Screen
    BY ConstantsOK DEF Form, Screen, ScreenPhase, NoTargets, Targets, RunStatus
  <2>5. /\ minted' \in [Launch -> Nat] /\ members' \in [Launch -> SUBSET Arm]
        /\ lost' \in [Launch -> Nat]
    BY <1>3, <2>1 DEF CloseTab, Mint, TypeInv, TypeOK
  <2>6. lock' \in [Launch -> Tab \cup {NoTab, NoLocks}] /\ closes' \in Nat
    BY <1>3 DEF CloseTab, TypeInv, TypeOK
  <2>7. QED
    BY <1>3, <2>3, <2>4, <2>5, <2>6 DEF CloseTab, TypeInv, TypeOK
<1>4. ASSUME NEW t \in Tab, OpenTab(t) PROVE TypeInv'
  <2>1. /\ SweepAt("idle") \in Sweep /\ SweepAt("idle").pc = "idle"
        /\ \A l \in Launch : SweepAt("idle").list[l] = NoRecord
    BY SweepAtType DEF SweepPc
  <2>2. sweep' \in [Tab -> Sweep] /\ AttemptsLeft'
    <3>1. sweep' = [sweep EXCEPT ![t] = SweepAt("idle")] /\ UNCHANGED store
      BY <1>4 DEF OpenTab
    <3>2. QED
      BY <2>1, <3>1, OneSweep, StoreStays
  <2>3. QED
    BY <1>4, <2>2 DEF OpenTab, TypeInv, TypeOK
<1>5. QED
  BY <1>1, <1>2, <1>3, <1>4

LEMMA NextType == TypeInv /\ [Next]_vars => TypeInv'
<1> SUFFICES ASSUME TypeInv, [Next]_vars PROVE TypeInv'
  OBVIOUS
<1>1. CASE UNCHANGED vars
  BY <1>1 DEF vars, server, TypeInv, TypeOK, AttemptsLeft
<1>2. CASE Next
  <2>1. ASSUME NEW t \in Tab, SweepStep(t) PROVE TypeInv'
    BY <2>1, SweepStepType
  <2>2. ASSUME NEW t \in Tab, ScreenStep(t) PROVE TypeInv'
    BY <2>2, ScreenStepType
  <2>3. QED
    BY <1>2, <2>1, <2>2, WorldStepType DEF Next
<1>3. QED
  BY <1>1, <1>2

\* Every variable keeps its type: however many tabs, launches and arms there
\* are, the attempts of a record stay within MAX_ATTEMPTS although tabs count
\* from each other's stale reads (bakeoff-resume.tsx).
THEOREM TypesHold == Spec => []TypeOK
<1>1. TypeInv => TypeOK
  BY DEF TypeInv
<1>2. QED
  BY <1>1, InitType, NextType, PTL DEF Spec, Safety

-----------------------------------------------------------------------------
(* One workspace per launch *)

LEMMA InitOnce == Init => OnceInv
<1> SUFFICES ASSUME Init PROVE OnceInv
  OBVIOUS
<1>1. /\ Form.phase = "form"
      /\ \A t \in Tab : sweep[t].pc \in {"closed", "idle"} /\ screen[t] = Form
  BY InitSweep DEF Init, Form
<1>2. \A l \in Launch : store[l] = NoRecord /\ minted[l] = 0 /\ lost[l] = 0
  BY DEF Init, EmptyList
<1>3. CallersHoldLock /\ StartsAreFresh
  BY <1>1, <1>2 DEF CallersHoldLock, InLock, StartsAreFresh, Untouched, CallAt
<1>4. OwedIsBalanced
  <2>1. \A l \in Launch : Posting(l) = {}
    BY <1>1 DEF Posting, PostingAt
  <2>2. Cardinality({}) = 0 /\ Cardinality(Tab) \in Nat
    BY ConstantsOK, FS_EmptySet, FS_CardinalityType
  <2>3. \A l \in Launch : Cardinality(Posting(l)) = 0 /\ MayMint(l) \in Nat
    BY <2>1, <2>2 DEF MayMint
  <2>4. QED
    BY <1>2, <2>3 DEF OwedIsBalanced, Balanced, Owes
<1>5. QED
  BY <1>3, <1>4 DEF OnceInv

\* A step in which no tab takes the lock, posts, is answered or gives up, no
\* launch starts, and no record comes to owe a workspace.
NoCallMoves ==
    \A t \in Tab : sweep[t].pc \in InLock \/ sweep'[t].pc \in InLock
                      => sweep'[t].pc = sweep[t].pc /\ sweep'[t].at = sweep[t].at
NothingNewIsOwed ==
    \A l \in Launch : \/ store'[l] = NoRecord
                      \/ /\ store[l] # NoRecord
                         /\ store'[l].workspace = "no" => store[l].workspace = "no"
NoLaunchStarts ==
    /\ used' = used
    /\ \A t \in Tab : screen'[t].phase = "starting"
                        => screen[t].phase = "starting" /\ screen'[t].launch = screen[t].launch

\* The calls under way can be counted.
LEMMA CallsCount ==
    ASSUME TypeInv, NEW l \in Launch
    PROVE  /\ Cardinality(Posting(l)) \in Nat /\ Cardinality(Committed(l)) \in Nat
           /\ minted[l] \in Nat /\ lost[l] \in Nat /\ MayMint(l) \in Nat
<1>1. Posting(l) \subseteq Tab /\ Committed(l) \subseteq Tab
  BY DEF Posting, Committed
<1>2. /\ Cardinality(Posting(l)) \in Nat /\ Cardinality(Committed(l)) \in Nat
      /\ Cardinality(Tab) \in Nat
  BY <1>1, ConstantsOK, FS_Subset, FS_CardinalityType
<1>3. QED
  BY <1>2 DEF MayMint, TypeInv, TypeOK

LEMMA QuietStep ==
    ASSUME TypeInv, OnceInv, UNCHANGED <<minted, lost, lock>>,
           NoCallMoves, NothingNewIsOwed, NoLaunchStarts
    PROVE  OnceInv'
<1>1. \A t \in Tab, l \in Launch : /\ CallAt(t, l)' = CallAt(t, l)
                                   /\ CommittedAt(t, l)' = CommittedAt(t, l)
                                   /\ PostingAt(t, l)' = PostingAt(t, l)
  BY DEF NoCallMoves, InLock, CallAt, CommittedAt, PostingAt
<1>2. CallersHoldLock'
  BY DEF OnceInv, CallersHoldLock, NoCallMoves
<1>3. \A l \in Launch : Untouched(l) => Untouched(l)'
  BY <1>1 DEF Untouched, NothingNewIsOwed
<1>4. \A t \in Tab : screen[t].launch \in Launch
  BY DEF TypeInv, TypeOK, Screen
<1>5. StartsAreFresh'
  BY <1>3, <1>4 DEF OnceInv, StartsAreFresh, NoLaunchStarts
<1>6. OwedIsBalanced'
  <2>1. ASSUME NEW l \in Launch PROVE Balanced(l)'
    <3>1. Posting(l)' = Posting(l) /\ Committed(l)' = Committed(l)
      BY <1>1 DEF Posting, Committed
    <3>2. MayMint(l)' = MayMint(l) /\ (Owes(l)' => Owes(l))
      BY DEF MayMint, Owes, NothingNewIsOwed
    <3>3. Balanced(l)
      BY DEF OnceInv, OwedIsBalanced
    <3>4. QED
      BY <3>1, <3>2, <3>3 DEF Balanced
  <2>2. QED
    BY <2>1 DEF OwedIsBalanced
<1>7. QED
  BY <1>2, <1>5, <1>6 DEF OnceInv

\* What Handled, a move and a write do to the calls and the records.
LEMMA HandledCalls ==
    ASSUME TypeInv, NEW t \in Tab, NEW l \in Launch, Handled(t, l), sweep[t].pc \notin InLock
    PROVE  NoCallMoves
<1>1. PICK s \in Sweep : sweep' = [sweep EXCEPT ![t] = s] /\ s.pc \in {"idle", "polling"}
  BY HandledLeaves
<1>2. sweep'[t].pc \in {"idle", "polling"} /\ \A u \in Tab \ {t} : sweep'[u] = sweep[u]
  BY <1>1 DEF TypeInv, TypeOK
<1>3. QED
  BY <1>2 DEF NoCallMoves, InLock

LEMMA ScreenStays ==
    ASSUME UNCHANGED <<screen, used>>
    PROVE  NoLaunchStarts
BY DEF NoLaunchStarts

LEMMA UpdateOwesNothing ==
    ASSUME TypeInv, NEW l \in Launch, NEW patched, UpdateLaunch(l, patched),
           store[l] # NoRecord => patched.workspace \in {store[l].workspace, "kept"}
    PROVE  NothingNewIsOwed
<1>1. \A k \in Launch : \/ store'[k] = NoRecord \/ store'[k] = store[k]
                        \/ k = l /\ store[l] # NoRecord /\ store'[l] = patched
  BY UpdateKeepsOrDrops DEF TypeInv
<1>2. QED
  BY <1>1 DEF NothingNewIsOwed

\* The steps that make no call and start no launch.
LEMMA QuietSteps ==
    ASSUME TypeInv, OnceInv,
           \/ \E l \in Launch, a \in Arm : RunEnds(l, a)
           \/ \E l \in Launch : Ages(l)
           \/ \E t \in Tab : \/ OpenTab(t) \/ StartSweep(t) \/ CountAttempt(t)
                             \/ \E l \in Launch : Poll(t, l)
                             \/ \E a \in Arm : StartArm(t, a)
                             \/ PanelRefresh(t) \/ PanelWatch(t) \/ LeavePanel(t)
    PROVE  OnceInv'
<1> USE DEF server
<1>a. \A t \in Tab : sweep[t] \in Sweep /\ sweep[t].at \in Launch /\ screen[t] \in Screen
  BY SweepFields DEF TypeInv, TypeOK
<1>1. ASSUME NEW l \in Launch, NEW a \in Arm, RunEnds(l, a) PROVE OnceInv'
  <2>1. UNCHANGED <<minted, lost, lock, store, sweep, screen, used>>
    BY <1>1 DEF RunEnds
  <2>2. QED
    BY <2>1, QuietStep DEF NoCallMoves, NothingNewIsOwed, NoLaunchStarts
<1>2. ASSUME NEW l \in Launch, Ages(l) PROVE OnceInv'
  <2>1. UNCHANGED <<minted, lost, lock, sweep, screen, used>>
    BY <1>2 DEF Ages
  <2>2. store[l] # NoRecord /\ store[l].workspace = "kept" /\ store[l] \in Record
        /\ store' = [store EXCEPT ![l] = [store[l] EXCEPT !.workspace = "old"]]
    BY <1>2 DEF Ages, TypeInv, TypeOK
  <2>3. [store[l] EXCEPT !.workspace = "old"].workspace = "old"
    BY <2>2 DEF Record
  <2>4. NothingNewIsOwed
    BY <2>2, <2>3 DEF NothingNewIsOwed, TypeInv, TypeOK
  <2>5. QED
    BY <2>1, <2>4, QuietStep DEF NoCallMoves, NoLaunchStarts
<1>3. ASSUME NEW t \in Tab, OpenTab(t) PROVE OnceInv'
  <2>1. UNCHANGED <<minted, lost, lock, store, screen, used>> /\ sweep[t].pc = "closed"
        /\ sweep' = [sweep EXCEPT ![t] = SweepAt("idle")] /\ SweepAt("idle").pc = "idle"
    BY <1>3 DEF OpenTab, SweepAt
  <2>2. NoCallMoves
    BY <2>1 DEF NoCallMoves, InLock, TypeInv, TypeOK
  <2>3. QED
    BY <2>1, <2>2, QuietStep DEF NothingNewIsOwed, NoLaunchStarts
<1>4. ASSUME NEW t \in Tab, StartSweep(t) PROVE OnceInv'
  <2>1. UNCHANGED <<minted, lost, lock, store, screen, used>> /\ sweep[t].pc = "idle"
    BY <1>4 DEF StartSweep
  <2>2. PICK x : sweep' = [sweep EXCEPT ![t] = [sweep[t] EXCEPT !.pc = "polling", !.list = x]]
    BY <1>4 DEF StartSweep
  <2>3. [sweep[t] EXCEPT !.pc = "polling", !.list = x].pc = "polling"
    BY <1>a DEF Sweep
  <2>4. NoCallMoves
    BY <2>1, <2>2, <2>3 DEF NoCallMoves, InLock, TypeInv, TypeOK
  <2>5. QED
    BY <2>1, <2>4, QuietStep DEF NothingNewIsOwed, NoLaunchStarts
<1>5. ASSUME NEW t \in Tab, CountAttempt(t) PROVE OnceInv'
  <2> DEFINE n == sweep[t].list[sweep[t].at].attempts + 1
             patched == [store[sweep[t].at] EXCEPT !.attempts = n,
                                                   !.groupingFailed = @ \/ n >= MaxAttempts]
  <2>1. UNCHANGED <<minted, lost, lock, screen, used>> /\ sweep[t].pc = "counting"
        /\ UpdateLaunch(sweep[t].at, patched) /\ Handled(t, sweep[t].at)
    BY <1>5 DEF CountAttempt
  <2>2. store[sweep[t].at] # NoRecord => patched.workspace = store[sweep[t].at].workspace
    BY <2>1, UpdatedCount
  <2> HIDE DEF patched
  <2>3. NothingNewIsOwed /\ NoCallMoves /\ NoLaunchStarts
    BY <1>a, <2>1, <2>2, UpdateOwesNothing, HandledCalls, ScreenStays DEF InLock
  <2>4. QED
    BY <2>1, <2>3, QuietStep
<1>6. ASSUME NEW t \in Tab, NEW l \in Launch, Poll(t, l) PROVE OnceInv'
  <2>1. PICK targets :
          /\ IF TooFew(targets)
             THEN WriteLaunches([store EXCEPT ![l] = NoRecord])
             ELSE UpdateLaunch(l, [store[l] EXCEPT !.targets = targets])
          /\ IF Ready(targets)
             THEN sweep' = [sweep EXCEPT ![t].pc = "locking", ![t].at = l]
             ELSE Handled(t, l)
    BY <1>6 DEF Poll
  <2>2. UNCHANGED <<minted, lost, lock, screen, used>> /\ sweep[t].pc = "polling"
    BY <1>6 DEF Poll
  <2>3. NoCallMoves
    <3>1. CASE Ready(targets)
      <4>1. sweep' = [sweep EXCEPT ![t] = [sweep[t] EXCEPT !.pc = "locking", !.at = l]]
        BY <2>1, <3>1
      <4>2. [sweep[t] EXCEPT !.pc = "locking", !.at = l].pc = "locking"
        BY <1>a DEF Sweep
      <4>3. QED
        BY <2>2, <4>1, <4>2 DEF NoCallMoves, InLock, TypeInv, TypeOK
    <3>2. CASE ~Ready(targets)
      BY <2>1, <2>2, <3>2, HandledCalls DEF InLock
    <3>3. QED
      BY <3>1, <3>2
  <2>4. NothingNewIsOwed
    <3>1. CASE TooFew(targets)
      <4> DEFINE gone == [store EXCEPT ![l] = NoRecord]
      <4>1. \A k \in Launch : gone[k] = store[k] \/ gone[k] = NoRecord
        BY DEF TypeInv, TypeOK
      <4>2. WriteLaunches(gone)
        BY <2>1, <3>1
      <4> HIDE DEF gone
      <4>3. \A k \in Launch : store'[k] = store[k] \/ store'[k] = NoRecord
        BY <4>1, <4>2, WriteKeepsOrDrops DEF TypeInv
      <4>4. QED
        BY <4>3 DEF NothingNewIsOwed
    <3>2. CASE ~TooFew(targets)
      <4> DEFINE patched == [store[l] EXCEPT !.targets = targets]
      <4>1. store[l] # NoRecord => patched.workspace = store[l].workspace
        BY DEF TypeInv, TypeOK, Record
      <4>2. UpdateLaunch(l, patched)
        BY <2>1, <3>2
      <4> HIDE DEF patched
      <4>3. QED
        BY <4>1, <4>2, UpdateOwesNothing
    <3>3. QED
      BY <3>1, <3>2
  <2>5. QED
    BY <2>2, <2>3, <2>4, QuietStep, ScreenStays
<1>7. ASSUME NEW t \in Tab, NEW a \in Arm, StartArm(t, a) PROVE OnceInv'
  <2>1. UNCHANGED <<minted, lost, lock, store, sweep, used>>
    BY <1>7 DEF StartArm
  <2>2. PICK x : screen' = [screen EXCEPT ![t].unsent = @ \ {a}, ![t].targets[a] = x]
    BY <1>7 DEF StartArm
  <2>3. /\ screen'[t].phase = screen[t].phase /\ screen'[t].launch = screen[t].launch
        /\ \A u \in Tab \ {t} : screen'[u] = screen[u]
    BY <1>a, <2>2 DEF TypeInv, TypeOK, Screen
  <2>4. NoLaunchStarts
    BY <2>1, <2>3 DEF NoLaunchStarts
  <2>5. QED
    BY <2>1, <2>4, QuietStep DEF NoCallMoves, NothingNewIsOwed
<1>8. ASSUME NEW t \in Tab, PanelRefresh(t) \/ PanelWatch(t) \/ LeavePanel(t) PROVE OnceInv'
  <2>1. UNCHANGED <<minted, lost, lock, store, sweep, used>>
    BY <1>8 DEF PanelRefresh, PanelWatch, LeavePanel
  <2>2. screen[t].phase = "panel"
    BY <1>8 DEF PanelRefresh, PanelWatch, LeavePanel, Watching
  <2>3. PICK s : screen' = [screen EXCEPT ![t] = s] /\ s.phase \in {"panel", "form"}
    <3>1. CASE PanelRefresh(t)
      <4>1. PICK x : screen' = [screen EXCEPT ![t] = [screen[t] EXCEPT !.targets = x]]
        BY <3>1 DEF PanelRefresh
      <4>2. [screen[t] EXCEPT !.targets = x].phase = "panel"
        BY <1>a, <2>2 DEF Screen
      <4>3. QED
        BY <4>1, <4>2
    <3>2. CASE PanelWatch(t)
      <4>1. screen' = [screen EXCEPT ![t] = [screen[t] EXCEPT !.workspace = TRUE]]
            \/ screen' = [screen EXCEPT ![t] = [screen[t] EXCEPT !.groupingFailed = TRUE]]
        BY <3>2 DEF PanelWatch
      <4>2. [screen[t] EXCEPT !.workspace = TRUE].phase = "panel"
            /\ [screen[t] EXCEPT !.groupingFailed = TRUE].phase = "panel"
        BY <1>a, <2>2 DEF Screen
      <4>3. QED
        BY <4>1, <4>2
    <3>3. CASE LeavePanel(t)
      BY <3>3, ZenonT(40) DEF LeavePanel, Form
    <3>4. QED
      BY <1>8, <3>1, <3>2, <3>3
  <2>4. NoLaunchStarts
    BY <2>1, <2>3 DEF NoLaunchStarts, TypeInv, TypeOK
  <2>5. QED
    BY <2>1, <2>4, QuietStep DEF NoCallMoves, NothingNewIsOwed
<1>9. QED
  BY <1>1, <1>2, <1>3, <1>4, <1>5, <1>6, <1>7, <1>8

\* A step of one sweep, seen by the others: no call of theirs moves.
LEMMA OthersStay ==
    ASSUME TypeInv, NEW t \in Tab, NEW s, sweep' = [sweep EXCEPT ![t] = s]
    PROVE  /\ sweep'[t] = s /\ sweep[t].at \in Launch
           /\ \A u \in Tab \ {t} :
                /\ sweep'[u] = sweep[u]
                /\ \A l \in Launch : /\ CallAt(u, l)' = CallAt(u, l)
                                     /\ CommittedAt(u, l)' = CommittedAt(u, l)
                                     /\ PostingAt(u, l)' = PostingAt(u, l)
<1>1. sweep'[t] = s /\ sweep[t].at \in Launch /\ \A u \in Tab \ {t} : sweep'[u] = sweep[u]
  BY SweepFields DEF TypeInv, TypeOK
<1>2. \A u \in Tab \ {t}, l \in Launch : /\ CallAt(u, l)' = CallAt(u, l)
                                         /\ CommittedAt(u, l)' = CommittedAt(u, l)
                                         /\ PostingAt(u, l)' = PostingAt(u, l)
  BY <1>1 DEF CallAt, CommittedAt, PostingAt
<1>3. QED
  BY <1>1, <1>2

\* One more or one less of a set.
LEMMA OneMoreOrLess ==
    ASSUME NEW S, IsFiniteSet(S), NEW T, NEW t, T \ {t} = S \ {t}
    PROVE  /\ Cardinality(S) \in Nat /\ Cardinality(T) \in Nat
           /\ (t \in S <=> t \in T) => Cardinality(T) = Cardinality(S)
           /\ t \in S /\ t \notin T => Cardinality(S) = Cardinality(T) + 1
           /\ t \notin S /\ t \in T => Cardinality(T) = Cardinality(S) + 1
<1>1. CASE t \in S <=> t \in T
  <2>1. T = S
    BY <1>1
  <2>2. QED
    BY <1>1, <2>1, FS_CardinalityType
<1>2. CASE t \in S /\ t \notin T
  <2>1. T = S \ {t}
    BY <1>2
  <2>2. IsFiniteSet(T) /\ Cardinality(T) = Cardinality(S) - 1 /\ Cardinality(S) \in Nat
        /\ Cardinality(T) \in Nat
    BY <1>2, <2>1, FS_RemoveElement, FS_CardinalityType
  <2>3. QED
    BY <1>2, <2>2
<1>3. CASE t \notin S /\ t \in T
  <2>1. T = S \cup {t}
    BY <1>3
  <2>2. Cardinality(T) = Cardinality(S) + 1 /\ Cardinality(S) \in Nat
    BY <1>3, <2>1, FS_AddElement, FS_CardinalityType
  <2>3. QED
    BY <1>3, <2>2
<1>4. QED
  BY <1>1, <1>2, <1>3

\* So a step of one sweep changes the number of calls by at most one.
LEMMA OneCallMoves ==
    ASSUME TypeInv, NEW t \in Tab, NEW s, sweep' = [sweep EXCEPT ![t] = s], NEW l \in Launch
    PROVE  /\ Cardinality(Posting(l)') \in Nat /\ Cardinality(Committed(l)') \in Nat
           /\ (PostingAt(t, l) <=> PostingAt(t, l)')
                => Cardinality(Posting(l)') = Cardinality(Posting(l))
           /\ PostingAt(t, l) /\ ~PostingAt(t, l)'
                => Cardinality(Posting(l)) = Cardinality(Posting(l)') + 1
           /\ ~PostingAt(t, l) /\ PostingAt(t, l)'
                => Cardinality(Posting(l)') = Cardinality(Posting(l)) + 1
           /\ (CommittedAt(t, l) <=> CommittedAt(t, l)')
                => Cardinality(Committed(l)') = Cardinality(Committed(l))
           /\ CommittedAt(t, l) /\ ~CommittedAt(t, l)'
                => Cardinality(Committed(l)) = Cardinality(Committed(l)') + 1
           /\ ~CommittedAt(t, l) /\ CommittedAt(t, l)'
                => Cardinality(Committed(l)') = Cardinality(Committed(l)) + 1
<1>1. IsFiniteSet(Posting(l)) /\ IsFiniteSet(Committed(l))
  BY ConstantsOK, FS_Subset DEF Posting, Committed
<1>2. \A u \in Tab : u # t => /\ PostingAt(u, l)' = PostingAt(u, l)
                              /\ CommittedAt(u, l)' = CommittedAt(u, l)
  BY OthersStay
<1>3. /\ Posting(l)' \ {t} = Posting(l) \ {t}
      /\ Committed(l)' \ {t} = Committed(l) \ {t}
  BY <1>2 DEF Posting, Committed
<1>4. /\ (t \in Posting(l) <=> PostingAt(t, l)) /\ (t \in Posting(l)' <=> PostingAt(t, l)')
      /\ (t \in Committed(l) <=> CommittedAt(t, l))
      /\ (t \in Committed(l)' <=> CommittedAt(t, l)')
  BY DEF Posting, Committed
<1> DEFINE p == Posting(l)
           q == Posting(l)'
           c == Committed(l)
           d == Committed(l)'
<1> HIDE DEF p, q, c, d
<1>5. /\ Cardinality(p) \in Nat /\ Cardinality(q) \in Nat
      /\ (t \in p <=> t \in q) => Cardinality(q) = Cardinality(p)
      /\ t \in p /\ t \notin q => Cardinality(p) = Cardinality(q) + 1
      /\ t \notin p /\ t \in q => Cardinality(q) = Cardinality(p) + 1
  BY <1>1, <1>3, OneMoreOrLess DEF p, q
<1>6. /\ Cardinality(c) \in Nat /\ Cardinality(d) \in Nat
      /\ (t \in c <=> t \in d) => Cardinality(d) = Cardinality(c)
      /\ t \in c /\ t \notin d => Cardinality(c) = Cardinality(d) + 1
      /\ t \notin c /\ t \in d => Cardinality(d) = Cardinality(c) + 1
  BY <1>1, <1>3, OneMoreOrLess DEF c, d
<1>7. QED
  BY <1>4, <1>5, <1>6 DEF p, q, c, d

\* What a step may do to what a launch owes.
LEMMA BalanceKept ==
    ASSUME TypeInv, OnceInv, NEW t \in Tab, NEW s, sweep' = [sweep EXCEPT ![t] = s],
           NEW l \in Launch, MayMint(l)' = MayMint(l), Owes(l)' => Owes(l),
           PostingAt(t, l)' => PostingAt(t, l),
           \/ /\ minted'[l] = minted[l] /\ lost'[l] = lost[l]
              /\ CommittedAt(t, l) <=> CommittedAt(t, l)'
           \/ minted'[l] = minted[l] /\ lost'[l] = lost[l] /\ ~Owes(l)'
           \/ minted'[l] = minted[l] /\ lost'[l] = lost[l] + 1
           \/ /\ minted'[l] = minted[l] + 1 /\ lost'[l] = lost[l]
              /\ PostingAt(t, l) /\ ~PostingAt(t, l)'
              /\ ~CommittedAt(t, l) /\ CommittedAt(t, l)'
           \/ /\ minted'[l] = minted[l] + 1 /\ lost'[l] = lost[l] + 1
              /\ ~CommittedAt(t, l) /\ ~CommittedAt(t, l)'
    PROVE  Balanced(l)'
<1> DEFINE p == Cardinality(Posting(l))
           q == Cardinality(Posting(l)')
           c == Cardinality(Committed(l))
           d == Cardinality(Committed(l)')
<1>1. /\ p \in Nat /\ c \in Nat /\ minted[l] \in Nat /\ lost[l] \in Nat /\ MayMint(l) \in Nat
      /\ q \in Nat /\ d \in Nat
  BY CallsCount, OneCallMoves
<1>2. /\ Owes(l) => minted[l] <= lost[l] + c
      /\ minted[l] + p <= lost[l] + MayMint(l)
  BY DEF OnceInv, OwedIsBalanced, Balanced
<1>3. /\ q = p \/ p = q + 1
      /\ (PostingAt(t, l) /\ ~PostingAt(t, l)') => p = q + 1
      /\ (CommittedAt(t, l) <=> CommittedAt(t, l)') => d = c
      /\ CommittedAt(t, l) /\ ~CommittedAt(t, l)' => c = d + 1
      /\ ~CommittedAt(t, l) /\ CommittedAt(t, l)' => d = c + 1
  BY OneCallMoves
<1> HIDE DEF p, q, c, d
<1>4. /\ Owes(l)' => minted'[l] <= lost'[l] + d
      /\ minted'[l] + q <= lost'[l] + MayMint(l)
  <2>1. q <= p /\ c <= d + 1
    BY <1>1, <1>3
  <2>2. CASE minted'[l] = minted[l] /\ lost'[l] = lost[l] /\ d = c
    BY <1>1, <1>2, <2>1, <2>2
  <2>3. CASE minted'[l] = minted[l] /\ lost'[l] = lost[l] /\ ~Owes(l)'
    BY <1>1, <1>2, <2>1, <2>3
  <2>4. CASE minted'[l] = minted[l] /\ lost'[l] = lost[l] + 1
    BY <1>1, <1>2, <2>1, <2>4
  <2>5. CASE minted'[l] = minted[l] + 1 /\ lost'[l] = lost[l] /\ p = q + 1 /\ d = c + 1
    BY <1>1, <1>2, <2>5
  <2>6. CASE minted'[l] = minted[l] + 1 /\ lost'[l] = lost[l] + 1 /\ d = c
    BY <1>1, <1>2, <2>1, <2>6
  <2>7. QED
    BY <1>3, <2>2, <2>3, <2>4, <2>5, <2>6
<1>5. QED
  BY <1>4 DEF Balanced, p, q, c, d

LEMMA LaunchOnce ==
    ASSUME TypeInv, OnceInv, NEW t \in Tab, NEW l \in Launch, LaunchComparison(t, l)
    PROVE  OnceInv'
<1> DEFINE s == [Form EXCEPT !.phase = "starting", !.launch = l, !.unsent = Arm]
<1>1. UNCHANGED <<minted, store, lock, sweep, lost>> /\ used' = used \cup {l} /\ l \notin used
      /\ screen' = [screen EXCEPT ![t] = s]
  BY DEF LaunchComparison, server
<1>2. s.phase = "starting" /\ s.launch = l
  BY DEF Form
<1> HIDE DEF s
<1>3. screen'[t] = s /\ \A u \in Tab \ {t} : screen'[u] = screen[u]
  BY <1>1 DEF TypeInv, TypeOK
<1>4. \A k \in Launch : Untouched(k)' = Untouched(k)
  BY <1>1 DEF Untouched, CallAt
<1>5. \A u \in Tab : screen[u].launch \in Launch
  BY DEF TypeInv, TypeOK, Screen
<1>6. StartsAreFresh'
  BY <1>1, <1>2, <1>3, <1>4, <1>5 DEF OnceInv, StartsAreFresh
<1>7. CallersHoldLock' /\ OwedIsBalanced'
  BY <1>1 DEF OnceInv, CallersHoldLock, OwedIsBalanced, Balanced, Owes, Posting, Committed,
     MayMint, CommittedAt, PostingAt
<1>8. QED
  BY <1>6, <1>7 DEF OnceInv

LEMMA RememberOnce ==
    ASSUME TypeInv, OnceInv, NEW t \in Tab, Remember(t)
    PROVE  OnceInv'
<1> DEFINE l == screen[t].launch
<1>1. /\ UNCHANGED <<minted, used, lock, sweep, lost>> /\ screen[t].phase = "starting"
      /\ screen[t] \in Screen /\ l \in Launch /\ l \in used /\ Untouched(l)
  BY DEF Remember, server, TypeInv, TypeOK, Screen, OnceInv, StartsAreFresh
<1>2. /\ \A u \in Tab \ {t} : screen'[u] = screen[u]
      /\ screen'[t].phase # "starting"
  <2>1. screen' = [screen EXCEPT ![t] = Form]
        \/ screen' = [screen EXCEPT ![t] = [screen[t] EXCEPT !.phase = "panel"]]
    BY DEF Remember
  <2>2. Form.phase = "form" /\ [screen[t] EXCEPT !.phase = "panel"].phase = "panel"
    BY <1>1 DEF Form, Screen
  <2>3. QED
    BY <2>1, <2>2 DEF TypeInv, TypeOK
<1>3. CASE UNCHANGED store
  <2>1. NoLaunchStarts
    BY <1>1, <1>2 DEF NoLaunchStarts
  <2>2. QED
    BY <1>1, <1>3, <2>1, QuietStep DEF NoCallMoves, NothingNewIsOwed
<1>4. ASSUME NEW new, WriteLaunches([store EXCEPT ![l] = new]) PROVE OnceInv'
  <2> DEFINE st == [store EXCEPT ![l] = new]
  <2>1. \A k \in Launch \ {l} : st[k] = store[k]
    BY DEF TypeInv, TypeOK
  <2>2. WriteLaunches(st)
    BY <1>4
  <2> HIDE DEF st
  <2>3. \A k \in Launch \ {l} : store'[k] = store[k] \/ store'[k] = NoRecord
    BY <2>1, <2>2, WriteKeepsOrDrops DEF TypeInv
  <2>4. \A k \in Launch \ {l} : Untouched(k) => Untouched(k)'
    BY <1>1, <2>3 DEF Untouched, CallAt
  <2>5. \A u \in Tab \ {t} : screen[u].phase = "starting"
                              => screen[u].launch \in Launch \ {l}
    BY <1>1 DEF OnceInv, StartsAreFresh, TypeInv, TypeOK, Screen
  <2>6. StartsAreFresh'
    BY <1>1, <1>2, <2>4, <2>5 DEF OnceInv, StartsAreFresh
  <2>7. OwedIsBalanced'
    <3>1. \A k \in Launch \ {l} : store'[k] # NoRecord => store'[k] = store[k]
      BY <2>3
    <3>2. minted[l] = 0
      BY <1>1 DEF Untouched
    <3>3. ASSUME NEW k \in Launch PROVE Balanced(k)'
      <4>1. /\ Posting(k)' = Posting(k) /\ Committed(k)' = Committed(k)
            /\ MayMint(k)' = MayMint(k)
        BY <1>1 DEF Posting, Committed, MayMint, CommittedAt, PostingAt
      <4>2. Balanced(k)
        BY DEF OnceInv, OwedIsBalanced
      <4>3. k # l => (Owes(k)' => Owes(k))
        BY <3>1 DEF Owes
      <4>4. lost[k] \in Nat /\ Cardinality(Committed(k)) \in Nat
        BY CallsCount
      <4>5. k = l => 0 <= lost[k] + Cardinality(Committed(k))
        BY <4>4
      <4>6. QED
        BY <1>1, <3>2, <4>1, <4>2, <4>3, <4>5 DEF Balanced
    <3>4. QED
      BY <3>3 DEF OwedIsBalanced
  <2>8. CallersHoldLock'
    BY <1>1 DEF OnceInv, CallersHoldLock
  <2>9. QED
    BY <2>6, <2>7, <2>8 DEF OnceInv
<1>5. QED
  BY <1>3, <1>4 DEF Remember

LEMMA TakeLockOnce ==
    ASSUME TypeInv, OnceInv, NEW t \in Tab, TakeLock(t)
    PROVE  OnceInv'
<1>0. PICK l \in Launch : l = sweep[t].at
  BY SweepFields DEF TypeInv, TypeOK
<1>1. /\ UNCHANGED <<minted, store, used, screen, lost>> /\ sweep[t] \in Sweep
      /\ sweep[t].pc = "locking" /\ lock[l] \in {NoTab, NoLocks}
  BY <1>0, SweepFields DEF TakeLock, server, TypeInv, TypeOK
<1>2. CASE Handled(t, l) /\ UNCHANGED lock
  <2>1. NoCallMoves
    BY <1>1, <1>2, HandledCalls DEF InLock
  <2>2. QED
    BY <1>1, <1>2, <2>1, QuietStep, ScreenStays DEF NothingNewIsOwed
<1>3. CASE /\ store[l] # NoRecord /\ store[l].workspace = "no"
           /\ Grab(t, l)
           /\ sweep' = [sweep EXCEPT ![t].pc = "posting",
                                     ![t].posted = Completed(store[l].targets)]
  <2> DEFINE s == [sweep[t] EXCEPT !.pc = "posting", !.posted = Completed(store[l].targets)]
  <2>1. sweep' = [sweep EXCEPT ![t] = s]
    BY <1>3
  <2>2. s.pc = "posting" /\ s.at = l
    BY <1>0, <1>1 DEF Sweep
  <2> HIDE DEF s
  <2>3. /\ sweep'[t] = s
        /\ \A u \in Tab \ {t} :
             /\ sweep'[u] = sweep[u]
             /\ \A k \in Launch : /\ CallAt(u, k)' = CallAt(u, k)
                                  /\ CommittedAt(u, k)' = CommittedAt(u, k)
                                  /\ PostingAt(u, k)' = PostingAt(u, k)
    BY <2>1, OthersStay
  <2>l. /\ \A k \in Launch : k # l => lock'[k] = lock[k]
        /\ \/ lock[l] = NoTab /\ lock'[l] = t
           \/ lock[l] = NoLocks /\ lock'[l] = NoLocks
    BY <1>1, <1>3, ConstantsOK DEF Grab, TypeInv, TypeOK
  <2>4. lock[l] = NoTab => \A u \in Tab : sweep[u].pc \in InLock => sweep[u].at # l
    BY <1>1, ConstantsOK DEF OnceInv, CallersHoldLock
  <2>5. CallersHoldLock'
    <3>1. ASSUME NEW u \in Tab, sweep'[u].pc \in InLock PROVE lock'[sweep'[u].at] \in {u, NoLocks}
      <4>1. CASE u = t
        BY <2>2, <2>3, <2>l, <4>1
      <4>2. CASE u # t
        <5>1. sweep'[u] = sweep[u] /\ sweep[u].at \in Launch
          BY <2>3, <4>2, SweepFields DEF TypeInv, TypeOK
        <5>2. QED
          BY <2>4, <2>l, <3>1, <5>1 DEF OnceInv, CallersHoldLock
      <4>3. QED
        BY <4>1, <4>2
    <3>2. QED
      BY <3>1 DEF CallersHoldLock
  <2>6. \A k \in Launch : Untouched(k) => Untouched(k)'
    <3>1. \A k \in Launch \ {l} : ~CallAt(t, k)'
      BY <2>2, <2>3 DEF CallAt
    <3>2. ~Untouched(l)
      BY <1>3 DEF Untouched
    <3>3. QED
      BY <1>1, <2>3, <3>1, <3>2 DEF Untouched
  <2>7. \A u \in Tab : screen[u].launch \in Launch
    BY DEF TypeInv, TypeOK, Screen
  <2>8. StartsAreFresh'
    BY <1>1, <2>6, <2>7 DEF OnceInv, StartsAreFresh
  <2>9. \A k \in Launch : MayMint(k)' = MayMint(k)
    BY <1>1, <2>l, ConstantsOK DEF MayMint
  <2>10. Balanced(l)'
    <3> DEFINE C == Committed(l)
               Q == Posting(l)'
    <3>1. minted'[l] = minted[l] /\ lost'[l] = lost[l] /\ (Owes(l)' => Owes(l)) /\ Owes(l)
      BY <1>1, <1>3 DEF Owes
    <3>2. Committed(l)' = C /\ C \cap Q = {} /\ C \subseteq Tab /\ Q \subseteq Tab
      BY <1>1, <2>2, <2>3 DEF Committed, Posting, CommittedAt, PostingAt
    <3>3. /\ IsFiniteSet(C) /\ IsFiniteSet(Q) /\ IsFiniteSet(C \cup Q)
          /\ Cardinality(C) \in Nat /\ Cardinality(Q) \in Nat /\ Cardinality(Tab) \in Nat
      BY <3>2, ConstantsOK, FS_Subset, FS_Union, FS_CardinalityType
    <3>4. Cardinality(C) + Cardinality(Q) <= MayMint(l)
      <4>1. CASE lock[l] = NoTab
        <5>0. sweep[t].pc \notin InLock
          BY <1>1 DEF InLock
        <5>1. \A u \in Tab : ~CommittedAt(u, l) /\ (PostingAt(u, l)' => u = t)
          <6>1. \A u \in Tab : ~CommittedAt(u, l) /\ ~PostingAt(u, l)
            BY <2>4, <4>1 DEF CommittedAt, PostingAt, InLock
          <6>2. \A u \in Tab : u # t => ~PostingAt(u, l)'
            BY <2>3, <6>1
          <6>3. QED
            BY <6>1, <6>2
        <5>2. PostingAt(t, l)'
          BY <2>2, <2>3 DEF PostingAt
        <5>3. C = {} /\ Q = {t}
          BY <5>1, <5>2 DEF Committed, Posting
        <5>4. Cardinality({}) = 0 /\ Cardinality({t}) = 1
          BY FS_EmptySet, FS_Singleton
        <5>5. Cardinality(C) = 0 /\ Cardinality(Q) = 1
          BY <5>3, <5>4
        <5>6. MayMint(l) = 1
          BY <4>1, ConstantsOK DEF MayMint
        <5> HIDE DEF C, Q
        <5>7. QED
          BY <5>5, <5>6
      <4>2. CASE lock[l] = NoLocks
        <5> HIDE DEF C, Q
        <5>1. Cardinality(C \cup Q) = Cardinality(C) + Cardinality(Q) - Cardinality(C \cap Q)
          BY <3>3, FS_Union
        <5>2. Cardinality(C \cap Q) = 0
          BY <3>2, FS_EmptySet
        <5>3. Cardinality(C \cup Q) <= Cardinality(Tab)
          BY <3>2, ConstantsOK, FS_Subset
        <5>4. MayMint(l) = Cardinality(Tab)
          BY <4>2 DEF MayMint
        <5>5. QED
          BY <3>3, <5>1, <5>2, <5>3, <5>4
      <4>3. QED
        BY <1>1, <4>1, <4>2
    <3>5. minted[l] <= lost[l] + Cardinality(C) /\ minted[l] \in Nat /\ lost[l] \in Nat
      BY <1>1, <3>1, CallsCount DEF OnceInv, OwedIsBalanced, Balanced
    <3> HIDE DEF C, Q
    <3>6. /\ minted[l] <= lost[l] + Cardinality(C)
          /\ minted[l] + Cardinality(Q) <= lost[l] + MayMint(l)
      <4>1. MayMint(l) \in Nat
        BY <1>1, CallsCount
      <4>2. QED
        BY <3>3, <3>4, <3>5, <4>1
    <3>7. /\ minted'[l] <= lost'[l] + Cardinality(Committed(l)')
          /\ minted'[l] + Cardinality(Posting(l)') <= lost'[l] + MayMint(l)'
      BY <1>1, <2>9, <3>1, <3>2, <3>6 DEF C, Q
    <3>8. QED
      BY <3>7 DEF Balanced
  <2>11. ASSUME NEW k \in Launch, k # l PROVE Balanced(k)'
    <3>1. /\ ~PostingAt(t, k)' /\ ~CommittedAt(t, k)' /\ ~CommittedAt(t, k)
          /\ minted'[k] = minted[k] /\ lost'[k] = lost[k] /\ (Owes(k)' => Owes(k))
      BY <1>1, <2>2, <2>3, <2>11 DEF PostingAt, CommittedAt, Owes
    <3>2. QED
      BY <2>1, <2>9, <3>1, BalanceKept
  <2>12. OwedIsBalanced'
    BY <1>1, <2>10, <2>11 DEF OwedIsBalanced
  <2>13. QED
    BY <2>5, <2>8, <2>12 DEF OnceInv
<1>4. QED
  BY <1>0, <1>2, <1>3 DEF TakeLock

\* The lock of a launch is let go of by its holder: everyone else keeps theirs.
LEMMA LockFreed ==
    ASSUME TypeInv, OnceInv, NEW t \in Tab, NEW s, sweep' = [sweep EXCEPT ![t] = s],
           s.pc \notin InLock, Release(t, sweep[t].at)
    PROVE  CallersHoldLock' /\ \A l \in Launch : MayMint(l)' = MayMint(l)
<1>1. \A l \in Launch : \/ lock'[l] = lock[l]
                        \/ lock[l] = t /\ lock'[l] = NoTab
  BY DEF Release, TypeInv, TypeOK
<1>2. ASSUME NEW u \in Tab, sweep'[u].pc \in InLock PROVE lock'[sweep'[u].at] \in {u, NoLocks}
  <2>1. u # t
    BY <1>2, OthersStay
  <2>2. sweep'[u] = sweep[u]
    BY <2>1, OthersStay
  <2>3. sweep[u].at \in Launch
    BY SweepFields DEF TypeInv, TypeOK
  <2>4. QED
    BY <1>1, <1>2, <2>1, <2>2, <2>3, ConstantsOK DEF OnceInv, CallersHoldLock
<1>3. \A l \in Launch : MayMint(l)' = MayMint(l)
  BY <1>1, ConstantsOK DEF MayMint
<1>4. QED
  BY <1>2, <1>3 DEF CallersHoldLock

\* A call that moves on in its lock.
LEMMA LockKept ==
    ASSUME TypeInv, OnceInv, NEW t \in Tab, NEW s, sweep' = [sweep EXCEPT ![t] = s],
           s.at = sweep[t].at, sweep[t].pc \in InLock, UNCHANGED lock
    PROVE  CallersHoldLock'
BY OthersStay DEF OnceInv, CallersHoldLock

\* No step of a call touches a launch that nothing is known of.
LEMMA FreshStays ==
    ASSUME TypeInv, OnceInv, UNCHANGED used,
           \A k \in Launch : Untouched(k) => Untouched(k)',
           \A u \in Tab : screen'[u].phase = "starting" => screen'[u] = screen[u]
    PROVE  StartsAreFresh'
<1>1. \A u \in Tab : screen[u].launch \in Launch
  BY DEF TypeInv, TypeOK, Screen
<1>2. QED
  BY <1>1 DEF OnceInv, StartsAreFresh

LEMMA PostCommitsOnce ==
    ASSUME TypeInv, OnceInv, NEW t \in Tab, PostCommits(t)
    PROVE  OnceInv'
<1> DEFINE l == sweep[t].at
           s == [sweep[t] EXCEPT !.pc = "committed"]
<1>1. /\ UNCHANGED <<store, used, lock, screen, lost>> /\ sweep[t].pc = "posting"
      /\ sweep[t] \in Sweep /\ l \in Launch /\ sweep' = [sweep EXCEPT ![t] = s]
      /\ minted' = [minted EXCEPT ![l] = @ + 1]
  BY SweepFields DEF PostCommits, Mint, Move, TypeInv, TypeOK
<1>2. s.pc = "committed" /\ s.at = l
  BY <1>1 DEF Sweep
<1> HIDE DEF s
<1>o. sweep'[t] = s /\ \A u \in Tab : u # t => sweep'[u] = sweep[u]
  BY <1>1, OthersStay
<1>3. CallersHoldLock'
  BY <1>1, <1>2, LockKept DEF InLock
<1>4. \A k \in Launch \ {l} : /\ minted'[k] = minted[k]
                              /\ ~CallAt(t, k)' /\ ~CommittedAt(t, k)' /\ ~PostingAt(t, k)'
                              /\ ~CommittedAt(t, k)
  BY <1>1, <1>2, OthersStay DEF CallAt, CommittedAt, PostingAt, TypeInv, TypeOK
<1>5. ~Untouched(l)
  BY <1>1 DEF Untouched, CallAt
<1>6. \A k \in Launch : Untouched(k) => Untouched(k)'
  BY <1>1, <1>4, <1>5, <1>2, <1>o DEF Untouched, CallAt
<1>7. StartsAreFresh'
  BY <1>1, <1>6, FreshStays
<1>8. OwedIsBalanced'
  <2>1. ASSUME NEW k \in Launch PROVE Balanced(k)'
    <3>1. MayMint(k)' = MayMint(k) /\ (Owes(k)' => Owes(k)) /\ lost'[k] = lost[k]
      BY <1>1 DEF MayMint, Owes
    <3>2. PostingAt(t, k)' => PostingAt(t, k)
      BY <1>2, <1>o DEF PostingAt
    <3>3. \/ /\ minted'[k] = minted[k]
             /\ CommittedAt(t, k) <=> CommittedAt(t, k)'
          \/ /\ minted'[k] = minted[k] + 1
             /\ PostingAt(t, k) /\ ~PostingAt(t, k)'
             /\ ~CommittedAt(t, k) /\ CommittedAt(t, k)'
      BY <1>1, <1>2, <1>4, <1>o DEF PostingAt, CommittedAt, TypeInv, TypeOK
    <3>4. QED
      BY <1>1, <3>1, <3>2, <3>3, BalanceKept
  <2>2. QED
    BY <2>1 DEF OwedIsBalanced
<1>9. QED
  BY <1>3, <1>7, <1>8 DEF OnceInv

LEMMA PostAnsweredOnce ==
    ASSUME TypeInv, OnceInv, NEW t \in Tab, PostAnswered(t)
    PROVE  OnceInv'
<1> DEFINE l == sweep[t].at
           s == [sweep[t] EXCEPT !.pc = "tagging"]
           patched == [store[l] EXCEPT !.workspace = "kept"]
<1>1. /\ UNCHANGED <<minted, used, lock, screen>> /\ sweep[t].pc = "committed"
      /\ sweep[t] \in Sweep /\ l \in Launch /\ sweep' = [sweep EXCEPT ![t] = s]
      /\ UpdateLaunch(l, patched)
      /\ lost' = IF full' = full THEN lost ELSE [lost EXCEPT ![l] = @ + 1]
  BY SweepFields DEF PostAnswered, server, Move, TypeInv, TypeOK
<1>2. s.pc = "tagging" /\ s.at = l
  BY <1>1 DEF Sweep
<1>3. store[l] # NoRecord => patched.workspace = "kept"
  BY <1>1 DEF TypeInv, TypeOK, Record
<1> HIDE DEF s, patched
<1>o. sweep'[t] = s /\ \A u \in Tab : u # t => sweep'[u] = sweep[u]
  BY <1>1, OthersStay
<1>4. CallersHoldLock'
  BY <1>1, <1>2, LockKept DEF InLock
<1>5. /\ \A k \in Launch \ {l} : store'[k] = store[k] \/ store'[k] = NoRecord
      /\ full' = full => store'[l] = NoRecord \/ store'[l].workspace = "kept"
      /\ store'[l] = NoRecord \/ store'[l] = store[l] \/ store'[l].workspace = "kept"
      /\ store[l] = NoRecord => store'[l] = NoRecord
  BY <1>1, <1>3, UpdateKeepsOrDrops DEF TypeInv
<1>6. \A k \in Launch : /\ ~CallAt(t, k)' /\ ~CommittedAt(t, k)' /\ ~PostingAt(t, k)'
                        /\ k # l => ~CommittedAt(t, k)
  BY <1>1, <1>2, OthersStay, ZenonT(40) DEF CallAt, CommittedAt, PostingAt
<1>7. \A k \in Launch : Untouched(k) => Untouched(k)'
  BY <1>1, <1>5, <1>6, <1>2, <1>o DEF Untouched, CallAt
<1>8. StartsAreFresh'
  BY <1>1, <1>7, FreshStays
<1>9. OwedIsBalanced'
  <2>1. ASSUME NEW k \in Launch PROVE Balanced(k)'
    <3>1. MayMint(k)' = MayMint(k) /\ (Owes(k)' => Owes(k)) /\ minted'[k] = minted[k]
      BY <1>1, <1>5 DEF MayMint, Owes
    <3>2. PostingAt(t, k)' => PostingAt(t, k)
      BY <1>6
    <3>3. \/ lost'[k] = lost[k] /\ (CommittedAt(t, k) <=> CommittedAt(t, k)')
          \/ lost'[k] = lost[k] /\ ~Owes(k)'
          \/ lost'[k] = lost[k] + 1
      <4>1. CASE k = l /\ full' = full
        BY <1>1, <1>5, <4>1 DEF Owes
      <4>2. CASE k = l /\ full' # full
        BY <1>1, <4>2 DEF TypeInv, TypeOK
      <4>3. CASE k # l
        BY <1>1, <1>6, <4>3 DEF TypeInv, TypeOK
      <4>4. QED
        BY <4>1, <4>2, <4>3
    <3>4. QED
      BY <1>1, <3>1, <3>2, <3>3, BalanceKept
  <2>2. QED
    BY <2>1 DEF OwedIsBalanced
<1>10. QED
  BY <1>4, <1>8, <1>9 DEF OnceInv

LEMMA TagsDoneOnce ==
    ASSUME TypeInv, OnceInv, NEW t \in Tab, TagsDone(t)
    PROVE  OnceInv'
<1> DEFINE l == sweep[t].at
<1>1. /\ UNCHANGED <<minted, store, used, screen, lost>> /\ sweep[t].pc = "tagging"
      /\ l \in Launch /\ Handled(t, l) /\ Release(t, l)
  BY SweepFields DEF TagsDone, server, TypeInv, TypeOK
<1>2. PICK s \in Sweep : sweep' = [sweep EXCEPT ![t] = s] /\ s.pc \in {"idle", "polling"}
  BY <1>1, HandledLeaves
<1>o. sweep'[t] = s /\ \A u \in Tab : u # t => sweep'[u] = sweep[u]
  BY <1>2, OthersStay
<1>3. CallersHoldLock' /\ \A k \in Launch : MayMint(k)' = MayMint(k)
  BY <1>1, <1>2, LockFreed DEF InLock
<1>4. \A u \in Tab, k \in Launch : /\ CallAt(u, k)' = CallAt(u, k)
                                   /\ CommittedAt(u, k)' = CommittedAt(u, k)
                                   /\ PostingAt(u, k)' = PostingAt(u, k)
  <2>1. \A k \in Launch : /\ ~CallAt(t, k) /\ ~CommittedAt(t, k) /\ ~PostingAt(t, k)
                          /\ ~CallAt(t, k)' /\ ~CommittedAt(t, k)' /\ ~PostingAt(t, k)'
    BY <1>1, <1>2, <1>o DEF CallAt, CommittedAt, PostingAt
  <2>2. \A u \in Tab, k \in Launch : u # t =>
            /\ CallAt(u, k)' = CallAt(u, k)
            /\ CommittedAt(u, k)' = CommittedAt(u, k)
            /\ PostingAt(u, k)' = PostingAt(u, k)
    BY <1>o DEF CallAt, CommittedAt, PostingAt
  <2>3. ASSUME NEW u \in Tab, NEW k \in Launch
        PROVE  /\ CallAt(u, k)' = CallAt(u, k)
               /\ CommittedAt(u, k)' = CommittedAt(u, k)
               /\ PostingAt(u, k)' = PostingAt(u, k)
    BY <2>1, <2>2 DEF CallAt, CommittedAt, PostingAt
  <2>4. QED
    BY <2>3
<1>5. StartsAreFresh'
  BY <1>1, <1>4, FreshStays DEF Untouched
<1>6. OwedIsBalanced'
  <2>1. ASSUME NEW k \in Launch PROVE Balanced(k)'
    <3>1. /\ MayMint(k)' = MayMint(k) /\ (Owes(k)' => Owes(k))
          /\ minted'[k] = minted[k] /\ lost'[k] = lost[k]
      BY <1>1, <1>3 DEF Owes
    <3>2. QED
      BY <1>2, <1>4, <3>1, BalanceKept
  <2>2. QED
    BY <2>1 DEF OwedIsBalanced
<1>7. QED
  BY <1>3, <1>5, <1>6 DEF OnceInv

LEMMA PostFailsOnce ==
    ASSUME TypeInv, OnceInv, NEW t \in Tab, PostFails(t)
    PROVE  OnceInv'
<1> DEFINE l == sweep[t].at
           s == [sweep[t] EXCEPT !.pc = "counting"]
<1>1. /\ UNCHANGED <<minted, store, used, screen>> /\ sweep[t].pc \in {"posting", "committed"}
      /\ sweep[t] \in Sweep /\ l \in Launch /\ sweep' = [sweep EXCEPT ![t] = s]
      /\ Release(t, l)
  BY SweepFields DEF PostFails, server, Move, TypeInv, TypeOK
<1>2. s.pc = "counting" /\ s.at = l
  BY <1>1 DEF Sweep
<1> HIDE DEF s
<1>o. sweep'[t] = s /\ \A u \in Tab : u # t => sweep'[u] = sweep[u]
  BY <1>1, OthersStay
<1>3. CallersHoldLock' /\ \A k \in Launch : MayMint(k)' = MayMint(k)
  BY <1>1, <1>2, LockFreed DEF InLock
<1>4. \A k \in Launch : /\ ~CallAt(t, k)' /\ ~CommittedAt(t, k)' /\ ~PostingAt(t, k)'
                        /\ k # l => ~CommittedAt(t, k)
  BY <1>1, <1>2, OthersStay, ZenonT(40) DEF CallAt, CommittedAt, PostingAt
<1>5. \A k \in Launch : Untouched(k) => Untouched(k)'
  BY <1>1, <1>4, <1>2, <1>o DEF Untouched, CallAt
<1>6. StartsAreFresh'
  BY <1>1, <1>5, FreshStays
<1>7. \/ sweep[t].pc = "posting" /\ UNCHANGED lost
      \/ sweep[t].pc = "committed" /\ lost' = [lost EXCEPT ![l] = @ + 1]
  BY DEF PostFails
<1>8. OwedIsBalanced'
  <2>1. ASSUME NEW k \in Launch PROVE Balanced(k)'
    <3>1. MayMint(k)' = MayMint(k) /\ (Owes(k)' => Owes(k)) /\ minted'[k] = minted[k]
      BY <1>1, <1>3 DEF Owes
    <3>2. PostingAt(t, k)' => PostingAt(t, k)
      BY <1>4
    <3>3. \/ lost'[k] = lost[k] /\ (CommittedAt(t, k) <=> CommittedAt(t, k)')
          \/ lost'[k] = lost[k] + 1
      <4>1. CASE k = l /\ sweep[t].pc = "committed"
        BY <1>7, <4>1 DEF TypeInv, TypeOK
      <4>2. CASE ~(k = l /\ sweep[t].pc = "committed")
        <5>1. lost'[k] = lost[k]
          BY <1>7, <4>2 DEF TypeInv, TypeOK
        <5>2. ~CommittedAt(t, k) /\ ~CommittedAt(t, k)'
          BY <1>4, <4>2 DEF CommittedAt
        <5>3. QED
          BY <5>1, <5>2
      <4>3. QED
        BY <4>1, <4>2
    <3>4. QED
      BY <1>1, <3>1, <3>2, <3>3, BalanceKept
  <2>2. QED
    BY <2>1 DEF OwedIsBalanced
<1>9. QED
  BY <1>3, <1>6, <1>8 DEF OnceInv

\* The browser frees the locks of a tab that closes; what its call made, or will
\* make, is a workspace whose answer is lost.
LEMMA CloseTabOnce ==
    ASSUME TypeInv, OnceInv, NEW t \in Tab, CloseTab(t)
    PROVE  OnceInv'
<1> DEFINE s == SweepAt("closed")
<1>1. /\ UNCHANGED <<store, used>> /\ sweep' = [sweep EXCEPT ![t] = s]
      /\ lock' = [k \in Launch |-> IF lock[k] = t THEN NoTab ELSE lock[k]]
      /\ screen' = [screen EXCEPT ![t] = Form] /\ Form.phase = "form" /\ s.pc = "closed"
  BY DEF CloseTab, Form, SweepAt
<1> HIDE DEF s
<1>o. sweep'[t] = s /\ \A u \in Tab : u # t => sweep'[u] = sweep[u]
  BY <1>1, OthersStay, ZenonT(40)
<1>2. CallersHoldLock'
  <2>1. ASSUME NEW u \in Tab, sweep'[u].pc \in InLock PROVE lock'[sweep'[u].at] \in {u, NoLocks}
    <3>1. u # t
      BY <1>1, <1>o, <2>1 DEF InLock
    <3>2. sweep'[u] = sweep[u] /\ sweep[u].at \in Launch
      BY <1>o, <3>1, SweepFields DEF TypeInv, TypeOK
    <3>3. QED
      BY <1>1, <2>1, <3>1, <3>2, ConstantsOK DEF OnceInv, CallersHoldLock
  <2>2. QED
    BY <2>1 DEF CallersHoldLock
<1>3. ASSUME NEW k \in Launch
      PROVE  \/ minted'[k] = minted[k] /\ lost'[k] = lost[k] /\ ~CommittedAt(t, k)
             \/ CommittedAt(t, k) /\ minted'[k] = minted[k] /\ lost'[k] = lost[k] + 1
             \/ PostingAt(t, k) /\ minted'[k] = minted[k] + 1 /\ lost'[k] = lost[k] + 1
  <2>0. sweep[t].at \in Launch
    BY SweepFields DEF TypeInv, TypeOK
  <2>1. CASE sweep[t].pc # "committed" /\ UNCHANGED <<minted, lost>>
    BY <2>1 DEF CommittedAt
  <2>2. CASE sweep[t].pc = "committed" /\ UNCHANGED minted
             /\ lost' = [lost EXCEPT ![sweep[t].at] = @ + 1]
    BY <2>0, <2>2 DEF CommittedAt, TypeInv, TypeOK
  <2>3. CASE sweep[t].pc = "posting"
             /\ minted' = [minted EXCEPT ![sweep[t].at] = @ + 1]
             /\ lost' = [lost EXCEPT ![sweep[t].at] = @ + 1]
    BY <2>0, <2>3 DEF CommittedAt, PostingAt, TypeInv, TypeOK
  <2>4. QED
    BY <2>1, <2>2, <2>3 DEF CloseTab, Mint
<1>4. \A k \in Launch : ~CallAt(t, k)' /\ ~CommittedAt(t, k)' /\ ~PostingAt(t, k)'
  BY <1>1, <1>o DEF CallAt, CommittedAt, PostingAt
<1>5. ASSUME NEW k \in Launch, Untouched(k) PROVE Untouched(k)'
  <2>1. minted'[k] = minted[k]
    BY <1>3, <1>5 DEF Untouched, CallAt, CommittedAt, PostingAt
  <2>2. \A u \in Tab : ~CallAt(u, k)'
    BY <1>4, <1>5, <1>o DEF Untouched, CallAt
  <2>3. QED
    BY <1>1, <1>5, <2>1, <2>2 DEF Untouched
<1>6. StartsAreFresh'
  <2>1. \A u \in Tab : screen'[u].phase = "starting" => screen'[u] = screen[u]
    BY <1>1 DEF TypeInv, TypeOK
  <2>2. QED
    BY <1>1, <1>5, <2>1, FreshStays
<1>7. OwedIsBalanced'
  <2>1. ASSUME NEW k \in Launch PROVE Balanced(k)'
    <3>1. MayMint(k)' = MayMint(k) /\ (Owes(k)' => Owes(k))
      BY <1>1, ConstantsOK DEF MayMint, Owes
    <3>2. ~PostingAt(t, k)' /\ ~CommittedAt(t, k)' /\ (PostingAt(t, k) => ~CommittedAt(t, k))
      BY <1>4 DEF PostingAt, CommittedAt
    <3>3. QED
      BY <1>1, <1>3, <3>1, <3>2, BalanceKept
  <2>2. QED
    BY <2>1 DEF OwedIsBalanced
<1>8. QED
  BY <1>2, <1>6, <1>7 DEF OnceInv

LEMMA NextOnce == TypeInv /\ OnceInv /\ [Next]_vars => OnceInv'
<1> SUFFICES ASSUME TypeInv, OnceInv, [Next]_vars PROVE OnceInv'
  OBVIOUS
<1>1. CASE UNCHANGED vars
  BY <1>1, QuietStep DEF vars, server, NoCallMoves, NothingNewIsOwed, NoLaunchStarts
<1>2. CASE Next
  <2>1. ASSUME NEW t \in Tab, SweepStep(t) PROVE OnceInv'
    BY <2>1, QuietSteps, TakeLockOnce, PostCommitsOnce, PostAnsweredOnce, TagsDoneOnce,
       PostFailsOnce DEF SweepStep
  <2>2. ASSUME NEW t \in Tab, ScreenStep(t) PROVE OnceInv'
    BY <2>2, QuietSteps, LaunchOnce, RememberOnce DEF ScreenStep
  <2>3. QED
    BY <1>2, <2>1, <2>2, QuietSteps, CloseTabOnce DEF Next
<1>3. QED
  BY <1>1, <1>2

\* bakeoff-grouping.ts:53 "Group a launch's completed runs into one workspace, at
\* most once": whatever the number of tabs, launches, arms and faults, the server
\* makes a second workspace for a launch only after an earlier one was lost on its
\* way to the record; without Web Locks it makes at most one for each tab besides.
THEOREM WorkspacesAreMintedOnce == Spec => []WorkspaceMintedOnce
<1>1. TypeInv /\ OnceInv => WorkspaceMintedOnce
  <2>1. SUFFICES ASSUME TypeInv, OnceInv, NEW l \in Launch
                 PROVE  minted[l] <= lost[l] + MayMint(l)
    BY DEF WorkspaceMintedOnce
  <2>2. minted[l] + Cardinality(Posting(l)) <= lost[l] + MayMint(l)
    BY <2>1 DEF OnceInv, OwedIsBalanced, Balanced
  <2>3. QED
    BY <2>1, <2>2, CallsCount
<1>2. QED
  BY <1>1, InitType, NextType, InitOnce, NextOnce, PTL DEF Spec, Safety

-----------------------------------------------------------------------------
(* A workspace holds every completed run *)

\* What targets say of the runs of l: a run that they name exists, and one that
\* they have seen end ended so.
Knows(targets, l) ==
    \A a \in Arm : targets[a] # "none" =>
        run[l][a] # "none" /\ (Terminal(targets[a]) => run[l][a] = targets[a])
Ended(targets, l) == \A a \in Launched(targets) : Terminal(run[l][a])
Finishers(targets, l) == {a \in Launched(targets) : run[l][a] = "completed"}

\* All copies of a launch's record name the same runs, and none is there before
\* the launch is remembered.
CopiesAgree ==
    /\ \A l \in Launch : store[l] # NoRecord => Knows(store[l].targets, l)
    /\ \A t \in Tab, l \in Launch : sweep[t].list[l] # NoRecord =>
        /\ Knows(sweep[t].list[l].targets, l)
        /\ store[l] # NoRecord
            => Launched(sweep[t].list[l].targets) = Launched(store[l].targets)
        /\ l \in used
        /\ \A u \in Tab : screen[u].phase = "starting" => screen[u].launch # l
    /\ \A t \in Tab : screen[t].phase = "starting" =>
        \A a \in Arm : screen[t].targets[a] # "none" =>
            screen[t].targets[a] = "pending" /\ run[screen[t].launch][a] # "none"

\* What is posted is every completed run of an ended launch, whichever tab posts.
PostsAreWhole ==
    \A t \in Tab, l \in Launch : CallAt(t, l) /\ store[l] # NoRecord =>
        /\ Ended(store[l].targets, l)
        /\ sweep[t].posted = Finishers(store[l].targets, l)
        /\ CommittedAt(t, l) => members[l] = sweep[t].posted

WorkspacesAreWhole ==
    \A l \in Launch : store[l] # NoRecord /\ store[l].workspace # "no" =>
        Ended(store[l].targets, l) /\ members[l] = Finishers(store[l].targets, l)

WholeInv == CopiesAgree /\ PostsAreWhole /\ WorkspacesAreWhole

LEMMA InitWhole == Init => WholeInv
<1> SUFFICES ASSUME Init PROVE WholeInv
  OBVIOUS
<1>1. /\ Form.phase = "form"
      /\ \A t \in Tab : sweep[t].pc \in {"closed", "idle"} /\ screen[t] = Form
      /\ \A t \in Tab, l \in Launch : sweep[t].list[l] = NoRecord
      /\ \A l \in Launch : store[l] = NoRecord
  BY InitSweep DEF Init, Form, EmptyList
<1>2. CopiesAgree /\ PostsAreWhole /\ WorkspacesAreWhole
  BY <1>1 DEF CopiesAgree, PostsAreWhole, WorkspacesAreWhole, CallAt
<1>3. QED
  BY <1>2 DEF WholeInv

\* A step that makes no run, no copy of a record that was not there, and no call.
RecordsKeepRuns ==
    \A l \in Launch : \/ store'[l] = NoRecord
                      \/ /\ store[l] # NoRecord
                         /\ (store'[l].workspace = "no") <=> (store[l].workspace = "no")
                         /\ Launched(store'[l].targets) = Launched(store[l].targets)
                         /\ Knows(store'[l].targets, l)
CopiesStay == \A t \in Tab, l \in Launch : sweep'[t].list[l] \in {sweep[t].list[l], NoRecord}
NoCallStarts ==
    \A t \in Tab : sweep'[t].pc \in {"posting", "committed"} =>
        /\ sweep'[t].pc = sweep[t].pc /\ sweep'[t].at = sweep[t].at
        /\ sweep'[t].posted = sweep[t].posted
StartsStay ==
    \A t \in Tab : screen'[t].phase = "starting" => screen'[t] = screen[t]

LEMMA QuietWhole ==
    ASSUME TypeInv, WholeInv, UNCHANGED <<run, members, used>>,
           RecordsKeepRuns, CopiesStay, NoCallStarts, StartsStay
    PROVE  WholeInv'
<1>1. CopiesAgree'
  <2>1. ASSUME NEW l \in Launch, store'[l] # NoRecord PROVE Knows(store[l].targets, l)'
    BY <2>1 DEF RecordsKeepRuns, Knows
  <2>2. ASSUME NEW t \in Tab, NEW l \in Launch, sweep'[t].list[l] # NoRecord
        PROVE  /\ Knows(sweep[t].list[l].targets, l)'
               /\ store'[l] # NoRecord
                    => Launched(sweep'[t].list[l].targets) = Launched(store'[l].targets)
               /\ l \in used'
               /\ \A u \in Tab : screen'[u].phase = "starting" => screen'[u].launch # l
    <3>1. sweep'[t].list[l] = sweep[t].list[l] /\ sweep[t].list[l] # NoRecord
      BY <2>2 DEF CopiesStay
    <3>2. /\ Knows(sweep[t].list[l].targets, l) /\ l \in used
          /\ store[l] # NoRecord
                => Launched(sweep[t].list[l].targets) = Launched(store[l].targets)
          /\ \A u \in Tab : screen[u].phase = "starting" => screen[u].launch # l
      BY <3>1 DEF WholeInv, CopiesAgree
    <3>3. Knows(sweep[t].list[l].targets, l)'
      BY <3>1, <3>2 DEF Knows
    <3>4. QED
      BY <3>1, <3>2, <3>3 DEF RecordsKeepRuns, StartsStay
  <2>3. ASSUME NEW t \in Tab, screen'[t].phase = "starting", NEW a \in Arm,
               screen'[t].targets[a] # "none"
        PROVE  screen'[t].targets[a] = "pending" /\ run'[screen'[t].launch][a] # "none"
    BY <2>3 DEF WholeInv, CopiesAgree, StartsStay
  <2>4. QED
    BY <2>1, <2>2, <2>3 DEF CopiesAgree
<1>2. PostsAreWhole'
  <2>1. ASSUME NEW t \in Tab, NEW l \in Launch, CallAt(t, l)', store'[l] # NoRecord
        PROVE  /\ Ended(store[l].targets, l)'
               /\ sweep'[t].posted = Finishers(store[l].targets, l)'
               /\ CommittedAt(t, l)' => members'[l] = sweep'[t].posted
    <3>1. CallAt(t, l) /\ sweep'[t].posted = sweep[t].posted
          /\ (CommittedAt(t, l)' => CommittedAt(t, l))
      BY <2>1 DEF NoCallStarts, CallAt, CommittedAt
    <3>2. /\ store[l] # NoRecord /\ (store'[l].workspace = "no" <=> store[l].workspace = "no")
          /\ Launched(store'[l].targets) = Launched(store[l].targets)
      BY <2>1 DEF RecordsKeepRuns
    <3>3. /\ Ended(store[l].targets, l)
          /\ sweep[t].posted = Finishers(store[l].targets, l)
          /\ CommittedAt(t, l) => members[l] = sweep[t].posted
      BY <3>1, <3>2 DEF WholeInv, PostsAreWhole
    <3>4. Ended(store[l].targets, l)'
      BY <3>2, <3>3 DEF Ended
    <3>5. Finishers(store[l].targets, l)' = Finishers(store[l].targets, l)
      BY <3>2 DEF Finishers
    <3>6. QED
      BY <3>1, <3>2, <3>3, <3>4, <3>5
  <2>2. QED
    BY <2>1 DEF PostsAreWhole
<1>3. WorkspacesAreWhole'
  <2>1. ASSUME NEW l \in Launch, store'[l] # NoRecord, store'[l].workspace # "no"
        PROVE  Ended(store[l].targets, l)' /\ members'[l] = Finishers(store[l].targets, l)'
    <3>1. /\ store[l] # NoRecord /\ store[l].workspace # "no"
          /\ Launched(store'[l].targets) = Launched(store[l].targets)
      BY <2>1 DEF RecordsKeepRuns
    <3>2. Ended(store[l].targets, l) /\ members[l] = Finishers(store[l].targets, l)
      BY <3>1 DEF WholeInv, WorkspacesAreWhole
    <3>3. Ended(store[l].targets, l)'
      BY <3>1, <3>2 DEF Ended
    <3>4. Finishers(store[l].targets, l)' = Finishers(store[l].targets, l)
      BY <3>1 DEF Finishers
    <3>5. QED
      BY <3>2, <3>3, <3>4
  <2>2. QED
    BY <2>1 DEF WorkspacesAreWhole
<1>4. QED
  BY <1>1, <1>2, <1>3 DEF WholeInv

\* The frames of the steps that make no call.
LEMMA CopyKept ==
    ASSUME TypeInv, NEW t \in Tab, NEW s, sweep' = [sweep EXCEPT ![t] = s],
           \A l \in Launch : s.list[l] \in {sweep[t].list[l], NoRecord},
           s.pc \in {"posting", "committed"} => s.pc = sweep[t].pc /\ s.at = sweep[t].at
                                                  /\ s.posted = sweep[t].posted
    PROVE  CopiesStay /\ NoCallStarts
<1>1. sweep'[t] = s /\ \A u \in Tab : u # t => sweep'[u] = sweep[u]
  BY DEF TypeInv, TypeOK
<1>2. QED
  BY <1>1 DEF CopiesStay, NoCallStarts

LEMMA HandledCopies ==
    ASSUME TypeInv, NEW t \in Tab, NEW l \in Launch, Handled(t, l)
    PROVE  CopiesStay /\ NoCallStarts
<1>1. PICK s \in Sweep :
        /\ sweep' = [sweep EXCEPT ![t] = s] /\ s.pc \in {"idle", "polling"}
        /\ \A k \in Launch : s.list[k] = sweep[t].list[k] \/ s.list[k] = NoRecord
  BY HandledLeaves
<1>2. /\ \A k \in Launch : s.list[k] \in {sweep[t].list[k], NoRecord}
      /\ s.pc \notin {"posting", "committed"}
  BY <1>1
<1>3. QED
  BY <1>1, <1>2, CopyKept

LEMMA SameRecords ==
    ASSUME WholeInv, UNCHANGED store
    PROVE  RecordsKeepRuns
BY DEF WholeInv, CopiesAgree, RecordsKeepRuns

LEMMA UpdateKeepsRuns ==
    ASSUME TypeInv, WholeInv, NEW l \in Launch, NEW patched, UpdateLaunch(l, patched),
           store[l] # NoRecord =>
               /\ (patched.workspace = "no") <=> (store[l].workspace = "no")
               /\ Launched(patched.targets) = Launched(store[l].targets)
               /\ Knows(patched.targets, l)
    PROVE  RecordsKeepRuns
<1>1. \A k \in Launch : \/ store'[k] = NoRecord \/ store'[k] = store[k]
                        \/ k = l /\ store[l] # NoRecord /\ store'[l] = patched
  BY UpdateKeepsOrDrops DEF TypeInv
<1>2. ASSUME NEW k \in Launch, store'[k] # NoRecord
      PROVE  /\ store[k] # NoRecord
             /\ (store'[k].workspace = "no") <=> (store[k].workspace = "no")
             /\ Launched(store'[k].targets) = Launched(store[k].targets)
             /\ Knows(store'[k].targets, k)
  <2>1. CASE store'[k] = store[k]
    BY <1>2, <2>1 DEF WholeInv, CopiesAgree
  <2>2. CASE k = l /\ store[l] # NoRecord /\ store'[l] = patched
    BY <2>2
  <2>3. QED
    BY <1>1, <1>2, <2>1, <2>2
<1>3. QED
  BY <1>2 DEF RecordsKeepRuns

LEMMA QuietWholeSteps ==
    ASSUME TypeInv, WholeInv,
           \/ \E l \in Launch : Ages(l)
           \/ \E t \in Tab : \/ OpenTab(t) \/ TagsDone(t) \/ PostFails(t) \/ CountAttempt(t)
                             \/ \E l \in Launch : Poll(t, l)
                             \/ PanelRefresh(t) \/ PanelWatch(t) \/ LeavePanel(t)
    PROVE  WholeInv'
<1> USE DEF server
<1>a. \A t \in Tab : sweep[t] \in Sweep /\ sweep[t].at \in Launch /\ screen[t] \in Screen
                     /\ sweep[t].list \in [Launch -> Record \cup {NoRecord}]
  BY SweepFields DEF TypeInv, TypeOK
<1>1. ASSUME NEW l \in Launch, Ages(l) PROVE WholeInv'
  <2>1. UNCHANGED <<run, members, used, sweep, screen>>
    BY <1>1 DEF Ages
  <2> DEFINE aged == [store[l] EXCEPT !.workspace = "old"]
  <2>2. store[l] # NoRecord /\ store[l].workspace = "kept" /\ store[l] \in Record
        /\ store' = [store EXCEPT ![l] = aged]
    BY <1>1 DEF Ages, TypeInv, TypeOK
  <2>3. aged.workspace = "old" /\ aged.targets = store[l].targets
    BY <2>2 DEF Record
  <2> HIDE DEF aged
  <2>4. RecordsKeepRuns
    <3>1. ASSUME NEW k \in Launch, store'[k] # NoRecord
          PROVE  /\ store[k] # NoRecord
                 /\ (store'[k].workspace = "no") <=> (store[k].workspace = "no")
                 /\ store'[k].targets = store[k].targets
      BY <2>2, <2>3, <3>1 DEF TypeInv, TypeOK
    <3>2. QED
      BY <3>1 DEF RecordsKeepRuns, WholeInv, CopiesAgree
  <2>5. QED
    BY <2>1, <2>4, QuietWhole DEF CopiesStay, NoCallStarts, StartsStay
<1>2. ASSUME NEW t \in Tab, OpenTab(t) PROVE WholeInv'
  <2>1. UNCHANGED <<run, members, store, used, screen>>
        /\ sweep' = [sweep EXCEPT ![t] = SweepAt("idle")]
    BY <1>2 DEF OpenTab
  <2> DEFINE s == SweepAt("idle")
  <2>2. s.pc = "idle" /\ \A l \in Launch : s.list[l] \in {sweep[t].list[l], NoRecord}
    BY SweepAtType DEF SweepPc
  <2>3. sweep' = [sweep EXCEPT ![t] = s]
    BY <2>1
  <2> HIDE DEF s
  <2>4. CopiesStay /\ NoCallStarts
    BY <2>2, <2>3, CopyKept
  <2>5. QED
    BY <2>1, <2>4, QuietWhole, SameRecords DEF StartsStay
<1>3. ASSUME NEW t \in Tab, TagsDone(t) PROVE WholeInv'
  <2>1. UNCHANGED <<run, members, store, used, screen>> /\ Handled(t, sweep[t].at)
    BY <1>3 DEF TagsDone
  <2>2. QED
    BY <1>a, <2>1, QuietWhole, SameRecords, HandledCopies DEF StartsStay
<1>4. ASSUME NEW t \in Tab, PostFails(t) PROVE WholeInv'
  <2> DEFINE s == [sweep[t] EXCEPT !.pc = "counting"]
  <2>1. UNCHANGED <<run, members, store, used, screen>> /\ sweep' = [sweep EXCEPT ![t] = s]
    BY <1>4 DEF PostFails, Move
  <2>2. s.pc = "counting" /\ s.list = sweep[t].list
    BY <1>a DEF Sweep
  <2> HIDE DEF s
  <2>3. CopiesStay /\ NoCallStarts
    BY <2>1, <2>2, CopyKept
  <2>4. QED
    BY <2>1, <2>3, QuietWhole, SameRecords DEF StartsStay
<1>5. ASSUME NEW t \in Tab, CountAttempt(t) PROVE WholeInv'
  <2> DEFINE n == sweep[t].list[sweep[t].at].attempts + 1
             patched == [store[sweep[t].at] EXCEPT !.attempts = n,
                                                   !.groupingFailed = @ \/ n >= MaxAttempts]
  <2>1. UNCHANGED <<run, members, screen, used>>
        /\ UpdateLaunch(sweep[t].at, patched) /\ Handled(t, sweep[t].at)
    BY <1>5 DEF CountAttempt
  <2>2. store[sweep[t].at] # NoRecord =>
            /\ patched.workspace = store[sweep[t].at].workspace
            /\ patched.targets = store[sweep[t].at].targets
    BY <1>a DEF TypeInv, TypeOK, Record
  <2> HIDE DEF patched
  <2>3. store[sweep[t].at] # NoRecord => Knows(store[sweep[t].at].targets, sweep[t].at)
    BY <1>a DEF WholeInv, CopiesAgree
  <2>4. RecordsKeepRuns
    BY <1>a, <2>1, <2>2, <2>3, UpdateKeepsRuns
  <2>5. QED
    BY <1>a, <2>1, <2>4, QuietWhole, HandledCopies DEF StartsStay
<1>6. ASSUME NEW t \in Tab, NEW l \in Launch, Poll(t, l) PROVE WholeInv'
  <2> DEFINE old == sweep[t].list[l].targets
             asked == {a \in Launched(old) : ~Terminal(old[a])}
             After(answered) == [a \in Arm |-> IF a \in answered THEN run[l][a] ELSE old[a]]
  <2>1. PICK answered \in SUBSET asked :
          /\ IF TooFew(After(answered))
             THEN WriteLaunches([store EXCEPT ![l] = NoRecord])
             ELSE UpdateLaunch(l, [store[l] EXCEPT !.targets = After(answered)])
          /\ IF Ready(After(answered))
             THEN sweep' = [sweep EXCEPT ![t].pc = "locking", ![t].at = l]
             ELSE Handled(t, l)
    BY <1>6 DEF Poll
  <2> DEFINE targets == After(answered)
  <2>2. UNCHANGED <<run, members, screen, used>> /\ sweep[t].list[l] # NoRecord
    BY <1>6 DEF Poll, Stored
  <2>3. Knows(old, l) /\ (store[l] # NoRecord => Launched(old) = Launched(store[l].targets))
    BY <2>2 DEF WholeInv, CopiesAgree
  <2>4. Knows(targets, l) /\ Launched(targets) = Launched(old)
    BY <2>3 DEF Knows, Launched
  <2>5. /\ IF TooFew(targets) THEN WriteLaunches([store EXCEPT ![l] = NoRecord])
           ELSE UpdateLaunch(l, [store[l] EXCEPT !.targets = targets])
        /\ IF Ready(targets)
           THEN sweep' = [sweep EXCEPT ![t] = [sweep[t] EXCEPT !.pc = "locking", !.at = l]]
           ELSE Handled(t, l)
    BY <2>1
  <2> HIDE DEF targets, After
  <2>6. CopiesStay /\ NoCallStarts
    <3>1. CASE Ready(targets)
      <4> DEFINE s == [sweep[t] EXCEPT !.pc = "locking", !.at = l]
      <4>1. sweep' = [sweep EXCEPT ![t] = s]
        BY <2>5, <3>1
      <4>2. s.pc = "locking" /\ s.list = sweep[t].list
        BY <1>a DEF Sweep
      <4> HIDE DEF s
      <4>3. QED
        BY <4>1, <4>2, CopyKept
    <3>2. CASE ~Ready(targets)
      BY <2>5, <3>2, HandledCopies
    <3>3. QED
      BY <3>1, <3>2
  <2>7. RecordsKeepRuns
    <3>1. CASE TooFew(targets)
      <4> DEFINE gone == [store EXCEPT ![l] = NoRecord]
      <4>1. \A k \in Launch : gone[k] = store[k] \/ gone[k] = NoRecord
        BY DEF TypeInv, TypeOK
      <4>2. WriteLaunches(gone)
        BY <2>5, <3>1
      <4> HIDE DEF gone
      <4>3. \A k \in Launch : store'[k] = store[k] \/ store'[k] = NoRecord
        BY <4>1, <4>2, WriteKeepsOrDrops DEF TypeInv
      <4>4. QED
        BY <4>3 DEF RecordsKeepRuns, WholeInv, CopiesAgree
    <3>2. CASE ~TooFew(targets)
      <4> DEFINE patched == [store[l] EXCEPT !.targets = targets]
      <4>1. store[l] # NoRecord =>
                patched.workspace = store[l].workspace /\ patched.targets = targets
        BY DEF TypeInv, TypeOK, Record
      <4>2. UpdateLaunch(l, patched)
        BY <2>5, <3>2
      <4> HIDE DEF patched
      <4>3. QED
        BY <2>3, <2>4, <4>1, <4>2, UpdateKeepsRuns
    <3>3. QED
      BY <3>1, <3>2
  <2>8. QED
    BY <2>2, <2>6, <2>7, QuietWhole DEF StartsStay
<1>7. ASSUME NEW t \in Tab, PanelRefresh(t) \/ PanelWatch(t) \/ LeavePanel(t) PROVE WholeInv'
  <2>1. UNCHANGED <<run, members, store, sweep, used>>
    BY <1>7 DEF PanelRefresh, PanelWatch, LeavePanel
  <2>2. StartsStay
    <3>1. screen[t].phase = "panel"
      BY <1>7 DEF PanelRefresh, PanelWatch, LeavePanel, Watching
    <3>2. \A u \in Tab : u # t => screen'[u] = screen[u]
      BY <1>7 DEF PanelRefresh, PanelWatch, LeavePanel, TypeInv, TypeOK
    <3>3. screen'[t].phase # "starting"
      <4>1. CASE LeavePanel(t)
        BY <4>1 DEF LeavePanel, Form, TypeInv, TypeOK
      <4>2. CASE PanelRefresh(t)
        <5>1. PICK x : screen' = [screen EXCEPT ![t].targets = x]
          BY <4>2 DEF PanelRefresh
        <5>2. screen'[t].phase = screen[t].phase
          BY <1>a, <5>1 DEF TypeInv, TypeOK, Screen
        <5>3. QED
          BY <3>1, <5>2
      <4>3. CASE PanelWatch(t)
        <5>1. screen' = [screen EXCEPT ![t].workspace = TRUE]
              \/ screen' = [screen EXCEPT ![t].groupingFailed = TRUE]
          BY <4>3 DEF PanelWatch
        <5>2. screen'[t].phase = screen[t].phase
          BY <1>a, <5>1 DEF TypeInv, TypeOK, Screen
        <5>3. QED
          BY <3>1, <5>2
      <4>4. QED
        BY <1>7, <4>1, <4>2, <4>3
    <3>4. QED
      BY <3>2, <3>3 DEF StartsStay
  <2>3. QED
    BY <2>1, <2>2, QuietWhole, SameRecords DEF CopiesStay, NoCallStarts
<1>8. QED
  BY <1>1, <1>2, <1>3, <1>4, <1>5, <1>6, <1>7

\* A run ends: nobody had seen it end, and no launch it belongs to was posted.
LEMMA RunEndsWhole ==
    ASSUME TypeInv, WholeInv, NEW l \in Launch, NEW a \in Arm, RunEnds(l, a)
    PROVE  WholeInv'
<1>1. /\ UNCHANGED <<members, store, used, sweep, screen>> /\ run[l][a] = "pending"
      /\ \E status \in {"completed", "failed"} : run' = [run EXCEPT ![l][a] = status]
  BY DEF RunEnds
<1>2. /\ run'[l][a] \in {"completed", "failed"}
      /\ \A k \in Launch, b \in Arm : <<k, b>> # <<l, a>> => run'[k][b] = run[k][b]
  BY <1>1 DEF TypeInv, TypeOK, Targets
<1>3. ASSUME NEW x, NEW k \in Launch, Knows(x, k)
      PROVE  \A b \in Arm : x[b] # "none" =>
                run'[k][b] # "none" /\ (Terminal(x[b]) => run'[k][b] = x[b])
  BY <1>1, <1>2, <1>3 DEF Knows, Terminal
<1>4. ASSUME NEW x, NEW k \in Launch, Ended(x, k)
      PROVE  /\ \A b \in Launched(x) : Terminal(run'[k][b])
             /\ {b \in Launched(x) : run'[k][b] = "completed"} = Finishers(x, k)
  <2>1. k = l => a \notin Launched(x)
    BY <1>1, <1>4 DEF Ended, Terminal
  <2>2. \A b \in Launched(x) : run'[k][b] = run[k][b]
    BY <1>2, <2>1 DEF Launched
  <2>3. QED
    BY <1>4, <2>2 DEF Ended, Finishers
<1>5. CopiesAgree'
  <2>1. \A k \in Launch : store[k] # NoRecord => Knows(store[k].targets, k)
    BY DEF WholeInv, CopiesAgree
  <2>2. \A k \in Launch : store'[k] # NoRecord => Knows(store[k].targets, k)'
    BY <1>1, <1>3, <2>1 DEF Knows
  <2>3. \A t \in Tab, k \in Launch : sweep'[t].list[k] # NoRecord
                                        => Knows(sweep[t].list[k].targets, k)'
    BY <1>1, <1>3 DEF WholeInv, CopiesAgree, Knows
  <2>4. \A t \in Tab : screen'[t].phase = "starting" =>
            \A b \in Arm : screen'[t].targets[b] # "none" =>
                screen'[t].targets[b] = "pending" /\ run'[screen'[t].launch][b] # "none"
    <3>1. \A t \in Tab : screen[t].launch \in Launch
      BY DEF TypeInv, TypeOK, Screen
    <3>2. \A k \in Launch, b \in Arm : run[k][b] # "none" => run'[k][b] # "none"
      BY <1>2
    <3>3. QED
      BY <1>1, <3>1, <3>2 DEF WholeInv, CopiesAgree
  <2>5. QED
    BY <1>1, <2>2, <2>3, <2>4 DEF WholeInv, CopiesAgree
<1>6. PostsAreWhole'
  <2>1. ASSUME NEW t \in Tab, NEW k \in Launch, CallAt(t, k)', store'[k] # NoRecord
        PROVE  /\ Ended(store[k].targets, k)'
               /\ sweep'[t].posted = Finishers(store[k].targets, k)'
               /\ CommittedAt(t, k)' => members'[k] = sweep'[t].posted
    <3>1. /\ Ended(store[k].targets, k)
          /\ sweep[t].posted = Finishers(store[k].targets, k)
          /\ CommittedAt(t, k) => members[k] = sweep[t].posted
      BY <1>1, <2>1 DEF WholeInv, PostsAreWhole, CallAt
    <3>2. Ended(store[k].targets, k)'
      BY <1>1, <1>4, <3>1 DEF Ended
    <3>3. Finishers(store[k].targets, k)' = Finishers(store[k].targets, k)
      BY <1>1, <1>4, <3>1 DEF Finishers
    <3>4. QED
      BY <1>1, <3>1, <3>2, <3>3 DEF CommittedAt
  <2>2. QED
    BY <2>1 DEF PostsAreWhole
<1>7. WorkspacesAreWhole'
  <2>1. ASSUME NEW k \in Launch, store'[k] # NoRecord, store'[k].workspace # "no"
        PROVE  Ended(store[k].targets, k)' /\ members'[k] = Finishers(store[k].targets, k)'
    <3>1. Ended(store[k].targets, k) /\ members[k] = Finishers(store[k].targets, k)
      BY <1>1, <2>1 DEF WholeInv, WorkspacesAreWhole
    <3>2. Ended(store[k].targets, k)'
      BY <1>1, <1>4, <3>1 DEF Ended
    <3>3. Finishers(store[k].targets, k)' = Finishers(store[k].targets, k)
      BY <1>1, <1>4, <3>1 DEF Finishers
    <3>4. QED
      BY <1>1, <3>1, <3>2, <3>3
  <2>2. QED
    BY <2>1 DEF WorkspacesAreWhole
<1>8. QED
  BY <1>5, <1>6, <1>7 DEF WholeInv

\* While no run and no call changes, calls and workspaces keep what they are of.
LEMMA CallsKept ==
    ASSUME TypeInv, WholeInv, UNCHANGED members,
           \A l \in Launch : \/ store'[l] = NoRecord
                             \/ store[l] # NoRecord /\ store'[l] = store[l] /\ run'[l] = run[l]
                             \/ /\ store'[l].workspace = "no"
                                /\ \A t \in Tab : ~CallAt(t, l)',
           NoCallStarts
    PROVE  PostsAreWhole' /\ WorkspacesAreWhole'
<1>1. ASSUME NEW t \in Tab, NEW l \in Launch, CallAt(t, l)', store'[l] # NoRecord
      PROVE  /\ Ended(store[l].targets, l)'
             /\ sweep'[t].posted = Finishers(store[l].targets, l)'
             /\ CommittedAt(t, l)' => members'[l] = sweep'[t].posted
  <2>1. store[l] # NoRecord /\ store'[l] = store[l] /\ run'[l] = run[l]
    BY <1>1
  <2>2. CallAt(t, l) /\ sweep'[t].posted = sweep[t].posted
        /\ (CommittedAt(t, l)' => CommittedAt(t, l))
    BY <1>1 DEF NoCallStarts, CallAt, CommittedAt
  <2>3. QED
    BY <2>1, <2>2 DEF WholeInv, PostsAreWhole, Ended, Finishers
<1>2. ASSUME NEW l \in Launch, store'[l] # NoRecord, store'[l].workspace # "no"
      PROVE  Ended(store[l].targets, l)' /\ members'[l] = Finishers(store[l].targets, l)'
  <2>1. store[l] # NoRecord /\ store'[l] = store[l] /\ run'[l] = run[l]
    BY <1>2
  <2>2. QED
    BY <1>2, <2>1 DEF WholeInv, WorkspacesAreWhole, Ended, Finishers
<1>3. QED
  BY <1>1, <1>2 DEF PostsAreWhole, WorkspacesAreWhole

LEMMA LaunchWhole ==
    ASSUME TypeInv, OnceInv, WholeInv, NEW t \in Tab, NEW l \in Launch, LaunchComparison(t, l)
    PROVE  WholeInv'
<1> DEFINE s == [Form EXCEPT !.phase = "starting", !.launch = l, !.unsent = Arm]
<1>1. UNCHANGED <<run, members, store, sweep>> /\ used' = used \cup {l} /\ l \notin used
      /\ screen' = [screen EXCEPT ![t] = s]
  BY DEF LaunchComparison, server
<1>2. s.launch = l /\ \A a \in Arm : s.targets[a] = "none"
  BY DEF Form, NoTargets
<1> HIDE DEF s
<1>3. screen'[t] = s /\ \A u \in Tab : u # t => screen'[u] = screen[u]
  BY <1>1 DEF TypeInv, TypeOK
<1>4. CopiesAgree'
  <2>1. \A k \in Launch : store'[k] # NoRecord => Knows(store[k].targets, k)'
    BY <1>1 DEF WholeInv, CopiesAgree, Knows
  <2>2. ASSUME NEW v \in Tab, NEW k \in Launch, sweep'[v].list[k] # NoRecord
        PROVE  /\ Knows(sweep[v].list[k].targets, k)'
               /\ store'[k] # NoRecord
                    => Launched(sweep'[v].list[k].targets) = Launched(store'[k].targets)
               /\ k \in used'
               /\ \A u \in Tab : screen'[u].phase = "starting" => screen'[u].launch # k
    <3>1. /\ Knows(sweep[v].list[k].targets, k) /\ k \in used
          /\ store[k] # NoRecord
                => Launched(sweep[v].list[k].targets) = Launched(store[k].targets)
          /\ \A u \in Tab : screen[u].phase = "starting" => screen[u].launch # k
      BY <1>1, <2>2 DEF WholeInv, CopiesAgree
    <3>2. Knows(sweep[v].list[k].targets, k)'
      BY <1>1, <3>1 DEF Knows
    <3>3. QED
      BY <1>1, <1>2, <1>3, <3>1, <3>2
  <2>3. ASSUME NEW u \in Tab, screen'[u].phase = "starting", NEW a \in Arm,
               screen'[u].targets[a] # "none"
        PROVE  screen'[u].targets[a] = "pending" /\ run'[screen'[u].launch][a] # "none"
    BY <1>1, <1>2, <1>3, <2>3 DEF WholeInv, CopiesAgree
  <2>4. QED
    BY <2>1, <2>2, <2>3 DEF CopiesAgree
<1>5. PostsAreWhole' /\ WorkspacesAreWhole'
  BY <1>1, CallsKept DEF NoCallStarts
<1>6. QED
  BY <1>4, <1>5 DEF WholeInv

LEMMA StartArmWhole ==
    ASSUME TypeInv, OnceInv, WholeInv, NEW t \in Tab, NEW a \in Arm, StartArm(t, a)
    PROVE  WholeInv'
<1> DEFINE l == screen[t].launch
<1>1. /\ UNCHANGED <<members, store, sweep, used>> /\ screen[t].phase = "starting"
      /\ l \in Launch /\ screen[t] \in Screen
  BY DEF StartArm, TypeInv, TypeOK, Screen
<1>2. PICK started \in BOOLEAN, answered \in BOOLEAN :
        /\ answered => started
        /\ run' = IF started THEN [run EXCEPT ![l][a] = "pending"] ELSE run
        /\ screen' = [screen EXCEPT ![t].unsent = @ \ {a},
                        ![t].targets[a] = IF answered THEN "pending" ELSE "none"]
  BY DEF StartArm
<1>3. /\ \A k \in Launch : k # l => run'[k] = run[k]
      /\ \A b \in Arm : run[l][b] # "none" => run'[l][b] # "none"
      /\ answered => run'[l][a] # "none"
  BY <1>1, <1>2 DEF TypeInv, TypeOK, Targets
<1>4. /\ \A u \in Tab : u # t => screen'[u] = screen[u]
      /\ screen'[t].phase = "starting" /\ screen'[t].launch = l
      /\ \A b \in Arm : screen'[t].targets[b] =
            IF b = a THEN IF answered THEN "pending" ELSE "none" ELSE screen[t].targets[b]
  BY <1>1, <1>2 DEF TypeInv, TypeOK, Screen, Targets
<1>5. /\ store[l] = NoRecord
      /\ \A u \in Tab : u # t /\ screen[u].phase = "starting" => screen[u].launch # l
      /\ \A u \in Tab : sweep[u].list[l] = NoRecord
  BY <1>1 DEF OnceInv, StartsAreFresh, Untouched, WholeInv, CopiesAgree
<1>6. CopiesAgree'
  <2>1. ASSUME NEW k \in Launch, store'[k] # NoRecord PROVE Knows(store[k].targets, k)'
    <3>1. k # l /\ Knows(store[k].targets, k)
      BY <1>1, <1>5, <2>1 DEF WholeInv, CopiesAgree
    <3>2. QED
      BY <1>1, <1>3, <3>1 DEF Knows
  <2>2. ASSUME NEW v \in Tab, NEW k \in Launch, sweep'[v].list[k] # NoRecord
        PROVE  /\ Knows(sweep[v].list[k].targets, k)'
               /\ store'[k] # NoRecord
                    => Launched(sweep'[v].list[k].targets) = Launched(store'[k].targets)
               /\ k \in used'
               /\ \A u \in Tab : screen'[u].phase = "starting" => screen'[u].launch # k
    <3>1. /\ Knows(sweep[v].list[k].targets, k) /\ k \in used /\ k # l
          /\ store[k] # NoRecord
                => Launched(sweep[v].list[k].targets) = Launched(store[k].targets)
          /\ \A u \in Tab : screen[u].phase = "starting" => screen[u].launch # k
      BY <1>1, <1>5, <2>2 DEF WholeInv, CopiesAgree
    <3>2. Knows(sweep[v].list[k].targets, k)'
      BY <1>1, <1>3, <3>1 DEF Knows
    <3>3. QED
      BY <1>1, <1>4, <3>1, <3>2
  <2>3. ASSUME NEW u \in Tab, screen'[u].phase = "starting", NEW b \in Arm,
               screen'[u].targets[b] # "none"
        PROVE  screen'[u].targets[b] = "pending" /\ run'[screen'[u].launch][b] # "none"
    <3>1. CASE u = t
      BY <1>1, <1>3, <1>4, <2>3, <3>1 DEF WholeInv, CopiesAgree
    <3>2. CASE u # t
      <4>1. screen'[u] = screen[u] /\ screen[u].launch \in Launch /\ screen[u].launch # l
        BY <1>4, <1>5, <2>3, <3>2 DEF TypeInv, TypeOK, Screen
      <4>2. QED
        BY <1>3, <2>3, <4>1 DEF WholeInv, CopiesAgree
    <3>3. QED
      BY <3>1, <3>2
  <2>4. QED
    BY <2>1, <2>2, <2>3 DEF CopiesAgree
<1>7. PostsAreWhole' /\ WorkspacesAreWhole'
  BY <1>1, <1>3, <1>5, CallsKept DEF NoCallStarts
<1>8. QED
  BY <1>6, <1>7 DEF WholeInv

LEMMA RememberWhole ==
    ASSUME TypeInv, OnceInv, WholeInv, NEW t \in Tab, Remember(t)
    PROVE  WholeInv'
<1> DEFINE l == screen[t].launch
           new == [targets |-> screen[t].targets, workspace |-> "no", attempts |-> 0,
                   groupingFailed |-> FALSE, created |-> clock']
<1>1. /\ UNCHANGED <<run, members, used, sweep>> /\ screen[t].phase = "starting"
      /\ screen[t] \in Screen /\ l \in Launch /\ l \in used /\ Untouched(l)
  BY DEF Remember, server, TypeInv, TypeOK, Screen, OnceInv, StartsAreFresh
<1>2. StartsStay
  <2>1. screen' = [screen EXCEPT ![t] = Form]
        \/ screen' = [screen EXCEPT ![t] = [screen[t] EXCEPT !.phase = "panel"]]
    BY DEF Remember
  <2>2. Form.phase = "form" /\ [screen[t] EXCEPT !.phase = "panel"].phase = "panel"
    BY <1>1 DEF Form, Screen
  <2>3. QED
    BY <2>1, <2>2 DEF StartsStay, TypeInv, TypeOK
<1>3. CASE UNCHANGED store
  BY <1>1, <1>2, <1>3, QuietWhole, SameRecords DEF CopiesStay, NoCallStarts
<1>4. CASE store' # store /\ WriteLaunches([store EXCEPT ![l] = new])
  <2>1. new.workspace = "no" /\ Knows(new.targets, l)
    BY <1>1 DEF Knows, Terminal, WholeInv, CopiesAgree
  <2> DEFINE st == [store EXCEPT ![l] = new]
  <2>2. \A k \in Launch : (k # l => st[k] = store[k]) /\ (k = l => st[k] = new)
    BY DEF TypeInv, TypeOK
  <2>3. WriteLaunches(st)
    BY <1>4
  <2>c. store' # store
    BY <1>4
  <2> HIDE DEF st, new
  <2>4. \A k \in Launch : \/ store'[k] = NoRecord
                          \/ k # l /\ store'[k] = store[k]
                          \/ k = l /\ store'[k] = new
    BY <2>2, <2>3, <2>c, WriteKeepsOrDrops DEF TypeInv
  <2>5. \A u \in Tab : sweep[u].list[l] = NoRecord /\ ~CallAt(u, l)
    BY <1>1 DEF Untouched, WholeInv, CopiesAgree
  <2>6. CopiesAgree'
    <3>1. ASSUME NEW k \in Launch, store'[k] # NoRecord PROVE Knows(store[k].targets, k)'
      BY <1>1, <2>1, <2>4, <3>1 DEF WholeInv, CopiesAgree, Knows
    <3>2. ASSUME NEW v \in Tab, NEW k \in Launch, sweep'[v].list[k] # NoRecord
          PROVE  /\ Knows(sweep[v].list[k].targets, k)'
                 /\ store'[k] # NoRecord
                      => Launched(sweep'[v].list[k].targets) = Launched(store'[k].targets)
                 /\ k \in used'
                 /\ \A u \in Tab : screen'[u].phase = "starting" => screen'[u].launch # k
      <4>1. /\ Knows(sweep[v].list[k].targets, k) /\ k \in used /\ k # l
            /\ store[k] # NoRecord
                  => Launched(sweep[v].list[k].targets) = Launched(store[k].targets)
            /\ \A u \in Tab : screen[u].phase = "starting" => screen[u].launch # k
        BY <1>1, <2>5, <3>2 DEF WholeInv, CopiesAgree
      <4>2. Knows(sweep[v].list[k].targets, k)'
        BY <1>1, <4>1 DEF Knows
      <4>3. QED
        BY <1>1, <1>2, <2>4, <4>1, <4>2 DEF StartsStay
    <3>3. ASSUME NEW u \in Tab, screen'[u].phase = "starting", NEW b \in Arm,
                 screen'[u].targets[b] # "none"
          PROVE  screen'[u].targets[b] = "pending" /\ run'[screen'[u].launch][b] # "none"
      BY <1>1, <1>2, <3>3 DEF WholeInv, CopiesAgree, StartsStay
    <3>4. QED
      BY <3>1, <3>2, <3>3 DEF CopiesAgree
  <2>7. \A k \in Launch : \/ store'[k] = NoRecord
                          \/ store[k] # NoRecord /\ store'[k] = store[k] /\ run'[k] = run[k]
                          \/ store'[k].workspace = "no" /\ \A u \in Tab : ~CallAt(u, k)'
    <3>1. \A u \in Tab, k \in Launch : k = l => ~CallAt(u, k)'
      BY <1>1, <2>5 DEF CallAt
    <3>2. QED
      BY <1>1, <2>1, <2>4, <3>1
  <2>8. PostsAreWhole' /\ WorkspacesAreWhole'
    BY <1>1, <2>7, CallsKept DEF NoCallStarts
  <2>9. QED
    BY <2>6, <2>8 DEF WholeInv
<1>5. QED
  BY <1>3, <1>4 DEF Remember

LEMMA StartSweepWhole ==
    ASSUME TypeInv, OnceInv, WholeInv, NEW t \in Tab, StartSweep(t)
    PROVE  WholeInv'
<1> DEFINE owed == {l \in Ungrouped(store) : ~store[l].groupingFailed}
           x == [l \in Launch |-> IF l \in owed THEN store[l] ELSE NoRecord]
           s == [sweep[t] EXCEPT !.pc = "polling", !.list = x]
<1>1. /\ UNCHANGED <<run, members, store, used, screen>> /\ sweep[t] \in Sweep
      /\ sweep' = [sweep EXCEPT ![t] = s]
  BY DEF StartSweep, server, TypeInv, TypeOK
<1>2. s.pc = "polling" /\ \A l \in Launch : s.list[l] \in {store[l], NoRecord}
  BY <1>1 DEF Sweep
<1> HIDE DEF s
<1>3. sweep'[t] = s /\ \A u \in Tab : u # t => sweep'[u] = sweep[u]
  BY <1>1 DEF TypeInv, TypeOK
<1>4. CopiesAgree'
  <2>1. \A k \in Launch : store'[k] # NoRecord => Knows(store[k].targets, k)'
    BY <1>1 DEF WholeInv, CopiesAgree, Knows
  <2>2. ASSUME NEW v \in Tab, NEW k \in Launch, sweep'[v].list[k] # NoRecord
        PROVE  /\ Knows(sweep[v].list[k].targets, k)'
               /\ store'[k] # NoRecord
                    => Launched(sweep'[v].list[k].targets) = Launched(store'[k].targets)
               /\ k \in used'
               /\ \A u \in Tab : screen'[u].phase = "starting" => screen'[u].launch # k
    <3>1. CASE v = t
      <4>1. sweep'[v].list[k] = store[k] /\ store[k] # NoRecord
        BY <1>2, <1>3, <2>2, <3>1
      <4>2. k \in used /\ \A u \in Tab : screen[u].phase = "starting" => screen[u].launch # k
        BY <4>1 DEF OnceInv, StartsAreFresh, Untouched
      <4>3. Knows(sweep[v].list[k].targets, k)'
        BY <1>1, <4>1 DEF WholeInv, CopiesAgree, Knows
      <4>4. QED
        BY <1>1, <4>1, <4>2, <4>3
    <3>2. CASE v # t
      <4>1. sweep'[v] = sweep[v]
        BY <1>3, <3>2
      <4>2. Knows(sweep[v].list[k].targets, k)'
        BY <1>1, <2>2, <4>1 DEF WholeInv, CopiesAgree, Knows
      <4>3. QED
        BY <1>1, <2>2, <4>1, <4>2 DEF WholeInv, CopiesAgree
    <3>3. QED
      BY <3>1, <3>2
  <2>3. QED
    BY <1>1, <2>1, <2>2 DEF WholeInv, CopiesAgree
<1>5. NoCallStarts
  BY <1>2, <1>3 DEF NoCallStarts
<1>6. PostsAreWhole' /\ WorkspacesAreWhole'
  BY <1>1, <1>5, CallsKept
<1>7. QED
  BY <1>4, <1>6 DEF WholeInv

\* What is read again in the lock is ready: every run that the record names has
\* ended, as the record says.
LEMMA ReadyIsWhole ==
    ASSUME NEW l \in Launch, NEW x \in Targets, Knows(x, l), Ready(x)
    PROVE  Ended(x, l) /\ Completed(x) = Finishers(x, l)
<1>1. \A a \in Launched(x) : Terminal(x[a]) /\ run[l][a] = x[a]
  BY DEF Ready, StillRunning, Knows, Launched
<1>2. \A a \in Arm : x[a] = "completed" => a \in Launched(x)
  BY DEF Launched
<1>3. Ended(x, l)
  BY <1>1 DEF Ended
<1>4. Completed(x) = Finishers(x, l)
  BY <1>1, <1>2 DEF Completed, Finishers, Launched
<1>5. QED
  BY <1>3, <1>4

TargetsStay ==
    \A l \in Launch : \/ store'[l] = NoRecord
                      \/ /\ store[l] # NoRecord
                         /\ Launched(store'[l].targets) = Launched(store[l].targets)
                         /\ Knows(store'[l].targets, l)

LEMMA SameTargets ==
    ASSUME WholeInv, UNCHANGED store
    PROVE  TargetsStay
BY DEF WholeInv, CopiesAgree, TargetsStay

\* A step of one sweep that makes no run and no copy, and leaves the calls of the
\* others as they are: what it owes is said of its own launch alone.
LEMMA OneCallWhole ==
    ASSUME TypeInv, OnceInv, WholeInv, UNCHANGED <<run, used>>, TargetsStay,
           NEW t \in Tab, NEW s, sweep' = [sweep EXCEPT ![t] = s],
           \A k \in Launch : s.list[k] \in {sweep[t].list[k], NoRecord}, StartsStay
    PROVE  CopiesAgree'
<1>1. sweep'[t] = s /\ \A u \in Tab : u # t => sweep'[u] = sweep[u]
  BY DEF TypeInv, TypeOK
<1>2. CopiesStay
  BY <1>1 DEF CopiesStay
<1>4. \A l \in Launch : store'[l] # NoRecord => Knows(store[l].targets, l)'
  BY DEF TargetsStay, Knows
<1>5. ASSUME NEW u \in Tab, NEW l \in Launch, sweep'[u].list[l] # NoRecord
      PROVE  /\ Knows(sweep[u].list[l].targets, l)'
             /\ store'[l] # NoRecord
                  => Launched(sweep'[u].list[l].targets) = Launched(store'[l].targets)
             /\ l \in used'
             /\ \A v \in Tab : screen'[v].phase = "starting" => screen'[v].launch # l
  <2>1. sweep'[u].list[l] = sweep[u].list[l] /\ sweep[u].list[l] # NoRecord
    BY <1>2, <1>5 DEF CopiesStay
  <2>2. /\ Knows(sweep[u].list[l].targets, l) /\ l \in used
        /\ store[l] # NoRecord => Launched(sweep[u].list[l].targets) = Launched(store[l].targets)
        /\ \A v \in Tab : screen[v].phase = "starting" => screen[v].launch # l
    BY <2>1 DEF WholeInv, CopiesAgree
  <2>3. Knows(sweep[u].list[l].targets, l)'
    BY <2>1, <2>2 DEF Knows
  <2>4. QED
    BY <2>1, <2>2, <2>3 DEF TargetsStay, StartsStay
<1>6. QED
  BY <1>4, <1>5 DEF WholeInv, CopiesAgree, StartsStay

LEMMA TakeLockWhole ==
    ASSUME TypeInv, OnceInv, WholeInv, NEW t \in Tab, TakeLock(t)
    PROVE  WholeInv'
<1> DEFINE l == sweep[t].at
<1>1. /\ UNCHANGED <<run, members, store, used, screen>>
      /\ sweep[t].pc = "locking" /\ sweep[t] \in Sweep /\ l \in Launch
  BY SweepFields DEF TakeLock, server, TypeInv, TypeOK
<1>2. CASE Handled(t, l)
  BY <1>1, <1>2, HandledCopies, QuietWhole, SameRecords DEF StartsStay
<1>3. CASE /\ store[l] # NoRecord /\ store[l].workspace = "no" /\ Ready(store[l].targets)
           /\ sweep' = [sweep EXCEPT ![t].pc = "posting",
                                     ![t].posted = Completed(store[l].targets)]
  <2> DEFINE s == [sweep[t] EXCEPT !.pc = "posting", !.posted = Completed(store[l].targets)]
  <2>1. sweep' = [sweep EXCEPT ![t] = s]
    BY <1>3
  <2>2. s.pc = "posting" /\ s.at = l /\ s.list = sweep[t].list
        /\ s.posted = Completed(store[l].targets)
    BY <1>1 DEF Sweep
  <2> HIDE DEF s
  <2>o. sweep'[t] = s /\ \A u \in Tab : u # t => sweep'[u] = sweep[u]
    BY <2>1 DEF TypeInv, TypeOK
  <2>3. CopiesAgree'
    BY <1>1, <2>1, <2>2, OneCallWhole, SameTargets DEF StartsStay
  <2>4. Ended(store[l].targets, l) /\ Completed(store[l].targets) = Finishers(store[l].targets, l)
    <3>1. store[l].targets \in Targets /\ Knows(store[l].targets, l)
      BY <1>1, <1>3 DEF TypeInv, TypeOK, Record, WholeInv, CopiesAgree
    <3>2. QED
      BY <1>1, <1>3, <3>1, ReadyIsWhole
  <2>5. PostsAreWhole'
    <3>1. ASSUME NEW u \in Tab, NEW k \in Launch, CallAt(u, k)', store'[k] # NoRecord
          PROVE  /\ Ended(store[k].targets, k)'
                 /\ sweep'[u].posted = Finishers(store[k].targets, k)'
                 /\ CommittedAt(u, k)' => members'[k] = sweep'[u].posted
      <4>1. CASE u = t
        <5>1. k = l /\ ~CommittedAt(u, k)'
          BY <2>2, <2>o, <3>1, <4>1 DEF CallAt, CommittedAt
        <5>2. Ended(store[k].targets, k)'
          BY <1>1, <2>4, <5>1 DEF Ended
        <5>3. Finishers(store[k].targets, k)' = Finishers(store[k].targets, k)
          BY <1>1 DEF Finishers
        <5>4. QED
          BY <1>1, <1>3, <2>2, <2>4, <2>o, <4>1, <5>1, <5>2, <5>3
      <4>2. CASE u # t
        BY <1>1, <2>o, <3>1, <4>2 DEF WholeInv, PostsAreWhole, CallAt, CommittedAt, Ended,
           Finishers
      <4>3. QED
        BY <4>1, <4>2
    <3>2. QED
      BY <3>1 DEF PostsAreWhole
  <2>6. WorkspacesAreWhole'
    BY <1>1 DEF WholeInv, WorkspacesAreWhole, Ended, Finishers
  <2>7. QED
    BY <2>3, <2>5, <2>6 DEF WholeInv
<1>4. QED
  BY <1>2, <1>3 DEF TakeLock

LEMMA PostCommitsWhole ==
    ASSUME TypeInv, OnceInv, WholeInv, NEW t \in Tab, PostCommits(t)
    PROVE  WholeInv'
<1> DEFINE l == sweep[t].at
           s == [sweep[t] EXCEPT !.pc = "committed"]
<1>1. /\ UNCHANGED <<run, store, used, screen>> /\ sweep[t].pc = "posting"
      /\ sweep[t] \in Sweep /\ l \in Launch /\ sweep' = [sweep EXCEPT ![t] = s]
      /\ members' = [members EXCEPT ![l] = sweep[t].posted]
  BY SweepFields DEF PostCommits, Mint, Move, TypeInv, TypeOK
<1>2. s.pc = "committed" /\ s.at = l /\ s.list = sweep[t].list /\ s.posted = sweep[t].posted
  BY <1>1 DEF Sweep
<1> HIDE DEF s
<1>o. sweep'[t] = s /\ \A u \in Tab : u # t => sweep'[u] = sweep[u]
  BY <1>1 DEF TypeInv, TypeOK
<1>3. CopiesAgree'
  BY <1>1, <1>2, OneCallWhole, SameTargets DEF StartsStay
<1>4. members'[l] = sweep[t].posted /\ \A k \in Launch : k # l => members'[k] = members[k]
  BY <1>1 DEF TypeInv, TypeOK
<1>5. store[l] # NoRecord => /\ Ended(store[l].targets, l)
                             /\ sweep[t].posted = Finishers(store[l].targets, l)
  BY <1>1 DEF WholeInv, PostsAreWhole, CallAt
<1>6. PostsAreWhole'
  <2>1. ASSUME NEW u \in Tab, NEW k \in Launch, CallAt(u, k)', store'[k] # NoRecord
        PROVE  /\ Ended(store[k].targets, k)'
               /\ sweep'[u].posted = Finishers(store[k].targets, k)'
               /\ CommittedAt(u, k)' => members'[k] = sweep'[u].posted
    <3>1. CASE u = t
      <4>1. k = l
        BY <1>2, <1>o, <2>1, <3>1 DEF CallAt
      <4>2. QED
        BY <1>1, <1>2, <1>4, <1>5, <1>o, <2>1, <3>1, <4>1 DEF Ended, Finishers
    <3>2. CASE u # t
      <4>1. CallAt(u, k) /\ sweep'[u] = sweep[u]
        BY <1>o, <2>1, <3>2 DEF CallAt
      <4>2. /\ Ended(store[k].targets, k)
            /\ sweep[u].posted = Finishers(store[k].targets, k)
            /\ CommittedAt(u, k) => members[k] = sweep[u].posted
        BY <1>1, <2>1, <4>1 DEF WholeInv, PostsAreWhole
      <4>3. CommittedAt(u, k)' => CommittedAt(u, k)
        BY <4>1 DEF CommittedAt
      <4>4. members'[k] = members[k] \/ members'[k] = Finishers(store[k].targets, k)
        BY <1>1, <1>4, <1>5, <2>1
      <4>5. /\ Ended(store[k].targets, k)' = Ended(store[k].targets, k)
            /\ Finishers(store[k].targets, k)' = Finishers(store[k].targets, k)
        BY <1>1 DEF Ended, Finishers
      <4>6. QED
        BY <4>1, <4>2, <4>3, <4>4, <4>5
    <3>3. QED
      BY <3>1, <3>2
  <2>2. QED
    BY <2>1 DEF PostsAreWhole
<1>7. WorkspacesAreWhole'
  <2>1. \A k \in Launch : store[k] # NoRecord =>
          members'[k] = members[k] \/ members'[k] = Finishers(store[k].targets, k)
    BY <1>4, <1>5
  <2>2. QED
    BY <1>1, <2>1 DEF WholeInv, WorkspacesAreWhole, Ended, Finishers
<1>8. QED
  BY <1>3, <1>6, <1>7 DEF WholeInv

LEMMA PostAnsweredWhole ==
    ASSUME TypeInv, OnceInv, WholeInv, NEW t \in Tab, PostAnswered(t)
    PROVE  WholeInv'
<1> DEFINE s == [sweep[t] EXCEPT !.pc = "tagging"]
           patched == [store[sweep[t].at] EXCEPT !.workspace = "kept"]
<1>1. PICK l \in Launch : l = sweep[t].at
  BY SweepFields DEF TypeInv, TypeOK
<1>2. /\ UNCHANGED <<run, members, used, screen>> /\ CommittedAt(t, l) /\ CallAt(t, l)
      /\ sweep[t] \in Sweep /\ sweep' = [sweep EXCEPT ![t] = s] /\ UpdateLaunch(l, patched)
  BY <1>1 DEF PostAnswered, server, Move, TypeInv, TypeOK, CommittedAt, CallAt
<1>3. s.pc = "tagging" /\ s.list = sweep[t].list
  BY <1>2 DEF Sweep
<1>4. store[l] # NoRecord => patched.workspace = "kept" /\ patched.targets = store[l].targets
  BY <1>1 DEF TypeInv, TypeOK, Record
<1> HIDE DEF s, patched
<1>o. sweep'[t] = s /\ \A u \in Tab : u # t => sweep'[u] = sweep[u]
  BY <1>2 DEF TypeInv, TypeOK
<1>5. \A k \in Launch : \/ store'[k] = NoRecord
                        \/ store'[k] = store[k]
                        \/ k = l /\ store[l] # NoRecord /\ store'[l] = patched
  BY <1>2, UpdateKeepsOrDrops DEF TypeInv
<1>6. \A k \in Launch : store'[k] # NoRecord =>
        store[k] # NoRecord /\ store'[k].targets = store[k].targets
  BY <1>4, <1>5
<1>7. TargetsStay
  BY <1>2, <1>6 DEF TargetsStay, WholeInv, CopiesAgree
<1>8. CopiesAgree'
  BY <1>2, <1>3, <1>7, OneCallWhole DEF StartsStay
<1>9. PostsAreWhole'
  <2>1. ASSUME NEW u \in Tab, NEW k \in Launch, CallAt(u, k)', store'[k] # NoRecord
        PROVE  /\ Ended(store[k].targets, k)'
               /\ sweep'[u].posted = Finishers(store[k].targets, k)'
               /\ CommittedAt(u, k)' => members'[k] = sweep'[u].posted
    <3>1. u # t /\ sweep'[u] = sweep[u]
      BY <1>3, <1>o, <2>1 DEF CallAt
    <3>2. CallAt(u, k)
      BY <2>1, <3>1 DEF CallAt
    <3>3. store[k] # NoRecord /\ store'[k].targets = store[k].targets
      BY <1>6, <2>1
    <3>4. QED
      BY <1>2, <3>1, <3>2, <3>3 DEF WholeInv, PostsAreWhole, CommittedAt, Ended, Finishers
  <2>2. QED
    BY <2>1 DEF PostsAreWhole
<1>10. WorkspacesAreWhole'
  <2>1. ASSUME NEW k \in Launch, store'[k] # NoRecord, store'[k].workspace # "no"
        PROVE  Ended(store[k].targets, k)' /\ members'[k] = Finishers(store[k].targets, k)'
    <3>1. CASE k = l
      <4>1. Ended(store[k].targets, k) /\ members[k] = Finishers(store[k].targets, k)
        BY <1>2, <1>6, <2>1, <3>1 DEF WholeInv, PostsAreWhole
      <4>2. QED
        BY <1>2, <1>6, <2>1, <4>1 DEF Ended, Finishers
    <3>2. CASE k # l
      <4>1. store'[k] = store[k] /\ store[k] # NoRecord
        BY <1>5, <2>1, <3>2
      <4>2. QED
        BY <1>2, <2>1, <4>1 DEF WholeInv, WorkspacesAreWhole, Ended, Finishers
    <3>3. QED
      BY <3>1, <3>2
  <2>2. QED
    BY <2>1 DEF WorkspacesAreWhole
<1>11. QED
  BY <1>8, <1>9, <1>10 DEF WholeInv

LEMMA CloseTabWhole ==
    ASSUME TypeInv, OnceInv, WholeInv, NEW t \in Tab, CloseTab(t)
    PROVE  WholeInv'
<1> DEFINE s == SweepAt("closed")
<1>1. /\ UNCHANGED <<run, store, used>> /\ sweep' = [sweep EXCEPT ![t] = s]
      /\ screen' = [screen EXCEPT ![t] = Form] /\ Form.phase = "form" /\ s.pc = "closed"
      /\ \A l \in Launch : s.list[l] = NoRecord
  BY SweepAtType DEF CloseTab, Form, SweepAt, EmptyList, SweepPc
<1> HIDE DEF s
<1>o. sweep'[t] = s /\ \A u \in Tab : u # t => sweep'[u] = sweep[u]
  BY <1>1 DEF TypeInv, TypeOK
<1>2. StartsStay
  BY <1>1 DEF StartsStay, TypeInv, TypeOK
<1>f. CopiesStay /\ NoCallStarts
  BY <1>1, <1>o DEF CopiesStay, NoCallStarts
<1>3. CASE UNCHANGED members
  <2>1. RecordsKeepRuns
    BY <1>1, SameRecords
  <2>2. QED
    BY <1>1, <1>2, <1>3, <1>f, <2>1, QuietWhole
<1>4. CASE sweep[t].pc = "posting" /\ Mint(sweep[t].at, sweep[t].posted)
  <2>1. PICK l \in Launch : l = sweep[t].at
    BY SweepFields DEF TypeInv, TypeOK
  <2>2. /\ CallAt(t, l)
        /\ members'[l] = sweep[t].posted /\ \A k \in Launch : k # l => members'[k] = members[k]
    BY <1>4, <2>1 DEF CallAt, Mint, TypeInv, TypeOK
  <2>w. \A k \in Launch : store[k] # NoRecord =>
          members'[k] = members[k] \/ members'[k] = Finishers(store[k].targets, k)
    BY <2>2 DEF WholeInv, PostsAreWhole
  <2>3. CopiesAgree'
    <3>1. TargetsStay /\ \A k \in Launch : s.list[k] \in {sweep[t].list[k], NoRecord}
      BY <1>1, SameTargets
    <3>2. QED
      BY <1>1, <1>2, <3>1, OneCallWhole
  <2>4. PostsAreWhole'
    <3>1. ASSUME NEW u \in Tab, NEW k \in Launch, CallAt(u, k)', store'[k] # NoRecord
          PROVE  /\ Ended(store[k].targets, k)'
                 /\ sweep'[u].posted = Finishers(store[k].targets, k)'
                 /\ CommittedAt(u, k)' => members'[k] = sweep'[u].posted
      <4>1. u # t /\ sweep'[u] = sweep[u]
        BY <1>1, <1>o, <3>1 DEF CallAt
      <4>2. CallAt(u, k)
        BY <3>1, <4>1 DEF CallAt
      <4>3. /\ Ended(store[k].targets, k)
            /\ sweep[u].posted = Finishers(store[k].targets, k)
            /\ CommittedAt(u, k) => members[k] = sweep[u].posted
        BY <1>1, <3>1, <4>2 DEF WholeInv, PostsAreWhole
      <4>4. CommittedAt(u, k)' => CommittedAt(u, k)
        BY <4>1 DEF CommittedAt
      <4>5. members'[k] = members[k] \/ members'[k] = Finishers(store[k].targets, k)
        BY <1>1, <2>w, <3>1
      <4>6. /\ Ended(store[k].targets, k)' = Ended(store[k].targets, k)
            /\ Finishers(store[k].targets, k)' = Finishers(store[k].targets, k)
        BY <1>1 DEF Ended, Finishers
      <4>7. QED
        BY <4>1, <4>3, <4>4, <4>5, <4>6
    <3>2. QED
      BY <3>1 DEF PostsAreWhole
  <2>5. WorkspacesAreWhole'
    <3>1. ASSUME NEW k \in Launch, store[k] # NoRecord, store[k].workspace # "no"
          PROVE  Ended(store[k].targets, k)' /\ members'[k] = Finishers(store[k].targets, k)'
      <4>1. Ended(store[k].targets, k) /\ members'[k] = Finishers(store[k].targets, k)
        BY <2>w, <3>1 DEF WholeInv, WorkspacesAreWhole
      <4>2. QED
        BY <1>1, <4>1 DEF Ended, Finishers
    <3>2. QED
      BY <1>1, <3>1 DEF WorkspacesAreWhole
  <2>6. QED
    BY <2>3, <2>4, <2>5 DEF WholeInv
<1>5. QED
  BY <1>3, <1>4 DEF CloseTab

LEMMA NextWhole == TypeInv /\ OnceInv /\ WholeInv /\ [Next]_vars => WholeInv'
<1> SUFFICES ASSUME TypeInv, OnceInv, WholeInv, [Next]_vars PROVE WholeInv'
  OBVIOUS
<1>1. CASE UNCHANGED vars
  <2>1. UNCHANGED <<run, members, used, store, sweep, screen>>
    BY <1>1 DEF vars, server
  <2>2. CopiesStay /\ NoCallStarts /\ StartsStay
    BY <2>1 DEF CopiesStay, NoCallStarts, StartsStay
  <2>3. QED
    BY <2>1, <2>2, QuietWhole, SameRecords
<1>2. CASE Next
  <2>1. ASSUME NEW t \in Tab, SweepStep(t) PROVE WholeInv'
    BY <2>1, QuietWholeSteps, StartSweepWhole, TakeLockWhole, PostCommitsWhole, PostAnsweredWhole
       DEF SweepStep
  <2>2. ASSUME NEW t \in Tab, ScreenStep(t) PROVE WholeInv'
    BY <2>2, QuietWholeSteps, LaunchWhole, StartArmWhole, RememberWhole DEF ScreenStep
  <2>3. QED
    BY <1>2, <2>1, <2>2, QuietWholeSteps, RunEndsWhole, CloseTabWhole DEF Next
<1>3. QED
  BY <1>1, <1>2

\* bakeoff.ts:115: grouping early would leave later finishers outside for ever.
\* Whatever the tabs read late, write over each other or lose, the workspace that a
\* record names holds every completed run that the launch knows of, and all of them
\* have ended.
THEOREM WorkspacesHoldAllFinishers == Spec => []GroupedWhole
<1>1. WholeInv => GroupedWhole
  BY DEF WholeInv, WorkspacesAreWhole, GroupedWhole, Stored, Ungrouped, Ended, Finishers
<1>2. QED
  BY <1>1, InitType, NextType, InitOnce, NextOnce, InitWhole, NextWhole, PTL DEF Spec, Safety
-----------------------------------------------------------------------------
(* Owed launches are kept *)

\* Between two writes localStorage holds MAX_REMEMBERED_LAUNCHES records at most.
Remembered == Cardinality(Stored(store)) <= MaxRemembered

\* What OwedLaunchIsKept says of one step.
OwedStays ==
    \A l \in Ungrouped(store) : l \in Stored(store)' \/ Hopeless(l) \/ Crowded(l)

\* There are finitely many launches, so that every set of them can be counted.
LEMMA LaunchesCount ==
    \A S \in SUBSET Launch :
        /\ IsFiniteSet(S) /\ Cardinality(S) \in Nat
        /\ \A T \in SUBSET S : /\ Cardinality(T) <= Cardinality(S)
                               /\ Cardinality(S) = Cardinality(T) => S = T
<1> SUFFICES ASSUME NEW S \in SUBSET Launch
             PROVE  /\ IsFiniteSet(S) /\ Cardinality(S) \in Nat
                    /\ \A T \in SUBSET S : /\ Cardinality(T) <= Cardinality(S)
                                           /\ Cardinality(S) = Cardinality(T) => S = T
  OBVIOUS
<1>1. IsFiniteSet(S)
  BY FS_Subset, ComparisonAssumption DEF ComparisonAssumption
<1>2. Cardinality(S) \in Nat
  BY <1>1, FS_CardinalityType
<1>3. QED
  BY <1>1, <1>2, FS_Subset

\* A write cuts what it is given to the bound.
LEMMA WriteRemembers ==
    ASSUME NEW st, WriteLaunches(st), Remembered
    PROVE  Remembered'
<1> SUFFICES ASSUME ~UNCHANGED store PROVE Remembered'
  BY DEF Remembered, Stored
<1>1. PICK K \in Kept(st) : store' = [l \in Launch |-> IF l \in K THEN st[l] ELSE NoRecord]
  BY DEF WriteLaunches
<1>2. K \in SUBSET Launch /\ Cardinality(K) <= MaxRemembered
  BY <1>1 DEF Kept, Live, Stored
<1>3. Stored(store)' \in SUBSET K
  BY <1>1 DEF Stored
<1>4. Cardinality(Stored(store)') <= Cardinality(K)
  BY <1>2, <1>3, LaunchesCount
<1>5. Cardinality(Stored(store)') \in Nat /\ Cardinality(K) \in Nat
  BY <1>2, <1>3, LaunchesCount
<1>6. QED
  BY <1>2, <1>4, <1>5, ConstantsOK DEF Remembered

\* A write of records for which there is room drops only those past their retention.
LEMMA RoomDropsNothing ==
    ASSUME NEW st, WriteLaunches(st), Cardinality(Stored(st)) <= MaxRemembered
    PROVE  UNCHANGED store \/ \A l \in Live(st) : store'[l] = st[l]
<1> SUFFICES ASSUME ~UNCHANGED store PROVE \A l \in Live(st) : store'[l] = st[l]
  OBVIOUS
<1>1. PICK K \in Kept(st) : store' = [l \in Launch |-> IF l \in K THEN st[l] ELSE NoRecord]
  BY DEF WriteLaunches
<1>2. /\ K \in SUBSET Live(st) /\ Live(st) \in SUBSET Stored(st)
      /\ Stored(st) \in SUBSET Launch /\ Live(st) \in SUBSET Launch /\ K \in SUBSET Launch
      /\ Cardinality(K) = MaxRemembered \/ K = Live(st)
  BY <1>1 DEF Kept, Live, Stored
<1>3. /\ Cardinality(K) <= Cardinality(Live(st))
      /\ Cardinality(Live(st)) <= Cardinality(Stored(st))
      /\ Cardinality(K) \in Nat /\ Cardinality(Live(st)) \in Nat
      /\ Cardinality(Stored(st)) \in Nat
      /\ Cardinality(Live(st)) = Cardinality(K) => Live(st) = K
  BY <1>2, LaunchesCount
<1>4. CASE Cardinality(K) = MaxRemembered
  BY <1>1, <1>2, <1>3, <1>4, ConstantsOK
<1>5. CASE K = Live(st)
  BY <1>1, <1>2, <1>5
<1>6. QED
  BY <1>2, <1>4, <1>5

\* A record is updated in its place: no owed record is dropped, whoever's it is.
LEMMA UpdateKeepsOwed ==
    ASSUME TypeInv, Remembered, NEW l \in Launch, NEW patched, UpdateLaunch(l, patched),
           l \in Ungrouped(store) => patched \in Record /\ patched.workspace # "old"
    PROVE  \A k \in Ungrouped(store) : k \in Stored(store)'
<1> DEFINE st == IF store[l] = NoRecord THEN store ELSE [store EXCEPT ![l] = patched]
<1>1. WriteLaunches(st)
  BY DEF UpdateLaunch
<1>2. \A k \in Launch : \/ st[k] = store[k]
                        \/ k = l /\ store[l] # NoRecord /\ st[k] = patched
  BY DEF TypeInv, TypeOK
<1> HIDE DEF st
<1>3. Stored(st) \in SUBSET Stored(store) /\ Stored(store) \in SUBSET Launch
      /\ Stored(st) \in SUBSET Launch
  BY <1>2 DEF Stored
<1>4. Cardinality(Stored(st)) <= Cardinality(Stored(store))
      /\ Cardinality(Stored(st)) \in Nat /\ Cardinality(Stored(store)) \in Nat
  BY <1>3, LaunchesCount
<1>5. Cardinality(Stored(st)) <= MaxRemembered
  BY <1>4, ConstantsOK DEF Remembered
<1>6. ASSUME NEW k \in Ungrouped(store) PROVE k \in Stored(store)'
  <2>1. k \in Launch /\ store[k] # NoRecord /\ store[k].workspace = "no"
    BY DEF Ungrouped, Stored
  <2>2. k \in Live(st) /\ st[k] # NoRecord
    BY <1>2, <1>6, <2>1, RecordAssumption DEF Live, Stored
  <2>3. store'[k] = store[k] \/ store'[k] = st[k]
    BY <1>1, <1>5, <2>2, RoomDropsNothing
  <2>4. QED
    BY <2>1, <2>2, <2>3 DEF Stored
<1>7. QED
  BY <1>6

\* The sweep forgets a launch only when every run that the record names has ended
\* and too few of them completed: one that it could not read counts as running.
LEMMA PollKeepsOwed ==
    ASSUME TypeInv, WholeInv, Remembered, NEW t \in Tab, NEW l \in Launch, Poll(t, l)
    PROVE  OwedStays /\ Remembered'
<1> DEFINE old == sweep[t].list[l].targets
           asked == {a \in Launched(old) : ~Terminal(old[a])}
<1>1. PICK answered \in SUBSET asked :
        LET targets == [a \in Arm |-> IF a \in answered THEN run[l][a] ELSE old[a]] IN
        IF TooFew(targets)
        THEN WriteLaunches([store EXCEPT ![l] = NoRecord])
        ELSE UpdateLaunch(l, [store[l] EXCEPT !.targets = targets])
  BY DEF Poll
<1> DEFINE targets == [a \in Arm |-> IF a \in answered THEN run[l][a] ELSE old[a]]
<1>2. l \in Stored(sweep[t].list) /\ sweep[t].list[l] # NoRecord
  BY DEF Poll, Stored
<1>3. Remembered'
  BY <1>1, WriteRemembers DEF UpdateLaunch
<1>4. CASE TooFew(targets)
  <2>1. \A a \in Launched(targets) : Terminal(targets[a])
    BY <1>4 DEF TooFew, StillRunning
  <2>2. /\ \A a \in Arm : targets[a] = IF a \in answered THEN run[l][a] ELSE old[a]
        /\ asked = {a \in Launched(old) : ~Terminal(old[a])} /\ answered \in SUBSET asked
    OBVIOUS
  <2>3. Knows(old, l)
    BY <1>2 DEF WholeInv, CopiesAgree
  <2> HIDE DEF old, asked
  <2>4. \A a \in Arm : /\ old[a] = "none" => targets[a] = "none"
                       /\ old[a] # "none" => targets[a] = run[l][a]
    <3> HIDE DEF targets
    <3> SUFFICES ASSUME NEW a \in Arm
                 PROVE  /\ old[a] = "none" => targets[a] = "none"
                        /\ old[a] # "none" => targets[a] = run[l][a]
      OBVIOUS
    <3>1. CASE a \in answered
      BY <2>2, <3>1 DEF Launched
    <3>2. CASE a \notin answered
      BY <2>1, <2>2, <2>3, <3>2 DEF Knows, Launched, Terminal
    <3>3. QED
      BY <3>1, <3>2
  <2>5. store[l] # NoRecord => Hopeless(l)
    <3> SUFFICES ASSUME store[l] # NoRecord PROVE Hopeless(l)
      OBVIOUS
    <3>1. Launched(old) = Launched(store[l].targets)
      BY <1>2 DEF WholeInv, CopiesAgree, old
    <3>2. \A a \in Arm : old[a] = "none" <=> store[l].targets[a] = "none"
      BY <3>1 DEF Launched
    <3>3. targets = [a \in Arm |-> IF store[l].targets[a] = "none" THEN "none"
                                   ELSE run[l][a]]
      BY <2>4, <3>2
    <3>4. QED
      BY <1>4, <3>3 DEF Hopeless
  <2> DEFINE gone == [store EXCEPT ![l] = NoRecord]
  <2>6. WriteLaunches(gone)
    BY <1>1, <1>4 DEF old
  <2>7. \A k \in Launch : IF k = l THEN gone[k] = NoRecord ELSE gone[k] = store[k]
    BY DEF TypeInv, TypeOK
  <2> HIDE DEF gone, targets
  <2>8. /\ Stored(gone) \in SUBSET Stored(store) /\ Stored(store) \in SUBSET Launch
        /\ Stored(gone) \in SUBSET Launch
    BY <2>7 DEF Stored
  <2>9. /\ Cardinality(Stored(gone)) <= Cardinality(Stored(store))
        /\ Cardinality(Stored(gone)) \in Nat /\ Cardinality(Stored(store)) \in Nat
    BY <2>8, LaunchesCount
  <2>10. UNCHANGED store \/ \A k \in Live(gone) : store'[k] = gone[k]
    BY <2>6, <2>9, RoomDropsNothing, ConstantsOK DEF Remembered
  <2>11. ASSUME NEW k \in Ungrouped(store) PROVE k \in Stored(store)' \/ Hopeless(k)
    <3>1. k \in Launch /\ store[k] # NoRecord /\ store[k].workspace = "no"
      BY DEF Ungrouped, Stored
    <3>2. CASE k = l
      BY <2>5, <3>1, <3>2
    <3>3. CASE k # l
      BY <2>7, <2>10, <3>1, <3>3 DEF Live, Stored
    <3>4. QED
      BY <3>2, <3>3
  <2>12. QED
    BY <1>3, <2>11 DEF OwedStays
<1>5. CASE ~TooFew(targets)
  <2> DEFINE patched == [store[l] EXCEPT !.targets = targets]
  <2>1. UpdateLaunch(l, patched)
    BY <1>1, <1>5
  <2>2. targets \in Targets
    <3>1. sweep[t] \in Sweep
      BY DEF TypeInv, TypeOK
    <3>2. sweep[t].list[l] \in Record
      BY <1>2, <3>1, SweepFields
    <3>3. old \in Targets /\ run[l] \in Targets
      BY <3>2 DEF Record, TypeInv, TypeOK
    <3>4. QED
      BY <3>3 DEF Targets
  <2> HIDE DEF targets
  <2>3. l \in Ungrouped(store) => patched \in Record /\ patched.workspace # "old"
    BY <2>2 DEF Ungrouped, Stored, TypeInv, TypeOK, Record
  <2> HIDE DEF patched
  <2>4. QED
    BY <1>3, <2>1, <2>3, UpdateKeepsOwed DEF OwedStays
<1>6. QED
  BY <1>4, <1>5

\* rememberLaunch adds a record: an ungrouped one that has to go for it is older
\* than MAX_REMEMBERED_LAUNCHES others, which are all kept.
LEMMA RememberKeepsOwed ==
    ASSUME TypeInv, OnceInv, Remembered, NEW t \in Tab, Remember(t)
    PROVE  OwedStays /\ Remembered'
<1> DEFINE l == screen[t].launch
           new == [targets |-> screen[t].targets, workspace |-> "no", attempts |-> 0,
                   groupingFailed |-> FALSE, created |-> clock']
<1>1. l \in Launch /\ store[l] = NoRecord
  BY DEF Remember, TypeInv, TypeOK, Screen, OnceInv, StartsAreFresh, Untouched
<1>2. CASE UNCHANGED store
  BY <1>2 DEF OwedStays, Remembered, Ungrouped, Stored
<1>3. CASE /\ ~UNCHANGED store
           /\ WriteLaunches([store EXCEPT ![l] = new]) /\ clock' = clock + 1
  <2> DEFINE st == [store EXCEPT ![l] = new]
  <2>1. new \in Record
    <3>1. screen[t].targets \in Targets
      BY DEF TypeInv, TypeOK, Screen
    <3>2. clock' \in Nat \ {0}
      BY <1>3 DEF TypeInv, TypeOK
    <3>3. QED
      BY <3>1, <3>2, ConstantsOK DEF Record
  <2>2. \A k \in Launch : IF k = l THEN st[k] = new ELSE st[k] = store[k]
    BY DEF TypeInv, TypeOK
  <2>3. PICK K \in Kept(st) : store' = [k \in Launch |-> IF k \in K THEN st[k] ELSE NoRecord]
    BY <1>3 DEF WriteLaunches
  <2>4. Remembered'
    BY <1>3, WriteRemembers
  <2> HIDE DEF st, new
  <2> DEFINE U == Ungrouped(st)
             Newer(k) == {j \in U : st[j].created > st[k].created}
  <2>5. /\ \A k \in Stored(st) : st[k] \in Record
        /\ \A k \in U : k \in Launch /\ k \in Stored(st) /\ st[k].workspace = "no"
        /\ \A k \in Stored(st) : st[k].created \in Int
    <3>1. \A k \in Stored(st) : st[k] \in Record
      BY <2>1, <2>2 DEF Stored, TypeInv, TypeOK
    <3>2. QED
      BY <3>1 DEF Ungrouped, Stored, Record
  <2>6. Stored(st) \in SUBSET Launch /\ Cardinality(Stored(st)) \in Nat
        /\ Cardinality(Stored(st)) <= MaxRemembered + 1
    <3>1. Stored(st) \in SUBSET (Stored(store) \cup {l}) /\ Stored(store) \in SUBSET Launch
          /\ (Stored(store) \cup {l}) \in SUBSET Launch /\ Stored(st) \in SUBSET Launch
          /\ l \notin Stored(store)
      BY <1>1, <2>2 DEF Stored
    <3>2. IsFiniteSet(Stored(store)) /\ Cardinality(Stored(store)) \in Nat
          /\ Cardinality(Stored(st)) \in Nat
          /\ Cardinality(Stored(st)) <= Cardinality(Stored(store) \cup {l})
      BY <3>1, LaunchesCount
    <3>3. Cardinality(Stored(store) \cup {l}) = Cardinality(Stored(store)) + 1
      BY <3>1, <3>2, FS_AddElement
    <3>4. QED
      BY <3>1, <3>2, <3>3, ConstantsOK DEF Remembered
  <2>7. \A k \in U : Cardinality(Newer(k)) < MaxRemembered => k \in K
    BY <2>3 DEF Kept, Newest
  <2> HIDE DEF U
  <2>8. ASSUME NEW k \in Ungrouped(store), k \notin Stored(store)' PROVE Crowded(k)
    <3>1. k \in Launch /\ k # l /\ st[k] = store[k] /\ k \in U /\ k \notin K
      <4>1. k \in Launch /\ store[k] # NoRecord /\ store[k].workspace = "no"
        BY DEF Ungrouped, Stored
      <4>2. k # l /\ st[k] = store[k]
        BY <1>1, <2>2, <4>1
      <4>3. k \in U
        BY <4>1, <4>2 DEF U, Ungrouped, Stored
      <4>4. k \notin K
        BY <2>3, <2>8, <4>1, <4>2 DEF Stored
      <4>5. QED
        BY <4>1, <4>2, <4>3, <4>4
    <3> DEFINE A == Newer(k)
               rest == Stored(st) \ {k}
    <3>2. A \in SUBSET rest /\ rest \in SUBSET Launch /\ A \in SUBSET Launch
      BY <2>5, <2>6, <3>1
    <3>3. Cardinality(rest) <= MaxRemembered /\ Cardinality(rest) \in Nat
      <4>1. IsFiniteSet(Stored(st)) /\ k \in Stored(st)
        BY <2>5, <2>6, <3>1, LaunchesCount
      <4>2. Cardinality(rest) = Cardinality(Stored(st)) - 1
        BY <4>1, FS_RemoveElement
      <4>3. Cardinality(rest) \in Nat
        BY <3>2, LaunchesCount
      <4>4. QED
        BY <2>6, <4>2, <4>3, ConstantsOK
    <3>4. Cardinality(A) <= Cardinality(rest) /\ Cardinality(A) \in Nat
      BY <3>2, LaunchesCount
    <3>5. Cardinality(A) >= MaxRemembered
      BY <2>7, <3>1, <3>4, ConstantsOK
    <3>6. ASSUME NEW j \in A PROVE j \in K /\ st[j].created > st[k].created /\ j \in U
      <4>1. j \in U /\ st[j].created > st[k].created /\ j \in Stored(st) /\ k \in Stored(st)
        BY <2>5, <3>1
      <4>2. Newer(j) \in SUBSET (A \ {j})
        BY <2>5, <4>1
      <4>3. IsFiniteSet(A) /\ Cardinality(A \ {j}) = Cardinality(A) - 1
        BY <3>2, <3>6, LaunchesCount, FS_RemoveElement
      <4>4. (A \ {j}) \in SUBSET Launch /\ Newer(j) \in SUBSET Launch
        BY <3>2, <4>2
      <4>5. Cardinality(Newer(j)) <= Cardinality(A \ {j}) /\ Cardinality(Newer(j)) \in Nat
        BY <4>2, <4>4, LaunchesCount
      <4>6. Cardinality(Newer(j)) < MaxRemembered
        BY <3>3, <3>4, <4>3, <4>5, ConstantsOK
      <4>7. QED
        BY <2>7, <4>1, <4>6
    <3> DEFINE crowd == {j \in Ungrouped(store)' : store'[j].created > store[k].created}
    <3>7. A \in SUBSET crowd
      <4> SUFFICES ASSUME NEW j \in A PROVE j \in crowd
        OBVIOUS
      <4>1. j \in Launch /\ j \in K /\ st[j].created > st[k].created /\ j \in U
        BY <3>2, <3>6
      <4>2. store'[j] = st[j] /\ st[j] # NoRecord /\ st[j].workspace = "no"
        BY <2>3, <2>5, <4>1 DEF Stored
      <4>3. QED
        BY <3>1, <4>1, <4>2 DEF Ungrouped, Stored
    <3>8. crowd \in SUBSET Launch
      BY DEF Ungrouped, Stored
    <3> HIDE DEF A, crowd, rest
    <3>9. Cardinality(A) <= Cardinality(crowd) /\ Cardinality(crowd) \in Nat
      BY <3>7, <3>8, LaunchesCount
    <3>10. Cardinality(crowd) >= MaxRemembered
      BY <3>4, <3>5, <3>9, ConstantsOK
    <3>11. QED
      BY <3>10 DEF Crowded, crowd
  <2>9. QED
    BY <2>4, <2>8 DEF OwedStays
<1>4. QED
  BY <1>2, <1>3 DEF Remember

LEMMA NextKeepsOwed ==
    ASSUME TypeInv, OnceInv, WholeInv, Remembered, [Next]_vars
    PROVE  OwedStays /\ Remembered'
<1>s. ASSUME UNCHANGED store PROVE OwedStays /\ Remembered'
  BY <1>s DEF OwedStays, Remembered, Ungrouped, Stored
<1>1. ASSUME NEW l \in Launch, Ages(l) PROVE OwedStays /\ Remembered'
  <2>1. /\ store[l] # NoRecord /\ store[l].workspace = "kept"
        /\ \A k \in Launch : k # l => store'[k] = store[k]
    BY <1>1 DEF Ages, TypeInv, TypeOK
  <2>2. \A k \in Ungrouped(store) : k \in Stored(store)'
    BY <2>1 DEF Ungrouped, Stored
  <2>3. /\ Stored(store)' \in SUBSET Stored(store) /\ Stored(store) \in SUBSET Launch
        /\ Stored(store)' \in SUBSET Launch
    BY <2>1 DEF Stored
  <2>4. /\ Cardinality(Stored(store)') <= Cardinality(Stored(store))
        /\ Cardinality(Stored(store)') \in Nat /\ Cardinality(Stored(store)) \in Nat
    BY <2>3, LaunchesCount
  <2>5. Remembered'
    BY <2>4, ConstantsOK DEF Remembered
  <2>6. QED
    BY <2>2, <2>5 DEF OwedStays
<1>2. ASSUME NEW t \in Tab, PostAnswered(t) PROVE OwedStays /\ Remembered'
  <2> DEFINE l == sweep[t].at
             patched == [store[l] EXCEPT !.workspace = "kept"]
  <2>1. UpdateLaunch(l, patched) /\ l \in Launch
    BY <1>2, SweepFields DEF PostAnswered, TypeInv, TypeOK
  <2>2. l \in Ungrouped(store) => patched \in Record /\ patched.workspace # "old"
    BY DEF Ungrouped, Stored, TypeInv, TypeOK, Record
  <2> HIDE DEF patched, l
  <2>3. QED
    BY <2>1, <2>2, UpdateKeepsOwed, WriteRemembers DEF OwedStays, UpdateLaunch
<1>3. ASSUME NEW t \in Tab, CountAttempt(t) PROVE OwedStays /\ Remembered'
  <2> DEFINE l == sweep[t].at
             n == sweep[t].list[l].attempts + 1
             patched == [store[l] EXCEPT !.attempts = n,
                                         !.groupingFailed = @ \/ n >= MaxAttempts]
  <2>1. UpdateLaunch(l, patched) /\ l \in Launch /\ sweep[t].pc = "counting"
    BY <1>3, SweepFields DEF CountAttempt, TypeInv, TypeOK
  <2>2. store[l] # NoRecord => patched \in Record /\ patched.workspace = store[l].workspace
    BY <2>1, UpdatedCount, Zenon
  <2> HIDE DEF patched, l
  <2>3. l \in Ungrouped(store) => patched \in Record /\ patched.workspace # "old"
    BY <2>2 DEF Ungrouped, Stored
  <2>4. QED
    BY <2>1, <2>3, UpdateKeepsOwed, WriteRemembers DEF OwedStays, UpdateLaunch
<1>4. ASSUME NEW t \in Tab, SweepStep(t) PROVE OwedStays /\ Remembered'
  <2>1. \/ \E l \in Launch : Poll(t, l)
        \/ PostAnswered(t) \/ CountAttempt(t) \/ UNCHANGED store
    BY <1>4 DEF SweepStep, StartSweep, TakeLock, PostCommits, TagsDone, PostFails
  <2>2. QED
    BY <1>s, <1>2, <1>3, <2>1, PollKeepsOwed
<1>5. ASSUME NEW t \in Tab, ScreenStep(t) PROVE OwedStays /\ Remembered'
  <2>1. ASSUME NEW l \in Launch, LaunchComparison(t, l) PROVE UNCHANGED store
    BY <2>1 DEF LaunchComparison
  <2>2. ASSUME NEW a \in Arm, StartArm(t, a) PROVE UNCHANGED store
    BY <2>2 DEF StartArm
  <2>3. PanelRefresh(t) \/ PanelWatch(t) \/ LeavePanel(t) => UNCHANGED store
    BY DEF PanelRefresh, PanelWatch, LeavePanel
  <2>4. QED
    BY <1>s, <1>5, <2>1, <2>2, <2>3, RememberKeepsOwed DEF ScreenStep
<1>6. \/ \E l \in Launch : Ages(l)
      \/ \E t \in Tab : SweepStep(t) \/ ScreenStep(t)
      \/ UNCHANGED store
  BY DEF Next, RunEnds, CloseTab, OpenTab, vars
<1>7. QED
  BY <1>s, <1>1, <1>4, <1>5, <1>6

\* At first nothing is remembered.
LEMMA InitRemembered == Init => Remembered
<1> SUFFICES ASSUME Init PROVE Remembered
  OBVIOUS
<1>1. Stored(store) = {}
  BY DEF Init, EmptyList, Stored
<1>2. QED
  BY <1>1, FS_EmptySet, ConstantsOK DEF Remembered

\* bakeoff-store.ts:84: whatever the tabs write over each other and whichever reads
\* fail, a launch that still owes the user a workspace loses its record only when its
\* runs can no longer make a comparison, or to MAX_REMEMBERED_LAUNCHES newer launches
\* that owe one too.
THEOREM OwedLaunchesAreKept == Safety => OwedLaunchIsKept
<1>1. TypeInv /\ OnceInv /\ WholeInv /\ Remembered /\ [Next]_vars => OwedStays /\ Remembered'
  BY NextKeepsOwed
<1>2. OwedStays <=> (\A l \in Ungrouped(store) :
                        l \in Stored(store)' \/ Hopeless(l) \/ Crowded(l))
  BY DEF OwedStays
<1>3. QED
  BY <1>1, <1>2, InitType, NextType, InitOnce, NextOnce, InitWhole, NextWhole, InitRemembered,
     PTL DEF Safety, OwedLaunchIsKept

-----------------------------------------------------------------------------
(* The setup form *)

Asked == [model : Model, text : Text \cup {Nothing}, other : {0, 1}]
ArmState == [model : Model \cup {Nothing}, prompt : Text \cup {Nothing}, extra : BOOLEAN]

\* What the catalogs, the checks and the launches hold.
CatalogsInv ==
    /\ offered \in [models : SUBSET Model, prompts : SUBSET Text]
    /\ listed \in [models : SUBSET Model, prompts : SUBSET Text, failed : BOOLEAN]
    /\ loading \in BOOLEAN /\ applied \in BOOLEAN
FieldsInv ==
    /\ form \in FormState /\ draft \in FormState \cup {Nothing} /\ saving \in Text \cup {Nothing}
    /\ dirty \in BOOLEAN /\ saveDue \in BOOLEAN /\ done \in {"no", "run", "comparison"}
LaunchesInv ==
    /\ launch \in [form : FormState, checked : BOOLEAN, arms : SUBSET ArmState] \cup {Nothing}
    /\ \A l \in launched : l.form \in FormState

\* Of the checks on their way those that count are for the form on screen, and so is
\* a result that is not being renewed; a check is due for a listed model.
ChecksInv ==
    /\ checks \subseteq [for : Asked, active : BOOLEAN]
    /\ readiness \in [for : Asked, ready : BOOLEAN] \cup {Nothing}
    /\ checking \in BOOLEAN /\ due \in BOOLEAN
    /\ \A c \in checks : c.active => c.for = Request(form)
    /\ ~checking /\ readiness # Nothing => readiness.for = Request(form)
    /\ due => form.model \in listed.models

\* A reference is the text on screen: in the form, in the draft, and in what a save
\* of the text will make of it.  Before the first load there is none.
TextsInv ==
    /\ form.ref # Nothing => form.ref = form.text
    /\ draft # Nothing /\ draft.ref # Nothing => draft.ref = draft.text
    /\ saving # Nothing => applied /\ form.text = saving
    /\ ~applied => form.ref = Nothing /\ listed.models = {} /\ listed.prompts = {}
    /\ launch # Nothing /\ launch.form.refs = {} =>
          \A arm \in launch.arms : arm.prompt = launch.form.text

\* Edits are counted on: what was launched has no more of them than the form, and
\* fewer than a form to be remembered.
RevsInv ==
    /\ launch # Nothing => launch.form.rev <= form.rev
    /\ \A l \in launched : l.form.rev <= form.rev
    /\ saveDue => dirty
    /\ dirty => \A l \in launched : l.form.rev < form.rev

FormInv ==
    /\ CatalogsInv /\ FieldsInv /\ LaunchesInv /\ ChecksInv /\ TextsInv /\ RevsInv
    /\ RunsTheTextOnScreen /\ LaunchedSetupIsForgotten

\* The form opens empty and loads.
LEMMA FormInitInv == ASSUME RunFormAssumption, RunFormInit PROVE FormInv
<1>1. FreshForm \in FormState /\ FreshForm.ref = Nothing
  BY DEF FreshForm, FormState, RunFormAssumption
<1>2. (CHOOSE t \in Text : TRUE) \in Text
  BY DEF RunFormAssumption
<1>3. form = FreshForm /\ draft = Nothing /\ launch = Nothing /\ launched = {} /\ ~dirty /\ ~saveDue
      /\ checks = {} /\ readiness = Nothing /\ ~checking /\ ~due /\ saving = Nothing /\ ~applied
      /\ loading = TRUE /\ done = "no"
      /\ dirty = FALSE /\ saveDue = FALSE /\ checking = FALSE /\ due = FALSE /\ applied = FALSE
  BY DEF RunFormInit
<1>4. listed = [models |-> {}, prompts |-> {}, failed |-> FALSE] /\ listed.models = {}
      /\ listed.prompts = {}
  BY DEF RunFormInit
<1>5. offered \in [models : SUBSET Model, prompts : SUBSET Text]
  BY <1>2 DEF RunFormInit
<1>6. CatalogsInv
  BY <1>3, <1>4, <1>5 DEF CatalogsInv
<1>7. FieldsInv /\ LaunchesInv /\ ChecksInv
  BY <1>1, <1>3 DEF FieldsInv, LaunchesInv, ChecksInv
<1>8. TextsInv /\ RevsInv /\ RunsTheTextOnScreen /\ LaunchedSetupIsForgotten
  BY <1>1, <1>3, <1>4 DEF TextsInv, RevsInv, RunsTheTextOnScreen, LaunchedSetupIsForgotten
<1> QED BY <1>6, <1>7, <1>8 DEF FormInv

\* Asking again leaves no check that counts, and no result unless a new one comes.
LEMMA RecheckKeeps ==
    ASSUME RunFormAssumption, FormInv, NEW f \in FormState, NEW list,
           list.models \subseteq Model, Recheck(f, list), form' \in FormState,
           Request(form') = Request(f), form'.model = f.model, listed'.models = list.models
    PROVE  ChecksInv'
<1>1. checks \subseteq [for : Asked, active : BOOLEAN]
      /\ readiness \in [for : Asked, ready : BOOLEAN] \cup {Nothing}
  BY DEF FormInv, ChecksInv
<1>2. \A c \in checks : /\ [c EXCEPT !.active = FALSE] \in [for : Asked, active : BOOLEAN]
                        /\ [c EXCEPT !.active = FALSE].active = FALSE
  BY <1>1
<1>3. /\ checks' \subseteq [for : Asked, active : BOOLEAN]
      /\ \A c \in checks' : c.active = FALSE
  BY <1>2 DEF Recheck
<1>4. \/ checking' = TRUE /\ due' = TRUE /\ readiness' = readiness /\ f.model \in list.models
      \/ checking' = FALSE /\ due' = FALSE /\ readiness' = Nothing
  <2>1. CASE f.model \in list.models
    BY <2>1 DEF Recheck, SetupReady
  <2>2. CASE f.model \notin list.models
    <3>1. SetupReady(f, list) = FALSE
      BY <2>2 DEF SetupReady
    <3>2. checking' = FALSE /\ due' = FALSE /\ readiness' = Nothing
      BY <3>1 DEF Recheck
    <3> QED BY <3>2
  <2> QED BY <2>1, <2>2
<1> QED BY <1>1, <1>3, <1>4 DEF ChecksInv

\* A result stays what it was while neither form nor models change.
LEMMA ChecksStay ==
    ASSUME FormInv, UNCHANGED readyVars, Request(form') = Request(form),
           form'.model = form.model, listed'.models = listed.models
    PROVE  ChecksInv'
  BY DEF FormInv, ChecksInv, readyVars

\* An edit counts one more; what it asks for anew is checked anew.
LEMMA ChangeKeeps ==
    ASSUME RunFormAssumption, FormInv, NEW f \in FormState, Change(f),
           f.ref # Nothing => f.ref = f.text, ~applied => f.ref = Nothing,
           saving # Nothing => f.text = saving
    PROVE  FormInv'
<1> DEFINE g == [f EXCEPT !.rev = form.rev + 1]
<1>1. form \in FormState /\ form.rev < MaxEdits /\ form.rev \in 0 .. MaxEdits /\ MaxEdits \in Nat
  BY DEF FormInv, FieldsInv, Change, FormState, RunFormAssumption
<1>2. form.rev + 1 \in 0 .. MaxEdits
  BY <1>1
<1>3. /\ g \in FormState /\ g.rev = form.rev + 1 /\ g.ref = f.ref /\ g.text = f.text
      /\ g.model = f.model /\ g.other = f.other
  BY <1>2 DEF FormState
<1>4. form' = g
  BY DEF Change
<1> HIDE DEF g
<1>5. /\ UNCHANGED <<offered, listed, loads, loading, applied, saving, draft, launch, done,
                     launched>>
      /\ dirty' = TRUE
  BY DEF Change
<1>6. PICK b \in BOOLEAN : saveDue' = b
  <2>1. loading \in BOOLEAN
    BY DEF FormInv, CatalogsInv
  <2>2. saveDue' = (~loading /\ done # "run")
    BY DEF Change, WantsDraft
  <2> QED BY <2>1, <2>2
<1>7. CatalogsInv' /\ FieldsInv' /\ LaunchesInv'
  BY <1>3, <1>4, <1>5, <1>6 DEF FormInv, CatalogsInv, FieldsInv, LaunchesInv
<1>8. ChecksInv'
  <2>1. Request(form') = Request(f) /\ form'.model = f.model
    BY <1>3, <1>4 DEF Request
  <2>2. listed'.models = listed.models /\ listed.models \subseteq Model
    BY <1>5 DEF FormInv, CatalogsInv
  <2>3. CASE Request(f) = Request(form)
    <3>1. f.model = form.model
      BY <2>3 DEF Request
    <3>2. UNCHANGED readyVars
      BY <2>3 DEF Change, RecheckIfAsked
    <3> QED BY <2>1, <2>2, <2>3, <3>1, <3>2, ChecksStay
  <2>4. CASE Request(f) # Request(form)
    <3>1. Recheck(f, listed)
      BY <2>4 DEF Change, RecheckIfAsked
    <3> QED BY <1>3, <1>4, <2>1, <2>2, <3>1, RecheckKeeps
  <2> QED BY <2>3, <2>4
<1>9. TextsInv'
  BY <1>3, <1>4, <1>5 DEF FormInv, TextsInv
<1>10. RevsInv'
  <2>1. /\ \A l \in launched : l.form.rev <= form.rev /\ l.form.rev \in Nat
        /\ launch # Nothing => launch.form.rev <= form.rev /\ launch.form.rev \in Nat
    BY <1>1 DEF FormInv, RevsInv, LaunchesInv, FormState
  <2> QED BY <1>1, <1>3, <1>4, <1>5, <2>1 DEF RevsInv
<1>11. RunsTheTextOnScreen' /\ LaunchedSetupIsForgotten'
  BY <1>5 DEF FormInv, RunsTheTextOnScreen, LaunchedSetupIsForgotten
<1> QED BY <1>7, <1>8, <1>9, <1>10, <1>11 DEF FormInv

\* Every edit writes a form with a reference to its own text or none.
LEMMA EditKeeps == ASSUME RunFormAssumption, FormInv, Edit PROVE FormInv'
<1>1. /\ form \in FormState /\ (form.ref # Nothing => form.ref = form.text)
      /\ (~applied => form.ref = Nothing /\ listed.models = {} /\ listed.prompts = {})
      /\ saving # Nothing => applied /\ form.text = saving
      /\ listed.models \subseteq Model /\ listed.prompts \subseteq Text
      /\ Nothing \notin Text
  BY DEF FormInv, FieldsInv, TextsInv, CatalogsInv, RunFormAssumption
<1>2. CASE EditOther
  <2> DEFINE f == [form EXCEPT !.other = 1 - @]
  <2>1. form.other \in {0, 1} /\ 1 - form.other \in {0, 1}
    BY <1>1 DEF FormState
  <2>2. f \in FormState /\ f.ref = form.ref /\ f.text = form.text
    BY <1>1, <2>1 DEF FormState
  <2>3. Change(f)
    BY <1>2 DEF EditOther
  <2> HIDE DEF f
  <2> QED BY <1>1, <2>2, <2>3, ChangeKeeps
<1>3. ASSUME NEW m \in Model, PickModel(m) PROVE FormInv'
  <2> DEFINE f == [form EXCEPT !.model = m]
  <2>2. f \in FormState /\ f.ref = form.ref /\ f.text = form.text
    BY <1>1 DEF FormState
  <2>3. Change(f)
    BY <1>3 DEF PickModel
  <2> HIDE DEF f
  <2> QED BY <1>1, <2>2, <2>3, ChangeKeeps
<1>4. ASSUME NEW m \in Model, ToggleLlm(m) PROVE FormInv'
  <2> DEFINE f == [form EXCEPT !.extras = Flip(@, m)]
  <2>1. Flip(form.extras, m) \in SUBSET Model
    BY <1>1 DEF Flip, FormState
  <2>2. f \in FormState /\ f.ref = form.ref /\ f.text = form.text
    BY <1>1, <2>1 DEF FormState
  <2>3. Change(f)
    BY <1>4 DEF ToggleLlm
  <2> HIDE DEF f
  <2> QED BY <1>1, <2>2, <2>3, ChangeKeeps
<1>5. ASSUME NEW t \in Text \cup {Nothing}, Retype(t) PROVE FormInv'
  <2> DEFINE f == [form EXCEPT !.text = t, !.ref = Nothing]
  <2>2. f \in FormState /\ f.ref = Nothing /\ saving = Nothing
    BY <1>1, <1>5 DEF FormState, Retype, TextLocked
  <2>3. Change(f)
    BY <1>5 DEF Retype
  <2> HIDE DEF f
  <2> QED BY <1>1, <2>2, <2>3, ChangeKeeps
<1>6. ASSUME NEW t \in Text, StartFrom(t) PROVE FormInv'
  <2> DEFINE f == [form EXCEPT !.text = t, !.ref = t]
  <2>2. f \in FormState /\ f.ref = t /\ f.text = t /\ saving = Nothing /\ applied
    BY <1>1, <1>6 DEF FormState, StartFrom, TextLocked
  <2>3. Change(f)
    BY <1>6 DEF StartFrom
  <2> HIDE DEF f
  <2> QED BY <1>1, <2>2, <2>3, ChangeKeeps
<1>7. ASSUME NEW t \in Text, TogglePrompt(t) PROVE FormInv'
  <2> DEFINE f == [form EXCEPT !.refs = Flip(@, t)]
  <2>1. Flip(form.refs, t) \in SUBSET Text
    BY <1>1 DEF Flip, FormState
  <2>2. f \in FormState /\ f.ref = form.ref /\ f.text = form.text
    BY <1>1, <2>1 DEF FormState
  <2>3. Change(f)
    BY <1>7 DEF TogglePrompt
  <2> HIDE DEF f
  <2> QED BY <1>1, <2>2, <2>3, ChangeKeeps
<1>8. ASSUME NEW a \in {"none", "models", "prompts"}, AxisChange(a) PROVE FormInv'
  <2> DEFINE refs == IF a = "prompts" /\ form.ref # Nothing THEN {form.ref} ELSE {}
             f == [form EXCEPT !.axis = a, !.extras = {}, !.refs = refs]
  <2>1. refs \in SUBSET Text
    BY <1>1 DEF FormState
  <2>3. Change(f)
    BY <1>8 DEF AxisChange
  <2> HIDE DEF refs
  <2>2. f \in FormState /\ f.ref = form.ref /\ f.text = form.text
    BY <1>1, <2>1 DEF FormState
  <2> HIDE DEF f
  <2> QED BY <1>1, <2>2, <2>3, ChangeKeeps
<1>9. Nothing \in Text \cup {Nothing} /\ \A t \in Text : t \in Text \cup {Nothing}
  OBVIOUS
<1> QED BY <1>2, <1>3, <1>4, <1>5, <1>6, <1>7, <1>8, <1>9 DEF Edit

\* Saving links the text on screen, since the box is locked, and offers it to others.
LEMMA PromptsKeep == ASSUME RunFormAssumption, FormInv, Prompts PROVE FormInv'
<1>1. CASE SavePrompt
  <2>1. /\ UNCHANGED <<offered, listed, loads, loading, applied, form, dirty, readyVars, draft,
                       saveDue, launch, done, launched>>
        /\ saving' = form.text /\ applied /\ form.text # Nothing
    BY <1>1 DEF SavePrompt
  <2>2. form.text \in Text
    BY <2>1 DEF FormInv, FieldsInv, FormState
  <2>3. CatalogsInv' /\ FieldsInv' /\ LaunchesInv'
    BY <2>1, <2>2 DEF FormInv, CatalogsInv, FieldsInv, LaunchesInv
  <2>4. ChecksInv'
    BY <2>1 DEF FormInv, ChecksInv, readyVars, Request
  <2>5. TextsInv' /\ RevsInv' /\ RunsTheTextOnScreen' /\ LaunchedSetupIsForgotten'
    BY <2>1 DEF FormInv, TextsInv, RevsInv, RunsTheTextOnScreen, LaunchedSetupIsForgotten
  <2> QED BY <2>3, <2>4, <2>5 DEF FormInv
<1>2. CASE PromptSaved
  <2> DEFINE f == [form EXCEPT !.ref = saving]
  <2>1. /\ saving \in Text /\ saving' = Nothing /\ form' = f /\ applied
        /\ form.text = saving /\ saving # Nothing
        /\ UNCHANGED <<loads, loading, applied, dirty, readyVars, draft, launch, done, launched>>
    BY <1>2 DEF PromptSaved, FormInv, FieldsInv, TextsInv
  <2>2. /\ f \in FormState /\ f.ref = saving /\ f.text = form.text /\ f.model = form.model
        /\ f.rev = form.rev /\ f.other = form.other
    BY <2>1 DEF FormInv, FieldsInv, FormState
  <2> HIDE DEF f
  <2>3. /\ offered' \in [models : SUBSET Model, prompts : SUBSET Text]
        /\ offered'.prompts \subseteq Text
    <3>1. offered' = [offered EXCEPT !.prompts = @ \cup {saving}]
      BY <1>2 DEF PromptSaved
    <3> QED BY <2>1, <3>1 DEF FormInv, CatalogsInv
  <2>4. /\ listed' \in [models : SUBSET Model, prompts : SUBSET Text, failed : BOOLEAN]
        /\ listed'.models = listed.models
    <3>1. PICK fresh \in {listed.prompts, offered'.prompts} :
                listed' = [listed EXCEPT !.prompts = fresh]
      BY <1>2 DEF PromptSaved
    <3>2. fresh \in SUBSET Text
      BY <2>3, <3>1 DEF FormInv, CatalogsInv
    <3> QED BY <3>1, <3>2 DEF FormInv, CatalogsInv
  <2>5. PICK b \in BOOLEAN : saveDue' = b /\ (b => dirty)
    <3>1. saveDue' = (dirty /\ ~loading /\ done # "run")
      BY <1>2 DEF PromptSaved, WantsDraft
    <3>2. dirty \in BOOLEAN /\ loading \in BOOLEAN
      BY DEF FormInv, FieldsInv, CatalogsInv
    <3> QED BY <3>1, <3>2
  <2>6. CatalogsInv' /\ FieldsInv' /\ LaunchesInv'
    BY <2>1, <2>2, <2>3, <2>4, <2>5 DEF FormInv, CatalogsInv, FieldsInv, LaunchesInv
  <2>7. ChecksInv'
    BY <2>1, <2>2, <2>4 DEF FormInv, ChecksInv, readyVars, Request
  <2>8. TextsInv' /\ RunsTheTextOnScreen' /\ LaunchedSetupIsForgotten'
    BY <2>1, <2>2 DEF FormInv, TextsInv, RunsTheTextOnScreen, LaunchedSetupIsForgotten
  <2>9. RevsInv'
    BY <2>1, <2>2, <2>5 DEF FormInv, RevsInv
  <2> QED BY <2>6, <2>7, <2>8, <2>9 DEF FormInv
<1>3. CASE PromptSaveFails
  <2>1. /\ UNCHANGED <<offered, listed, loads, loading, applied, form, dirty, readyVars, draft,
                       saveDue, launch, done, launched>>
        /\ saving' = Nothing
    BY <1>3 DEF PromptSaveFails
  <2>2. CatalogsInv' /\ FieldsInv' /\ LaunchesInv'
    BY <2>1 DEF FormInv, CatalogsInv, FieldsInv, LaunchesInv
  <2>3. ChecksInv'
    BY <2>1 DEF FormInv, ChecksInv, readyVars, Request
  <2>4. TextsInv' /\ RevsInv' /\ RunsTheTextOnScreen' /\ LaunchedSetupIsForgotten'
    BY <2>1 DEF FormInv, TextsInv, RevsInv, RunsTheTextOnScreen, LaunchedSetupIsForgotten
  <2> QED BY <2>2, <2>3, <2>4 DEF FormInv
<1> QED BY <1>1, <1>2, <1>3 DEF Prompts

\* A load keeps the edits and may bring the draft, with its own text and reference.
LEMMA LoadArrivesKeeps == ASSUME RunFormAssumption, FormInv, LoadArrives PROVE FormInv'
<1>1. PICK models \in {offered.models, {}}, prompts \in {offered.prompts, {}} :
        LET list == [models |-> models, prompts |-> prompts, failed |-> models # offered.models]
            kept == Surviving(form, prompts)
            f == IF draft # Nothing /\ ~applied THEN Restored(kept, draft) ELSE kept
        IN listed' = list /\ form' = f /\ Recheck(f, list)
  BY DEF LoadArrives
<1> DEFINE list == [models |-> models, prompts |-> prompts, failed |-> models # offered.models]
           refs == form.refs \cap prompts
           axis == IF prompts = {} /\ form.axis = "prompts" THEN "none" ELSE form.axis
           kept == [form EXCEPT !.refs = refs, !.axis = axis]
           model == IF draft.model = Nothing THEN kept.model ELSE draft.model
           text == IF draft.text = Nothing THEN kept.text ELSE draft.text
           ref == IF draft.ref = Nothing THEN kept.ref ELSE draft.ref
           back == [kept EXCEPT !.model = model, !.text = text, !.ref = ref, !.other = draft.other]
           f == IF draft # Nothing /\ ~applied THEN back ELSE kept
<1>2. /\ form \in FormState /\ draft \in FormState \cup {Nothing}
      /\ models \in SUBSET Model /\ prompts \in SUBSET Text /\ Nothing \notin Text
  BY DEF FormInv, FieldsInv, CatalogsInv, RunFormAssumption
<1>3. /\ list \in [models : SUBSET Model, prompts : SUBSET Text, failed : BOOLEAN]
      /\ list.models \subseteq Model
  BY <1>2
<1>4. refs \in SUBSET Text /\ axis \in {"none", "models", "prompts"}
  BY <1>2 DEF FormState
<1>5. listed' = list /\ form' = f /\ Recheck(f, list)
  BY <1>1 DEF Surviving, Restored
<1> HIDE DEF list, refs, axis
<1>6. /\ kept \in FormState /\ kept.ref = form.ref /\ kept.text = form.text
      /\ kept.rev = form.rev
  BY <1>2, <1>4 DEF FormState
<1> HIDE DEF kept
<1>7. ASSUME draft # Nothing, ~applied
      PROVE  /\ back \in FormState /\ back.rev = form.rev
             /\ back.ref # Nothing => back.ref = back.text
  <2>1. /\ draft \in FormState /\ form.ref = Nothing
        /\ draft.ref # Nothing => draft.ref = draft.text
    BY <1>2, <1>7 DEF FormInv, TextsInv
  <2>2. /\ model \in Model \cup {Nothing} /\ text \in Text \cup {Nothing}
        /\ ref \in Text \cup {Nothing} /\ draft.other \in {0, 1}
        /\ ref # Nothing => ref = text
    BY <1>6, <2>1 DEF FormState
  <2> HIDE DEF model, text, ref
  <2>3. back \in FormState /\ back.rev = kept.rev /\ back.ref = ref /\ back.text = text
    BY <1>6, <2>2 DEF FormState
  <2> QED BY <1>6, <2>2, <2>3
<1> HIDE DEF back
<1>8. /\ f \in FormState /\ f.rev = form.rev /\ (f.ref # Nothing => f.ref = f.text)
      /\ applied => f.text = form.text
  BY <1>6, <1>7 DEF FormInv, TextsInv
<1> HIDE DEF f
<1>9. /\ UNCHANGED <<offered, loads, dirty, saving, draft, launch, done, launched>>
      /\ applied' = TRUE /\ loading' = FALSE
  BY DEF LoadArrives
<1>10. PICK b \in BOOLEAN : saveDue' = b /\ (b => dirty)
  <2>1. saveDue' = (dirty /\ done # "run") /\ dirty \in BOOLEAN
    BY DEF LoadArrives, WantsDraft, FormInv, FieldsInv
  <2> QED BY <2>1
<1>11. CatalogsInv' /\ FieldsInv' /\ LaunchesInv'
  BY <1>3, <1>5, <1>8, <1>9, <1>10 DEF FormInv, CatalogsInv, FieldsInv, LaunchesInv
<1>12. ChecksInv'
  BY <1>3, <1>5, <1>8, RecheckKeeps
<1>13. TextsInv' /\ RunsTheTextOnScreen' /\ LaunchedSetupIsForgotten'
  BY <1>5, <1>8, <1>9 DEF FormInv, TextsInv, RunsTheTextOnScreen, LaunchedSetupIsForgotten
<1>14. RevsInv'
  BY <1>5, <1>8, <1>9, <1>10 DEF FormInv, RevsInv
<1> QED BY <1>11, <1>12, <1>13, <1>14 DEF FormInv

\* What is remembered is the form, which was edited after all launches.
LEMMA LoadingKeeps == ASSUME RunFormAssumption, FormInv, Loading PROVE FormInv'
<1>1. ASSUME NEW m \in Model, Withdraw(m) PROVE FormInv'
  <2>1. /\ UNCHANGED <<listed, loading, applied, formVars, readyVars, draft, saveDue, launch, done,
                       launched>>
        /\ offered' = [offered EXCEPT !.models = @ \ {m}]
    BY <1>1 DEF Withdraw
  <2>2. offered' \in [models : SUBSET Model, prompts : SUBSET Text]
    BY <2>1 DEF FormInv, CatalogsInv
  <2>3. CatalogsInv' /\ FieldsInv' /\ LaunchesInv'
    BY <2>1, <2>2 DEF FormInv, CatalogsInv, FieldsInv, LaunchesInv, formVars
  <2>4. ChecksInv'
    BY <2>1 DEF FormInv, ChecksInv, formVars, readyVars, Request
  <2>5. TextsInv' /\ RevsInv' /\ RunsTheTextOnScreen' /\ LaunchedSetupIsForgotten'
    BY <2>1 DEF FormInv, TextsInv, RevsInv, RunsTheTextOnScreen, LaunchedSetupIsForgotten, formVars
  <2> QED BY <2>3, <2>4, <2>5 DEF FormInv
<1>2. CASE Refresh
  <2>1. /\ UNCHANGED <<offered, applied, formVars, readyVars, draft, launch, done, launched>>
        /\ listed' = [listed EXCEPT !.failed = FALSE] /\ loading' = TRUE /\ saveDue' = FALSE
    BY <1>2 DEF Refresh
  <2>2. /\ listed' \in [models : SUBSET Model, prompts : SUBSET Text, failed : BOOLEAN]
        /\ listed'.models = listed.models /\ listed'.prompts = listed.prompts
    BY <2>1 DEF FormInv, CatalogsInv
  <2>3. CatalogsInv' /\ FieldsInv' /\ LaunchesInv'
    BY <2>1, <2>2 DEF FormInv, CatalogsInv, FieldsInv, LaunchesInv, formVars
  <2>4. ChecksInv'
    BY <2>1, <2>2 DEF FormInv, ChecksInv, formVars, readyVars, Request
  <2>5. TextsInv' /\ RevsInv' /\ RunsTheTextOnScreen' /\ LaunchedSetupIsForgotten'
    BY <2>1, <2>2
    DEF FormInv, TextsInv, RevsInv, RunsTheTextOnScreen, LaunchedSetupIsForgotten, formVars
  <2> QED BY <2>3, <2>4, <2>5 DEF FormInv
<1>3. CASE RememberDraft
  <2>1. /\ UNCHANGED <<offered, listed, loads, loading, applied, formVars, readyVars, launch, done,
                       launched>>
        /\ saveDue /\ saveDue' = FALSE /\ draft' = form
    BY <1>3 DEF RememberDraft
  <2>2. CatalogsInv' /\ FieldsInv' /\ LaunchesInv'
    BY <2>1 DEF FormInv, CatalogsInv, FieldsInv, LaunchesInv, formVars
  <2>3. ChecksInv'
    BY <2>1 DEF FormInv, ChecksInv, formVars, readyVars, Request
  <2>4. TextsInv' /\ RevsInv' /\ RunsTheTextOnScreen'
    BY <2>1 DEF FormInv, TextsInv, RevsInv, RunsTheTextOnScreen, formVars
  <2>5. form.rev \in Int /\ \A l \in launched : l.form.rev \in Int /\ l.form.rev < form.rev
    BY <2>1 DEF FormInv, FieldsInv, LaunchesInv, FormState, RevsInv
  <2>6. LaunchedSetupIsForgotten'
    BY <2>1, <2>5 DEF LaunchedSetupIsForgotten, formVars
  <2> QED BY <2>2, <2>3, <2>4, <2>6 DEF FormInv
<1>4. CASE Reopen
  <2> DEFINE f == [FreshForm EXCEPT !.rev = form.rev]
  <2>1. /\ UNCHANGED <<offered, saving, draft, launch, launched>>
        /\ launch = Nothing /\ saving = Nothing
        /\ loading' = TRUE /\ applied' = FALSE
        /\ listed' = [models |-> {}, prompts |-> {}, failed |-> FALSE]
        /\ form' = f /\ dirty' = FALSE /\ saveDue' = FALSE /\ done' = "no"
        /\ readiness' = Nothing /\ checking' = FALSE /\ due' = FALSE /\ checks' = {}
    BY <1>4 DEF Reopen
  <2>2. f \in FormState /\ f.ref = Nothing /\ f.rev = form.rev
    <3>1. form.rev \in 0 .. MaxEdits
      BY DEF FormInv, FieldsInv, FormState
    <3> QED BY <3>1 DEF FreshForm, FormState
  <2> HIDE DEF f
  <2>3. /\ listed' \in [models : SUBSET Model, prompts : SUBSET Text, failed : BOOLEAN]
        /\ listed'.models = {} /\ listed'.prompts = {}
    BY <2>1
  <2>4. CatalogsInv' /\ FieldsInv' /\ LaunchesInv' /\ ChecksInv'
    BY <2>1, <2>2, <2>3 DEF FormInv, CatalogsInv, FieldsInv, LaunchesInv, ChecksInv
  <2>5. TextsInv' /\ RevsInv' /\ RunsTheTextOnScreen' /\ LaunchedSetupIsForgotten'
    BY <2>1, <2>2, <2>3
    DEF FormInv, TextsInv, RevsInv, RunsTheTextOnScreen, LaunchedSetupIsForgotten
  <2> QED BY <2>4, <2>5 DEF FormInv
<1> QED BY <1>1, <1>2, <1>3, <1>4, LoadArrivesKeeps DEF Loading

\* An answer that counts is for the form on screen.
LEMMA CheckingKeeps == ASSUME RunFormAssumption, FormInv, Checking PROVE FormInv'
<1>1. CASE CheckDue
  <2> DEFINE c0 == [for |-> Request(form), active |-> TRUE]
  <2>1. /\ UNCHANGED <<offered, listed, loads, loading, applied, formVars, readiness, checking,
                       draft, saveDue, launch, done, launched>>
        /\ due /\ due' = FALSE /\ checks' = checks \cup {c0}
    BY <1>1 DEF CheckDue
  <2>2. Request(form) \in Asked
    BY <2>1 DEF FormInv, FieldsInv, CatalogsInv, ChecksInv, Asked, Request, FormState
  <2>3. c0 \in [for : Asked, active : BOOLEAN] /\ c0.for = Request(form)
    BY <2>2
  <2> HIDE DEF c0
  <2>4. ChecksInv'
    BY <2>1, <2>3 DEF FormInv, ChecksInv, Request, formVars
  <2>5. CatalogsInv' /\ FieldsInv' /\ LaunchesInv'
    BY <2>1 DEF FormInv, CatalogsInv, FieldsInv, LaunchesInv, formVars
  <2>6. TextsInv' /\ RevsInv' /\ RunsTheTextOnScreen' /\ LaunchedSetupIsForgotten'
    BY <2>1 DEF FormInv, TextsInv, RevsInv, RunsTheTextOnScreen, LaunchedSetupIsForgotten, formVars
  <2> QED BY <2>4, <2>5, <2>6 DEF FormInv
<1>2. ASSUME NEW c \in checks, CheckAnswers(c) PROVE FormInv'
  <2>1. /\ UNCHANGED <<offered, listed, loads, loading, applied, formVars, due, draft, saveDue,
                       launch, done, launched>>
        /\ checks' = checks \ {c} /\ checking' = (checking /\ ~c.active)
    BY <1>2 DEF CheckAnswers, Counts
  <2>2. PICK answer \in {[for |-> c.for, ready |-> ok] : ok \in BOOLEAN} \cup {Nothing} :
              readiness' = IF c.active THEN answer ELSE readiness
    BY <1>2 DEF CheckAnswers, Counts
  <2>3. /\ c \in [for : Asked, active : BOOLEAN] /\ checking \in BOOLEAN
        /\ c.active => c.for = Request(form)
    BY DEF FormInv, ChecksInv
  <2>4. answer # Nothing => answer \in [for : Asked, ready : BOOLEAN] /\ answer.for = c.for
    BY <2>2, <2>3
  <2>5. PICK b \in BOOLEAN : checking' = b /\ (b <=> checking /\ ~c.active)
    BY <2>1, <2>3
  <2>6. ChecksInv'
    BY <2>1, <2>2, <2>3, <2>4, <2>5 DEF FormInv, ChecksInv, Request, formVars
  <2>7. CatalogsInv' /\ FieldsInv' /\ LaunchesInv'
    BY <2>1 DEF FormInv, CatalogsInv, FieldsInv, LaunchesInv, formVars
  <2>8. TextsInv' /\ RevsInv' /\ RunsTheTextOnScreen' /\ LaunchedSetupIsForgotten'
    BY <2>1 DEF FormInv, TextsInv, RevsInv, RunsTheTextOnScreen, LaunchedSetupIsForgotten, formVars
  <2> QED BY <2>6, <2>7, <2>8 DEF FormInv
<1> QED BY <1>1, <1>2 DEF Checking

\* What a form without chosen versions runs is its own text.
LEMMA ArmsOfForm ==
    ASSUME RunFormAssumption, NEW f \in FormState, NEW list, list.models \subseteq Model,
           f.ref # Nothing => f.ref = f.text
    PROVE  \A arms \in {Arms(f, list), OneRun(f)} :
              /\ arms \subseteq ArmState
              /\ f.refs = {} => \A arm \in arms : arm.prompt = f.text
<1>1. /\ f.refs \subseteq Text /\ f.ref \in Text \cup {Nothing} /\ f.text \in Text \cup {Nothing}
      /\ f.model \in Model \cup {Nothing} /\ f.extras \subseteq Model
  BY DEF FormState
<1>2. Cardinality({}) = 0
  BY FS_EmptySet
<1>3. ChosenRef(f) \in Text \cup {Nothing} /\ (f.refs = {} => ChosenRef(f) = f.ref)
  <2>1. CASE f.refs = {}
    BY <1>1, <1>2, <2>1 DEF ChosenRef
  <2>2. CASE f.refs # {}
    <3>1. (CHOOSE t \in f.refs : TRUE) \in f.refs
      BY <2>2
    <3> QED BY <1>1, <2>2, <3>1 DEF ChosenRef
  <2> QED BY <2>1, <2>2
<1>4. PromptRun(f) \in Text \cup {Nothing} /\ (f.refs = {} => PromptRun(f) = f.text)
  BY <1>1, <1>3 DEF PromptRun
<1>5. Arms(f, list) \subseteq ArmState /\ OneRun(f) \subseteq ArmState
  <2>1. \A t \in f.refs : [model |-> f.model, prompt |-> t, extra |-> FALSE] \in ArmState
    BY <1>1 DEF ArmState
  <2>2. [model |-> f.model, prompt |-> PromptRun(f), extra |-> FALSE] \in ArmState
    BY <1>1, <1>4 DEF ArmState
  <2>3. \A m \in f.extras : [model |-> m, prompt |-> PromptRun(f), extra |-> TRUE] \in ArmState
    BY <1>1, <1>4 DEF ArmState
  <2> QED BY <2>1, <2>2, <2>3 DEF Arms, OneRun
<1>6. f.refs = {} => \A arm \in Arms(f, list) \cup OneRun(f) : arm.prompt = f.text
  BY <1>4 DEF Arms, OneRun
<1> QED BY <1>5, <1>6

\* A launch takes the form at the click, and ends with the draft forgotten.
LEMMA LaunchingKeeps == ASSUME RunFormAssumption, FormInv, Launching PROVE FormInv'
<1>1. CASE Run
  <2> DEFINE arms == IF IsComparison(form) THEN Arms(form, listed) ELSE OneRun(form)
             l == [form |-> form, checked |-> FALSE, arms |-> arms]
  <2>1. /\ UNCHANGED <<offered, listed, loads, loading, applied, formVars, readyVars, draft,
                       saveDue, done, launched>>
        /\ launch' = l
    BY <1>1 DEF Run
  <2>2. /\ form \in FormState /\ listed.models \subseteq Model
        /\ form.ref # Nothing => form.ref = form.text
    BY DEF FormInv, FieldsInv, CatalogsInv, TextsInv
  <2>3. arms \in SUBSET ArmState /\ (form.refs = {} => \A arm \in arms : arm.prompt = form.text)
    BY <2>2, ArmsOfForm
  <2> HIDE DEF arms
  <2>4. /\ l \in [form : FormState, checked : BOOLEAN, arms : SUBSET ArmState]
        /\ l.form = form /\ l.arms = arms
    BY <2>2, <2>3
  <2> HIDE DEF l
  <2>5. CatalogsInv' /\ FieldsInv' /\ LaunchesInv'
    BY <2>1, <2>4 DEF FormInv, CatalogsInv, FieldsInv, LaunchesInv, formVars
  <2>6. ChecksInv'
    BY <2>1 DEF FormInv, ChecksInv, formVars, readyVars, Request
  <2>7. form.rev <= form.rev
    BY <2>2 DEF FormState
  <2>8. TextsInv' /\ RevsInv' /\ RunsTheTextOnScreen' /\ LaunchedSetupIsForgotten'
    BY <2>1, <2>3, <2>4, <2>7
    DEF FormInv, TextsInv, RevsInv, RunsTheTextOnScreen, LaunchedSetupIsForgotten, formVars
  <2> QED BY <2>5, <2>6, <2>8 DEF FormInv
<1>2. CASE EvidenceChecked
  <2>1. /\ UNCHANGED <<offered, listed, loads, loading, applied, formVars, readyVars, draft,
                       saveDue, done, launched>>
        /\ launch # Nothing /\ launch' \in {[launch EXCEPT !.checked = TRUE], Nothing}
    BY <1>2 DEF EvidenceChecked
  <2>2. launch \in [form : FormState, checked : BOOLEAN, arms : SUBSET ArmState]
    BY <2>1 DEF FormInv, LaunchesInv
  <2>3. launch' # Nothing =>
              /\ launch' \in [form : FormState, checked : BOOLEAN, arms : SUBSET ArmState]
              /\ launch'.form = launch.form /\ launch'.arms = launch.arms
    BY <2>1, <2>2
  <2>4. CatalogsInv' /\ FieldsInv' /\ LaunchesInv'
    BY <2>1, <2>3 DEF FormInv, CatalogsInv, FieldsInv, LaunchesInv, formVars
  <2>5. ChecksInv'
    BY <2>1 DEF FormInv, ChecksInv, formVars, readyVars, Request
  <2>6. TextsInv' /\ RevsInv' /\ RunsTheTextOnScreen' /\ LaunchedSetupIsForgotten'
    BY <2>1, <2>3
    DEF FormInv, TextsInv, RevsInv, RunsTheTextOnScreen, LaunchedSetupIsForgotten, formVars
  <2> QED BY <2>4, <2>5, <2>6 DEF FormInv
<1>3. CASE RunsStart
  <2>1. /\ UNCHANGED <<offered, listed, loads, loading, applied, form, saving, readyVars>>
        /\ launch # Nothing /\ launch' = Nothing /\ dirty' = FALSE /\ saveDue' = FALSE
        /\ draft' = Nothing /\ done' \in {"comparison", "run"}
    BY <1>3 DEF RunsStart, ForgetDraft
  <2>2. PICK started : launched' = launched \cup {[form |-> launch.form, arms |-> launch.arms,
                                                   started |-> started]}
    BY <1>3 DEF RunsStart
  <2>3. launch \in [form : FormState, checked : BOOLEAN, arms : SUBSET ArmState]
    BY <2>1 DEF FormInv, LaunchesInv
  <2>4. \A l \in launched' : l \in launched \/ (l.form = launch.form /\ l.arms = launch.arms)
    BY <2>2
  <2>5. CatalogsInv' /\ FieldsInv' /\ LaunchesInv'
    BY <2>1, <2>3, <2>4 DEF FormInv, CatalogsInv, FieldsInv, LaunchesInv
  <2>6. ChecksInv'
    BY <2>1 DEF FormInv, ChecksInv, readyVars, Request
  <2>7. TextsInv' /\ RevsInv'
    BY <2>1, <2>4 DEF FormInv, TextsInv, RevsInv
  <2>8. RunsTheTextOnScreen' /\ LaunchedSetupIsForgotten'
    BY <2>1, <2>4 DEF FormInv, TextsInv, RunsTheTextOnScreen, LaunchedSetupIsForgotten
  <2> QED BY <2>5, <2>6, <2>7, <2>8 DEF FormInv
<1>4. CASE NothingStarts
  <2>1. /\ UNCHANGED <<offered, listed, loads, loading, applied, formVars, readyVars, draft,
                       saveDue, done, launched>>
        /\ launch' = Nothing
    BY <1>4 DEF NothingStarts
  <2>2. CatalogsInv' /\ FieldsInv' /\ LaunchesInv'
    BY <2>1 DEF FormInv, CatalogsInv, FieldsInv, LaunchesInv, formVars
  <2>3. ChecksInv'
    BY <2>1 DEF FormInv, ChecksInv, formVars, readyVars, Request
  <2>4. TextsInv' /\ RevsInv' /\ RunsTheTextOnScreen' /\ LaunchedSetupIsForgotten'
    BY <2>1
    DEF FormInv, TextsInv, RevsInv, RunsTheTextOnScreen, LaunchedSetupIsForgotten, formVars
  <2> QED BY <2>2, <2>3, <2>4 DEF FormInv
<1> QED BY <1>1, <1>2, <1>3, <1>4 DEF Launching

\* The invariant of the form.
LEMMA FormInvariant == ASSUME RunFormAssumption PROVE RunFormSpec => []FormInv
<1>1. RunFormInit => FormInv
  BY FormInitInv
<1>2. FormInv /\ [RunFormNext]_runFormVars => FormInv'
  <2>1. SUFFICES ASSUME FormInv, [RunFormNext]_runFormVars PROVE FormInv'
    OBVIOUS
  <2>2. CASE UNCHANGED runFormVars
    <3>1. /\ UNCHANGED <<offered, listed, loads, loading, applied, draft, saveDue, launch, done,
                         launched>>
          /\ UNCHANGED formVars /\ UNCHANGED readyVars
      BY <2>2 DEF runFormVars
    <3>2. CatalogsInv' /\ FieldsInv' /\ LaunchesInv'
      BY <2>1, <3>1 DEF FormInv, CatalogsInv, FieldsInv, LaunchesInv, formVars
    <3>3. ChecksInv'
      BY <2>1, <3>1 DEF FormInv, ChecksInv, formVars, readyVars, Request
    <3>4. TextsInv' /\ RevsInv' /\ RunsTheTextOnScreen' /\ LaunchedSetupIsForgotten'
      BY <2>1, <3>1
      DEF FormInv, TextsInv, RevsInv, RunsTheTextOnScreen, LaunchedSetupIsForgotten, formVars
    <3> QED BY <3>2, <3>3, <3>4 DEF FormInv
  <2> QED BY <2>1, <2>2, EditKeeps, PromptsKeep, LoadingKeeps, CheckingKeeps, LaunchingKeeps
          DEF RunFormNext
<1> QED BY <1>1, <1>2, PTL DEF RunFormSpec

\* RunFormTypeOK: the form, the remembered setup and the checks keep their types.
THEOREM FormTypesCorrect == ASSUME RunFormAssumption PROVE RunFormSpec => []RunFormTypeOK
<1>1. ASSUME FormInv PROVE RunFormTypeOK
  <2>1. \A c \in checks : c.for.model \in Model /\ c.active \in BOOLEAN
    BY <1>1 DEF FormInv, ChecksInv, Asked
  <2>2. loading \in BOOLEAN /\ checking \in BOOLEAN /\ due \in BOOLEAN
    BY <1>1 DEF FormInv, CatalogsInv, ChecksInv
  <2>3. FieldsInv
    BY <1>1 DEF FormInv
  <2> QED BY <2>1, <2>2, <2>3 DEF RunFormTypeOK, FieldsInv
<1> QED BY <1>1, FormInvariant, PTL

\* Run is enabled only by an answer about the form on screen; a run that names no
\* chosen version runs the text that was on screen; and a setup that was launched is
\* never restored as unfinished.
THEOREM RunsAreOfTheForm == ASSUME RunFormAssumption PROVE RunFormSpec => []RunFormIsTrue
<1>1. ASSUME FormInv PROVE RunFormIsTrue
  <2>1. ASSUME RunReady PROVE readiness.for = Request(form)
    <3>1. ~checking /\ readiness # Nothing
      BY <2>1 DEF RunReady
    <3> QED BY <1>1, <3>1 DEF FormInv, ChecksInv
  <2> QED BY <1>1, <2>1 DEF FormInv, RunFormIsTrue, RunReadyIsForThisForm
<1> QED BY <1>1, FormInvariant, PTL
=============================================================================
