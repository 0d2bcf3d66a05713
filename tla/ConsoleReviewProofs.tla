-------------------------- MODULE ConsoleReviewProofs --------------------------
(* Proofs about five of the pages on  which results are read and decided upon.   *)
(* The roles of an experiment's runs, for any number of runs, panels and         *)
(* editors: whatever order the transactions read and write in, there is one      *)
(* baseline, the evidence was approved, first approvals take turns, and each     *)
(* panel knows what it has recorded.  The review of findings, for any number of  *)
(* findings and of other reviewers: whatever the reviewer steps over while       *)
(* writes are under way, a decision is for its finding, "completed" was reviewed *)
(* and a regression case was agreed with.  The report of a run, for any number   *)
(* of cases: whenever polls, cases, evidence and links arrive, the open case is  *)
(* listed and has its evidence, and the address leads to it.  The run history,   *)
(* for any number of runs and of loads that overtake each other: a list at rest  *)
(* shows what became of the runs, and a dialog is busy only while it waits.  The *)
(* drawer of a case, for any number of cases, datasets and replays: whatever the *)
(* reader leaves while calls are under way, what is shown is of the case shown,  *)
(* copies were agreed to, and an answered replay is in the list.                 *)
EXTENDS ReleaseDecisions, Reviews, RunReport, RunLibrary, CaseDrawer,
    FiniteSetTheorems, SequenceTheorems, WellFoundedInduction, TLAPS

PanelState == [capable : BOOLEAN, dialog : {"none", "asking", "pending"},
               choice : Choice, recorded : 0..MaxActs, listed : 0..MaxActs,
               history : SUBSET (1..MaxActs), shown : BOOLEAN,
               refused : BOOLEAN, lost : BOOLEAN]
DecidingState == [step : {"none", "begun", "read", "refused", "saved"},
                  late : BOOLEAN, saw : SUBSET Run]
EditState == [step : {"none", "targeted", "read"}, target : Run \cup {Nothing},
              saw : SUBSET Run, retried : BOOLEAN]
RecordState == [approved : BOOLEAN, decisions : Seq(Decision), changes : Seq(Change),
                acts : 0..MaxActs]

-----------------------------------------------------------------------------
(* The inductive invariant *)

\* Every decision was requested, and a request has one decision still to record.
InFlight == {p \in Panel : deciding[p].step \in {"begun", "read"}}
Counted == Len(record.decisions) + Cardinality(InFlight) <= record.acts

\* A panel waits for exactly the request that is under way.
Waits == \A p \in Panel : deciding[p].step # "none" <=> panels[p].dialog = "pending"

\* Before the first late approval there is one run of evidence at most, and the one
\* approval that writes the status has seen it.
NoneLate == \A i \in 1..Len(record.decisions) : ~record.decisions[i].late
Turns ==
    /\ \A p, q \in Panel : HoldsStatus(p) /\ HoldsStatus(q) => p = q
    /\ NoneLate =>
         /\ \A r, s \in With("evidence") : r = s
         /\ \A p \in Panel : HoldsStatus(p) => With("evidence") \subseteq deciding[p].saw

\* The decision that a saved request recorded is the last one of its panel.
LastOf(p, i) ==
    /\ i \in 1..Len(record.decisions) /\ record.decisions[i].run = p
    /\ \A j \in i + 1..Len(record.decisions) : record.decisions[j].run # p
SavedIsLast(p) == deciding[p].step = "saved" => \E i \in 1..Len(record.decisions) : LastOf(p, i)

\* A panel that was never told of a failure knows whether it has recorded a decision:
\* there is none, or there is one, whose answer is due or was shown.
KnowsOwn(p) ==
    ~panels[p].lost =>
       \/ Entries(p) = {} /\ panels[p].recorded = 0 /\ deciding[p].step # "saved"
       \/ /\ \E i \in 1..Len(record.decisions) : Entries(p) = {i}
          /\ \/ deciding[p].step = "saved"
             \/ panels[p].recorded # 0 /\ panels[p].dialog = "none"

HistoryHolds(s) ==
    s.shown => /\ s.capable /\ 1..s.listed \subseteq s.history
               /\ s.recorded \notin s.history \cup {0} => s.listed < s.recorded

Roles == OneBaseline /\ EvidenceWasApproved /\ Turns
Panels == \A p \in Panel : SavedIsLast(p) /\ KnowsOwn(p) /\ HistoryHolds(panels[p])
RInv == ReleaseTypeOK /\ Counted /\ Waits /\ Roles /\ Panels

-----------------------------------------------------------------------------
(* Types and counts *)

\* ReleaseTypeOK, by the sets of the parts.
LEMMA TypeSets ==
    ReleaseTypeOK <=>
      /\ roles \in [Run -> {"exploratory", "baseline", "evidence"}]
      /\ record \in RecordState
      /\ panels \in [Panel -> PanelState]
      /\ deciding \in [Panel -> DecidingState]
      /\ editing \in [Editor -> EditState]
BY DEF ReleaseTypeOK, RecordState, PanelState, DecidingState, EditState

\* Any set of runs is finite, the requests under way among them.
LEMMA RunsCount ==
    ASSUME ReleaseAssumption
    PROVE  /\ MaxActs \in Nat
           /\ \A S \in SUBSET Run : IsFiniteSet(S) /\ Cardinality(S) \in Nat
           /\ InFlight \in SUBSET Run /\ Cardinality(InFlight) \in Nat
  <1>1. \A S \in SUBSET Run : IsFiniteSet(S) /\ Cardinality(S) \in Nat
    BY FS_Subset, FS_CardinalityType DEF ReleaseAssumption
  <1>2. InFlight \in SUBSET Run
    BY DEF InFlight, ReleaseAssumption
  <1>3. QED
    BY <1>1, <1>2 DEF ReleaseAssumption

\* What RInv bounds.
LEMMA RecordBounds ==
    ASSUME ReleaseAssumption, RInv
    PROVE  /\ record \in RecordState /\ record.decisions \in Seq(Decision)
           /\ record.changes \in Seq(Change)
           /\ record.acts \in 0..MaxActs /\ Len(record.decisions) \in 0..record.acts
           /\ Len(record.decisions) \in 0..MaxActs
           /\ \A p \in InFlight : Len(record.decisions) + 1 \in 1..record.acts
  <1>1. record \in RecordState
    BY TypeSets DEF RInv
  <1>2. /\ record.decisions \in Seq(Decision) /\ record.changes \in Seq(Change)
        /\ record.acts \in 0..MaxActs /\ Len(record.decisions) \in Nat
    BY <1>1 DEF RecordState
  <1>3. Len(record.decisions) + Cardinality(InFlight) <= record.acts
    BY DEF RInv, Counted
  <1>4. Cardinality(InFlight) \in Nat /\ MaxActs \in Nat /\ IsFiniteSet(InFlight)
    BY RunsCount
  <1>5. ASSUME NEW p \in InFlight PROVE Cardinality(InFlight) # 0
    BY <1>4, FS_EmptySet
  <1>6. Len(record.decisions) \in 0..record.acts /\ Len(record.decisions) \in 0..MaxActs
    BY <1>2, <1>3, <1>4
  <1>7. \A p \in InFlight : Len(record.decisions) + 1 \in 1..record.acts
    BY <1>2, <1>3, <1>4, <1>5
  <1>8. QED
    BY <1>1, <1>2, <1>6, <1>7

\* An experiment with no roles, no decisions and no tabs.
LEMMA InitHolds == ReleaseAssumption /\ ReleaseInit => RInv
  <1> SUFFICES ASSUME ReleaseAssumption, ReleaseInit PROVE RInv
    OBVIOUS
  <1>1. record = [approved |-> FALSE, decisions |-> <<>>, changes |-> <<>>, acts |-> 0]
    BY DEF ReleaseInit
  <1>2. ReleaseTypeOK
    BY RunsCount DEF ReleaseInit, ReleaseTypeOK, Choice, NoDecision, NoEdit
  <1>3. With("baseline") = {} /\ With("evidence") = {} /\ InFlight = {}
    BY DEF ReleaseInit, With, InFlight, NoDecision
  <1>4. Counted
    BY <1>1, <1>3, FS_EmptySet DEF Counted
  <1>5. Waits /\ Turns
    BY <1>3 DEF ReleaseInit, Waits, Turns, NoDecision, HoldsStatus
  <1>6. Roles
    BY <1>3, <1>5, FS_EmptySet DEF Roles, OneBaseline, EvidenceWasApproved
  <1>7. Panels
    BY <1>1 DEF ReleaseInit, Panels, SavedIsLast, KnowsOwn, HistoryHolds, Entries, NoDecision
  <1>8. QED
    BY <1>2, <1>4, <1>5, <1>6, <1>7 DEF RInv

-----------------------------------------------------------------------------
(* The panel *)

\* What a step needs that writes one panel and nothing else.
LEMMA PanelOnly ==
    ASSUME ReleaseAssumption, RInv, NEW p \in Panel, NEW x \in PanelState,
           panels' = [panels EXCEPT ![p] = x], UNCHANGED <<roles, record, deciding, editing>>,
           x.dialog = "pending" <=> panels[p].dialog = "pending",
           x.lost = panels[p].lost, x.recorded = panels[p].recorded,
           panels[p].recorded # 0 /\ panels[p].dialog = "none" => x.dialog = "none",
           HistoryHolds(x)
    PROVE  RInv'
  <1>1. /\ panels'[p] = x /\ \A q \in Panel : q # p => panels'[q] = panels[q]
        /\ panels' \in [Panel -> PanelState]
    BY TypeSets DEF RInv
  <1>2. ReleaseTypeOK'
    BY <1>1 DEF RInv, ReleaseTypeOK, PanelState
  <1>3. Counted' /\ Waits'
    BY <1>1 DEF RInv, Counted, Waits, InFlight
  <1>4. Roles'
    BY DEF RInv, Roles, OneBaseline, EvidenceWasApproved, Turns, With, NoneLate, HoldsStatus
  <1>5. ASSUME NEW q \in Panel PROVE (SavedIsLast(q) /\ KnowsOwn(q) /\ HistoryHolds(panels[q]))'
    <2>1. SavedIsLast(q)' /\ Entries(q)' = Entries(q)
      BY DEF RInv, Panels, SavedIsLast, LastOf, Entries
    <2>2. KnowsOwn(q)'
      <3>1. KnowsOwn(q)
        BY DEF RInv, Panels
      <3>2. CASE q = p
        BY <1>1, <2>1, <3>1, <3>2 DEF KnowsOwn
      <3>3. CASE q # p
        BY <1>1, <2>1, <3>1, <3>3 DEF KnowsOwn
      <3>4. QED
        BY <3>2, <3>3
    <2>3. HistoryHolds(panels'[q])
      BY <1>1 DEF RInv, Panels
    <2>4. HistoryHolds(panels[q])'
      BY <2>3 DEF HistoryHolds
    <2>5. QED
      BY <2>1, <2>2, <2>4
  <1>6. QED
    BY <1>2, <1>3, <1>4, <1>5 DEF RInv, Panels

\* Opening and closing a panel's dialog, and what the server lists in it.
LEMMA PanelSteps ==
    ASSUME ReleaseAssumption, RInv, NEW p \in Panel,
           CapabilityGranted(p) \/ HistoryArrives(p) \/ OpenConfirm(p) \/ CancelConfirm(p)
    PROVE  RInv'
  <1>1. panels[p] \in PanelState /\ HistoryHolds(panels[p])
    BY TypeSets DEF RInv, Panels
  <1>2. Len(record.decisions) \in 0..MaxActs
    BY RecordBounds
  <1>3. CASE CapabilityGranted(p)
    <2> DEFINE x == [panels[p] EXCEPT !.capable = TRUE, !.listed = Len(record.decisions)]
    <2>1. panels' = [panels EXCEPT ![p] = x] /\ UNCHANGED <<roles, record, deciding, editing>>
      BY <1>3 DEF CapabilityGranted
    <2>2. /\ x \in PanelState /\ x.dialog = panels[p].dialog /\ x.lost = panels[p].lost
          /\ x.recorded = panels[p].recorded /\ x.shown = panels[p].shown
      BY <1>1, <1>2 DEF PanelState
    <2>3. ~x.shown
      BY <1>1, <1>3, <2>2 DEF CapabilityGranted, HistoryHolds
    <2> HIDE DEF x
    <2>4. QED
      BY <2>1, <2>2, <2>3, PanelOnly DEF HistoryHolds
  <1>4. CASE HistoryArrives(p)
    <2> DEFINE read == 1..panels[p].listed
               x == [panels[p] EXCEPT !.shown = TRUE, !.history = read]
    <2>1. /\ panels' = [panels EXCEPT ![p] = x] /\ UNCHANGED <<roles, record, deciding, editing>>
          /\ panels[p].capable
      BY <1>4 DEF HistoryArrives
    <2>2. panels[p].listed \in 0..MaxActs /\ panels[p].recorded \in 0..MaxActs /\ MaxActs \in Nat
      BY <1>1, RunsCount DEF PanelState
    <2>r. read \in SUBSET (1..MaxActs)
      BY <2>2
    <2> HIDE DEF read
    <2>3. /\ x \in PanelState /\ x.dialog = panels[p].dialog /\ x.lost = panels[p].lost
          /\ x.recorded = panels[p].recorded /\ x.capable /\ x.listed = panels[p].listed
          /\ x.history = read
      BY <1>1, <2>1, <2>r DEF PanelState
    <2> HIDE DEF x
    <2>4. HistoryHolds(x)
      BY <2>2, <2>3 DEF HistoryHolds, read
    <2>5. QED
      BY <2>1, <2>3, <2>4, PanelOnly
  <1>5. CASE OpenConfirm(p)
    <2>1. PICK choice \in Choice :
            panels' = [panels EXCEPT ![p] =
                         [panels[p] EXCEPT !.dialog = "asking", !.choice = choice]]
      BY <1>5 DEF OpenConfirm
    <2> DEFINE x == [panels[p] EXCEPT !.dialog = "asking", !.choice = choice]
    <2>2. /\ UNCHANGED <<roles, record, deciding, editing>>
          /\ panels[p].recorded = 0 /\ panels[p].dialog = "none"
      BY <1>5 DEF OpenConfirm
    <2>3. /\ x \in PanelState /\ x.dialog = "asking" /\ x.lost = panels[p].lost
          /\ x.recorded = panels[p].recorded /\ x.shown = panels[p].shown
          /\ x.capable = panels[p].capable /\ x.listed = panels[p].listed
          /\ x.history = panels[p].history
      BY <1>1 DEF PanelState
    <2>4. panels' = [panels EXCEPT ![p] = x]
      BY <2>1
    <2> HIDE DEF x
    <2>5. HistoryHolds(x)
      BY <1>1, <2>3 DEF HistoryHolds
    <2>6. QED
      BY <2>2, <2>3, <2>4, <2>5, PanelOnly
  <1>6. CASE CancelConfirm(p)
    <2> DEFINE x == [panels[p] EXCEPT !.dialog = "none"]
    <2>1. /\ panels' = [panels EXCEPT ![p] = x] /\ UNCHANGED <<roles, record, deciding, editing>>
          /\ panels[p].dialog = "asking"
      BY <1>6 DEF CancelConfirm
    <2>2. /\ x \in PanelState /\ x.dialog = "none" /\ x.lost = panels[p].lost
          /\ x.recorded = panels[p].recorded /\ x.shown = panels[p].shown
          /\ x.capable = panels[p].capable /\ x.listed = panels[p].listed
          /\ x.history = panels[p].history
      BY <1>1 DEF PanelState
    <2> HIDE DEF x
    <2>3. HistoryHolds(x)
      BY <1>1, <2>2 DEF HistoryHolds
    <2>4. QED
      BY <2>1, <2>2, <2>3, PanelOnly
  <1>7. QED
    BY <1>3, <1>4, <1>5, <1>6

\* A decision is sent.
LEMMA SubmitStep ==
    ASSUME ReleaseAssumption, RInv, NEW p \in Panel, SubmitDecision(p)
    PROVE  RInv'
  <1> DEFINE x == [panels[p] EXCEPT !.dialog = "pending"]
             step == IF p \in Pinned THEN "refused" ELSE "begun"
             d == [step |-> step, late |-> record.approved, saw |-> {}]
             rec == [record EXCEPT !.acts = @ + 1]
  <1>1. /\ panels' = [panels EXCEPT ![p] = x] /\ deciding' = [deciding EXCEPT ![p] = d]
        /\ record' = rec /\ UNCHANGED <<roles, editing>>
        /\ record.acts < MaxActs /\ panels[p].dialog = "asking" /\ deciding[p].step = "none"
    BY DEF SubmitDecision, MayRecord, Act
  <1>2. panels[p] \in PanelState /\ record \in RecordState /\ MaxActs \in Nat
    BY TypeSets, RunsCount DEF RInv
  <1>3. /\ rec \in RecordState /\ rec.decisions = record.decisions /\ rec.acts = record.acts + 1
    <2> DEFINE next == record.acts + 1
    <2>1. next \in 0..MaxActs
      BY <1>1, <1>2 DEF RecordState
    <2>2. rec = [record EXCEPT !.acts = next]
      OBVIOUS
    <2> HIDE DEF next, rec
    <2>3. rec \in RecordState /\ rec.decisions = record.decisions /\ rec.acts = next
      BY <1>2, <2>1, <2>2 DEF RecordState
    <2>4. QED
      BY <2>3 DEF next
  <1>4. /\ x \in PanelState /\ x.dialog = "pending"
        /\ x.lost = panels[p].lost /\ x.recorded = panels[p].recorded
        /\ x.shown = panels[p].shown /\ x.capable = panels[p].capable
        /\ x.listed = panels[p].listed /\ x.history = panels[p].history
    BY <1>2 DEF PanelState
  <1>5. d \in DecidingState /\ d.step = step /\ step \in {"refused", "begun"}
    BY <1>2 DEF DecidingState, RecordState
  <1> HIDE DEF x, d, rec, step
  <1>6. /\ panels'[p] = x /\ deciding'[p] = d
        /\ \A q \in Panel : q # p => panels'[q] = panels[q] /\ deciding'[q] = deciding[q]
        /\ panels' \in [Panel -> PanelState] /\ deciding' \in [Panel -> DecidingState]
    BY <1>1, <1>4, <1>5, TypeSets DEF RInv
  <1>7. ReleaseTypeOK'
    BY <1>1, <1>3, <1>6 DEF RInv, ReleaseTypeOK, PanelState, DecidingState, RecordState
  <1>8. Counted'
    <2>1. InFlight' \in SUBSET (InFlight \cup {p}) /\ (InFlight \cup {p}) \in SUBSET Run
      BY <1>6, RunsCount DEF InFlight, ReleaseAssumption
    <2>2. p \notin InFlight
      BY <1>1 DEF InFlight
    <2>3. IsFiniteSet(InFlight) /\ Cardinality(InFlight) \in Nat
          /\ IsFiniteSet(InFlight \cup {p}) /\ Cardinality(InFlight') \in Nat
      BY <2>1, RunsCount
    <2>4. Cardinality(InFlight') <= Cardinality(InFlight \cup {p})
      BY <2>1, <2>3, FS_Subset
    <2>5. Cardinality(InFlight \cup {p}) = Cardinality(InFlight) + 1
      BY <2>2, <2>3, FS_AddElement
    <2>6. Len(record.decisions) \in Nat /\ record.acts \in Nat
      BY <1>2 DEF RecordState
    <2>7. QED
      BY <1>1, <1>3, <2>3, <2>4, <2>5, <2>6 DEF RInv, Counted
  <1>9. Waits'
    BY <1>4, <1>5, <1>6 DEF RInv, Waits
  <1>10. Roles'
    <2>1. record'.decisions = record.decisions /\ UNCHANGED roles
      BY <1>1, <1>3
    <2>2. \A q \in Panel : HoldsStatus(q)' => HoldsStatus(q) /\ deciding'[q] = deciding[q]
      BY <1>5, <1>6 DEF HoldsStatus
    <2>3. QED
      BY <2>1, <2>2 DEF RInv, Roles, OneBaseline, EvidenceWasApproved, Turns, With, NoneLate
  <1>11. ASSUME NEW q \in Panel PROVE (SavedIsLast(q) /\ KnowsOwn(q) /\ HistoryHolds(panels[q]))'
    <2>1. record'.decisions = record.decisions
      BY <1>1, <1>3
    <2>2. Entries(q)' = Entries(q) /\ SavedIsLast(q) /\ KnowsOwn(q) /\ HistoryHolds(panels[q])
      BY <2>1 DEF Entries, RInv, Panels
    <2>3. CASE q = p
      BY <1>1, <1>4, <1>5, <1>6, <2>1, <2>2, <2>3 DEF SavedIsLast, KnowsOwn, HistoryHolds
    <2>4. CASE q # p
      BY <1>6, <2>1, <2>2, <2>4 DEF SavedIsLast, LastOf, KnowsOwn, HistoryHolds
    <2>5. QED
      BY <2>3, <2>4
  <1>12. QED
    BY <1>7, <1>8, <1>9, <1>10, <1>11 DEF RInv, Panels

-----------------------------------------------------------------------------
(* The transaction of a decision *)

\* An approval reads the evidence, when it has its turn.
LEMMA ReadStep ==
    ASSUME ReleaseAssumption, RInv, NEW p \in Panel, ReadEvidence(p)
    PROVE  RInv'
  <1> DEFINE d == [deciding[p] EXCEPT !.step = "read", !.saw = With("evidence")]
  <1>1. /\ deciding' = [deciding EXCEPT ![p] = d] /\ UNCHANGED <<roles, record, panels, editing>>
        /\ deciding[p].step = "begun" /\ HasItsTurn(p)
    BY DEF ReadEvidence
  <1>2. deciding[p] \in DecidingState /\ With("evidence") \in SUBSET Run
    BY TypeSets DEF RInv, With
  <1> DEFINE E == With("evidence")
  <1> HIDE DEF E
  <1>3. /\ d \in DecidingState /\ d.step = "read" /\ d.late = deciding[p].late
        /\ d.saw = With("evidence")
    BY <1>2 DEF DecidingState
  <1> HIDE DEF d
  <1>4. /\ deciding'[p] = d /\ \A q \in Panel : q # p => deciding'[q] = deciding[q]
        /\ deciding' \in [Panel -> DecidingState]
    BY <1>1, <1>3, TypeSets DEF RInv
  <1>5. ReleaseTypeOK'
    BY <1>1, <1>4 DEF RInv, ReleaseTypeOK, DecidingState
  <1>6. InFlight' = InFlight
    BY <1>1, <1>3, <1>4 DEF InFlight
  <1>7. Counted' /\ Waits'
    BY <1>1, <1>3, <1>4, <1>6 DEF RInv, Counted, Waits
  <1>8. Turns'
    <2>1. CASE deciding[p].late
      <3>1. \A q \in Panel : HoldsStatus(q)' => HoldsStatus(q) /\ deciding'[q] = deciding[q]
        BY <1>3, <1>4, <2>1 DEF HoldsStatus
      <3>2. QED
        BY <1>1, <3>1 DEF RInv, Roles, Turns, With, NoneLate
    <2>2. CASE ~deciding[p].late
      <3>1. \A q \in Panel : ~HoldsStatus(q)
        BY <1>1, <2>2 DEF HasItsTurn
      <3>2. \A q \in Panel : HoldsStatus(q)' => q = p
        BY <1>4, <3>1 DEF HoldsStatus
      <3>3. deciding'[p].saw = With("evidence")' /\ NoneLate' = NoneLate
            /\ With("evidence")' = With("evidence")
        BY <1>1, <1>3, <1>4 DEF With, NoneLate
      <3>4. QED
        BY <3>2, <3>3 DEF RInv, Roles, Turns
    <2>3. QED
      BY <2>1, <2>2
  <1>9. Roles'
    BY <1>1, <1>8 DEF RInv, Roles, OneBaseline, EvidenceWasApproved, With
  <1>10. ASSUME NEW q \in Panel
         PROVE (SavedIsLast(q) /\ KnowsOwn(q) /\ HistoryHolds(panels[q]))'
    <2>1. Entries(q)' = Entries(q) /\ SavedIsLast(q) /\ KnowsOwn(q) /\ HistoryHolds(panels[q])
      BY <1>1 DEF Entries, RInv, Panels
    <2>2. deciding'[q].step = "saved" <=> deciding[q].step = "saved"
      BY <1>1, <1>3, <1>4
    <2>3. QED
      BY <1>1, <2>1, <2>2 DEF SavedIsLast, LastOf, KnowsOwn, HistoryHolds
  <1>11. QED
    BY <1>5, <1>7, <1>9, <1>10 DEF RInv, Panels

\* What an appended decision changes of what is recorded.
LEMMA Appended ==
    ASSUME ReleaseAssumption, RInv, NEW new \in Decision, UNCHANGED panels,
           record'.decisions = Append(record.decisions, new)
    PROVE  LET n == Len(record.decisions) IN
           /\ Len(record'.decisions) = n + 1 /\ n \in Nat /\ record'.decisions[n + 1] = new
           /\ \A i \in 1..n : record'.decisions[i] = record.decisions[i]
           /\ \A q \in Panel : /\ q # new.run => Entries(q)' = Entries(q)
                               /\ q = new.run => Entries(q)' = Entries(q) \cup {n + 1}
           /\ NoneLate' <=> NoneLate /\ ~new.late
  <1> DEFINE d == record.decisions
             n == Len(d)
  <1>1. d \in Seq(Decision) /\ n \in Nat
    BY RecordBounds
  <1> HIDE DEF d
  <1>2. Len(Append(d, new)) = n + 1 /\ Append(d, new)[n + 1] = new
        /\ \A i \in 1..n : Append(d, new)[i] = d[i]
    BY <1>1
  <1>3. 1..(n + 1) = (1..n) \cup {n + 1}
    BY <1>1
  <1>4. record'.decisions = Append(d, new)
    BY DEF d
  <1>5. ASSUME NEW q \in Panel
        PROVE  /\ q # new.run => Entries(q)' = Entries(q)
               /\ q = new.run => Entries(q)' = Entries(q) \cup {n + 1}
    <2>1. Entries(q)' = {i \in 1..(n + 1) : Append(d, new)[i].run = q}
      BY <1>2, <1>4 DEF Entries
    <2>2. Entries(q) = {i \in 1..n : d[i].run = q}
      BY DEF Entries, d
    <2>3. QED
      BY <1>1, <1>2, <1>3, <2>1, <2>2
  <1>6. NoneLate' <=> NoneLate /\ ~new.late
    <2>1. NoneLate' <=> \A i \in 1..(n + 1) : ~Append(d, new)[i].late
      BY <1>2, <1>4 DEF NoneLate
    <2>2. NoneLate <=> \A i \in 1..n : ~d[i].late
      BY DEF NoneLate, d
    <2>3. QED
      BY <1>1, <1>2, <1>3, <2>1, <2>2
  <1>7. QED
    BY <1>1, <1>2, <1>4, <1>5, <1>6 DEF d

\* A decision is recorded, and an approved run becomes the evidence.
LEMMA CommitStep ==
    ASSUME ReleaseAssumption, RInv, NEW p \in Panel, CommitDecision(p)
    PROVE  RInv'
  <1> DEFINE new == [run |-> p, choice |-> panels[p].choice, late |-> deciding[p].late]
             rec == [record EXCEPT !.approved = @ \/ Approves(p), !.decisions = Append(@, new)]
             d == [deciding[p] EXCEPT !.step = "saved"]
             saw == deciding[p].saw
             mine == IF p \in saw THEN roles[p] ELSE "evidence"
             n == Len(record.decisions)
  <1>1. /\ record' = rec /\ deciding' = [deciding EXCEPT ![p] = d] /\ UNCHANGED <<panels, editing>>
        /\ deciding[p].step = IF Approves(p) THEN "read" ELSE "begun"
        /\ roles' = IF ~Approves(p) THEN roles ELSE Rewrite(saw \ {p}, p, mine)
    BY DEF CommitDecision, BecomesEvidence
  <1>2. /\ deciding[p] \in DecidingState /\ panels[p] \in PanelState /\ record \in RecordState
        /\ roles \in [Run -> {"exploratory", "baseline", "evidence"}] /\ p \in Run
    BY TypeSets DEF RInv, ReleaseAssumption
  <1>3. /\ new \in Decision /\ new.run = p /\ new.choice = panels[p].choice
        /\ new.late = deciding[p].late
    BY <1>2 DEF Decision, DecidingState, PanelState
  <1>4. /\ d \in DecidingState /\ d.step = "saved"
    BY <1>2 DEF DecidingState
  <1> HIDE DEF new, d
  <1>5. /\ rec \in RecordState /\ rec.decisions = Append(record.decisions, new)
        /\ rec.acts = record.acts
    <2>1. record.decisions \in Seq(Decision) /\ Append(record.decisions, new) \in Seq(Decision)
          /\ record.approved \in BOOLEAN
      BY <1>2, <1>3 DEF RecordState
    <2> DEFINE ds == Append(record.decisions, new)
               ok == record.approved \/ Approves(p)
    <2>2. rec = [record EXCEPT !.approved = ok, !.decisions = ds] /\ ok \in BOOLEAN
          /\ ds \in Seq(Decision)
      BY <2>1 DEF Approves
    <2> HIDE DEF ds, ok
    <2>3. /\ [record EXCEPT !.approved = ok, !.decisions = ds] \in RecordState
          /\ [record EXCEPT !.approved = ok, !.decisions = ds].decisions = ds
          /\ [record EXCEPT !.approved = ok, !.decisions = ds].acts = record.acts
      BY <1>2, <2>2 DEF RecordState
    <2>4. QED
      BY <2>2, <2>3 DEF ds
  <1> HIDE DEF rec
  <1>6. record'.decisions = Append(record.decisions, new) /\ record' \in RecordState
        /\ record'.acts = record.acts
    BY <1>1, <1>5
  <1>7. /\ Len(record'.decisions) = n + 1 /\ n \in Nat /\ record'.decisions[n + 1] = new
        /\ \A i \in 1..n : record'.decisions[i] = record.decisions[i]
        /\ \A q \in Panel : /\ q # p => Entries(q)' = Entries(q)
                            /\ q = p => Entries(q)' = Entries(q) \cup {n + 1}
        /\ NoneLate' <=> NoneLate /\ ~deciding[p].late
    BY <1>1, <1>3, <1>6, Appended
  <1>8. /\ deciding'[p] = d /\ \A q \in Panel : q # p => deciding'[q] = deciding[q]
        /\ deciding' \in [Panel -> DecidingState]
    BY <1>1, <1>4, TypeSets DEF RInv
  <1>9. /\ Approves(p) => \A r \in Run : roles'[r] = IF r = p THEN mine
                             ELSE IF r \in saw \ {p} THEN "exploratory" ELSE roles[r]
        /\ ~Approves(p) => roles' = roles
        /\ roles' \in [Run -> {"exploratory", "baseline", "evidence"}]
    BY <1>1, <1>2 DEF Rewrite
  <1>10. ReleaseTypeOK'
    BY <1>1, <1>6, <1>8, <1>9 DEF RInv, ReleaseTypeOK, RecordState, DecidingState
  <1>11. Counted'
    <2>1. p \in InFlight /\ InFlight' = InFlight \ {p}
      BY <1>1, <1>4, <1>8 DEF InFlight
    <2>2. IsFiniteSet(InFlight) /\ Cardinality(InFlight) \in Nat
      BY RunsCount
    <2>3. Cardinality(InFlight') = Cardinality(InFlight) - 1
      BY <2>1, <2>2, FS_RemoveElement
    <2>4. record.acts \in Nat
      BY <1>2 DEF RecordState
    <2>5. QED
      BY <1>6, <1>7, <2>2, <2>3, <2>4 DEF RInv, Counted
  <1>12. Waits'
    BY <1>1, <1>4, <1>8 DEF RInv, Waits
  <1>13. OneBaseline'
    <2>1. With("baseline")' \in SUBSET With("baseline") /\ With("baseline") \in SUBSET Run
          /\ With("baseline")' \in SUBSET Run
      BY <1>2, <1>9 DEF With
    <2>2. /\ IsFiniteSet(With("baseline")) /\ Cardinality(With("baseline")) \in Nat
          /\ Cardinality(With("baseline")') \in Nat
      BY <2>1, RunsCount
    <2>3. Cardinality(With("baseline")') <= Cardinality(With("baseline"))
      BY <2>1, <2>2, FS_Subset
    <2>4. QED
      BY <2>2, <2>3 DEF RInv, Roles, OneBaseline
  <1>14. EvidenceWasApproved'
    <2> SUFFICES ASSUME NEW r \in With("evidence")'
                 PROVE  \E i \in 1..Len(record'.decisions) :
                           record'.decisions[i].run = r /\ record'.decisions[i].choice = "approved"
      BY DEF EvidenceWasApproved
    <2>1. CASE r \in With("evidence")
      <3>1. PICK i \in 1..n : record.decisions[i].run = r /\ record.decisions[i].choice = "approved"
        BY <2>1 DEF RInv, Roles, EvidenceWasApproved
      <3>2. i \in 1..(n + 1) /\ record'.decisions[i] = record.decisions[i]
        BY <1>7
      <3>3. QED
        BY <1>7, <3>1, <3>2
    <2>2. CASE r \notin With("evidence")
      <3>1. r = p /\ Approves(p)
        BY <1>9, <2>2 DEF With
      <3>2. new.choice = "approved" /\ n + 1 \in 1..(n + 1)
        BY <1>3, <1>7, <3>1 DEF Approves
      <3>3. QED
        BY <1>3, <1>7, <3>1, <3>2
    <2>3. QED
      BY <2>1, <2>2
  <1>15. Turns'
    <2>1. \A q \in Panel : HoldsStatus(q)' => q # p /\ HoldsStatus(q)
      BY <1>4, <1>8 DEF HoldsStatus
    <2>2. ASSUME NoneLate'
          PROVE  /\ \A r, s \in With("evidence")' : r = s
                 /\ \A q \in Panel : HoldsStatus(q)' => With("evidence")' \subseteq deciding'[q].saw
      <3>1. NoneLate /\ ~deciding[p].late
        BY <1>7, <2>2
      <3>2. CASE Approves(p)
        <4>1. HoldsStatus(p)
          BY <1>1, <3>1, <3>2 DEF HoldsStatus
        <4>2. With("evidence") \subseteq saw
          BY <3>1, <4>1 DEF RInv, Roles, Turns
        <4>3. With("evidence")' \subseteq {p}
          BY <1>9, <3>2, <4>2 DEF With
        <4>4. \A q \in Panel : ~HoldsStatus(q)'
          BY <2>1, <4>1 DEF RInv, Roles, Turns
        <4>5. QED
          BY <4>3, <4>4
      <3>3. CASE ~Approves(p)
        <4>1. With("evidence")' = With("evidence")
          BY <1>9, <3>3 DEF With
        <4>2. QED
          BY <1>8, <2>1, <3>1, <4>1 DEF RInv, Roles, Turns
      <3>4. QED
        BY <3>2, <3>3
    <2>3. QED
      BY <2>1, <2>2 DEF RInv, Roles, Turns
  <1>16. ASSUME NEW q \in Panel
         PROVE (SavedIsLast(q) /\ KnowsOwn(q) /\ HistoryHolds(panels[q]))'
    <2>1. SavedIsLast(q) /\ KnowsOwn(q) /\ HistoryHolds(panels[q])
      BY DEF RInv, Panels
    <2>2. HistoryHolds(panels[q])'
      BY <1>1, <2>1 DEF HistoryHolds
    <2>3. CASE q = p
      <3>1. PICK m \in Nat : m = n + 1
        BY <1>7
      <3>2. m \in 1..Len(record'.decisions) /\ m = Len(record'.decisions)
            /\ record'.decisions[m].run = p
        BY <1>3, <1>7, <3>1
      <3>3. LastOf(p, m)'
        <4>1. \A j \in (m + 1)..Len(record'.decisions) : FALSE
          BY <3>1, <3>2
        <4>2. QED
          BY <3>2, <4>1 DEF LastOf
      <3>4. SavedIsLast(p)'
        BY <3>2, <3>3 DEF SavedIsLast
      <3>5. panels[p].dialog = "pending" /\ deciding[p].step # "saved"
        BY <1>1 DEF RInv, Waits
      <3>6. ~panels[p].lost => Entries(p) = {}
        BY <2>1, <2>3, <3>5 DEF KnowsOwn
      <3>7. ~panels[p].lost => Entries(p)' = {m}
        BY <1>7, <3>1, <3>6
      <3>8. deciding'[p].step = "saved" /\ panels' = panels
        BY <1>1, <1>4, <1>8
      <3>9. KnowsOwn(p)'
        BY <3>2, <3>7, <3>8 DEF KnowsOwn
      <3>10. QED
        BY <2>2, <2>3, <3>4, <3>9
    <2>4. CASE q # p
      <3>1. Entries(q)' = Entries(q) /\ deciding'[q] = deciding[q]
            /\ 1..n \subseteq 1..Len(record'.decisions)
        BY <1>7, <1>8, <2>4
      <3>2. KnowsOwn(q)'
        BY <1>1, <2>1, <3>1 DEF KnowsOwn
      <3>3. ASSUME NEW i \in 1..n, LastOf(q, i) PROVE LastOf(q, i)'
        <4>1. i \in 1..Len(record'.decisions) /\ record'.decisions[i].run = q
          BY <1>7, <3>1, <3>3 DEF LastOf
        <4>2. ASSUME NEW j \in (i + 1)..Len(record'.decisions) PROVE record'.decisions[j].run # q
          <5>1. CASE j = n + 1
            BY <1>3, <1>7, <2>4, <5>1
          <5>2. CASE j # n + 1
            <6>1. j \in (i + 1)..n /\ j \in 1..n
              BY <1>7, <5>2
            <6>2. QED
              BY <1>7, <3>3, <6>1 DEF LastOf
          <5>3. QED
            BY <5>1, <5>2
        <4>3. QED
          BY <4>1, <4>2 DEF LastOf
      <3>4. SavedIsLast(q)'
        BY <2>1, <3>1, <3>3 DEF SavedIsLast
      <3>5. QED
        BY <2>2, <3>2, <3>4
    <2>5. QED
      BY <2>3, <2>4
  <1>17. QED
    BY <1>10, <1>11, <1>12, <1>13, <1>14, <1>15, <1>16 DEF RInv, Roles, Panels

\* The answer of a request: what is read back is the last decision of its run.
LEMMA AnswerStep ==
    ASSUME ReleaseAssumption, RInv, NEW p \in Panel, DecisionAnswers(p)
    PROVE  RInv'
  <1> DEFINE Latest(i) == /\ i > 0 => record.decisions[i].run = p
                          /\ \A j \in i + 1..Len(record.decisions) : record.decisions[j].run # p
             id == CHOOSE i \in 0..Len(record.decisions) : Latest(i)
             ended == deciding[p].step = "saved"
  <1>1. PICK lost \in BOOLEAN :
          panels' = [panels EXCEPT ![p].dialog = "none",
              ![p].refused = @ \/ deciding[p].step = "refused",
              ![p].lost = @ \/ (lost /\ deciding[p].step = "saved"),
              ![p].recorded = IF ended /\ ~lost THEN id ELSE @,
              ![p].history = IF ended /\ ~lost THEN WithSaved(p, id) ELSE @]
    BY DEF DecisionAnswers
  <1>2. /\ panels[p].dialog = "pending" /\ deciding[p].step \in {"refused", "saved"}
        /\ deciding' = [deciding EXCEPT ![p] = NoDecision]
        /\ UNCHANGED <<roles, record, editing>>
    BY DEF DecisionAnswers
  <1>3. panels[p] \in PanelState /\ HistoryHolds(panels[p]) /\ SavedIsLast(p) /\ KnowsOwn(p)
    BY TypeSets DEF RInv, Panels
  <1>4. Len(record.decisions) \in 0..MaxActs /\ MaxActs \in Nat
    BY RecordBounds, RunsCount
  <1>5. ended => id \in Entries(p) /\ id \in 1..MaxActs
    <2> SUFFICES ASSUME ended PROVE id \in Entries(p) /\ id \in 1..MaxActs
      OBVIOUS
    <2>1. PICK k \in 1..Len(record.decisions) : LastOf(p, k)
      BY <1>3 DEF SavedIsLast
    <2>2. k \in 0..Len(record.decisions) /\ Latest(k)
      BY <1>4, <2>1 DEF LastOf
    <2>3. id \in 0..Len(record.decisions) /\ Latest(id)
      BY <2>2
    <2> HIDE DEF id
    <2>4. id # 0
      BY <1>4, <2>1, <2>3 DEF LastOf
    <2>5. QED
      BY <1>4, <2>3, <2>4 DEF Entries
  <1> HIDE DEF id
  <1> DEFINE told == ended /\ ~lost
             x == [panels[p] EXCEPT !.dialog = "none",
                     !.refused = @ \/ deciding[p].step = "refused",
                     !.lost = @ \/ (lost /\ deciding[p].step = "saved"),
                     !.recorded = IF told THEN id ELSE @,
                     !.history = IF told THEN panels[p].history \cup {id} ELSE @]
  <1>6. panels' = [panels EXCEPT ![p] = x]
    BY <1>1, <1>3 DEF WithSaved, PanelState
  <1>7. /\ x \in PanelState /\ x.dialog = "none"
        /\ x.lost <=> panels[p].lost \/ (lost /\ ended)
        /\ x.recorded = IF told THEN id ELSE panels[p].recorded
        /\ x.history = IF told THEN panels[p].history \cup {id} ELSE panels[p].history
        /\ x.shown = panels[p].shown /\ x.capable = panels[p].capable
        /\ x.listed = panels[p].listed
    <2> DEFINE back == IF told THEN id ELSE panels[p].recorded
               seen == IF told THEN panels[p].history \cup {id} ELSE panels[p].history
               gone == panels[p].lost \/ (lost /\ deciding[p].step = "saved")
               no == panels[p].refused \/ deciding[p].step = "refused"
    <2>1. x = [panels[p] EXCEPT !.dialog = "none", !.refused = no, !.lost = gone,
                                !.recorded = back, !.history = seen]
      BY <1>3 DEF PanelState
    <2>2. back \in 0..MaxActs
      BY <1>3, <1>4, <1>5 DEF PanelState
    <2>3. seen \in SUBSET (1..MaxActs)
      BY <1>3, <1>5 DEF PanelState
    <2>4. gone \in BOOLEAN /\ no \in BOOLEAN
      BY <1>3 DEF PanelState
    <2>5. gone <=> panels[p].lost \/ (lost /\ ended)
      OBVIOUS
    <2> HIDE DEF x, back, seen, gone, no, told, ended
    <2>6. /\ x \in PanelState /\ x.dialog = "none" /\ x.lost = gone /\ x.recorded = back
          /\ x.history = seen /\ x.shown = panels[p].shown /\ x.capable = panels[p].capable
          /\ x.listed = panels[p].listed
      BY <1>3, <2>1, <2>2, <2>3, <2>4 DEF PanelState
    <2>7. QED
      BY <2>5, <2>6 DEF back, seen
  <1> HIDE DEF x
  <1>8. /\ panels'[p] = x /\ deciding'[p] = NoDecision
        /\ \A q \in Panel : q # p => panels'[q] = panels[q] /\ deciding'[q] = deciding[q]
        /\ panels' \in [Panel -> PanelState] /\ deciding' \in [Panel -> DecidingState]
    <2>1. NoDecision \in DecidingState
      BY DEF NoDecision, DecidingState
    <2>2. QED
      BY <1>2, <1>6, <1>7, <2>1, TypeSets DEF RInv
  <1>9. ReleaseTypeOK'
    BY <1>2, <1>8 DEF RInv, ReleaseTypeOK, PanelState, DecidingState
  <1>10. InFlight' = InFlight
    BY <1>2, <1>8 DEF InFlight, NoDecision
  <1>11. Counted' /\ Waits'
    BY <1>2, <1>7, <1>8, <1>10 DEF RInv, Counted, Waits, NoDecision
  <1>12. \A q \in Panel : HoldsStatus(q)' => HoldsStatus(q) /\ deciding'[q] = deciding[q]
    BY <1>8 DEF HoldsStatus, NoDecision
  <1>13. Roles'
    BY <1>2, <1>12 DEF RInv, Roles, OneBaseline, EvidenceWasApproved, Turns, With, NoneLate
  <1>14. ASSUME NEW q \in Panel PROVE (SavedIsLast(q) /\ KnowsOwn(q) /\ HistoryHolds(panels[q]))'
    <2>1. Entries(q)' = Entries(q) /\ SavedIsLast(q) /\ KnowsOwn(q) /\ HistoryHolds(panels[q])
      BY <1>2 DEF Entries, RInv, Panels
    <2>2. CASE q = p
      <3>1. SavedIsLast(q)'
        BY <1>8, <2>2 DEF SavedIsLast, NoDecision
      <3>2. KnowsOwn(q)'
        <4>1. CASE told
          <5>1. x.recorded = id /\ id # 0 /\ id \in Entries(p) /\ x.dialog = "none"
                /\ (x.lost <=> panels[p].lost)
            BY <1>5, <1>7, <4>1
          <5>2. ~panels[p].lost => \E i \in 1..Len(record.decisions) : Entries(p) = {i}
            BY <2>1, <2>2, <5>1 DEF KnowsOwn
          <5>3. QED
            BY <1>2, <1>8, <2>1, <2>2, <5>1, <5>2 DEF KnowsOwn
        <4>2. CASE ~told /\ ended
          BY <1>7, <1>8, <2>2, <4>2 DEF KnowsOwn
        <4>3. CASE ~ended
          <5>1. x.recorded = panels[p].recorded /\ (x.lost <=> panels[p].lost)
            BY <1>7, <4>3
          <5>2. ~panels[p].lost => Entries(p) = {} /\ panels[p].recorded = 0
            BY <1>2, <2>1, <2>2, <4>3 DEF KnowsOwn
          <5>3. QED
            BY <1>8, <2>1, <2>2, <5>1, <5>2 DEF KnowsOwn, NoDecision
        <4>4. QED
          BY <4>1, <4>2, <4>3
      <3>3. HistoryHolds(x)
        BY <1>3, <1>7 DEF HistoryHolds
      <3>4. QED
        BY <1>8, <2>2, <3>1, <3>2, <3>3 DEF HistoryHolds
    <2>3. CASE q # p
      BY <1>2, <1>8, <2>1, <2>3 DEF SavedIsLast, LastOf, KnowsOwn, HistoryHolds
    <2>4. QED
      BY <2>2, <2>3
  <1>15. QED
    BY <1>9, <1>11, <1>13, <1>14 DEF RInv, Panels

-----------------------------------------------------------------------------
(* The transactions of a baseline change *)

\* What a step of an editor needs that appends no decision: the roles it leaves.
LEMMA EditorOnly ==
    ASSUME ReleaseAssumption, RInv, UNCHANGED <<panels, deciding>>,
           editing' \in [Editor -> EditState], record' \in RecordState,
           record'.decisions = record.decisions, record'.acts >= record.acts,
           roles' \in [Run -> {"exploratory", "baseline", "evidence"}],
           OneBaseline', With("evidence")' \subseteq With("evidence")
    PROVE  RInv'
  <1>1. ReleaseTypeOK'
    BY DEF RInv, ReleaseTypeOK, RecordState, EditState
  <1>2. InFlight' = InFlight
    BY DEF InFlight
  <1>3. Counted'
    <2>1. Len(record.decisions) \in Nat /\ record.acts \in Nat /\ Cardinality(InFlight) \in Nat
      BY RecordBounds, RunsCount
    <2>2. record'.acts \in Nat
      BY RunsCount DEF RecordState
    <2>3. QED
      BY <1>2, <2>1, <2>2 DEF RInv, Counted
  <1>4. Waits'
    BY DEF RInv, Waits
  <1>5. Roles'
    BY DEF RInv, Roles, EvidenceWasApproved, Turns, NoneLate, HoldsStatus
  <1>6. Panels'
    BY DEF RInv, Panels, SavedIsLast, LastOf, KnowsOwn, Entries, HistoryHolds
  <1>7. QED
    BY <1>1, <1>3, <1>4, <1>5, <1>6 DEF RInv

\* A promotion is requested of a run; an undo of the run the last change replaced, if any.
LEMMA RequestSteps ==
    ASSUME ReleaseAssumption, RInv, NEW e \in Editor,
           NEW run \in Run \cup {Nothing}, RequestBaseline(e, run)
    PROVE  RInv'
  <1> DEFINE row == [NoEdit EXCEPT !.step = "targeted", !.target = run]
             rec == [record EXCEPT !.acts = @ + 1]
  <1>1. /\ editing' = [editing EXCEPT ![e] = row] /\ record' = rec /\ record.acts < MaxActs
        /\ UNCHANGED <<roles, panels, deciding>>
    BY DEF RequestBaseline, Act
  <1>2. row \in EditState
    BY DEF NoEdit, EditState
  <1>3. record \in RecordState /\ MaxActs \in Nat /\ record.acts \in 0..MaxActs
    BY RecordBounds, RunsCount
  <1>4. rec \in RecordState /\ rec.decisions = record.decisions /\ rec.acts = record.acts + 1
    <2> DEFINE next == record.acts + 1
    <2>1. next \in 0..MaxActs
      BY <1>1, <1>3
    <2>2. rec = [record EXCEPT !.acts = next]
      OBVIOUS
    <2> HIDE DEF next, rec
    <2>3. rec \in RecordState /\ rec.decisions = record.decisions /\ rec.acts = next
      BY <1>3, <2>1, <2>2 DEF RecordState
    <2>4. QED
      BY <2>3 DEF next
  <1> HIDE DEF row, rec
  <1>5. editing' \in [Editor -> EditState]
    BY <1>1, <1>2, TypeSets DEF RInv
  <1>6. /\ roles' \in [Run -> {"exploratory", "baseline", "evidence"}] /\ OneBaseline'
        /\ With("evidence")' \subseteq With("evidence")
    BY <1>1, TypeSets DEF RInv, Roles, OneBaseline, With
  <1>7. record'.acts >= record.acts
    BY <1>1, <1>3, <1>4
  <1>8. QED
    BY <1>1, <1>4, <1>5, <1>6, <1>7, EditorOnly

\* Reading the rows, or being sent back to read them again.
LEMMA EditingSteps ==
    ASSUME ReleaseAssumption, RInv, NEW e \in Editor, ReadBaseline(e) \/ RetryBaseline(e)
    PROVE  RInv'
  <1>1. editing[e] \in EditState /\ With("baseline") \in SUBSET Run
    BY TypeSets DEF RInv, With
  <1>2. editing' \in [Editor -> EditState]
    <2>1. CASE ReadBaseline(e)
      <3> DEFINE B == With("baseline")
                 row == [editing[e] EXCEPT !.step = "read", !.saw = B]
      <3>1. editing' = [editing EXCEPT ![e] = row]
        BY <2>1 DEF ReadBaseline
      <3> HIDE DEF B
      <3>2. row \in EditState
        BY <1>1 DEF EditState, B
      <3> HIDE DEF row
      <3>3. QED
        BY <3>1, <3>2, TypeSets DEF RInv
    <2>2. CASE RetryBaseline(e)
      <3> DEFINE again == [editing[e] EXCEPT !.step = "targeted", !.retried = TRUE]
                 row == IF editing[e].retried THEN NoEdit ELSE again
      <3>1. editing' = [editing EXCEPT ![e] = row]
        BY <2>2 DEF RetryBaseline
      <3>2. again \in EditState /\ NoEdit \in EditState
        BY <1>1 DEF EditState, NoEdit
      <3> HIDE DEF again
      <3>3. row \in EditState
        BY <3>2
      <3> HIDE DEF row
      <3>4. QED
        BY <3>1, <3>3, TypeSets DEF RInv
    <2>3. QED
      BY <2>1, <2>2
  <1>3. UNCHANGED <<roles, record, panels, deciding>>
    BY DEF ReadBaseline, RetryBaseline
  <1>4. record' \in RecordState /\ record'.decisions = record.decisions
        /\ record'.acts >= record.acts
    BY <1>3, RecordBounds, RunsCount
  <1>5. /\ roles' \in [Run -> {"exploratory", "baseline", "evidence"}] /\ OneBaseline'
        /\ With("evidence")' \subseteq With("evidence")
    BY <1>3, TypeSets DEF RInv, Roles, OneBaseline, With
  <1>6. QED
    BY <1>2, <1>3, <1>4, <1>5, EditorOnly

\* The commit writes the rows it saw, when the index finds one baseline among the result.
LEMMA CommitBaselineStep ==
    ASSUME ReleaseAssumption, RInv, NEW e \in Editor, CommitBaseline(e)
    PROVE  RInv'
  <1> DEFINE target == editing[e].target
             saw == editing[e].saw
  <1>1. /\ editing[e] \in EditState /\ record \in RecordState
        /\ roles \in [Run -> {"exploratory", "baseline", "evidence"}]
    BY TypeSets DEF RInv
  <1>2. /\ ~Collides(e) /\ roles' = Edited(e) /\ editing' = [editing EXCEPT ![e] = NoEdit]
        /\ UNCHANGED <<panels, deciding>>
    BY DEF CommitBaseline
  <1>3. PICK old \in IF saw = {} THEN {Nothing} ELSE saw :
          record' = [record EXCEPT !.changes = Append(@, [old |-> old, new |-> target])]
    BY DEF CommitBaseline
  <1>4. [old |-> old, new |-> target] \in Change
    BY <1>1 DEF EditState, Change
  <1>5. record' \in RecordState /\ record'.decisions = record.decisions
        /\ record'.acts = record.acts
    <2> DEFINE new == [old |-> old, new |-> target]
               cs == Append(record.changes, new)
    <2>1. cs \in Seq(Change)
      BY <1>1, <1>4 DEF RecordState
    <2>2. record' = [record EXCEPT !.changes = cs]
      BY <1>3
    <2> HIDE DEF cs
    <2>3. QED
      BY <1>1, <2>1, <2>2 DEF RecordState
  <1>6. editing' \in [Editor -> EditState]
    <2>1. NoEdit \in EditState
      BY DEF NoEdit, EditState
    <2>2. QED
      BY <1>2, <2>1, TypeSets DEF RInv
  <1>7. \A r \in Run : roles'[r] = IF r = target THEN
                                       IF target \in saw THEN roles[target] ELSE "baseline"
                                     ELSE IF r \in saw \ {target} THEN "exploratory" ELSE roles[r]
    BY <1>2 DEF Edited, Rewrite
  <1>8. roles' \in [Run -> {"exploratory", "baseline", "evidence"}]
    <2>1. DOMAIN roles' = Run /\ roles' = [r \in Run |-> roles'[r]]
      BY <1>2 DEF Edited, Rewrite
    <2>2. \A r \in Run : roles'[r] \in {"exploratory", "baseline", "evidence"}
      BY <1>1, <1>7 DEF EditState
    <2>3. QED
      BY <2>1, <2>2
  <1>9. OneBaseline'
    <2>1. With("baseline")' = {r \in Run : Edited(e)[r] = "baseline"}
      BY <1>2 DEF With
    <2>2. Cardinality({r \in Run : Edited(e)[r] = "baseline"}) \in Nat
      BY RunsCount
    <2>3. QED
      BY <1>2, <2>1, <2>2 DEF Collides, OneBaseline
  <1>10. With("evidence")' \subseteq With("evidence")
    BY <1>7 DEF With
  <1>11. record'.acts >= record.acts
    BY <1>5, RecordBounds, RunsCount
  <1>12. QED
    BY <1>2, <1>5, <1>6, <1>8, <1>9, <1>10, <1>11, EditorOnly

-----------------------------------------------------------------------------
(* The theorems *)

\* Every step keeps RInv.
LEMMA NextStep ==
    ASSUME ReleaseAssumption, RInv, [ReleaseNext]_releaseVars
    PROVE  RInv'
  <1>1. CASE \E p \in Panel :
               \/ CapabilityGranted(p) \/ HistoryArrives(p)
               \/ OpenConfirm(p) \/ CancelConfirm(p) \/ SubmitDecision(p) \/ DecisionAnswers(p)
               \/ ReadEvidence(p) \/ CommitDecision(p)
    BY <1>1, PanelSteps, SubmitStep, AnswerStep, ReadStep, CommitStep
  <1>2. CASE \E e \in Editor : \E run \in Run : RequestBaseline(e, run)
    BY <1>2, RequestSteps
  <1>3. ASSUME NEW e \in Editor, RequestUndo(e) PROVE RInv'
    <2>1. record.changes \in Seq(Change) /\ record.changes # <<>>
      BY <1>3, RecordBounds DEF RequestUndo
    <2>2. record.changes[Len(record.changes)] \in Change
      BY <2>1
    <2>3. record.changes[Len(record.changes)].old \in Run \cup {Nothing}
      BY <2>2 DEF Change
    <2>4. RequestBaseline(e, record.changes[Len(record.changes)].old)
      BY <1>3 DEF RequestUndo
    <2>5. QED
      BY <2>3, <2>4, RequestSteps
  <1>4. CASE \E e \in Editor : ReadBaseline(e) \/ CommitBaseline(e) \/ RetryBaseline(e)
    BY <1>4, EditingSteps, CommitBaselineStep
  <1>5. CASE UNCHANGED releaseVars
    <2>1. /\ UNCHANGED <<panels, deciding, roles>> /\ record' = record /\ editing' = editing
      BY <1>5 DEF releaseVars
    <2>2. /\ roles' \in [Run -> {"exploratory", "baseline", "evidence"}] /\ OneBaseline'
          /\ With("evidence")' \subseteq With("evidence")
          /\ editing' \in [Editor -> EditState] /\ record' \in RecordState
      BY <2>1, TypeSets DEF RInv, Roles, OneBaseline, With
    <2>3. record'.acts >= record.acts
      BY <2>1, RecordBounds, RunsCount
    <2>4. QED
      BY <2>1, <2>2, <2>3, EditorOnly
  <1>6. QED
    BY <1>1, <1>2, <1>3, <1>4, <1>5 DEF ReleaseNext

\* RInv holds in every state of the release decisions.
THEOREM Invariance ==
    ASSUME ReleaseAssumption PROVE ReleaseSpec => []RInv
  <1>1. ReleaseInit => RInv
    BY InitHolds
  <1>2. RInv /\ [ReleaseNext]_releaseVars => RInv'
    BY NextStep
  <1>3. QED
    BY <1>1, <1>2, PTL DEF ReleaseSpec

\* Roles, decisions, panels and transactions have the values they are declared with.
THEOREM ReleaseTypesCorrect ==
    ASSUME ReleaseAssumption PROVE ReleaseSpec => []ReleaseTypeOK
  <1>1. RInv => ReleaseTypeOK
    BY DEF RInv
  <1>2. QED
    BY <1>1, Invariance, PTL

\* A panel that records two decisions was told that the first had failed.
LEMMA RecordedOnceHolds ==
    ASSUME ReleaseAssumption, RInv PROVE RecordedOnce
  <1> SUFFICES ASSUME NEW p \in Panel, ~panels[p].lost PROVE ~(Cardinality(Entries(p)) > 1)
    BY DEF RecordedOnce
  <1>1. CASE Entries(p) = {}
    BY <1>1, FS_EmptySet
  <1>2. CASE \E i \in 1..Len(record.decisions) : Entries(p) = {i}
    <2>1. Cardinality(Entries(p)) = 1
      BY <1>2, FS_Singleton, Zenon
    <2>2. QED
      BY <2>1
  <1>3. QED
    BY <1>1, <1>2 DEF RInv, Panels, KnowsOwn

\* Before a late approval, one run of evidence at most.
LEMMA TurnsHold ==
    ASSUME ReleaseAssumption, RInv PROVE FirstApprovalsTakeTurns
  <1> SUFFICES ASSUME NoneLate PROVE ~(Cardinality(With("evidence")) > 1)
    BY DEF FirstApprovalsTakeTurns, NoneLate
  <1>1. \A r, s \in With("evidence") : r = s
    BY DEF RInv, Roles, Turns
  <1>2. CASE With("evidence") = {}
    BY <1>2, FS_EmptySet
  <1>3. CASE With("evidence") # {}
    <2>1. PICK r \in With("evidence") : With("evidence") = {r}
      BY <1>1, <1>3
    <2>2. Cardinality(With("evidence")) = 1
      BY <2>1, FS_Singleton, Zenon
    <2>3. QED
      BY <2>2
  <1>4. QED
    BY <1>2, <1>3

\* One baseline, approved evidence, first approvals in turn, decisions recorded once
\* and a whole history, for any number of runs, tabs and requests.
THEOREM ReleasesAreTrue ==
    ASSUME ReleaseAssumption PROVE ReleaseSpec => []ReleaseIsTrue
  <1>1. RInv => ReleaseIsTrue
    <2> SUFFICES ASSUME RInv PROVE ReleaseIsTrue
      OBVIOUS
    <2>1. OneBaseline /\ EvidenceWasApproved
      BY DEF RInv, Roles
    <2>2. HistoryIsWhole
      BY DEF RInv, Panels, HistoryHolds, HistoryIsWhole
    <2>3. QED
      BY <2>1, <2>2, RecordedOnceHolds, TurnsHold DEF ReleaseIsTrue
  <1>2. QED
    BY <1>1, Invariance, PTL

-----------------------------------------------------------------------------
(* The review of findings: its inductive invariant *)

\* What a reviewer's action says and what the server holds beside it: an
\* agreement leaves its mark for good, and so does a review that was completed,
\* which is also all that a drawer ever takes for one; a decision that is typed
\* or under way is about the finding of its own drawer.
ReviewRelations ==
    /\ \A f \in Finding : finding[f].current = "agree" => f \in agreed
    /\ \A f \in Finding : finding[f].task \in {"resolved", "waived"} => f \in settled
    /\ \A f \in Finding : details[f] \in {"resolved", "waived"} => f \in settled
    /\ page.typedFor \in {NoFinding, page.selected}
    /\ \A r \in requests : r.kind = "decision" => r.typedFor = r.finding
ReviewInv == ReviewTypeOK /\ ReviewRelations /\ DecisionIsForItsFinding /\ CaseWasConfirmed

-----------------------------------------------------------------------------
(* The parts of a step *)

\* A page whose details are due stays a page with the same drawer and form.
LEMMA RerunIsPage ==
    ASSUME NEW p \in Page
    PROVE  Rerun(p) \in Page /\ Rerun(p).selected = p.selected /\ Rerun(p).typedFor = p.typedFor
BY DEF Page, Rerun

\* A fresh drawer is a page on its finding with an empty form.
LEMMA SelectIsPage ==
    ASSUME NEW p \in Page, NEW f \in Finding \cup {NoFinding}
    PROVE  Select(p, f) \in Page /\ Select(p, f).selected = f /\ Select(p, f).typedFor = NoFinding
BY DEF Page, Select, Rerun

\* A decision is recorded with the status that it gives, and its mark.
LEMMA DecideKeeps ==
    ASSUME finding \in [Finding -> Row], agreed \subseteq Finding, settled \subseteq Finding,
           \A f \in Finding : finding[f].current = "agree" => f \in agreed,
           \A f \in Finding : finding[f].task \in {"resolved", "waived"} => f \in settled,
           NEW g \in Finding, NEW outcome \in Outcome, Decide(g, outcome)
    PROVE  /\ finding' \in [Finding -> Row]
           /\ agreed' \subseteq Finding /\ settled' \subseteq Finding
           /\ agreed \subseteq agreed' /\ settled \subseteq settled'
           /\ \A f \in Finding : finding'[f].current = "agree" => f \in agreed'
           /\ \A f \in Finding : finding'[f].task \in {"resolved", "waived"} => f \in settled'
<1> DEFINE status == IF outcome = "agree" THEN "resolved" ELSE "in_review"
           row == [status |-> status, task |-> status, current |-> outcome]
<1>1. row \in Row
  BY DEF Row, Outcome, Status, TaskStatus
<1>2. finding' = [finding EXCEPT ![g] = row]
  BY DEF Decide
<1>3. finding' \in [Finding -> Row]
  BY <1>1, <1>2
<1>4. \A f \in Finding : finding'[f] = IF f = g THEN row ELSE finding[f]
  BY <1>2
<1>5. /\ agreed' = IF outcome = "agree" THEN agreed \cup {g} ELSE agreed
      /\ settled' = IF outcome = "agree" THEN settled \cup {g} ELSE settled
  BY DEF Decide
<1>6. row.current = "agree" => g \in agreed'
  BY <1>5
<1>7. row.task \in {"resolved", "waived"} => g \in settled'
  BY <1>5
<1>8. agreed' \subseteq Finding /\ settled' \subseteq Finding
      /\ agreed \subseteq agreed' /\ settled \subseteq settled'
  BY <1>5
<1> HIDE DEF row
<1> QED BY <1>3, <1>4, <1>6, <1>7, <1>8

\* A waiver leaves the decision as it is.
LEMMA WaiveKeeps ==
    ASSUME finding \in [Finding -> Row], settled \subseteq Finding,
           \A f \in Finding : finding[f].task \in {"resolved", "waived"} => f \in settled,
           NEW g \in Finding, Waive(g)
    PROVE  /\ finding' \in [Finding -> Row] /\ settled' \subseteq Finding
           /\ settled \subseteq settled'
           /\ \A f \in Finding : finding'[f].current = finding[f].current
           /\ \A f \in Finding : finding'[f].task \in {"resolved", "waived"} => f \in settled'
<1> DEFINE row == [finding[g] EXCEPT !.status = "waived", !.task = "waived"]
<1>1. row \in Row /\ row.current = finding[g].current
  BY DEF Row, Status, TaskStatus
<1>2. finding' = [finding EXCEPT ![g] = row]
  BY DEF Waive
<1>3. settled' = settled \cup {g}
  BY DEF Waive
<1> HIDE DEF row
<1> QED BY <1>1, <1>2, <1>3

\* A promotion leaves the decision and the task as they are.
LEMMA PromoteKeeps ==
    ASSUME finding \in [Finding -> Row], cases \subseteq Finding, NEW g \in Finding, Promote(g)
    PROVE  /\ finding' \in [Finding -> Row] /\ cases' = cases \cup {g}
           /\ \A f \in Finding : finding'[f].current = finding[f].current
           /\ \A f \in Finding : finding'[f].task = finding[f].task
<1> DEFINE row == [finding[g] EXCEPT !.status = "promoted"]
<1>1. row \in Row /\ row.current = finding[g].current /\ row.task = finding[g].task
  BY DEF Row, Status
<1>2. finding' = [finding EXCEPT ![g] = row]
  BY DEF Promote
<1>3. cases' = cases \cup {g}
  BY DEF Promote
<1> HIDE DEF row
<1> QED BY <1>1, <1>2, <1>3

\* Reading the list adds what the list of statuses is now.
LEMMA ReadListKeeps ==
    ASSUME finding \in [Finding -> Row], answers \subseteq [Finding -> Status], ReadList
    PROVE  answers' \subseteq [Finding -> Status]
<1>1. [f \in Finding |-> finding[f].status] \in [Finding -> Status]
  BY DEF Row
<1> QED BY <1>1 DEF ReadList

\* A bound counts one more.
LEMMA BudgetCounts ==
    ASSUME budget \in [others: Nat, submits: Nat]
    PROVE  /\ [budget EXCEPT !.others = @ + 1] \in [others: Nat, submits: Nat]
           /\ [budget EXCEPT !.submits = @ + 1] \in [others: Nat, submits: Nat]
<1> PICK m \in Nat : m = budget.others + 1
  OBVIOUS
<1> PICK n \in Nat : n = budget.submits + 1
  OBVIOUS
<1>1. [budget EXCEPT !.others = m] \in [others: Nat, submits: Nat]
  OBVIOUS
<1>2. [budget EXCEPT !.submits = n] \in [others: Nat, submits: Nat]
  OBVIOUS
<1> QED BY <1>1, <1>2

-----------------------------------------------------------------------------
(* The steps *)

\* The invariant holds where the page is opened.
LEMMA ReviewInitInv == ASSUME ReviewAssumption, ReviewInit PROVE ReviewInv
<1>1. ReviewTypeOK
  BY DEF ReviewInit, ReviewTypeOK, Row, Status, TaskStatus, Outcome, Page
<1>2. ReviewRelations
  BY DEF ReviewInit, ReviewRelations, ReviewAssumption, TaskStatus
<1>3. DecisionIsForItsFinding /\ CaseWasConfirmed
  BY DEF ReviewInit, DecisionIsForItsFinding, CaseWasConfirmed
<1> QED BY <1>1, <1>2, <1>3 DEF ReviewInv

\* A step of the page alone keeps the invariant if its drawer keeps its form.
LEMMA PageStep ==
    ASSUME ReviewInv, UNCHANGED <<server, details, requests, budget>>,
           page' \in Page, page'.typedFor \in {NoFinding, page'.selected},
           answers' \subseteq [Finding -> Status]
    PROVE  ReviewInv'
<1>1. ReviewTypeOK'
  BY DEF ReviewInv, ReviewTypeOK, server
<1>2. ReviewRelations'
  BY DEF ReviewInv, ReviewRelations, server
<1>3. (DecisionIsForItsFinding /\ CaseWasConfirmed)'
  BY DEF ReviewInv, DecisionIsForItsFinding, CaseWasConfirmed, server
<1> QED BY <1>1, <1>2, <1>3 DEF ReviewInv

\* The queue and the drawer.
LEMMA QueueSteps ==
    ASSUME ReviewInv,
           \/ Refresh \/ ListArrives \/ CloseDrawer
           \/ \E f \in Finding : OpenFinding(f) \/ StepQueue(f)
    PROVE  ReviewInv'
<1> USE DEF ReviewInv
<1>t. /\ page \in Page /\ finding \in [Finding -> Row] /\ answers \subseteq [Finding -> Status]
      /\ page.typedFor \in {NoFinding, page.selected}
  BY DEF ReviewTypeOK, ReviewRelations
<1>1. CASE Refresh
  <2>1. answers' \subseteq [Finding -> Status]
    BY <1>1, <1>t, ReadListKeeps DEF Refresh
  <2> QED BY <1>1, <1>t, <2>1, PageStep DEF Refresh
<1>2. CASE ListArrives
  <2>1. PICK list \in answers :
           /\ answers' = answers \ {list} /\ page' = [page EXCEPT !.list = list]
           /\ UNCHANGED <<server, details, requests, budget>>
    BY <1>2 DEF ListArrives
  <2>2. page' \in Page /\ page'.typedFor = page.typedFor /\ page'.selected = page.selected
    BY <2>1, <1>t DEF Page
  <2> QED BY <2>1, <2>2, <1>t, PageStep
<1>3. CASE CloseDrawer
  <2>1. page' \in Page /\ page'.typedFor = NoFinding
    BY <1>3, <1>t, SelectIsPage DEF CloseDrawer
  <2> QED BY <1>3, <2>1, <1>t, PageStep DEF CloseDrawer
<1>4. ASSUME NEW f \in Finding, OpenFinding(f) PROVE ReviewInv'
  <2> DEFINE cleared == [page EXCEPT !.detailsError = FALSE]
  <2>1. cleared \in Page
    BY <1>t DEF Page
  <2>2. page' = Select(cleared, f)
    BY <1>4 DEF OpenFinding
  <2> HIDE DEF cleared
  <2>3. page' \in Page /\ page'.typedFor = NoFinding
    BY <2>1, <2>2, SelectIsPage
  <2> QED BY <1>4, <2>3, <1>t, PageStep DEF OpenFinding
<1>5. ASSUME NEW f \in Finding, StepQueue(f) PROVE ReviewInv'
  <2>1. page' \in Page /\ page'.typedFor = NoFinding
    BY <1>5, <1>t, SelectIsPage DEF StepQueue
  <2> QED BY <1>5, <2>1, <1>t, PageStep DEF StepQueue
<1> QED BY <1>1, <1>2, <1>3, <1>4, <1>5

\* The details and the forms of the drawer, except for an answer.
LEMMA DrawerSteps ==
    ASSUME ReviewInv, DetailsEffect \/ DetailsFail \/ RetryDetails \/ FillDecision \/ Revise
    PROVE  ReviewInv'
<1> USE DEF ReviewInv
<1>t. /\ page \in Page /\ answers \subseteq [Finding -> Status]
      /\ page.typedFor \in {NoFinding, page.selected}
  BY DEF ReviewTypeOK, ReviewRelations
<1>1. CASE DetailsEffect
  <2>1. page' \in Page /\ page'.typedFor = page.typedFor /\ page'.selected = page.selected
    BY <1>1, <1>t DEF DetailsEffect, Page
  <2> QED BY <1>1, <2>1, <1>t, PageStep DEF DetailsEffect
<1>2. CASE DetailsFail
  <2>1. page' \in Page /\ page'.typedFor = page.typedFor /\ page'.selected = page.selected
    BY <1>2, <1>t DEF DetailsFail, Page
  <2> QED BY <1>2, <2>1, <1>t, PageStep DEF DetailsFail
<1>3. CASE RetryDetails
  <2> DEFINE cleared == [page EXCEPT !.detailsError = FALSE]
  <2>1. cleared \in Page /\ cleared.typedFor = page.typedFor /\ cleared.selected = page.selected
    BY <1>t DEF Page
  <2>2. page' = Rerun(cleared)
    BY <1>3 DEF RetryDetails
  <2> HIDE DEF cleared
  <2>3. page' \in Page /\ page'.typedFor = page.typedFor /\ page'.selected = page.selected
    BY <2>1, <2>2, RerunIsPage
  <2> QED BY <1>3, <2>3, <1>t, PageStep DEF RetryDetails
<1>4. CASE FillDecision
  <2>1. page' \in Page /\ page'.typedFor = page'.selected
    BY <1>4, <1>t DEF FillDecision, Page
  <2> QED BY <1>4, <2>1, <1>t, PageStep DEF FillDecision
<1>5. CASE Revise
  <2>1. page' \in Page /\ page'.typedFor = page.typedFor /\ page'.selected = page.selected
    BY <1>5, <1>t DEF Revise, Page
  <2> QED BY <1>5, <2>1, <1>t, PageStep DEF Revise
<1> QED BY <1>1, <1>2, <1>3, <1>4, <1>5

\* An answer brings the task as it is by now.
LEMMA DetailsArriveStep == ASSUME ReviewInv, DetailsArrive PROVE ReviewInv'
<1> USE DEF ReviewInv
<1> DEFINE f == page.fetch
<1>t. /\ page \in Page /\ finding \in [Finding -> Row]
      /\ details \in [Finding -> TaskStatus \cup {Unread}]
      /\ page.typedFor \in {NoFinding, page.selected}
  BY DEF ReviewTypeOK, ReviewRelations
<1>1. f \in Finding
  BY <1>t DEF DetailsArrive, Page
<1>2. /\ details' = [details EXCEPT ![f] = finding[f].task]
      /\ UNCHANGED <<server, answers, requests, budget>>
  BY DEF DetailsArrive
<1>3. finding[f].task \in TaskStatus
  BY <1>1, <1>t DEF Row
<1>4. details' \in [Finding -> TaskStatus \cup {Unread}]
  BY <1>1, <1>2, <1>3, <1>t
<1> DEFINE loaded == [page EXCEPT !.detailsLoading = FALSE]
<1>5. loaded \in Page /\ loaded.typedFor = page.typedFor /\ loaded.selected = page.selected
  BY <1>t DEF Page
<1>6. page' = Rerun(loaded)
  BY DEF DetailsArrive
<1> HIDE DEF loaded
<1>7. page' \in Page /\ page'.typedFor = page.typedFor /\ page'.selected = page.selected
  BY <1>5, <1>6, RerunIsPage
<1>8. \A g \in Finding : details'[g] \in {"resolved", "waived"} => g \in settled
  <2> TAKE g \in Finding
  <2>1. CASE g = f
    BY <2>1, <1>1, <1>2, <1>t DEF ReviewRelations
  <2>2. CASE g # f
    BY <2>2, <1>1, <1>2, <1>t DEF ReviewRelations
  <2> QED BY <2>1, <2>2
<1> HIDE DEF f
<1>9. ReviewTypeOK'
  BY <1>2, <1>4, <1>7 DEF ReviewTypeOK, server
<1>10. ReviewRelations'
  BY <1>2, <1>7, <1>8, <1>t DEF ReviewRelations, server
<1>11. (DecisionIsForItsFinding /\ CaseWasConfirmed)'
  BY <1>2 DEF DecisionIsForItsFinding, CaseWasConfirmed, server
<1> QED BY <1>9, <1>10, <1>11

\* A write is sent with what the drawer holds.
LEMMA SendKeeps ==
    ASSUME ReviewInv, page.selected # NoFinding,
           NEW kind \in {"decision", "remediation", "promote"}, NEW outcome \in Outcome,
           kind = "decision" => page.typedFor # NoFinding, Send(kind, outcome)
    PROVE  ReviewInv'
<1> USE DEF ReviewInv
<1> DEFINE r == [kind |-> kind, finding |-> page.selected, typedFor |-> page.typedFor,
                 outcome |-> outcome, phase |-> "sent"]
<1>t. /\ page \in Page /\ requests \subseteq Request /\ budget \in [others: Nat, submits: Nat]
      /\ page.typedFor \in {NoFinding, page.selected}
  BY DEF ReviewTypeOK, ReviewRelations
<1>1. r \in Request
  BY <1>t DEF Request, Page
<1>2. r.kind = "decision" => r.typedFor = r.finding
  BY <1>t
<1>3. /\ requests' = requests \cup {r} /\ UNCHANGED <<server, answers, details>>
      /\ page' = [page EXCEPT !.busy = TRUE] /\ budget' = [budget EXCEPT !.submits = @ + 1]
  BY DEF Send
<1>4. page' \in Page /\ page'.typedFor = page.typedFor /\ page'.selected = page.selected
  BY <1>3, <1>t DEF Page
<1>5. budget' \in [others: Nat, submits: Nat]
  BY <1>3, <1>t, BudgetCounts
<1> HIDE DEF r
<1>6. ReviewTypeOK'
  BY <1>1, <1>3, <1>4, <1>5 DEF ReviewTypeOK, server
<1>7. ReviewRelations'
  BY <1>2, <1>3, <1>4, <1>t DEF ReviewRelations, server
<1>8. (DecisionIsForItsFinding /\ CaseWasConfirmed)'
  BY <1>3 DEF DecisionIsForItsFinding, CaseWasConfirmed, server
<1> QED BY <1>6, <1>7, <1>8

\* Everything that a drawer sends.
LEMMA SendSteps ==
    ASSUME ReviewInv,
           RecordDecision \/ AssignRemediation \/ UpdateRemediation \/ PromoteRegression
    PROVE  ReviewInv'
<1>1. CASE RecordDecision
  <2>1. PICK outcome \in Outcome : Send("decision", outcome)
    BY <1>1 DEF RecordDecision
  <2> QED BY <1>1, <2>1, SendKeeps DEF RecordDecision, Shows
<1>2. CASE AssignRemediation \/ UpdateRemediation
  BY <1>2, SendKeeps DEF AssignRemediation, UpdateRemediation, Shows, Outcome
<1>3. CASE PromoteRegression
  BY <1>3, SendKeeps DEF PromoteRegression, Shows, Outcome
<1> QED BY <1>1, <1>2, <1>3

\* Other reviewers decide, waive and promote.
LEMMA OtherReviewerStep ==
    ASSUME ReviewInv, NEW f \in Finding, OtherReviewer(f)
    PROVE  ReviewInv'
<1> USE DEF ReviewInv
<1>t. /\ finding \in [Finding -> Row] /\ agreed \subseteq Finding /\ settled \subseteq Finding
      /\ cases \subseteq Finding /\ budget \in [others: Nat, submits: Nat]
      /\ \A g \in Finding : finding[g].current = "agree" => g \in agreed
      /\ \A g \in Finding : finding[g].task \in {"resolved", "waived"} => g \in settled
      /\ cases \subseteq agreed
  BY DEF ReviewTypeOK, ReviewRelations, CaseWasConfirmed
<1>1. UNCHANGED <<decisions, page, details, answers, requests>>
  BY DEF OtherReviewer
<1>2. budget' \in [others: Nat, submits: Nat]
  BY <1>t, BudgetCounts DEF OtherReviewer
<1>3. /\ finding' \in [Finding -> Row] /\ agreed' \subseteq Finding /\ settled' \subseteq Finding
      /\ cases' \subseteq agreed' /\ cases' \subseteq Finding /\ settled \subseteq settled'
      /\ \A g \in Finding : finding'[g].current = "agree" => g \in agreed'
      /\ \A g \in Finding : finding'[g].task \in {"resolved", "waived"} => g \in settled'
  <2>1. ASSUME NEW outcome \in Outcome, Decide(f, outcome), UNCHANGED cases PROVE <1>3
    BY <2>1, <1>t, DecideKeeps
  <2>2. CASE Waive(f) /\ UNCHANGED <<agreed, cases>>
    BY <2>2, <1>t, WaiveKeeps
  <2>3. CASE MayPromote(f) /\ Promote(f) /\ UNCHANGED <<agreed, settled>>
    BY <2>3, <1>t, PromoteKeeps DEF MayPromote
  <2> QED BY <2>1, <2>2, <2>3 DEF OtherReviewer
<1>4. ReviewTypeOK'
  BY <1>1, <1>2, <1>3 DEF ReviewTypeOK
<1>5. ReviewRelations'
  BY <1>1, <1>3 DEF ReviewRelations
<1>6. (DecisionIsForItsFinding /\ CaseWasConfirmed)'
  BY <1>1, <1>3 DEF DecisionIsForItsFinding, CaseWasConfirmed
<1> QED BY <1>4, <1>5, <1>6

\* The server carries a write out, if it still may.
LEMMA RequestStep ==
    ASSUME ReviewInv, NEW r \in requests, Commit(r)
    PROVE  ReviewInv'
<1> USE DEF ReviewInv
<1> DEFINE done == [r EXCEPT !.phase = "done"]
           entry == [finding |-> r.finding, typedFor |-> r.typedFor]
<1>t. /\ finding \in [Finding -> Row] /\ agreed \subseteq Finding /\ settled \subseteq Finding
      /\ cases \subseteq Finding /\ requests \subseteq Request /\ decisions \subseteq DecisionRecord
      /\ \A g \in Finding : finding[g].current = "agree" => g \in agreed
      /\ \A g \in Finding : finding[g].task \in {"resolved", "waived"} => g \in settled
      /\ cases \subseteq agreed
  BY DEF ReviewTypeOK, ReviewRelations, CaseWasConfirmed
<1>r. r \in Request
  BY <1>t
<1>o. r.finding \in Finding /\ r.outcome \in Outcome
      /\ r.kind \in {"decision", "remediation", "promote"}
  BY <1>r DEF Request
<1>1. done \in Request /\ done.kind = r.kind /\ done.typedFor = r.typedFor
      /\ done.finding = r.finding
  BY <1>r DEF Request
<1>2. UNCHANGED <<page, details, answers, budget>> /\ requests' = (requests \ {r}) \cup {done}
  BY DEF Commit
<1> HIDE DEF done
<1>3. /\ finding' \in [Finding -> Row] /\ agreed' \subseteq Finding /\ settled' \subseteq Finding
      /\ cases' \subseteq agreed' /\ cases' \subseteq Finding /\ settled \subseteq settled'
      /\ \A g \in Finding : finding'[g].current = "agree" => g \in agreed'
      /\ \A g \in Finding : finding'[g].task \in {"resolved", "waived"} => g \in settled'
      /\ decisions' \subseteq DecisionRecord /\ (DecisionIsForItsFinding)'
  <2>1. CASE r.kind = "decision"
    <3>1. Decide(r.finding, r.outcome) /\ decisions' = decisions \cup {entry} /\ UNCHANGED cases
      BY <2>1 DEF Commit
    <3>2. r.typedFor = r.finding
      BY <2>1 DEF ReviewRelations
    <3>3. entry \in DecisionRecord /\ entry.typedFor = entry.finding
      BY <3>2, <1>o DEF DecisionRecord
    <3> HIDE DEF entry
    <3>4. decisions' \subseteq DecisionRecord /\ (DecisionIsForItsFinding)'
      BY <3>1, <3>3, <1>t DEF DecisionIsForItsFinding
    <3> QED BY <3>1, <3>4, <1>t, <1>o, DecideKeeps
  <2>2. CASE r.kind = "remediation"
    <3>1. UNCHANGED server
      BY <2>2 DEF Commit
    <3> QED BY <3>1, <1>t DEF server, DecisionIsForItsFinding
  <2>3. CASE r.kind = "promote"
    <3>1. MayPromote(r.finding) /\ Promote(r.finding) /\ UNCHANGED <<agreed, settled, decisions>>
      BY <2>3 DEF Commit
    <3>2. (DecisionIsForItsFinding)'
      BY <3>1 DEF DecisionIsForItsFinding
    <3> QED BY <3>1, <3>2, <1>t, <1>o, PromoteKeeps DEF MayPromote
  <2> QED BY <2>1, <2>2, <2>3, <1>o
<1>4. ReviewTypeOK'
  BY <1>1, <1>2, <1>3, <1>t DEF ReviewTypeOK
<1>5. ReviewRelations'
  BY <1>1, <1>2, <1>3 DEF ReviewRelations
<1>6. CaseWasConfirmed'
  BY <1>3 DEF CaseWasConfirmed
<1> QED BY <1>3, <1>4, <1>5, <1>6

\* The answer closes the drawer, or reports to the one that waits for it.
LEMMA AnswerSteps ==
    ASSUME ReviewAssumption, ReviewInv, NEW r \in requests, Changed(r) \/ Refused(r)
    PROVE  ReviewInv'
<1> USE DEF ReviewInv
<1>t. /\ page \in Page /\ finding \in [Finding -> Row] /\ requests \subseteq Request
      /\ details \in [Finding -> TaskStatus \cup {Unread}]
      /\ answers \subseteq [Finding -> Status] /\ page.typedFor \in {NoFinding, page.selected}
  BY DEF ReviewTypeOK, ReviewRelations
<1>o. r.finding \in Finding
  BY <1>t DEF Request
<1>1. CASE Changed(r)
  <2>1. /\ requests' = requests \ {r} /\ details' = [details EXCEPT ![r.finding] = Unread]
        /\ page' = Select(page, NoFinding) /\ ReadList /\ UNCHANGED <<server, budget>>
    BY <1>1 DEF Changed
  <2>2. page' \in Page /\ page'.typedFor = NoFinding
    BY <2>1, <1>t, SelectIsPage
  <2>3. answers' \subseteq [Finding -> Status]
    BY <2>1, <1>t, ReadListKeeps
  <2>4. details' \in [Finding -> TaskStatus \cup {Unread}]
    BY <2>1, <1>t
  <2>5. \A g \in Finding : details'[g] \in {Unread, details[g]}
    BY <2>1, <1>t
  <2>6. ReviewTypeOK'
    BY <2>1, <2>2, <2>3, <2>4 DEF ReviewTypeOK, server
  <2>7. \A g \in Finding : details'[g] \in {"resolved", "waived"} => g \in settled
    BY <2>5 DEF ReviewRelations, ReviewAssumption, TaskStatus
  <2>8. ReviewRelations'
    BY <2>1, <2>2, <2>7 DEF ReviewRelations, server
  <2>9. (DecisionIsForItsFinding /\ CaseWasConfirmed)'
    BY <2>1 DEF DecisionIsForItsFinding, CaseWasConfirmed, server
  <2> QED BY <2>6, <2>8, <2>9
<1>2. CASE Refused(r)
  <2>1. requests' = requests \ {r} /\ UNCHANGED <<server, details, answers, budget>>
    BY <1>2 DEF Refused
  <2>2. page' \in Page /\ page'.typedFor = page.typedFor /\ page'.selected = page.selected
    BY <1>2, <1>t DEF Refused, Page
  <2>3. ReviewTypeOK'
    BY <2>1, <2>2 DEF ReviewTypeOK, server
  <2>4. ReviewRelations'
    BY <2>1, <2>2, <1>t DEF ReviewRelations, server
  <2>5. (DecisionIsForItsFinding /\ CaseWasConfirmed)'
    BY <2>1 DEF DecisionIsForItsFinding, CaseWasConfirmed, server
  <2> QED BY <2>3, <2>4, <2>5
<1> QED BY <1>1, <1>2

\* Every step keeps the invariant.
LEMMA ReviewStepInv == ASSUME ReviewAssumption, ReviewInv, [ReviewNext]_reviewVars PROVE ReviewInv'
<1>1. CASE UNCHANGED reviewVars
  BY <1>1 DEF reviewVars, server, ReviewInv, ReviewTypeOK, ReviewRelations,
     DecisionIsForItsFinding, CaseWasConfirmed
<1>2. CASE ReviewNext
  BY <1>2, QueueSteps, DrawerSteps, DetailsArriveStep, SendSteps, OtherReviewerStep, RequestStep,
     AnswerSteps DEF ReviewNext
<1> QED BY <1>1, <1>2

-----------------------------------------------------------------------------
(* The results *)

\* The state of the review page keeps its type, with any number of findings, of
\* other reviewers and of requests.
THEOREM ReviewTypesCorrect == ASSUME ReviewAssumption PROVE ReviewSpec => []ReviewTypeOK
<1>1. ReviewInit => ReviewInv
  BY ReviewInitInv
<1>2. ReviewInv /\ [ReviewNext]_reviewVars => ReviewInv'
  BY ReviewStepInv
<1>3. ReviewInv => ReviewTypeOK
  BY DEF ReviewInv
<1> QED BY <1>1, <1>2, <1>3, PTL DEF ReviewSpec

\* page.tsx, comment on the drawer's key: however the reviewer steps through the
\* queue while writes are under way, a decision is recorded for the finding it
\* was typed for.
THEOREM DecisionsAreForTheirFinding ==
    ASSUME ReviewAssumption PROVE ReviewSpec => []DecisionIsForItsFinding
<1>1. ReviewInit => ReviewInv
  BY ReviewInitInv
<1>2. ReviewInv /\ [ReviewNext]_reviewVars => ReviewInv'
  BY ReviewStepInv
<1>3. ReviewInv => DecisionIsForItsFinding
  BY DEF ReviewInv
<1> QED BY <1>1, <1>2, <1>3, PTL DEF ReviewSpec

\* reviewDrawerState: a drawer that says the review is completed is about a
\* finding that some reviewer resolved or waived, whatever loads failed and
\* whoever else wrote meanwhile.
THEOREM CompletedWereReviewed ==
    ASSUME ReviewAssumption PROVE ReviewSpec => []CompletedWasReviewed
<1>1. ReviewInit => ReviewInv
  BY ReviewInitInv
<1>2. ReviewInv /\ [ReviewNext]_reviewVars => ReviewInv'
  BY ReviewStepInv
<1>3. ReviewInv => CompletedWasReviewed
  <2> SUFFICES ASSUME ReviewInv, Shows("completed") PROVE page.selected \in settled
    BY DEF CompletedWasReviewed
  <2> DEFINE f == page.selected
  <2>1. f \in Finding /\ details[f] \in TaskStatus \cup {Unread}
    BY DEF Shows, ReviewInv, ReviewTypeOK, Page
  <2>2. DrawerState(f) = "completed"
    BY DEF Shows
  <2>3. details[f] # Unread /\ ~HasActiveTask(f)
    BY <2>2 DEF DrawerState
  <2>4. details[f] \in {"resolved", "waived"}
    BY <2>1, <2>3 DEF HasActiveTask, ActiveTask, TaskStatus
  <2> QED BY <2>1, <2>4 DEF ReviewInv, ReviewRelations
<1> QED BY <1>1, <1>2, <1>3, PTL DEF ReviewSpec

\* promote_finding_to_regression: every regression case comes from a finding that
\* was agreed with at some time, though the agreement may be revised between the
\* click and the write.
THEOREM CasesWereConfirmed ==
    ASSUME ReviewAssumption PROVE ReviewSpec => []CaseWasConfirmed
<1>1. ReviewInit => ReviewInv
  BY ReviewInitInv
<1>2. ReviewInv /\ [ReviewNext]_reviewVars => ReviewInv'
  BY ReviewStepInv
<1>3. ReviewInv => CaseWasConfirmed
  BY DEF ReviewInv
<1> QED BY <1>1, <1>2, <1>3, PTL DEF ReviewSpec

-----------------------------------------------------------------------------
(* The report of a run: the cases around the open one                            *)

\* The least and the greatest of some cases are among them.
Less == {r \in Nat \X Nat : r[1] < r[2]}

\* There is no endless descent in the natural numbers.
LEMMA NoDescent == IsWellFoundedOn(Less, Nat)
BY NatLessThanWellFounded DEF OpToRel, Less

\* Min is the least of some natural numbers.
LEMMA MinIsLeast ==
    ASSUME NEW S \in SUBSET Nat, S # {}
    PROVE  Min(S) \in S
<1>1. PICK x \in S : \A y \in S : ~(<<y, x>> \in Less)
  BY NoDescent, WFMin
<1>2. \A y \in S : ~(y < x)
  <2> TAKE y \in S
  <2>1. <<y, x>> \in Nat \X Nat
    OBVIOUS
  <2> QED BY <1>1, <2>1 DEF Less
<1>3. \A y \in S : x <= y
  BY <1>2
<1> QED BY <1>3 DEF Min

\* Max is one of some natural numbers that have an upper bound.
LEMMA MaxIsGreatest ==
    ASSUME NEW n \in Nat, NEW S \in SUBSET (0..n), S # {}
    PROVE  Max(S) \in S
<1> DEFINE T == {n - x : x \in S}
<1>1. PICK t \in T : \A y \in T : ~(<<y, t>> \in Less)
  <2>1. \A x \in S : x \in 0..n
    OBVIOUS
  <2>2. \A x \in 0..n : n - x \in Nat
    OBVIOUS
  <2>3. T \subseteq Nat
    BY <2>1, <2>2
  <2>4. T # {}
    OBVIOUS
  <2> QED BY <2>3, <2>4, NoDescent, WFMin
<1>2. PICK x \in S : t = n - x
  BY <1>1
<1>3. \A y \in S : y <= x
  <2> TAKE y \in S
  <2>1. n - y \in T /\ <<n - y, n - x>> \in Nat \X Nat
    OBVIOUS
  <2>2. ~(n - y < n - x)
    BY <1>1, <1>2, <2>1 DEF Less
  <2> QED BY <2>2
<1>4. \A y \in S : x >= y
  BY <1>3
<1> QED BY <1>4 DEF Max

-----------------------------------------------------------------------------
(* The report of a run: the inductive invariant *)

ReportState ==
    [items : {"loading", "loaded", "failed"}, filter : CaseFilter, selected : MaybeCase,
     autoSelected : BOOLEAN, attention : MaybeCase, linkError : BOOLEAN,
     expanded : SUBSET Case, details : [Case -> Detail], outdated : BOOLEAN]

\* An open or unfolded case of a report has its evidence, or will.
Evident(r) == \A c \in r.expanded \cup ({r.selected} \ {NoCase}) : r.details[c] # "none"
\* Every call of a report that was unmounted had been asked for.
OrphansWereAsked == rescore.orphans + (IF rescore.busy THEN 1 ELSE 0) <= inputs
\* Who reads no more has read the end of the run.
LastReadIsFinal == runPage.read = "none" /\ ~runPage.error => runStatus \notin ACTIVE_STATUSES
\* The list's filter is the address's, and until there is a list the router has
\* nothing to hand over.
FilterIsAddressed ==
    ~embedded /\ Mounted /\ ~report.outdated =>
        /\ address.filter = report.filter
        /\ report.items # "loaded" => params = address
\* The case that both the address and the page's parameters name is open.
LinkIsOpen ==
    /\ ~embedded /\ Mounted /\ report.items = "loaded"
    /\ params.item = address.item /\ address.item # NoCase
    => IF address.item \in Case THEN report.selected = address.item ELSE report.linkError

\* What holds of the page around the report, and of the report itself.
AroundInv ==
    /\ runStatus \in RunStatus /\ embedded \in BOOLEAN
    /\ runPage \in [shown : {"nothing", "job", "report"}, job : RunStatus, error : BOOLEAN,
                    loading : BOOLEAN, read : {"none", "asked", "timer"}]
    /\ rescore \in [busy : BOOLEAN, orphans : 0..MaxInputs, left : BOOLEAN]
    /\ inputs \in 0..MaxInputs
    /\ OrphansWereAsked /\ LastReadIsFinal /\ OutcomeIsShown
InsideInv ==
    /\ embedded \in BOOLEAN /\ address \in Link /\ params \in Link
    /\ Mounted => /\ report \in ReportState /\ Evident(report)
                  /\ report.selected # NoCase => report.items = "loaded"
    /\ FilterIsAddressed /\ OpenCaseIsListed /\ LinkIsOpen

ReportInv == AroundInv /\ InsideInv

-----------------------------------------------------------------------------
(* The report of a run: its operators *)

\* Reading cases takes none of their evidence away, and touches nothing else.
LEMMA LoadCaseDetailIs ==
    ASSUME NEW r \in ReportState, NEW batch \in SUBSET Case
    PROVE  LET l == LoadCaseDetail(r, batch) IN
           /\ l = [r EXCEPT !.details = l.details]
           /\ l.details \in [Case -> Detail]
           /\ \A c \in batch : l.details[c] # "none"
           /\ \A c \in Case : r.details[c] # "none" => l.details[c] # "none"
<1> DEFINE d == [c \in Case |-> IF c \in batch /\ r.details[c] \in {"none", "failed"} THEN "loading"
                                ELSE r.details[c]]
<1>1. d \in [Case -> Detail] /\ r.details \in [Case -> Detail]
  BY DEF ReportState, Detail
<1>2. LoadCaseDetail(r, batch) = [r EXCEPT !.details = d]
  BY DEF LoadCaseDetail
<1>3. [r EXCEPT !.details = d].details = d
  BY DEF ReportState
<1> QED BY <1>1, <1>2, <1>3

\* The cases a filter lists are cases of the run.
LEMMA FilterCasesAreCases ==
    ASSUME RunReportAssumption, NEW f \in CaseFilter
    PROVE  FilterCases(f) \subseteq Case
BY DEF RunReportAssumption, FilterCases, CaseFilter

\* Each filter lists the case that a link without that filter would.
LEMMA AllAreListed == FilterCases("all") = Case
BY DEF FilterCases

\* The case that is opened by itself is listed, needs attention, and is read.
LEMMA OpenAttentionIs ==
    ASSUME RunReportAssumption, NEW r \in ReportState, Evident(r)
    PROVE  LET o == OpenAttention(r) IN
           /\ o \in ReportState /\ Evident(o)
           /\ o.items = r.items /\ o.filter = r.filter /\ o.outdated = r.outdated
           /\ o.linkError = r.linkError
           /\ \/ o.selected = r.selected
              \/ r.selected = NoCase /\ o.selected \in FilterCases(r.filter)
<1>1. CASE r.autoSelected \/ r.selected # NoCase \/ NeedingAttention(r) = {}
  BY <1>1 DEF OpenAttention
<1>2. CASE ~(r.autoSelected \/ r.selected # NoCase \/ NeedingAttention(r) = {})
  <2> DEFINE target == Min(NeedingAttention(r))
             s == [r EXCEPT !.autoSelected = TRUE, !.attention = target, !.selected = target]
             o == LoadCaseDetail(s, {target})
  <2>1. r.filter \in CaseFilter /\ r.details \in [Case -> Detail] /\ r.expanded \in SUBSET Case
    BY DEF ReportState
  <2>2. target \in FilterCases(r.filter) /\ target \in Case
    <3>1. NeedingAttention(r) \subseteq FilterCases(r.filter)
      BY DEF NeedingAttention
    <3>2. FilterCases(r.filter) \subseteq Case /\ Case \subseteq Nat
      BY <2>1, FilterCasesAreCases DEF Case, RunReportAssumption
    <3> QED BY <1>2, <3>1, <3>2, MinIsLeast
  <2>3. OpenAttention(r) = o
    BY <1>2 DEF OpenAttention
  <2> HIDE DEF target
  <2>4. s \in ReportState
    BY <2>2 DEF ReportState, MaybeCase
  <2>5. /\ s.items = r.items /\ s.filter = r.filter /\ s.outdated = r.outdated
        /\ s.linkError = r.linkError /\ s.selected = target /\ s.expanded = r.expanded
        /\ s.details = r.details
    BY DEF ReportState
  <2> HIDE DEF s
  <2>6. /\ o = [s EXCEPT !.details = o.details]
        /\ o.details \in [Case -> Detail] /\ o.details[target] # "none"
        /\ \A c \in Case : s.details[c] # "none" => o.details[c] # "none"
    BY <2>2, <2>4, LoadCaseDetailIs
  <2> HIDE DEF o
  <2>7. /\ o \in ReportState
        /\ o.items = s.items /\ o.filter = s.filter /\ o.outdated = s.outdated
        /\ o.linkError = s.linkError /\ o.selected = s.selected /\ o.expanded = s.expanded
    BY <2>4, <2>6 DEF ReportState
  <2>8. Evident(o)
    BY <2>1, <2>2, <2>5, <2>6, <2>7 DEF Evident
  <2> QED BY <1>2, <2>2, <2>3, <2>5, <2>7, <2>8
<1> QED BY <1>1, <1>2

\* A link opens the case it names, in a list that shows it, or is reported.
LEMMA OpenDeepLinkedIs ==
    ASSUME RunReportAssumption, NEW r \in ReportState, Evident(r), NEW p \in Link
    PROVE  LET o == OpenDeepLinked(r, p) IN
           /\ o \in ReportState /\ Evident(o)
           /\ o.items = r.items /\ o.outdated = r.outdated
           /\ p.item \in Case =>
                o.selected = p.item /\ o.filter = IF Hides(p) THEN "all" ELSE r.filter
           /\ p.item \notin Case =>
                o.selected = r.selected /\ o.filter = r.filter /\ o.linkError
<1>1. CASE p.item \notin Case
  BY <1>1 DEF OpenDeepLinked, ReportState, Evident
<1>2. CASE p.item \in Case
  <2> DEFINE f == IF Hides(p) THEN "all" ELSE r.filter
             s == [r EXCEPT !.linkError = FALSE, !.selected = p.item, !.filter = f]
             o == LoadCaseDetail(s, {p.item})
  <2>1. f \in CaseFilter
    BY DEF ReportState, CaseFilter
  <2>2. OpenDeepLinked(r, p) = o
    <3>1. r.filter = r.filter /\ s = [r EXCEPT !.linkError = FALSE, !.selected = p.item,
                                               !.filter = IF Hides(p) THEN "all" ELSE @]
      OBVIOUS
    <3> QED BY <1>2, <3>1 DEF OpenDeepLinked
  <2> HIDE DEF f
  <2>3. s \in ReportState
    BY <1>2, <2>1 DEF ReportState, MaybeCase
  <2>4. /\ s.items = r.items /\ s.filter = f /\ s.outdated = r.outdated
        /\ s.selected = p.item /\ s.expanded = r.expanded /\ s.details = r.details
    BY DEF ReportState
  <2> HIDE DEF s
  <2>5. /\ o = [s EXCEPT !.details = o.details]
        /\ o.details \in [Case -> Detail] /\ o.details[p.item] # "none"
        /\ \A c \in Case : s.details[c] # "none" => o.details[c] # "none"
    <3> DEFINE batch == {p.item}
    <3>1. batch \in SUBSET Case /\ p.item \in batch
      BY <1>2
    <3>2. o = LoadCaseDetail(s, batch)
      OBVIOUS
    <3> HIDE DEF batch, o
    <3> QED BY <2>3, <3>1, <3>2, LoadCaseDetailIs
  <2> HIDE DEF o
  <2>6. /\ o \in ReportState
        /\ o.items = s.items /\ o.filter = s.filter /\ o.outdated = s.outdated
        /\ o.selected = s.selected /\ o.expanded = s.expanded
    BY <2>3, <2>5 DEF ReportState
  <2>7. r.expanded \in SUBSET Case
    BY DEF ReportState
  <2>8. Evident(o)
    BY <1>2, <2>4, <2>5, <2>6, <2>7 DEF Evident
  <2>9. o.filter = IF Hides(p) THEN "all" ELSE r.filter
    BY <2>4, <2>6 DEF f
  <2> QED BY <1>2, <2>2, <2>4, <2>6, <2>8, <2>9
<1> QED BY <1>1, <1>2

\* What the effects open is listed and has its evidence.
LEMMA EffectsAre ==
    ASSUME RunReportAssumption, NEW r \in ReportState, Evident(r), NEW p \in Link,
           NEW linked \in BOOLEAN
    PROVE  LET e == Effects(r, p, linked) IN
           /\ e \in ReportState /\ Evident(e)
           /\ e.items = r.items /\ e.outdated = r.outdated
           /\ r.items # "loaded" => e.selected = r.selected /\ e.filter = r.filter
           /\ r.items = "loaded" /\ p.item = NoCase =>
                /\ e.filter = r.filter /\ e.linkError = r.linkError
                /\ \/ e.selected = r.selected
                   \/ r.selected = NoCase /\ e.selected \in FilterCases(r.filter)
           /\ r.items = "loaded" /\ p.item \in Case /\ linked =>
                e.selected = p.item /\ e.filter = IF Hides(p) THEN "all" ELSE r.filter
           /\ r.items = "loaded" /\ p.item \notin MaybeCase /\ linked =>
                e.selected = r.selected /\ e.filter = r.filter /\ e.linkError
           /\ r.items = "loaded" /\ p.item # NoCase /\ ~linked => e = r
<1>0. NoCase \notin Case
  BY DEF RunReportAssumption
<1>1. CASE r.items # "loaded"
  BY <1>1 DEF Effects, ReportState, Evident
<1>2. CASE r.items = "loaded" /\ p.item = NoCase
  <2>1. Effects(r, p, linked) = OpenAttention(r)
    BY <1>2 DEF Effects
  <2> QED BY <1>0, <1>2, <2>1, OpenAttentionIs DEF MaybeCase
<1>3. CASE r.items = "loaded" /\ p.item # NoCase /\ linked
  <2>1. Effects(r, p, linked) = OpenDeepLinked(r, p)
    BY <1>3 DEF Effects
  <2> DEFINE o == OpenDeepLinked(r, p)
  <2>2. /\ o \in ReportState /\ Evident(o)
        /\ o.items = r.items /\ o.outdated = r.outdated
        /\ p.item \in Case =>
             o.selected = p.item /\ o.filter = IF Hides(p) THEN "all" ELSE r.filter
        /\ p.item \notin Case =>
             o.selected = r.selected /\ o.filter = r.filter /\ o.linkError
    BY OpenDeepLinkedIs
  <2> HIDE DEF o
  <2>3. p.item \notin MaybeCase => p.item \notin Case
    BY DEF MaybeCase
  <2> QED BY <1>0, <1>3, <2>1, <2>2, <2>3 DEF o
<1>4. CASE r.items = "loaded" /\ p.item # NoCase /\ ~linked
  BY <1>4 DEF Effects
<1> QED BY <1>1, <1>2, <1>3, <1>4

\* The link that a report is given is one.
LEMMA InitialIsALink ==
    ASSUME NEW p \in Link, embedded \in BOOLEAN
    PROVE  Initial(p) \in Link /\ (~embedded => Initial(p) = p)
BY DEF Initial, Link, MaybeCase, CaseFilter

\* A new report waits for its cases.
LEMMA FreshIs ==
    ASSUME NEW p \in Link
    PROVE  /\ Fresh(p) \in ReportState /\ Evident(Fresh(p))
           /\ Fresh(p).items = "loading" /\ Fresh(p).selected = NoCase
           /\ Fresh(p).filter = p.filter /\ ~Fresh(p).outdated
<1>1. Fresh(p) \in ReportState
  BY DEF Fresh, ReportState, MaybeCase, Detail, Link
<1> QED BY <1>1 DEF Fresh, Evident

-----------------------------------------------------------------------------
(* The report of a run: steps *)

\* What stays as it was holds what it held.
LEMMA InsideStays ==
    ASSUME InsideInv, UNCHANGED <<embedded, address, params, report>>
    PROVE  InsideInv'
BY DEF InsideInv, Mounted, Evident, FilterIsAddressed, OpenCaseIsListed, LinkIsOpen, Listed

\* Without a report there is nothing to hold.
LEMMA UnmountedHolds ==
    ASSUME InsideInv, UNCHANGED <<embedded, address, params>>, report' = NoCase
    PROVE  InsideInv'
BY DEF InsideInv, Mounted, FilterIsAddressed, OpenCaseIsListed, LinkIsOpen

\* Reading evidence leaves the list, the link and the open case alone.
LEMMA ReadingKeeps ==
    ASSUME InsideInv, Mounted, UNCHANGED <<embedded, address, params>>,
           report' \in ReportState, Evident(report)',
           report'.selected = report.selected, report'.filter = report.filter,
           report'.outdated = report.outdated, report'.linkError = report.linkError,
           report'.items = report.items
    PROVE  InsideInv'
<1>1. Evident(report')
  BY DEF Evident
<1>2. Mounted' => report' \in ReportState /\ Evident(report)'
                  /\ (report'.selected # NoCase => report'.items = "loaded")
  BY DEF InsideInv
<1>3. (FilterIsAddressed /\ OpenCaseIsListed /\ LinkIsOpen)'
  BY DEF InsideInv, FilterIsAddressed, OpenCaseIsListed, LinkIsOpen, Listed, Mounted
<1> QED BY <1>2, <1>3 DEF InsideInv

\* The run that has ended is shown by a new report, if by any.
LEMMA RunArrivesKeeps ==
    ASSUME RunReportAssumption, InsideInv, RunArrives
    PROVE  InsideInv'
<1>1. CASE runStatus # "completed"
  BY <1>1, UnmountedHolds DEF RunArrives, Unmounts
<1>2. CASE runStatus = "completed" /\ report # NoCase
  BY <1>2, InsideStays DEF RunArrives
<1>3. CASE runStatus = "completed" /\ report = NoCase
  <2> DEFINE n == [Fresh(params) EXCEPT !.outdated = params # address]
  <2>1. report' = n /\ UNCHANGED <<embedded, address, params>>
    BY <1>3 DEF RunArrives
  <2>2. params \in Link
    BY DEF InsideInv
  <2>3. /\ n \in ReportState /\ n.items = "loading" /\ n.selected = NoCase
        /\ n.filter = params.filter /\ n.outdated = (params # address)
        /\ n.expanded = Fresh(params).expanded /\ n.details = Fresh(params).details
    BY <2>2, FreshIs DEF ReportState
  <2>4. Evident(n)
    BY <2>2, <2>3, FreshIs DEF Evident
  <2> HIDE DEF n
  <2>5. Evident(report)'
    BY <2>1, <2>4 DEF Evident
  <2>6. (FilterIsAddressed /\ OpenCaseIsListed /\ LinkIsOpen)'
    BY <2>1, <2>3 DEF FilterIsAddressed, OpenCaseIsListed, LinkIsOpen, Mounted
  <2> QED BY <2>1, <2>2, <2>3, <2>5, <2>6 DEF InsideInv
<1> QED BY <1>1, <1>2, <1>3

\* The router's parameters are taken for a link.
LEMMA SearchParamsKeep ==
    ASSUME RunReportAssumption, InsideInv, SearchParamsArrive
    PROVE  InsideInv'
<1>1. embedded \in BOOLEAN /\ address \in Link /\ params \in Link /\ UNCHANGED embedded
      /\ params' = address /\ params # address
  BY DEF InsideInv, SearchParamsArrive
<1>2. CASE report = NoCase
  BY <1>1, <1>2 DEF SearchParamsArrive, InsideInv, Mounted, FilterIsAddressed, OpenCaseIsListed,
                    LinkIsOpen
<1>3. CASE report # NoCase
  <2> DEFINE p == Initial(address)
             linked == Initial(address) # Initial(params)
             e == Effects(report, p, linked)
  <2>1. report' = e /\ address' = AddressAfter(report, p, linked)
    BY <1>3 DEF SearchParamsArrive
  <2>2. report \in ReportState /\ Evident(report)
        /\ (report.selected # NoCase => report.items = "loaded")
    BY <1>3 DEF InsideInv, Mounted
  <2>3. p \in Link /\ (~embedded => p = address /\ linked)
    BY <1>1, InitialIsALink
  <2>4. embedded => p.item = NoCase
    BY DEF Initial
  <2>5. /\ e \in ReportState /\ Evident(e)
        /\ e.items = report.items /\ e.outdated = report.outdated
        /\ report.items # "loaded" => e.selected = report.selected /\ e.filter = report.filter
        /\ report.items = "loaded" /\ p.item = NoCase =>
             /\ e.filter = report.filter /\ e.linkError = report.linkError
             /\ \/ e.selected = report.selected
                \/ report.selected = NoCase /\ e.selected \in FilterCases(report.filter)
        /\ report.items = "loaded" /\ p.item \in Case /\ linked =>
             e.selected = p.item /\ e.filter = IF Hides(p) THEN "all" ELSE report.filter
        /\ report.items = "loaded" /\ p.item \notin MaybeCase /\ linked =>
             e.selected = report.selected /\ e.filter = report.filter /\ e.linkError
    BY <2>2, <2>3, EffectsAre
  <2> HIDE DEF e
  <2>6. address' \in Link /\ address'.item = address.item
    BY <1>1, <2>1 DEF AddressAfter, Link, CaseFilter
  <2>7. ~embedded => address'.filter = IF report.items = "loaded" /\ p.item \in Case /\ Hides(p)
                                       THEN "all" ELSE address.filter
    BY <1>1, <2>1, <2>3 DEF AddressAfter, Link
  <2>8. NoCase \notin Case /\ MaybeCase = Case \cup {NoCase} /\ FilterCases("all") = Case
    BY AllAreListed DEF RunReportAssumption, MaybeCase
  <2>9. Evident(report)'
    BY <2>1, <2>5 DEF Evident
  <2>10. FilterIsAddressed'
    <3>1. CASE report.items = "loaded"
      BY <1>1, <1>3, <2>1, <2>3, <2>5, <2>7, <2>8, <3>1 DEF FilterIsAddressed, InsideInv, Mounted
    <3>2. CASE report.items # "loaded"
      BY <1>1, <1>3, <2>1, <2>3, <2>5, <2>7, <2>8, <3>2 DEF FilterIsAddressed, InsideInv, Mounted
    <3> QED BY <3>1, <3>2
  <2>11. LinkIsOpen'
    BY <1>1, <2>1, <2>3, <2>5, <2>6, <2>8 DEF LinkIsOpen, Mounted
  <2>12. OpenCaseIsListed'
    <3> SUFFICES ASSUME ~embedded, e.selected # NoCase, ~e.outdated
                 PROVE  e.items = "loaded" /\ e.selected \in FilterCases(e.filter)
      BY <1>1, <2>1 DEF OpenCaseIsListed, Listed, Mounted
    <3>1. report.items = "loaded" /\ ~report.outdated
      BY <2>2, <2>5
    <3>2. report.selected # NoCase => report.selected \in FilterCases(report.filter)
      BY <1>3, <3>1 DEF OpenCaseIsListed, InsideInv, Mounted, Listed
    <3>3. report.filter = p.filter
      BY <1>3, <2>3, <3>1 DEF FilterIsAddressed, InsideInv, Mounted
    <3>4. CASE p.item = NoCase
      BY <2>5, <3>1, <3>2, <3>4
    <3>5. CASE p.item \in Case
      BY <2>3, <2>5, <2>8, <3>1, <3>3, <3>5 DEF Hides
    <3>6. CASE p.item \notin MaybeCase
      BY <2>3, <2>5, <3>1, <3>2, <3>6
    <3> QED BY <2>5, <2>8, <3>1, <3>4, <3>5, <3>6
  <2>13. /\ report' \in ReportState
         /\ report'.selected # NoCase => report'.items = "loaded"
    BY <2>1, <2>2, <2>5
  <2> QED BY <1>1, <2>6, <2>9, <2>10, <2>11, <2>12, <2>13 DEF InsideInv
<1> QED BY <1>2, <1>3

\* The cases arrive, and with them the link.
LEMMA ItemsArriveKeeps ==
    ASSUME RunReportAssumption, InsideInv, ItemsArrive
    PROVE  InsideInv'
<1> DEFINE r == [report EXCEPT !.items = "loaded", !.expanded = {}, !.selected = NoCase]
           p == Initial(params)
           e == Effects(r, p, TRUE)
<1>1. /\ report # NoCase /\ report.items = "loading"
      /\ report' = e /\ address' = AddressAfter(r, p, TRUE)
      /\ UNCHANGED <<embedded, params>>
  BY DEF ItemsArrive, Mounted, SamePage
<1>2. embedded \in BOOLEAN /\ address \in Link /\ params \in Link /\ report \in ReportState
  BY <1>1 DEF InsideInv, Mounted
<1>3. /\ r \in ReportState /\ r.items = "loaded" /\ r.selected = NoCase /\ r.expanded = {}
      /\ r.filter = report.filter /\ r.outdated = report.outdated
  BY <1>2 DEF ReportState, MaybeCase
<1> HIDE DEF r
<1>4. Evident(r)
  BY <1>3 DEF Evident
<1>5. p \in Link /\ (~embedded => p = params)
  BY <1>2, InitialIsALink
<1>6. /\ e \in ReportState /\ Evident(e)
      /\ e.items = "loaded" /\ e.outdated = report.outdated
      /\ p.item = NoCase =>
           /\ e.filter = report.filter
           /\ e.selected = NoCase \/ e.selected \in FilterCases(report.filter)
      /\ p.item \in Case =>
           e.selected = p.item /\ e.filter = IF Hides(p) THEN "all" ELSE report.filter
      /\ p.item \notin MaybeCase =>
           e.selected = NoCase /\ e.filter = report.filter /\ e.linkError
  BY <1>3, <1>4, <1>5, EffectsAre
<1> HIDE DEF e
<1>7. address' \in Link /\ address'.item = address.item
  BY <1>1, <1>2 DEF AddressAfter, Link, CaseFilter
<1>8. address'.filter = IF p.item \in Case /\ Hides(p) THEN "all" ELSE address.filter
  BY <1>1, <1>2, <1>3 DEF AddressAfter, Link
<1>9. NoCase \notin Case /\ MaybeCase = Case \cup {NoCase} /\ FilterCases("all") = Case
  BY AllAreListed DEF RunReportAssumption, MaybeCase
<1>10. ~embedded /\ ~report.outdated => address = params /\ report.filter = params.filter
  BY <1>1 DEF InsideInv, FilterIsAddressed, Mounted
<1>11. FilterIsAddressed'
  BY <1>1, <1>5, <1>6, <1>8, <1>9, <1>10 DEF FilterIsAddressed, Mounted
<1>12. LinkIsOpen'
  BY <1>1, <1>2, <1>5, <1>6, <1>7, <1>9 DEF LinkIsOpen, Mounted, Link
<1>13. OpenCaseIsListed'
  <2> SUFFICES ASSUME ~embedded, e.selected # NoCase, ~e.outdated
               PROVE  e.selected \in FilterCases(e.filter)
    BY <1>1, <1>6 DEF OpenCaseIsListed, Listed, Mounted
  <2> QED BY <1>5, <1>6, <1>9, <1>10 DEF Hides
<1>14. Evident(report)'
  BY <1>1, <1>6 DEF Evident
<1> QED BY <1>1, <1>2, <1>6, <1>7, <1>11, <1>12, <1>13, <1>14 DEF InsideInv

\* Without its cases a report opens none.
LEMMA WithoutItems ==
    ASSUME RunReportAssumption, InsideInv, ItemsFail \/ RetryLoadCases
    PROVE  InsideInv'
<1>1. /\ report # NoCase /\ report.items # "loaded" /\ report.selected = NoCase
      /\ report \in ReportState /\ Evident(report) /\ params \in Link /\ embedded \in BOOLEAN
      /\ UNCHANGED <<embedded, address, params>>
  BY DEF ItemsFail, RetryLoadCases, InsideInv, Mounted, SamePage
<1>2. /\ report' \in ReportState /\ Evident(report') /\ report'.items # "loaded"
      /\ report'.selected = NoCase /\ report'.filter = report.filter
      /\ report'.outdated = report.outdated
  <2>1. CASE RetryLoadCases
    BY <1>1, <2>1 DEF RetryLoadCases, ReportState, Evident
  <2>2. CASE ItemsFail
    <3> DEFINE r == [report EXCEPT !.items = "failed"]
    <3>1. /\ r \in ReportState /\ r.items = "failed" /\ r.selected = NoCase
          /\ r.filter = report.filter /\ r.outdated = report.outdated
          /\ r.expanded = report.expanded /\ r.details = report.details
      BY <1>1 DEF ReportState
    <3>2. report' = Effects(r, Initial(params), TRUE)
      BY <2>2 DEF ItemsFail
    <3> HIDE DEF r
    <3>3. Evident(r)
      BY <1>1, <3>1 DEF Evident
    <3>4. Initial(params) \in Link
      BY <1>1, InitialIsALink
    <3> QED BY <3>1, <3>2, <3>3, <3>4, EffectsAre
  <2> QED BY <2>1, <2>2
<1>3. Evident(report)'
  BY <1>2 DEF Evident
<1>4. (FilterIsAddressed /\ OpenCaseIsListed /\ LinkIsOpen)'
  BY <1>1, <1>2 DEF InsideInv, FilterIsAddressed, OpenCaseIsListed, LinkIsOpen, Listed, Mounted
<1> QED BY <1>1, <1>2, <1>3, <1>4 DEF InsideInv

\* Evidence that arrives, fails or is asked for again.
LEMMA DetailsKeep ==
    ASSUME RunReportAssumption, InsideInv, NEW c \in Case,
           DetailArrives(c) \/ DetailFails(c) \/ RetryDetail(c)
    PROVE  InsideInv'
<1>1. Mounted /\ UNCHANGED <<embedded, address, params>>
  BY DEF DetailArrives, DetailFails, RetryDetail, SamePage
<1>2. report \in ReportState /\ Evident(report)
  BY <1>1 DEF InsideInv
<1>3. report.details \in [Case -> Detail] /\ report.expanded \in SUBSET Case
      /\ report.selected \in Case \cup {NoCase}
  BY <1>2 DEF ReportState, MaybeCase
<1>4. CASE DetailArrives(c) \/ DetailFails(c)
  <2>1. PICK d \in {"loaded", "failed"} :
          report' = [report EXCEPT !.details = [report.details EXCEPT ![c] = d]]
    BY <1>4 DEF DetailArrives, DetailFails
  <2> DEFINE f == [report.details EXCEPT ![c] = d]
  <2>2. f \in [Case -> Detail] /\ \A x \in Case : report.details[x] # "none" => f[x] # "none"
    BY <1>3 DEF Detail
  <2>3. report' = [report EXCEPT !.details = f]
    BY <2>1
  <2> HIDE DEF f
  <2>4. /\ report' \in ReportState /\ report'.details = f /\ report'.expanded = report.expanded
        /\ report'.selected = report.selected /\ report'.filter = report.filter
        /\ report'.outdated = report.outdated /\ report'.linkError = report.linkError
        /\ report'.items = report.items
    BY <1>2, <2>2, <2>3 DEF ReportState
  <2>5. Evident(report)'
    BY <1>2, <1>3, <2>2, <2>4 DEF Evident
  <2> QED BY <1>1, <2>4, <2>5, ReadingKeeps
<1>5. CASE RetryDetail(c)
  <2> DEFINE batch == {c}
             l == LoadCaseDetail(report, batch)
  <2>1. report' = l /\ batch \in SUBSET Case
    BY <1>5 DEF RetryDetail
  <2> HIDE DEF batch
  <2>2. /\ l = [report EXCEPT !.details = l.details]
        /\ l.details \in [Case -> Detail]
        /\ \A x \in Case : report.details[x] # "none" => l.details[x] # "none"
    BY <1>2, <2>1, LoadCaseDetailIs
  <2> HIDE DEF l
  <2>3. /\ report' \in ReportState /\ report'.details = l.details
        /\ report'.expanded = report.expanded
        /\ report'.selected = report.selected /\ report'.filter = report.filter
        /\ report'.outdated = report.outdated /\ report'.linkError = report.linkError
        /\ report'.items = report.items
    BY <1>2, <2>1, <2>2 DEF ReportState
  <2>4. Evident(report)'
    BY <1>2, <1>3, <2>2, <2>3 DEF Evident
  <2> QED BY <1>1, <2>3, <2>4, ReadingKeeps
<1> QED BY <1>4, <1>5

\* A case that the list shows is opened, and its address written.
LEMMA InspectKeeps ==
    ASSUME RunReportAssumption, InsideInv, NEW c \in Case, Listed(c), ~embedded, InspectCase(c)
    PROVE  InsideInv'
<1> DEFINE s == [report EXCEPT !.selected = c]
           batch == {c}
           l == LoadCaseDetail(s, batch)
<1>1. /\ report # NoCase /\ report.items = "loaded" /\ c \in FilterCases(report.filter)
      /\ report' = l /\ address' = [item |-> c, filter |-> report.filter]
      /\ UNCHANGED <<embedded, params>>
  BY DEF Listed, Mounted, InspectCase, InspectOf, SamePage
<1>2. report \in ReportState /\ Evident(report) /\ report.filter \in CaseFilter
      /\ report.expanded \in SUBSET Case
  BY <1>1 DEF InsideInv, Mounted, ReportState
<1>3. /\ s \in ReportState /\ s.selected = c /\ s.items = "loaded" /\ s.filter = report.filter
      /\ s.outdated = report.outdated /\ s.expanded = report.expanded
      /\ s.details = report.details /\ s.linkError = report.linkError
  BY <1>1, <1>2 DEF ReportState, MaybeCase
<1>4. batch \in SUBSET Case /\ c \in batch
  OBVIOUS
<1> HIDE DEF s, batch
<1>5. /\ l = [s EXCEPT !.details = l.details]
      /\ l.details \in [Case -> Detail] /\ l.details[c] # "none"
      /\ \A x \in Case : s.details[x] # "none" => l.details[x] # "none"
  BY <1>3, <1>4, LoadCaseDetailIs
<1> HIDE DEF l
<1>6. /\ l \in ReportState /\ l.selected = c /\ l.items = "loaded" /\ l.filter = report.filter
      /\ l.outdated = report.outdated /\ l.expanded = report.expanded
  BY <1>3, <1>5 DEF ReportState
<1>7. Evident(l)
  BY <1>2, <1>3, <1>5, <1>6 DEF Evident
<1>8. Evident(report)'
  BY <1>1, <1>7 DEF Evident
<1>9. address' \in Link /\ address'.item = c /\ address'.filter = report.filter
  BY <1>1, <1>2 DEF Link, MaybeCase
<1>10. (FilterIsAddressed /\ OpenCaseIsListed /\ LinkIsOpen)'
  BY <1>1, <1>6, <1>9 DEF FilterIsAddressed, OpenCaseIsListed, LinkIsOpen, Listed, Mounted
<1> QED BY <1>1, <1>6, <1>8, <1>9, <1>10 DEF InsideInv

\* Back at the list, or under another filter, the next case that needs attention
\* may open by itself.
LEMMA ShowingKeeps ==
    ASSUME RunReportAssumption, InsideInv, Mounted, report.items = "loaded",
           UNCHANGED <<embedded, params>>,
           NEW s \in ReportState, Evident(s), ShowsReport(s),
           s.selected = NoCase, s.items = "loaded", s.outdated = report.outdated,
           address' \in Link, address'.filter = s.filter \/ embedded \/ report.outdated,
           address'.item = NoCase \/ embedded
             \/ (/\ address'.item = address.item
                 /\ report.selected = NoCase /\ s.linkError = report.linkError)
    PROVE  InsideInv'
<1> DEFINE p == Initial(params)
           e == Effects(s, p, FALSE)
<1>1. params \in Link /\ embedded \in BOOLEAN /\ p \in Link /\ (~embedded => p = params)
  BY InitialIsALink DEF InsideInv
<1>2. /\ e \in ReportState /\ Evident(e)
      /\ e.items = "loaded" /\ e.outdated = report.outdated
      /\ p.item = NoCase =>
           /\ e.filter = s.filter
           /\ e.selected = NoCase \/ e.selected \in FilterCases(s.filter)
      /\ p.item # NoCase => e = s
  BY <1>1, EffectsAre
<1>3. report' = e
  BY DEF ShowsReport
<1> HIDE DEF e
<1>4. e.filter = s.filter /\ (e.selected # NoCase => e.selected \in FilterCases(s.filter))
  BY <1>2
<1>5. Evident(report)'
  BY <1>2, <1>3 DEF Evident
<1>6. (FilterIsAddressed /\ OpenCaseIsListed)'
  BY <1>2, <1>3, <1>4 DEF FilterIsAddressed, OpenCaseIsListed, Listed, Mounted
<1>7. LinkIsOpen'
  <2> SUFFICES ASSUME ~embedded, params.item = address'.item, address'.item # NoCase
               PROVE  IF address'.item \in Case THEN e.selected = address'.item ELSE e.linkError
    BY <1>3 DEF LinkIsOpen, Mounted
  <2>1. /\ address'.item = address.item /\ report.selected = NoCase /\ e = s
        /\ s.linkError = report.linkError
    BY <1>1, <1>2
  <2>2. IF address.item \in Case THEN report.selected = address.item ELSE report.linkError
    BY <2>1 DEF InsideInv, LinkIsOpen
  <2>3. NoCase \notin Case
    BY DEF RunReportAssumption
  <2> QED BY <2>1, <2>2, <2>3
<1> QED BY <1>1, <1>2, <1>3, <1>5, <1>6, <1>7 DEF InsideInv

\* The inspector is closed.
LEMMA ClosingKeeps ==
    ASSUME RunReportAssumption, InsideInv, CloseCaseInspector
    PROVE  InsideInv'
<1> DEFINE s == [report EXCEPT !.selected = NoCase]
<1>1. /\ Mounted /\ ~embedded /\ report.selected # NoCase /\ ShowsReport(s)
      /\ address' = [address EXCEPT !.item = NoCase] /\ UNCHANGED <<embedded, params>>
  BY DEF CloseCaseInspector, SamePage
<1>2. report \in ReportState /\ Evident(report) /\ report.items = "loaded" /\ address \in Link
  BY <1>1 DEF InsideInv
<1>3. /\ s \in ReportState /\ s.selected = NoCase /\ s.items = "loaded"
      /\ s.filter = report.filter /\ s.outdated = report.outdated
      /\ s.expanded = report.expanded /\ s.details = report.details
  BY <1>2 DEF ReportState, MaybeCase
<1> HIDE DEF s
<1>4. Evident(s)
  BY <1>2, <1>3 DEF Evident
<1>5. address' \in Link /\ address'.item = NoCase /\ address'.filter = address.filter
  BY <1>1, <1>2 DEF Link, MaybeCase
<1>6. address'.filter = s.filter \/ report.outdated
  BY <1>1, <1>3, <1>5 DEF InsideInv, FilterIsAddressed
<1> QED BY <1>1, <1>2, <1>3, <1>4, <1>5, <1>6, ShowingKeeps

\* The list is filtered.
LEMMA FilteringKeeps ==
    ASSUME RunReportAssumption, InsideInv, NEW f \in CaseFilter, ChangeCaseFilter(f)
    PROVE  InsideInv'
<1> DEFINE s == [report EXCEPT !.filter = f]
<1>1. /\ Mounted /\ report.items = "loaded" /\ (embedded \/ report.selected = NoCase)
      /\ ShowsReport(s)
      /\ address' = [address EXCEPT !.filter = f] /\ UNCHANGED <<embedded, params>>
  BY DEF ChangeCaseFilter, AtTheList, SamePage
<1>2. report \in ReportState /\ Evident(report) /\ address \in Link /\ params \in Link
      /\ embedded \in BOOLEAN
  BY <1>1 DEF InsideInv
<1>3. /\ s \in ReportState /\ s.selected = report.selected /\ s.items = "loaded"
      /\ s.filter = f /\ s.outdated = report.outdated
      /\ s.expanded = report.expanded /\ s.details = report.details
      /\ s.linkError = report.linkError
  BY <1>1, <1>2 DEF ReportState
<1> HIDE DEF s
<1>4. Evident(s)
  BY <1>2, <1>3 DEF Evident
<1>5. address' \in Link /\ address'.item = address.item /\ address'.filter = f
  BY <1>1, <1>2 DEF Link
<1>6. CASE report.selected = NoCase
  BY <1>1, <1>2, <1>3, <1>4, <1>5, <1>6, ShowingKeeps
<1>7. CASE report.selected # NoCase
  <2>1. embedded
    BY <1>1, <1>7
  <2>2. Initial(params) \in Link /\ Initial(params).item = NoCase
    BY <1>2, <2>1, InitialIsALink DEF Initial
  <2> DEFINE e == Effects(s, Initial(params), FALSE)
  <2>3. e \in ReportState /\ Evident(e) /\ e.items = "loaded"
    BY <1>3, <1>4, <2>2, EffectsAre
  <2>4. report' = e
    BY <1>1 DEF ShowsReport
  <2> HIDE DEF e
  <2>5. Evident(report)'
    BY <2>3, <2>4 DEF Evident
  <2> QED BY <1>1, <1>2, <1>5, <2>1, <2>3, <2>4, <2>5
          DEF InsideInv, FilterIsAddressed, OpenCaseIsListed, LinkIsOpen
<1> QED BY <1>6, <1>7

\* Cases unfold in the drawer.
LEMMA ExpandingKeeps ==
    ASSUME RunReportAssumption, InsideInv, NEW batch \in SUBSET Case, Expand(batch)
    PROVE  InsideInv'
<1> DEFINE s == [report EXCEPT !.expanded = batch]
           l == LoadCaseDetail(s, batch)
<1>1. /\ embedded /\ Mounted /\ report.items = "loaded" /\ report' = l
      /\ UNCHANGED <<embedded, address, params>>
  BY DEF Expand, AtTheList, SamePage
<1>2. report \in ReportState /\ Evident(report)
      /\ report.selected \in Case \cup {NoCase}
  BY <1>1 DEF InsideInv, ReportState, MaybeCase
<1>3. /\ s \in ReportState /\ s.selected = report.selected /\ s.items = "loaded"
      /\ s.expanded = batch /\ s.details = report.details
  BY <1>1, <1>2 DEF ReportState
<1> HIDE DEF s
<1>4. /\ l = [s EXCEPT !.details = l.details]
      /\ l.details \in [Case -> Detail]
      /\ \A c \in batch : l.details[c] # "none"
      /\ \A c \in Case : s.details[c] # "none" => l.details[c] # "none"
  BY <1>3, LoadCaseDetailIs
<1> HIDE DEF l
<1>5. /\ l \in ReportState /\ l.selected = report.selected /\ l.items = "loaded"
      /\ l.expanded = batch
  BY <1>3, <1>4 DEF ReportState
<1>6. Evident(l)
  BY <1>2, <1>3, <1>4, <1>5 DEF Evident
<1>7. Evident(report)'
  BY <1>1, <1>6 DEF Evident
<1> QED BY <1>1, <1>5, <1>7
        DEF InsideInv, FilterIsAddressed, OpenCaseIsListed, LinkIsOpen

\* Each step of the report keeps what holds of it.
LEMMA InsideStep ==
    ASSUME RunReportAssumption, InsideInv, RunReportNext
    PROVE  InsideInv'
<1>1. CASE RunAdvances \/ PollTimer \/ Retry \/ Rescore
  BY <1>1, InsideStays DEF RunAdvances, PollTimer, Retry, Rescore
<1>2. CASE RunArrives
  BY <1>2, RunArrivesKeeps
<1>3. CASE RunFails
  BY <1>3, UnmountedHolds DEF RunFails, Unmounts
<1>4. CASE SearchParamsArrive
  BY <1>4, SearchParamsKeep
<1>5. CASE ItemsArrive
  BY <1>5, ItemsArriveKeeps
<1>6. CASE ItemsFail \/ RetryLoadCases
  BY <1>6, WithoutItems
<1>7. CASE \E c \in Case : DetailArrives(c) \/ DetailFails(c) \/ RetryDetail(c)
  BY <1>7, DetailsKeep
<1>8. CASE \E c \in Case : OpenCase(c)
  BY <1>8, InspectKeeps DEF OpenCase
<1>9. CASE \E c \in Case : ToggleCase(c)
  <2>1. PICK c \in Case : Listed(c) /\ Expand(SymDiff(report.expanded, {c}))
    BY <1>9 DEF ToggleCase
  <2>2. report \in ReportState
    BY <2>1 DEF Listed, InsideInv
  <2>3. SymDiff(report.expanded, {c}) \in SUBSET Case
    BY <2>2 DEF SymDiff, ReportState
  <2> QED BY <2>1, <2>3, ExpandingKeeps
<1>10. CASE MoveCase
  <2> DEFINE c == report.selected
  <2>1. Mounted /\ ~embedded /\ report.items = "loaded"
    BY <1>10 DEF MoveCase, Listed
  <2>2. report \in ReportState
    BY <2>1 DEF InsideInv
  <2>3. report.filter \in CaseFilter
    BY <2>2 DEF ReportState
  <2>4. FilterCases(report.filter) \subseteq Case
    BY <2>3, FilterCasesAreCases
  <2>5. CaseCount \in Nat /\ Case \subseteq Nat /\ Case \in SUBSET (0..CaseCount)
    BY DEF RunReportAssumption, Case
  <2>6. /\ Below(c) \subseteq FilterCases(report.filter)
        /\ Above(c) \subseteq FilterCases(report.filter)
    BY DEF Below, Above
  <2>7. CASE Below(c) # {} /\ InspectCase(Max(Below(c)))
    <3>1. Below(c) \in SUBSET (0..CaseCount)
      BY <2>4, <2>5, <2>6
    <3>2. Max(Below(c)) \in Below(c)
      BY <2>5, <2>7, <3>1, MaxIsGreatest
    <3>3. Max(Below(c)) \in Case /\ Listed(Max(Below(c)))
      BY <2>1, <2>4, <2>6, <3>2 DEF Listed
    <3> QED BY <2>1, <2>7, <3>3, InspectKeeps
  <2>8. CASE Above(c) # {} /\ InspectCase(Min(Above(c)))
    <3>1. Above(c) \in SUBSET Nat
      BY <2>4, <2>5, <2>6
    <3>2. Min(Above(c)) \in Above(c)
      BY <2>8, <3>1, MinIsLeast
    <3>3. Min(Above(c)) \in Case /\ Listed(Min(Above(c)))
      BY <2>1, <2>4, <2>6, <3>2 DEF Listed
    <3> QED BY <2>1, <2>8, <3>3, InspectKeeps
  <2> QED BY <1>10, <2>7, <2>8 DEF MoveCase
<1>11. CASE CloseCaseInspector
  BY <1>11, ClosingKeeps
<1>12. CASE ExpandAllCases
  BY <1>12, ExpandingKeeps DEF ExpandAllCases
<1>13. CASE \E f \in CaseFilter : ChangeCaseFilter(f)
  BY <1>13, FilteringKeeps
<1>14. CASE \E own, created \in BOOLEAN : RescoreEnds(own, created)
  BY <1>14, InsideStays, UnmountedHolds DEF RescoreEnds
<1> QED BY <1>1, <1>2, <1>3, <1>4, <1>5, <1>6, <1>7, <1>8, <1>9, <1>10, <1>11, <1>12, <1>13, <1>14
        DEF RunReportNext

\* A step that the report makes by itself asks for nothing of the page.
LEMMA AroundStays ==
    ASSUME RunReportAssumption, AroundInv, UNCHANGED <<runStatus, embedded, runPage, rescore>>,
           UNCHANGED inputs \/ Input
    PROVE  AroundInv'
<1>1. inputs' \in 0..MaxInputs /\ inputs <= inputs'
  BY DEF AroundInv, Input, RunReportAssumption
<1>2. rescore.orphans \in Int
  BY DEF AroundInv
<1>3. OrphansWereAsked'
  BY <1>1, <1>2 DEF AroundInv, OrphansWereAsked
<1> QED BY <1>1, <1>3 DEF AroundInv, LastReadIsFinal, OutcomeIsShown

\* Each step keeps what holds around the report.
LEMMA AroundStep ==
    ASSUME RunReportAssumption, AroundInv, RunReportNext
    PROVE  AroundInv'
<1> DEFINE P == [shown : {"nothing", "job", "report"}, job : RunStatus, error : BOOLEAN,
                 loading : BOOLEAN, read : {"none", "asked", "timer"}]
           R == [busy : BOOLEAN, orphans : 0..MaxInputs, left : BOOLEAN]
<1>1. /\ runStatus \in RunStatus /\ runPage \in P /\ rescore \in R /\ inputs \in 0..MaxInputs
      /\ MaxInputs \in Nat /\ rescore.orphans \in 0..MaxInputs
  BY DEF AroundInv, RunReportAssumption
<1>2. CASE RunAdvances
  <2>1. runStatus' \in RunStatus /\ runStatus \in ACTIVE_STATUSES
    BY <1>2 DEF RunAdvances, RunStatus
  <2>2. ~(runPage.read = "none" /\ ~runPage.error)
    BY <2>1 DEF AroundInv, LastReadIsFinal
  <2> QED BY <1>2, <2>1, <2>2
          DEF RunAdvances, AroundInv, OrphansWereAsked, LastReadIsFinal, OutcomeIsShown
<1>3. ASSUME Unmounts, UNCHANGED inputs \/ Input
      PROVE  rescore' \in R /\ OrphansWereAsked' /\ inputs' \in 0..MaxInputs
  <2>1. inputs' \in 0..MaxInputs /\ inputs <= inputs'
    BY <1>1, <1>3 DEF Input
  <2>2. rescore.orphans + (IF rescore.busy THEN 1 ELSE 0) <= inputs
    BY DEF AroundInv, OrphansWereAsked
  <2> DEFINE o == rescore.orphans + (IF rescore.busy THEN 1 ELSE 0)
  <2>3. o \in 0..MaxInputs
    BY <1>1, <2>2
  <2>4. rescore' = [rescore EXCEPT !.busy = FALSE, !.orphans = o]
    BY <1>3 DEF Unmounts
  <2> HIDE DEF o
  <2>5. rescore' \in R /\ rescore'.orphans = o /\ ~rescore'.busy
    BY <1>1, <2>3, <2>4
  <2>6. o <= inputs
    BY <2>2 DEF o
  <2>7. rescore'.orphans + 0 <= inputs'
    BY <1>1, <2>1, <2>3, <2>5, <2>6
  <2> QED BY <2>1, <2>5, <2>7 DEF OrphansWereAsked
<1>4. CASE RunArrives
  <2>1. CASE runStatus = "completed"
    <3>1. runPage' = [runPage EXCEPT !.shown = "report", !.error = FALSE, !.loading = FALSE,
                                     !.read = "none"]
          /\ UNCHANGED <<runStatus, embedded, rescore, inputs>>
      BY <1>4, <2>1 DEF RunArrives
    <3>2. runPage' \in P /\ runPage'.shown = "report"
      BY <1>1, <3>1
    <3> QED BY <2>1, <3>1, <3>2
            DEF AroundInv, OrphansWereAsked, LastReadIsFinal, OutcomeIsShown, ACTIVE_STATUSES
  <2>2. CASE runStatus # "completed"
    <3>1. /\ runPage' = [shown |-> "job", job |-> runStatus, error |-> FALSE, loading |-> FALSE,
                         read |-> IF Continues(runStatus) THEN "timer" ELSE "none"]
          /\ Unmounts /\ UNCHANGED <<runStatus, embedded, inputs>>
      BY <1>4, <2>2 DEF RunArrives
    <3>2. runPage' \in P /\ runPage'.shown = "job" /\ runPage'.job = runStatus
          /\ (runPage'.read = "none" => runStatus \notin ACTIVE_STATUSES)
      BY <1>1, <3>1 DEF Continues, PollsAgain
    <3> QED BY <1>1, <1>3, <2>2, <3>1, <3>2 DEF AroundInv, LastReadIsFinal, OutcomeIsShown
  <2> QED BY <2>1, <2>2
<1>5. CASE RunFails
  <2>1. /\ runPage' = [runPage EXCEPT !.error = TRUE, !.loading = FALSE, !.read = "none"]
        /\ Unmounts /\ Input /\ UNCHANGED <<runStatus, embedded>>
    BY <1>5 DEF RunFails
  <2>2. runPage' \in P /\ runPage'.error
    BY <1>1, <2>1
  <2> QED BY <1>1, <1>3, <2>1, <2>2 DEF AroundInv, LastReadIsFinal, OutcomeIsShown
<1>6. CASE PollTimer \/ Retry \/ SearchParamsArrive
  <2>1. /\ UNCHANGED <<runStatus, embedded, rescore>> /\ (UNCHANGED inputs \/ Input)
        /\ \/ runPage' = runPage
           \/ runPage' = [runPage EXCEPT !.read = "asked"]
           \/ runPage' = [runPage EXCEPT !.error = FALSE, !.loading = TRUE, !.read = "asked"]
    BY <1>6 DEF PollTimer, Retry, SearchParamsArrive
  <2>2. runPage' \in P /\ (runPage' = runPage \/ runPage'.read = "asked")
    BY <1>1, <2>1
  <2>3. inputs' \in 0..MaxInputs /\ inputs <= inputs'
    BY <1>1, <2>1 DEF Input
  <2>4. OrphansWereAsked'
    BY <1>1, <2>1, <2>3 DEF AroundInv, OrphansWereAsked
  <2> QED BY <1>1, <2>1, <2>2, <2>3, <2>4 DEF AroundInv, LastReadIsFinal, OutcomeIsShown
<1>7. CASE \/ ItemsArrive \/ ItemsFail \/ RetryLoadCases
           \/ \E c \in Case : \/ DetailArrives(c) \/ DetailFails(c) \/ RetryDetail(c)
                              \/ OpenCase(c) \/ ToggleCase(c)
           \/ MoveCase \/ CloseCaseInspector \/ ExpandAllCases
           \/ \E filter \in CaseFilter : ChangeCaseFilter(filter)
  <2>1. UNCHANGED <<runStatus, embedded, runPage, rescore>> /\ (UNCHANGED inputs \/ Input)
    BY <1>7 DEF ItemsArrive, ItemsFail, RetryLoadCases, DetailArrives, DetailFails, RetryDetail,
                OpenCase, ToggleCase, MoveCase, CloseCaseInspector, ExpandAllCases,
                ChangeCaseFilter, Expand, InspectCase, SamePage
  <2> QED BY <2>1, AroundStays
<1>8. CASE Rescore
  <2>1. /\ rescore' = [rescore EXCEPT !.busy = TRUE] /\ Input /\ ~rescore.busy
        /\ UNCHANGED <<runStatus, embedded, runPage>>
    BY <1>8 DEF Rescore
  <2>2. rescore' \in R /\ rescore'.busy /\ rescore'.orphans = rescore.orphans
    BY <1>1, <2>1
  <2>3. inputs' \in 0..MaxInputs /\ inputs' = inputs + 1
    BY <1>1, <2>1 DEF Input
  <2>4. OrphansWereAsked'
    BY <1>1, <2>1, <2>2, <2>3 DEF AroundInv, OrphansWereAsked
  <2> QED BY <1>1, <2>1, <2>2, <2>3, <2>4 DEF AroundInv, LastReadIsFinal, OutcomeIsShown
<1>9. CASE \E own, created \in BOOLEAN : RescoreEnds(own, created)
  <2>1. /\ UNCHANGED <<runStatus, embedded, runPage, inputs>>
        /\ \/ rescore' = [busy |-> FALSE, orphans |-> 0, left |-> TRUE]
           \/ rescore' = [rescore EXCEPT !.busy = FALSE]
           \/ rescore.orphans > 0 /\ rescore' = [rescore EXCEPT !.orphans = @ - 1]
    BY <1>9 DEF RescoreEnds
  <2>2. /\ rescore' \in R /\ rescore'.orphans <= rescore.orphans
        /\ (rescore'.busy => rescore.busy)
    <3>1. CASE rescore' = [busy |-> FALSE, orphans |-> 0, left |-> TRUE]
      BY <1>1, <3>1
    <3>2. CASE rescore' = [rescore EXCEPT !.busy = FALSE]
      <4>1. rescore' \in R /\ rescore'.orphans = rescore.orphans /\ ~rescore'.busy
        BY <1>1, <3>2
      <4> QED BY <1>1, <4>1
    <3>3. CASE rescore.orphans > 0 /\ rescore' = [rescore EXCEPT !.orphans = @ - 1]
      <4> DEFINE o == rescore.orphans - 1
      <4>1. o \in 0..MaxInputs /\ o <= rescore.orphans
        BY <1>1, <3>3
      <4>2. rescore' = [rescore EXCEPT !.orphans = o]
        BY <3>3
      <4> HIDE DEF o
      <4> QED BY <1>1, <4>1, <4>2
    <3> QED BY <2>1, <3>1, <3>2, <3>3
  <2>3. OrphansWereAsked'
    BY <1>1, <2>1, <2>2 DEF AroundInv, OrphansWereAsked
  <2> QED BY <1>1, <2>1, <2>2, <2>3 DEF AroundInv, LastReadIsFinal, OutcomeIsShown
<1> QED BY <1>2, <1>4, <1>5, <1>6, <1>7, <1>8, <1>9 DEF RunReportNext

\* The report of a run as it is first opened.
LEMMA ReportInitInv ==
    ASSUME RunReportAssumption, RunReportInit
    PROVE  ReportInv
<1>1. AroundInv
  BY DEF RunReportAssumption, RunReportInit, AroundInv, RunStatus, OrphansWereAsked,
         LastReadIsFinal, OutcomeIsShown, ACTIVE_STATUSES
<1>2. /\ embedded \in BOOLEAN /\ address \in Link /\ params = address
      /\ report = IF embedded THEN Fresh(params) ELSE NoCase
  BY DEF RunReportInit, Link, MaybeCase, CaseFilter
<1>3. InsideInv
  BY <1>2, FreshIs DEF InsideInv, Mounted, FilterIsAddressed, OpenCaseIsListed, LinkIsOpen
<1> QED BY <1>1, <1>3 DEF ReportInv

\* The report's invariant is one.
LEMMA ReportInvHolds ==
    ASSUME RunReportAssumption
    PROVE  RunReportSpec => []ReportInv
<1>1. RunReportInit => ReportInv
  BY ReportInitInv
<1>2. ReportInv /\ [RunReportNext]_runReportVars => ReportInv'
  <2> SUFFICES ASSUME ReportInv, [RunReportNext]_runReportVars PROVE ReportInv'
    OBVIOUS
  <2>1. CASE RunReportNext
    BY <2>1, AroundStep, InsideStep DEF ReportInv
  <2>2. CASE UNCHANGED runReportVars
    BY <2>2, AroundStays, InsideStays DEF ReportInv, runReportVars
  <2> QED BY <2>1, <2>2
<1> QED BY <1>1, <1>2, PTL DEF RunReportSpec

\* The page of a run, its report and the calls of reports since left keep their types.
THEOREM ReportTypesCorrect ==
    ASSUME RunReportAssumption
    PROVE  RunReportSpec => []RunReportTypeOK
<1>1. ReportInv => RunReportTypeOK
  BY DEF ReportInv, AroundInv, InsideInv, RunReportTypeOK, ReportState, Mounted
<1> QED BY <1>1, ReportInvHolds, PTL

\* RunDetail, ReportView: whenever polls, cases, evidence and search parameters arrive, a
\* page that reads no more shows the end of its run, the open case is listed and has its
\* evidence or is about to, and an address that the router has handed over is the open case.
THEOREM ReportsAreTrue ==
    ASSUME RunReportAssumption
    PROVE  RunReportSpec => []RunReportIsTrue
<1>1. ReportInv => RunReportIsTrue
  <2> SUFFICES ASSUME ReportInv PROVE RunReportIsTrue
    OBVIOUS
  <2>1. OutcomeIsShown /\ OpenCaseIsListed
    BY DEF ReportInv, AroundInv, InsideInv
  <2>2. OpenCaseHasEvidence
    BY DEF ReportInv, InsideInv, OpenCaseHasEvidence, Evident
  <2>3. AddressIsOpen
    BY DEF ReportInv, InsideInv, AddressIsOpen, LinkIsOpen
  <2> QED BY <2>1, <2>2, <2>3 DEF RunReportIsTrue
<1> QED BY <1>1, ReportInvHolds, PTL

-----------------------------------------------------------------------------
(* The run history: the inductive invariant                                    *)

BackendRecord ==
    [run : [RunId -> RunState], archived : SUBSET Experiment, launched : SUBSET RunId]
LibraryRecord ==
    [shown : [RunId -> Shown], archived : SUBSET Experiment, loading : BOOLEAN,
     error : BOOLEAN, loaded : BOOLEAN, polling : BOOLEAN]
LibraryDialog ==
    [kind : {"none"}, on : {None}, asked : {FALSE}]
      \cup [kind : {"stop"}, on : RunId, asked : BOOLEAN]
      \cup [kind : {"archive", "restore"}, on : Experiment, asked : BOOLEAN]

\* What was read of the runs may be late: a run is missing, was still under way, or
\* is what it is now.  A run that has ended changes no more.
MayBeLate(said, b) == \A r \in RunId : said[r] \in {"absent", "active", b.run[r]}

\* A run launched in this tab is not lost by a load.  It is tracked, or its snapshot
\* was given up, or it had ended when the list was read, and the list has it.
LoadIsTrue(l, b, gone) ==
    /\ MayBeLate(l.listed, b)
    /\ l.tracked # None =>
         \A r \in b.launched : \/ r \in l.tracked \/ r \in gone
                               \/ b.run[r] # "active" /\ l.listed[r] # "absent"
    /\ l.read # None =>
         /\ l.tracked # None /\ MayBeLate(l.read, b)
         /\ \A r \in l.tracked \ l.failed : l.read[r] # "absent"
         /\ \A r \in b.launched : l.read[r] # "absent" \/ r \in gone \/ r \in l.failed

\* The tab remembers the runs under way that it launched, unless one was given up.
Remembers(ids, b, gone) ==
    \A r \in b.launched : r \in ids \/ r \in gone \/ b.run[r] # "active"

\* A list without its launched runs says so, or a load that will is under way.
Admits(lib, b, gone) == lib.error \/ \A r \in b.launched : lib.shown[r] # "absent" \/ r \in gone
Loud(ls) == \E i \in 1..MaxLoads : ls[i] # None /\ ~ls[i].quiet
LibraryIsTrue(lib, b) ==
    /\ MayBeLate(lib.shown, b)
    /\ ~lib.polling => \A r \in RunId : lib.shown[r] # "active"

RunLibraryInv ==
    /\ backend \in BackendRecord /\ remembered \subseteq RunId /\ unread \subseteq RunId
    /\ loads \in [1..MaxLoads -> Load \cup {None}] /\ library \in LibraryRecord
    /\ dialog \in LibraryDialog
    /\ \A i \in 1..MaxLoads : loads[i] # None => LoadIsTrue(loads[i], backend, unread)
    /\ Remembers(remembered, backend, unread)
    /\ LibraryIsTrue(library, backend) /\ (Admits(library, backend, unread) \/ Loud(loads))
    /\ BusyIsReal

-----------------------------------------------------------------------------
(* The run history: its operators                                              *)

\* What the server does to its runs: it ends some that were under way.
MovesOn(b, c) ==
    c.launched = b.launched /\ \A r \in RunId : c.run[r] = b.run[r] \/ b.run[r] = "active"

\* A run that ends makes what was read of it late, and no more than that.
LEMMA LateStays ==
    ASSUME NEW b, NEW c, MovesOn(b, c), NEW said, MayBeLate(said, b)
    PROVE  MayBeLate(said, c)
BY DEF MovesOn, MayBeLate

LEMMA LoadStays ==
    ASSUME NEW b \in BackendRecord, NEW c, MovesOn(b, c), NEW gone, NEW more, gone \subseteq more,
           NEW l \in Load, LoadIsTrue(l, b, gone)
    PROVE  LoadIsTrue(l, c, more)
<1>1. \A r \in b.launched : r \in RunId
  BY DEF BackendRecord
<1>2. /\ MayBeLate(l.listed, c)
      /\ l.read # None => MayBeLate(l.read, c)
  BY LateStays DEF LoadIsTrue
<1>3. c.launched = b.launched /\ \A r \in b.launched : b.run[r] # "active" => c.run[r] # "active"
  BY <1>1 DEF MovesOn
<1> QED BY <1>2, <1>3 DEF LoadIsTrue

\* Whatever the server does, what the page holds is as true as before.
LEMMA ServerMoves ==
    ASSUME RunLibraryInv, NEW c \in BackendRecord, MovesOn(backend, c)
    PROVE  /\ \A i \in 1..MaxLoads : loads[i] # None => LoadIsTrue(loads[i], c, unread)
           /\ Remembers(remembered, c, unread) /\ LibraryIsTrue(library, c)
           /\ Admits(library, backend, unread) => Admits(library, c, unread)
<1>1. \A r \in backend.launched : r \in RunId
  BY DEF RunLibraryInv, BackendRecord
<1>2. c.launched = backend.launched
      /\ \A r \in backend.launched : backend.run[r] # "active" => c.run[r] # "active"
  BY <1>1 DEF MovesOn
<1>3. ASSUME NEW i \in 1..MaxLoads, loads[i] # None PROVE LoadIsTrue(loads[i], c, unread)
  <2>1. loads[i] \in Load /\ backend \in BackendRecord /\ LoadIsTrue(loads[i], backend, unread)
    BY <1>3 DEF RunLibraryInv
  <2> QED BY <2>1, LoadStays
<1>4. Remembers(remembered, c, unread)
  BY <1>2 DEF RunLibraryInv, Remembers
<1>5. LibraryIsTrue(library, c)
  BY LateStays DEF RunLibraryInv, LibraryIsTrue
<1>6. Admits(library, backend, unread) => Admits(library, c, unread)
  BY <1>2 DEF Admits
<1> QED BY <1>3, <1>4, <1>5, <1>6

\* A load that has just begun has read nothing.
LEMMA NewLoadFacts ==
    ASSUME RunLibraryAssumption, NEW quiet \in BOOLEAN, NEW waiter \in {"stop", "lifecycle", None}
    PROVE  /\ NewLoad(quiet, waiter) \in Load /\ NewLoad(quiet, waiter) # None
           /\ NewLoad(quiet, waiter).quiet = quiet /\ NewLoad(quiet, waiter).waiter = waiter
           /\ \A b, gone : LoadIsTrue(NewLoad(quiet, waiter), b, gone)
<1> DEFINE l == NewLoad(quiet, waiter)
<1>1. NoRuns \in [RunId -> Shown] /\ \A r \in RunId : NoRuns[r] = "absent"
  BY DEF NoRuns, Shown
<1>2. /\ l.quiet = quiet /\ l.waiter = waiter /\ l.listed = NoRuns
      /\ l.tracked = None /\ l.read = None
  BY DEF NewLoad
<1>3. l \in Load
  BY <1>1 DEF NewLoad, Load
<1>4. l # None
  BY <1>3 DEF RunLibraryAssumption
<1> HIDE DEF l
<1>5. \A b, gone : LoadIsTrue(l, b, gone)
  BY <1>1, <1>2 DEF LoadIsTrue, MayBeLate
<1> QED BY <1>2, <1>3, <1>4, <1>5 DEF l

\* The loads after one slot has changed.
LEMMA SlotChanges ==
    ASSUME RunLibraryInv, NEW i \in 1..MaxLoads, NEW x \in Load \cup {None},
           loads' = [loads EXCEPT ![i] = x], NEW b, NEW gone,
           \A j \in 1..MaxLoads : j # i /\ loads[j] # None => LoadIsTrue(loads[j], b, gone),
           x # None => LoadIsTrue(x, b, gone)
    PROVE  /\ loads' \in [1..MaxLoads -> Load \cup {None}] /\ loads'[i] = x
           /\ \A j \in 1..MaxLoads : j # i => loads'[j] = loads[j]
           /\ \A j \in 1..MaxLoads : loads'[j] # None => LoadIsTrue(loads'[j], b, gone)
<1>1. loads \in [1..MaxLoads -> Load \cup {None}]
  BY DEF RunLibraryInv
<1>2. loads' \in [1..MaxLoads -> Load \cup {None}] /\ loads'[i] = x
  BY <1>1
<1>3. \A j \in 1..MaxLoads : j # i => loads'[j] = loads[j]
  BY <1>1
<1>4. ASSUME NEW j \in 1..MaxLoads, loads'[j] # None PROVE LoadIsTrue(loads'[j], b, gone)
  <2>1. CASE j = i
    BY <2>1, <1>2, <1>4
  <2>2. CASE j # i
    BY <2>2, <1>3, <1>4
  <2> QED BY <2>1, <2>2
<1> QED BY <1>2, <1>3, <1>4

\* A list that is not quiet is heard, whatever becomes of the other loads.
LEMMA StaysLoud ==
    ASSUME NEW i \in 1..MaxLoads, loads[i] # None => loads[i].quiet,
           \A j \in 1..MaxLoads : j # i => loads'[j] = loads[j], Loud(loads)
    PROVE  Loud(loads')
<1>1. PICK j \in 1..MaxLoads : loads[j] # None /\ ~loads[j].quiet
  BY DEF Loud
<1>2. j # i
  BY <1>1
<1> QED BY <1>1, <1>2 DEF Loud

\* A flag that waits for a load waits for that one while it is under way.
LEMMA StaysBusy ==
    ASSUME NEW i \in 1..MaxLoads, BusyIsReal,
           \A j \in 1..MaxLoads : j # i => loads'[j] = loads[j],
           \A flag \in busy' : flag \in busy,
           \A flag \in busy' : loads[i] # None /\ loads[i].waiter = flag =>
                                 loads'[i] # None /\ loads'[i].waiter = flag,
           UNCHANGED dialog
    PROVE  BusyIsReal'
<1> SUFFICES ASSUME NEW flag \in busy'
             PROVE  \/ dialog'.asked /\ BusyFlag(dialog'.kind) = flag
                    \/ \E j \in 1..MaxLoads : loads'[j] # None /\ loads'[j].waiter = flag
  BY DEF BusyIsReal, Free
<1>1. CASE dialog.asked /\ BusyFlag(dialog.kind) = flag
  BY <1>1
<1>2. CASE \E j \in 1..MaxLoads : loads[j] # None /\ loads[j].waiter = flag
  <2>1. PICK j \in 1..MaxLoads : loads[j] # None /\ loads[j].waiter = flag
    BY <1>2
  <2>2. CASE j = i
    BY <2>1, <2>2
  <2>3. CASE j # i
    BY <2>1, <2>3
  <2> QED BY <2>2, <2>3
<1> QED BY <1>1, <1>2 DEF BusyIsReal, Free

-----------------------------------------------------------------------------
(* The run history: steps                                                      *)

\* A run ends.
LEMMA RunEndsStep ==
    ASSUME RunLibraryInv, NEW r \in RunId, RunEnds(r) PROVE RunLibraryInv'
<1>1. backend \in BackendRecord /\ backend.run[r] = "active"
  BY DEF RunLibraryInv, RunEnds
<1>2. backend' \in BackendRecord /\ MovesOn(backend, backend')
  BY <1>1 DEF RunEnds, BackendRecord, RunState, MovesOn
<1>3. UNCHANGED <<remembered, unread, loads, library, dialog, busy>>
  BY DEF RunEnds
<1>4. /\ \A i \in 1..MaxLoads : loads[i] # None => LoadIsTrue(loads[i], backend', unread)
      /\ Remembers(remembered, backend', unread) /\ LibraryIsTrue(library, backend')
      /\ Admits(library, backend, unread) => Admits(library, backend', unread)
  BY <1>2, ServerMoves
<1>5. BusyIsReal'
  BY <1>3 DEF RunLibraryInv, BusyIsReal, Free
<1> QED BY <1>2, <1>3, <1>4, <1>5 DEF RunLibraryInv

\* A load begins in a free slot, and the list only changes its flags.
LEMMA LoadBegins ==
    ASSUME RunLibraryAssumption, RunLibraryInv, NEW i \in 1..MaxLoads, Free(i),
           NEW quiet \in BOOLEAN, NEW waiter \in {"stop", "lifecycle", None},
           loads' = [loads EXCEPT ![i] = NewLoad(quiet, waiter)],
           backend' \in BackendRecord, MovesOn(backend, backend'),
           library' \in LibraryRecord, library'.shown = library.shown,
           library'.polling = library.polling, library'.error = library.error \/ ~quiet,
           UNCHANGED <<remembered, unread>>, dialog' \in LibraryDialog, BusyIsReal'
    PROVE  RunLibraryInv'
<1>1. /\ \A j \in 1..MaxLoads : loads[j] # None => LoadIsTrue(loads[j], backend', unread)
      /\ Remembers(remembered, backend', unread) /\ LibraryIsTrue(library, backend')
      /\ Admits(library, backend, unread) => Admits(library, backend', unread)
  BY ServerMoves
<1> DEFINE x == NewLoad(quiet, waiter)
<1>2. x \in Load /\ x # None /\ x.quiet = quiet /\ LoadIsTrue(x, backend', unread)
  BY NewLoadFacts
<1>3. loads' = [loads EXCEPT ![i] = x]
  OBVIOUS
<1> HIDE DEF x
<1>4. /\ loads' \in [1..MaxLoads -> Load \cup {None}] /\ loads'[i] = x
      /\ \A j \in 1..MaxLoads : j # i => loads'[j] = loads[j]
      /\ \A j \in 1..MaxLoads : loads'[j] # None => LoadIsTrue(loads'[j], backend', unread)
  BY <1>1, <1>2, <1>3, SlotChanges
<1>5. LibraryIsTrue(library', backend')
  BY <1>1 DEF LibraryIsTrue
<1>6. Admits(library', backend', unread) \/ Loud(loads')
  <2>1. CASE ~quiet
    BY <2>1, <1>2, <1>4 DEF Loud
  <2>2. CASE quiet
    <3>1. CASE Admits(library, backend, unread)
      BY <3>1, <2>2, <1>1 DEF Admits
    <3>2. CASE Loud(loads)
      BY <3>2, <1>4, StaysLoud DEF Free
    <3> QED BY <3>1, <3>2 DEF RunLibraryInv
  <2> QED BY <2>1, <2>2
<1> QED BY <1>1, <1>4, <1>5, <1>6 DEF RunLibraryInv

\* The flags of the list that a load touches when it begins.
LEMMA LoadingShown ==
    ASSUME RunLibraryInv, library' = [library EXCEPT !.loading = @ \/ ~library.loaded]
    PROVE  /\ library' \in LibraryRecord /\ library'.shown = library.shown
           /\ library'.polling = library.polling /\ library'.error = library.error
<1>1. library \in LibraryRecord
  BY DEF RunLibraryInv
<1>2. PICK b \in BOOLEAN : b = (library.loading \/ ~library.loaded)
  BY Zenon
<1>3. library' = [library EXCEPT !.loading = b]
  BY <1>1, <1>2, Zenon
<1> QED BY <1>1, <1>3 DEF LibraryRecord

\* A poll begins.
LEMMA PollStep ==
    ASSUME RunLibraryAssumption, RunLibraryInv, NEW i \in 1..MaxLoads, Poll(i)
    PROVE  RunLibraryInv'
<1>1. /\ Free(i) /\ loads' = [loads EXCEPT ![i] = NewLoad(TRUE, None)]
      /\ library' = [library EXCEPT !.loading = @ \/ ~library.loaded]
      /\ UNCHANGED <<backend, remembered, unread, dialog, busy>>
  BY DEF Poll, Takes
<1>2. /\ library' \in LibraryRecord /\ library'.shown = library.shown
      /\ library'.polling = library.polling /\ library'.error = library.error
  BY <1>1, LoadingShown
<1>3. backend' \in BackendRecord /\ MovesOn(backend, backend') /\ dialog' \in LibraryDialog
  BY <1>1 DEF RunLibraryInv, MovesOn
<1>4. \A j \in 1..MaxLoads : j # i => loads'[j] = loads[j]
  BY <1>1 DEF RunLibraryInv
<1>5. BusyIsReal'
  BY <1>1, <1>4, StaysBusy DEF Free, RunLibraryInv
<1> QED BY <1>1, <1>2, <1>3, <1>5, LoadBegins

\* The reader asks for the list again.
LEMMA ManualRefreshStep ==
    ASSUME RunLibraryAssumption, RunLibraryInv, NEW i \in 1..MaxLoads, ManualRefresh(i)
    PROVE  RunLibraryInv'
<1>1. /\ Free(i) /\ loads' = [loads EXCEPT ![i] = NewLoad(FALSE, None)]
      /\ library' = [library EXCEPT !.error = FALSE]
      /\ UNCHANGED <<backend, remembered, unread, dialog, busy>>
  BY DEF ManualRefresh, Takes
<1>2. /\ library' \in LibraryRecord /\ library'.shown = library.shown
      /\ library'.polling = library.polling
  BY <1>1 DEF RunLibraryInv, LibraryRecord
<1>3. backend' \in BackendRecord /\ MovesOn(backend, backend') /\ dialog' \in LibraryDialog
  BY <1>1 DEF RunLibraryInv, MovesOn
<1>4. \A j \in 1..MaxLoads : j # i => loads'[j] = loads[j]
  BY <1>1 DEF RunLibraryInv
<1>5. BusyIsReal'
  BY <1>1, <1>4, StaysBusy DEF Free, RunLibraryInv
<1> QED BY <1>1, <1>2, <1>3, <1>5, LoadBegins

\* The call is served, and the dialog hands its flag to the load that follows it.
LEMMA CallServedStep ==
    ASSUME RunLibraryAssumption, RunLibraryInv, NEW i \in 1..MaxLoads, CallServed(i)
    PROVE  RunLibraryInv'
<1> DEFINE waiter == BusyFlag(dialog.kind)
<1>1. /\ Free(i) /\ loads' = [loads EXCEPT ![i] = NewLoad(TRUE, waiter)]
      /\ library' = [library EXCEPT !.loading = @ \/ ~library.loaded]
      /\ dialog' = Closed /\ UNCHANGED <<remembered, unread, busy>>
  BY DEF CallServed, Takes
<1>2. /\ library' \in LibraryRecord /\ library'.shown = library.shown
      /\ library'.polling = library.polling /\ library'.error = library.error
  BY <1>1, LoadingShown
<1>3. waiter \in {"stop", "lifecycle", None} /\ dialog' \in LibraryDialog
  BY <1>1 DEF BusyFlag, Closed, LibraryDialog
<1>4. backend' \in BackendRecord /\ MovesOn(backend, backend')
  <2>1. backend \in BackendRecord /\ dialog \in LibraryDialog /\ dialog.asked
    BY DEF RunLibraryInv, CallServed
  <2>2. CASE dialog.kind = "stop"
    <3>1. dialog.on \in RunId
      BY <2>1, <2>2 DEF LibraryDialog
    <3>2. backend' = [backend EXCEPT !.run[dialog.on] = IF @ = "active" THEN "stopped" ELSE @]
      BY <2>2 DEF CallServed
    <3> QED BY <2>1, <3>1, <3>2 DEF BackendRecord, RunState, MovesOn
  <2>3. CASE dialog.kind = "archive"
    <3>1. dialog.on \in Experiment
      BY <2>1, <2>3 DEF LibraryDialog
    <3>2. backend' = [backend EXCEPT !.archived = @ \cup {dialog.on}]
      BY <2>3 DEF CallServed
    <3> QED BY <2>1, <3>1, <3>2 DEF BackendRecord, MovesOn
  <2>4. CASE dialog.kind \notin {"stop", "archive"}
    <3>1. backend' = [backend EXCEPT !.archived = @ \ {dialog.on}]
      BY <2>4 DEF CallServed
    <3> QED BY <2>1, <3>1 DEF BackendRecord, MovesOn
  <2> QED BY <2>2, <2>3, <2>4
<1>5. BusyIsReal'
  <2> DEFINE x == NewLoad(TRUE, waiter)
  <2>1. x \in Load \cup {None} /\ x # None /\ x.waiter = waiter
    BY <1>3, NewLoadFacts
  <2>2. loads' = [loads EXCEPT ![i] = x] /\ loads \in [1..MaxLoads -> Load \cup {None}]
    BY <1>1 DEF RunLibraryInv
  <2> HIDE DEF x
  <2>3. loads'[i] = x /\ \A j \in 1..MaxLoads : j # i => loads'[j] = loads[j]
    BY <2>1, <2>2
  <2> HIDE DEF waiter
  <2> SUFFICES ASSUME NEW flag \in busy'
               PROVE  \E j \in 1..MaxLoads : loads'[j] # None /\ loads'[j].waiter = flag
    BY DEF BusyIsReal, Free
  <2>4. CASE waiter = flag
    BY <2>1, <2>3, <2>4
  <2>5. CASE waiter # flag
    <3>1. PICK j \in 1..MaxLoads : loads[j] # None /\ loads[j].waiter = flag
      BY <1>1, <2>5 DEF RunLibraryInv, BusyIsReal, Free, waiter
    <3>2. j # i
      BY <3>1, <1>1 DEF Free
    <3> QED BY <3>1, <3>2, <2>3
  <2> QED BY <2>4, <2>5
<1> HIDE DEF waiter
<1> QED BY <1>1, <1>2, <1>3, <1>4, <1>5, LoadBegins

\* A load that is under way moves on, and leaves the page alone.
LEMMA LoadMoves ==
    ASSUME RunLibraryAssumption, RunLibraryInv, NEW i \in 1..MaxLoads, NEW x \in Load,
           loads[i] # None, loads' = [loads EXCEPT ![i] = x],
           x.quiet = loads[i].quiet, x.waiter = loads[i].waiter,
           LoadIsTrue(x, backend, unread),
           UNCHANGED <<backend, remembered, unread, library, dialog, busy>>
    PROVE  RunLibraryInv'
<1>1. x # None
  BY DEF RunLibraryAssumption
<1>2. \A j \in 1..MaxLoads : loads[j] # None => LoadIsTrue(loads[j], backend, unread)
  BY DEF RunLibraryInv
<1>3. /\ loads' \in [1..MaxLoads -> Load \cup {None}] /\ loads'[i] = x
      /\ \A j \in 1..MaxLoads : j # i => loads'[j] = loads[j]
      /\ \A j \in 1..MaxLoads : loads'[j] # None => LoadIsTrue(loads'[j], backend, unread)
  BY <1>1, <1>2, SlotChanges
<1>4. Loud(loads) => Loud(loads')
  <2> SUFFICES ASSUME Loud(loads) PROVE Loud(loads')
    OBVIOUS
  <2>1. PICK j \in 1..MaxLoads : loads[j] # None /\ ~loads[j].quiet
    BY DEF Loud
  <2>2. CASE j = i
    BY <2>1, <2>2, <1>1, <1>3 DEF Loud
  <2>3. CASE j # i
    BY <2>1, <2>3, <1>3 DEF Loud
  <2> QED BY <2>2, <2>3
<1>5. BusyIsReal'
  BY <1>1, <1>3, StaysBusy DEF RunLibraryInv
<1> QED BY <1>3, <1>4, <1>5 DEF RunLibraryInv

\* The list arrives, without some of the runs that are still under way.
LEMMA RunsArriveStep ==
    ASSUME RunLibraryAssumption, RunLibraryInv, NEW i \in 1..MaxLoads,
           NEW missing \in SUBSET {r \in RunId : backend.run[r] = "active"}, RunsArrive(i, missing)
    PROVE  RunLibraryInv'
<1> DEFINE listed == [r \in RunId |-> IF r \in missing THEN "absent" ELSE backend.run[r]]
           ids == Tracked(listed)
           x == [loads[i] EXCEPT !.listed = listed, !.archived = backend.archived, !.tracked = ids]
<1>1. /\ loads[i] \in Load /\ loads[i] # None /\ loads[i].tracked = None
      /\ LoadIsTrue(loads[i], backend, unread)
      /\ backend \in BackendRecord /\ remembered \subseteq RunId
  BY DEF RunsArrive, Free, RunLibraryInv
<1>2. /\ listed \in [RunId -> Shown]
      /\ \A r \in RunId : listed[r] = IF r \in missing THEN "absent" ELSE backend.run[r]
  BY <1>1 DEF BackendRecord, Shown, RunState
<1>3. /\ loads' = [loads EXCEPT ![i] = x]
      /\ UNCHANGED <<backend, remembered, unread, library, dialog, busy>>
  BY DEF RunsArrive
<1> HIDE DEF listed
<1>4. ids \in SUBSET RunId /\ remembered \subseteq ids
  BY <1>1 DEF RunLibraryAssumption, Tracked
<1> HIDE DEF ids
<1>5. loads[i].read = None
  BY <1>1 DEF LoadIsTrue
<1>6. /\ x \in Load /\ x.quiet = loads[i].quiet /\ x.waiter = loads[i].waiter
      /\ x.listed = listed /\ x.tracked = ids /\ x.read = None
  BY <1>1, <1>2, <1>4, <1>5 DEF Load, BackendRecord
<1> HIDE DEF x
<1>7. MayBeLate(listed, backend)
  BY <1>2 DEF MayBeLate
<1>8. ASSUME NEW r \in backend.launched, r \notin ids, r \notin unread
      PROVE  backend.run[r] # "active" /\ listed[r] # "absent"
  <2>1. r \in RunId /\ backend.run[r] \in RunState
    BY <1>1 DEF BackendRecord
  <2>2. backend.run[r] # "active"
    BY <1>4, <1>8 DEF RunLibraryInv, Remembers
  <2> QED BY <2>1, <2>2, <1>2 DEF RunState
<1>9. LoadIsTrue(x, backend, unread)
  BY <1>6, <1>7, <1>8 DEF LoadIsTrue
<1> QED BY <1>1, <1>3, <1>6, <1>9, LoadMoves

\* The snapshots are read, except for those that fail.
LEMMA SnapshotsReadStep ==
    ASSUME RunLibraryAssumption, RunLibraryInv, NEW i \in 1..MaxLoads,
           NEW failed \in SUBSET RunId, SnapshotsRead(i, failed)
    PROVE  RunLibraryInv'
<1> DEFINE read == [r \in RunId |-> IF r \in loads[i].tracked \ failed THEN backend.run[r]
                                    ELSE loads[i].listed[r]]
           x == [loads[i] EXCEPT !.failed = failed, !.read = read]
<1>1. /\ loads[i] \in Load /\ loads[i] # None /\ loads[i].tracked # None
      /\ LoadIsTrue(loads[i], backend, unread) /\ backend \in BackendRecord
  BY DEF SnapshotsRead, Free, RunLibraryInv
<1>2. loads[i].tracked \in SUBSET RunId /\ loads[i].listed \in [RunId -> Shown]
  BY <1>1 DEF Load
<1>3. /\ read \in [RunId -> Shown]
      /\ \A r \in RunId : read[r] = IF r \in loads[i].tracked \ failed THEN backend.run[r]
                                    ELSE loads[i].listed[r]
  BY <1>1, <1>2 DEF BackendRecord, Shown
<1>4. /\ loads' = [loads EXCEPT ![i] = x]
      /\ UNCHANGED <<backend, remembered, unread, library, dialog, busy>>
  BY DEF SnapshotsRead
<1> HIDE DEF read
<1>5. /\ x \in Load /\ x.quiet = loads[i].quiet /\ x.waiter = loads[i].waiter
      /\ x.listed = loads[i].listed /\ x.tracked = loads[i].tracked
      /\ x.failed = failed /\ x.read = read
  BY <1>1, <1>3 DEF Load
<1> HIDE DEF x
<1>6. \A r \in RunId : backend.run[r] # "absent"
  BY <1>1 DEF BackendRecord, RunState
<1>7. MayBeLate(read, backend)
  BY <1>1, <1>3 DEF MayBeLate, LoadIsTrue
<1>8. \A r \in loads[i].tracked \ failed : read[r] # "absent"
  BY <1>2, <1>3, <1>6
<1>9. ASSUME NEW r \in backend.launched, r \notin unread, r \notin failed PROVE read[r] # "absent"
  <2>1. r \in RunId
    BY <1>1 DEF BackendRecord
  <2>2. r \in loads[i].tracked \/ loads[i].listed[r] # "absent"
    BY <1>1, <1>9 DEF LoadIsTrue
  <2> QED BY <2>1, <2>2, <1>3, <1>6, <1>9
<1>10. LoadIsTrue(x, backend, unread)
  BY <1>1, <1>5, <1>7, <1>8, <1>9 DEF LoadIsTrue
<1> QED BY <1>1, <1>4, <1>5, <1>10, LoadMoves

\* What a load leaves when it settles: the others, and the flags they have to lower.
LEMMA Settled ==
    ASSUME RunLibraryInv, NEW i \in 1..MaxLoads, loads' = [loads EXCEPT ![i] = None],
           busy' = StillBusy(i), UNCHANGED dialog, NEW gone, unread \subseteq gone
    PROVE  /\ loads' \in [1..MaxLoads -> Load \cup {None}]
           /\ \A j \in 1..MaxLoads : j # i => loads'[j] = loads[j]
           /\ \A j \in 1..MaxLoads : loads'[j] # None => LoadIsTrue(loads'[j], backend, gone)
           /\ BusyIsReal'
<1>1. backend \in BackendRecord /\ MovesOn(backend, backend)
  BY DEF RunLibraryInv, MovesOn
<1>2. ASSUME NEW j \in 1..MaxLoads, loads[j] # None PROVE LoadIsTrue(loads[j], backend, gone)
  <2>1. loads[j] \in Load /\ LoadIsTrue(loads[j], backend, unread)
    BY <1>2 DEF RunLibraryInv
  <2> QED BY <2>1, <1>1, LoadStays
<1>3. /\ loads' \in [1..MaxLoads -> Load \cup {None}]
      /\ \A j \in 1..MaxLoads : j # i => loads'[j] = loads[j]
      /\ \A j \in 1..MaxLoads : loads'[j] # None => LoadIsTrue(loads'[j], backend, gone)
  BY <1>2, SlotChanges
<1>4. BusyIsReal'
  BY <1>3, StaysBusy DEF RunLibraryInv, StillBusy
<1> QED BY <1>3, <1>4

\* The list is shown, and the runs read as being under way are remembered.
LEMMA SnapshotsArriveStep ==
    ASSUME RunLibraryAssumption, RunLibraryInv, NEW i \in 1..MaxLoads, SnapshotsArrive(i)
    PROVE  RunLibraryInv'
<1> DEFINE l == loads[i]
           seen == {r \in l.tracked \ l.failed : l.read[r] = "active"}
<1>1. /\ l \in Load /\ l # None /\ l.read # None /\ LoadIsTrue(l, backend, unread)
      /\ backend \in BackendRecord /\ library \in LibraryRecord /\ unread \subseteq RunId
  BY DEF SnapshotsArrive, Free, RunLibraryInv
<1>2. l.tracked \in SUBSET RunId /\ l.failed \in SUBSET RunId /\ l.read \in [RunId -> Shown]
  BY <1>1 DEF Load, LoadIsTrue
<1>3. /\ remembered' = seen /\ unread' = unread \cup l.failed
      /\ loads' = [loads EXCEPT ![i] = None] /\ busy' = StillBusy(i)
      /\ library' = [[library EXCEPT !.shown = l.read, !.archived = l.archived, !.loaded = TRUE,
                                     !.polling = Polls(l.read, seen)]
                       EXCEPT !.loading = FALSE]
      /\ UNCHANGED <<backend, dialog>>
  BY DEF SnapshotsArrive, Settle
<1>4. remembered' \subseteq RunId /\ unread' \subseteq RunId /\ unread \subseteq unread'
  BY <1>1, <1>2, <1>3
<1>5. /\ loads' \in [1..MaxLoads -> Load \cup {None}] /\ BusyIsReal'
      /\ \A j \in 1..MaxLoads : loads'[j] # None => LoadIsTrue(loads'[j], backend, unread')
  BY <1>3, <1>4, Settled
<1>6. PICK polls \in BOOLEAN : polls = Polls(l.read, seen)
  BY DEF Polls
<1>7. library' \in LibraryRecord /\ library'.shown = l.read /\ library'.polling = polls
  <2>1. library' = [[library EXCEPT !.shown = l.read, !.archived = l.archived, !.loaded = TRUE,
                                    !.polling = polls] EXCEPT !.loading = FALSE]
    BY <1>3, <1>6, Zenon
  <2>2. l.archived \in SUBSET Experiment
    BY <1>1 DEF Load
  <2> QED BY <1>1, <1>2, <2>1, <2>2 DEF LibraryRecord
<1>8. LibraryIsTrue(library', backend)
  BY <1>1, <1>6, <1>7 DEF LibraryIsTrue, LoadIsTrue, Polls
<1>9. Admits(library', backend, unread')
  BY <1>1, <1>3, <1>7 DEF Admits, LoadIsTrue
<1>10. ASSUME NEW r \in backend.launched, backend.run[r] = "active", r \notin unread'
       PROVE  r \in seen
  <2>1. r \in RunId /\ r \notin unread /\ r \notin l.failed
    BY <1>1, <1>3, <1>10 DEF BackendRecord
  <2>2. r \in l.tracked
    BY <1>1, <1>10, <2>1 DEF LoadIsTrue
  <2>3. l.read[r] # "absent" /\ l.read[r] \in {"absent", "active", "active"}
    BY <1>1, <1>10, <2>1, <2>2 DEF LoadIsTrue, MayBeLate
  <2> QED BY <2>1, <2>2, <2>3
<1>11. Remembers(remembered', backend, unread')
  BY <1>3, <1>10 DEF Remembers
<1> QED BY <1>3, <1>4, <1>5, <1>7, <1>8, <1>9, <1>11 DEF RunLibraryInv

\* A load fails: a quiet one leaves the list, any other one empties it and says so.
LEMMA LoadFailsStep ==
    ASSUME RunLibraryAssumption, RunLibraryInv, NEW i \in 1..MaxLoads, LoadFails(i)
    PROVE  RunLibraryInv'
<1>1. /\ loads' = [loads EXCEPT ![i] = None] /\ busy' = StillBusy(i)
      /\ UNCHANGED <<backend, remembered, unread, dialog>>
      /\ library \in LibraryRecord /\ loads[i] # None
  BY DEF LoadFails, Settle, Free, RunLibraryInv
<1>2. /\ loads' \in [1..MaxLoads -> Load \cup {None}] /\ BusyIsReal'
      /\ \A j \in 1..MaxLoads : j # i => loads'[j] = loads[j]
      /\ \A j \in 1..MaxLoads : loads'[j] # None => LoadIsTrue(loads'[j], backend, unread)
  BY <1>1, Settled
<1>3. CASE loads[i].quiet
  <2>1. library' = [library EXCEPT !.loading = FALSE]
    BY <1>3 DEF LoadFails, Settle
  <2>2. /\ library' \in LibraryRecord /\ library'.shown = library.shown
        /\ library'.polling = library.polling /\ library'.error = library.error
    BY <1>1, <2>1 DEF LibraryRecord
  <2>3. Loud(loads) => Loud(loads')
    BY <1>2, <1>3, StaysLoud
  <2>4. LibraryIsTrue(library', backend) /\ (Admits(library', backend, unread) \/ Loud(loads'))
    BY <2>2, <2>3 DEF RunLibraryInv, LibraryIsTrue, Admits
  <2> QED BY <1>1, <1>2, <2>2, <2>4 DEF RunLibraryInv
<1>4. CASE ~loads[i].quiet
  <2>1. PICK polls \in BOOLEAN : polls = Polls(NoRuns, remembered)
    BY DEF Polls
  <2>2. library' = [[library EXCEPT !.shown = NoRuns, !.error = TRUE, !.polling = polls]
                      EXCEPT !.loading = FALSE]
    <3>1. library' = [[library EXCEPT !.shown = NoRuns, !.error = TRUE,
                                      !.polling = Polls(NoRuns, remembered)]
                        EXCEPT !.loading = FALSE]
      BY <1>4 DEF LoadFails, Settle
    <3> QED BY <2>1, <3>1, Zenon
  <2>3. NoRuns \in [RunId -> Shown] /\ \A r \in RunId : NoRuns[r] = "absent"
    BY DEF NoRuns, Shown
  <2>4. library' \in LibraryRecord /\ library'.shown = NoRuns /\ library'.error
    BY <1>1, <2>2, <2>3 DEF LibraryRecord
  <2>5. LibraryIsTrue(library', backend) /\ Admits(library', backend, unread)
    BY <2>3, <2>4 DEF LibraryIsTrue, MayBeLate, Admits
  <2> QED BY <1>1, <1>2, <2>4, <2>5 DEF RunLibraryInv
<1> QED BY <1>3, <1>4

\* A dialog opens where none was, and waits for nothing yet.
LEMMA DialogOpens ==
    ASSUME RunLibraryInv, dialog = Closed, dialog' \in LibraryDialog,
           UNCHANGED <<backend, remembered, unread, loads, library, busy>>
    PROVE  RunLibraryInv'
<1>1. BusyIsReal'
  BY DEF RunLibraryInv, BusyIsReal, Free, Closed
<1> QED BY <1>1 DEF RunLibraryInv

LEMMA RequestStopStep ==
    ASSUME RunLibraryInv, NEW r \in RunId, RequestStop(r) PROVE RunLibraryInv'
<1>1. dialog' \in LibraryDialog
  BY DEF RequestStop, LibraryDialog
<1> QED BY <1>1, DialogOpens DEF RequestStop, OnlyDialog

LEMMA RequestLifecycleStep ==
    ASSUME RunLibraryInv, NEW e \in Experiment, RequestLifecycle(e) PROVE RunLibraryInv'
<1>1. dialog' \in LibraryDialog
  BY DEF RequestLifecycle, LibraryDialog
<1> QED BY <1>1, DialogOpens DEF RequestLifecycle, OnlyDialog

\* Only an idle dialog is closed, so no flag was waiting for it.
LEMMA CancelDialogStep ==
    ASSUME RunLibraryInv, CancelDialog PROVE RunLibraryInv'
<1>1. /\ UNCHANGED <<backend, remembered, unread, loads, library, busy>>
      /\ BusyFlag(dialog.kind) \notin busy /\ dialog' = Closed
  BY DEF CancelDialog, OnlyDialog, Idle
<1>2. dialog' \in LibraryDialog
  BY <1>1 DEF Closed, LibraryDialog
<1>3. BusyIsReal'
  BY <1>1 DEF RunLibraryInv, BusyIsReal, Free
<1> QED BY <1>1, <1>2, <1>3 DEF RunLibraryInv

\* The reader confirms, and the dialog raises its flag.
LEMMA ConfirmStep ==
    ASSUME RunLibraryInv, Confirm PROVE RunLibraryInv'
<1>1. /\ UNCHANGED <<backend, remembered, unread, loads, library>>
      /\ dialog # Closed /\ dialog' = [dialog EXCEPT !.asked = TRUE]
      /\ busy' = busy \cup {BusyFlag(dialog.kind)} /\ dialog \in LibraryDialog
  BY DEF Confirm, OnlyDialog, Idle, RunLibraryInv
<1>2. dialog' \in LibraryDialog /\ dialog'.asked /\ dialog'.kind = dialog.kind
  BY <1>1 DEF LibraryDialog, Closed
<1>3. BusyIsReal'
  BY <1>1, <1>2 DEF RunLibraryInv, BusyIsReal, Free
<1> QED BY <1>1, <1>2, <1>3 DEF RunLibraryInv

\* The call fails, and the dialog lowers its flag.
LEMMA CallFailsStep ==
    ASSUME RunLibraryInv, CallFails PROVE RunLibraryInv'
<1>1. /\ UNCHANGED <<backend, remembered, unread, loads, library>>
      /\ dialog' = [dialog EXCEPT !.asked = FALSE] /\ dialog.asked
      /\ busy' = busy \ {BusyFlag(dialog.kind)} /\ dialog \in LibraryDialog
  BY DEF CallFails, OnlyDialog, RunLibraryInv
<1>2. dialog' \in LibraryDialog
  BY <1>1 DEF LibraryDialog
<1>3. BusyIsReal'
  BY <1>1 DEF RunLibraryInv, BusyIsReal, Free
<1> QED BY <1>1, <1>2, <1>3 DEF RunLibraryInv

\* The variables that the selection and the URL have no part in.
followed == <<backend, remembered, unread, loads, library, dialog, busy>>

LEMMA OnlyTheUrlMoves ==
    ASSUME RunLibraryInv, UNCHANGED followed PROVE RunLibraryInv'
<1>1. BusyIsReal'
  BY DEF followed, RunLibraryInv, BusyIsReal, Free
<1> QED BY <1>1 DEF followed, RunLibraryInv

\* A run that is picked, dropped or opened moves the URL.
LEMMA TheReaderNavigates ==
    ASSUME NEW r \in RunId,
           ToggleRun(r) \/ TrayRemove(r) \/ MakeBaseline(r) \/ OpenRunReport(r)
    PROVE  UNCHANGED followed
BY DEF ToggleRun, TrayRemove, MakeBaseline, OpenRunReport, Navigate, followed

LEMMA RunLibraryInitInv ==
    ASSUME RunLibraryAssumption, RunLibraryInit PROVE RunLibraryInv
<1>1. NoRuns \in [RunId -> Shown] /\ \A r \in RunId : NoRuns[r] = "absent"
  BY DEF NoRuns, Shown
<1>2. /\ backend \in BackendRecord /\ remembered = backend.launched /\ remembered \subseteq RunId
      /\ unread = {} /\ busy = {}
  BY DEF RunLibraryInit, BackendRecord, RunState
<1>3. dialog \in LibraryDialog
  BY DEF RunLibraryInit, Closed, LibraryDialog
<1> DEFINE x == NewLoad(FALSE, None)
<1>4. x \in Load /\ x # None /\ x.quiet = FALSE /\ LoadIsTrue(x, backend, unread)
  BY NewLoadFacts
<1>5. loads = [i \in 1..MaxLoads |-> IF i = 1 THEN x ELSE None] /\ 1 \in 1..MaxLoads
  BY DEF RunLibraryInit, RunLibraryAssumption
<1> HIDE DEF x
<1>6. /\ loads \in [1..MaxLoads -> Load \cup {None}] /\ Loud(loads)
      /\ \A i \in 1..MaxLoads : loads[i] # None => LoadIsTrue(loads[i], backend, unread)
  BY <1>4, <1>5 DEF Loud
<1>7. PICK polls \in BOOLEAN : polls = Polls(NoRuns, remembered)
  BY DEF Polls
<1>8. library = [shown |-> NoRuns, archived |-> {}, loading |-> TRUE, error |-> FALSE,
                 loaded |-> FALSE, polling |-> polls]
  BY <1>7, Zenon DEF RunLibraryInit
<1>9. library \in LibraryRecord /\ LibraryIsTrue(library, backend)
  BY <1>1, <1>8 DEF LibraryRecord, LibraryIsTrue, MayBeLate
<1>10. Remembers(remembered, backend, unread) /\ BusyIsReal
  BY <1>2 DEF Remembers, BusyIsReal
<1> QED BY <1>2, <1>3, <1>6, <1>9, <1>10 DEF RunLibraryInv

LEMMA RunLibraryStepInv ==
    ASSUME RunLibraryAssumption, RunLibraryInv, [RunLibraryNext]_runLibraryVars
    PROVE  RunLibraryInv'
<1>1. CASE UNCHANGED runLibraryVars
  BY <1>1, OnlyTheUrlMoves DEF runLibraryVars, followed
<1>2. CASE RunLibraryNext
  <2>1. ASSUME NEW r \in RunId, RunEnds(r) PROVE RunLibraryInv'
    BY <2>1, RunEndsStep
  <2>2. ASSUME NEW i \in 1..MaxLoads,
               \/ Poll(i) \/ ManualRefresh(i) \/ LoadFails(i) \/ CallServed(i)
               \/ RunsArrive(i, {}) \/ SnapshotsRead(i, {}) \/ SnapshotsArrive(i)
               \/ \E r \in RunId : backend.run[r] = "active" /\ RunsArrive(i, {r})
               \/ \E r \in RunId : SnapshotsRead(i, {r})
        PROVE  RunLibraryInv'
    <3>1. ASSUME NEW r \in RunId, backend.run[r] = "active", RunsArrive(i, {r})
          PROVE  RunLibraryInv'
      <4>1. {r} \in SUBSET {q \in RunId : backend.run[q] = "active"}
        BY <3>1
      <4> QED BY <3>1, <4>1, RunsArriveStep
    <3>2. ASSUME RunsArrive(i, {}) PROVE RunLibraryInv'
      <4>1. {} \in SUBSET {q \in RunId : backend.run[q] = "active"}
        OBVIOUS
      <4> QED BY <3>2, <4>1, RunsArriveStep
    <3>3. ASSUME NEW r \in RunId, SnapshotsRead(i, {r}) PROVE RunLibraryInv'
      BY <3>3, SnapshotsReadStep
    <3>4. ASSUME SnapshotsRead(i, {}) PROVE RunLibraryInv'
      BY <3>4, SnapshotsReadStep
    <3> QED BY <2>2, <3>1, <3>2, <3>3, <3>4, PollStep, ManualRefreshStep, LoadFailsStep,
               CallServedStep, SnapshotsArriveStep, Zenon
  <2>3. ASSUME NEW r \in RunId,
               \/ ToggleRun(r) \/ TrayRemove(r) \/ MakeBaseline(r) \/ OpenRunReport(r)
               \/ RequestStop(r)
        PROVE  RunLibraryInv'
    BY <2>3, TheReaderNavigates, OnlyTheUrlMoves, RequestStopStep, Zenon
  <2>4. ASSUME Clear \/ UpdateFilters \/ SelectLifecycleView \/ CloseRunReport \/ UrlArrives
        PROVE  RunLibraryInv'
    <3>1. UNCHANGED followed
      BY <2>4 DEF Clear, UpdateFilters, SelectLifecycleView, CloseRunReport, UrlArrives,
                  Navigate, followed
    <3> QED BY <3>1, OnlyTheUrlMoves
  <2>5. ASSUME NEW e \in Experiment, RequestLifecycle(e) PROVE RunLibraryInv'
    BY <2>5, RequestLifecycleStep
  <2>6. CASE CancelDialog \/ Confirm \/ CallFails
    BY <2>6, CancelDialogStep, ConfirmStep, CallFailsStep
  <2> QED BY <1>2, <2>1, <2>2, <2>3, <2>4, <2>5, <2>6, Zenon DEF RunLibraryNext
<1> QED BY <1>1, <1>2

-----------------------------------------------------------------------------
(* The run history: the results                                                *)

THEOREM RunLibraryInvariance ==
    ASSUME RunLibraryAssumption PROVE RunLibrarySpec => []RunLibraryInv
BY RunLibraryInitInv, RunLibraryStepInv, PTL DEF RunLibrarySpec

\* A list at rest shows what became of every run, and every run launched in the tab.
LEMMA RestIsTrue ==
    ASSUME RunLibraryInv PROVE LaunchesAreFollowed
<1> SUFFICES ASSUME AtRest, NEW r \in RunId
             PROVE  \/ library.shown[r] = backend.run[r] /\ backend.run[r] # "active"
                    \/ library.shown[r] = "absent" /\ (r \in unread \/ r \notin backend.launched)
  BY DEF LaunchesAreFollowed
<1>1. Admits(library, backend, unread) /\ ~library.error
  BY DEF RunLibraryInv, AtRest, Loud, Free
<1>2. library.shown[r] \in {"absent", backend.run[r]} /\ library.shown[r] # "active"
  BY DEF RunLibraryInv, AtRest, LibraryIsTrue, MayBeLate
<1> QED BY <1>1, <1>2 DEF Admits

\* Once the page has stopped polling and nothing is under way, what it shows of a run
\* is what became of it, and no run launched in this tab is missing unless its own
\* snapshot could not be read: for any number of runs, of loads that overtake each
\* other, of lists with gaps, failures and stops.
THEOREM LaunchesStayFollowed ==
    ASSUME RunLibraryAssumption PROVE RunLibrarySpec => []LaunchesAreFollowed
BY RunLibraryInvariance, RestIsTrue, PTL

\* A stop or lifecycle dialog is busy only while its call, or the load that it
\* awaits, is under way: neither an answer nor a failure leaves a flag behind.
THEOREM BusyStaysReal ==
    ASSUME RunLibraryAssumption PROVE RunLibrarySpec => []BusyIsReal
<1>1. RunLibraryInv => BusyIsReal
  BY DEF RunLibraryInv
<1> QED BY <1>1, RunLibraryInvariance, PTL

-----------------------------------------------------------------------------
(* The drawer of a case: the inductive invariant                               *)

\* What the drawer keeps of a case; what is not named here nothing depends on.
Fields ==
    {"panel", "config", "listed", "listing", "mode", "selected", "newName", "source",
     "createVersion", "promote", "created", "promoted", "prompts", "supply", "ref", "text",
     "replay", "replayed", "result", "reading", "from", "history", "agreement", "queued",
     "review", "sent", "trace", "pages", "reads"}
Named == Dataset \cup {Unset}
Typed(c) ==
    /\ c.panel \in {"case", "promote", "replay"} /\ c.config \in {"loading", "ready", "failed"}
    /\ c.selected \in Named /\ c.newName \in Named /\ c.createVersion \in BOOLEAN
    /\ c.promote \in Call \cup {NoCall} /\ c.created \in Named /\ c.promoted \in CallOutcome
    /\ c.ref \in Prompt \cup {Unset} /\ c.text \in Prompt \cup Text \cup {Unset}
    /\ c.replay \in Call \cup {NoCall} /\ c.replayed \in CallOutcome
    /\ c.history \in Seq(Nat) /\ c.sent \in CaseId \cup {Unset}
    /\ c.pages \in Seq(Nat) /\ c.reads \in Seq(Nat)
Whole(c) == c = [f \in Fields |-> c[f]]
Content(c) == Whole(c) /\ Typed(c)

\* A copy that a call agrees to was agreed to for its case and its dataset.
Consented(call, ag) == call.consent /\ call.target # Unset => <<call.case, call.target>> \in ag

\* Of a promotion: the call and what is shown of it are of the case on screen, the
\* consent in the form is for what is selected, and a dataset left empty is named.
PromoteRight(c, s, ag) ==
    /\ c.promote # NoCall =>
         /\ c.promote.kind \in {"create", "promote"} /\ c.promote.case = s
         /\ Consented(c.promote, ag)
    /\ c.promoted.case \in {s, Unset}
    /\ c.createVersion => c.mode = "existing" /\ <<s, c.selected>> \in ag
    /\ c.promote = NoCall /\ c.promoted.case # Unset /\ ~c.promoted.ok /\ c.created # Unset
       => c.promoted.made = c.created

\* Of a replay: the call, what is shown of it and what is listed were recorded for the
\* case on screen, an answered one is listed, and an edited prompt has no version.
ReplayRight(c, s, rs) ==
    /\ c.replay # NoCall =>
         /\ c.replay.kind = "replay" /\ c.replay.case = s /\ ~c.replay.consent
         /\ c.replay.recorded # 0 =>
              c.replay.recorded \in 1..Len(rs) /\ rs[c.replay.recorded] = s
    /\ c.replayed.case \in {s, Unset}
    /\ \A i \in DOMAIN c.history : c.history[i] \in 1..Len(rs) /\ rs[c.history[i]] = s
    /\ c.result \in 0..Len(rs)
    /\ c.replayed.ok => c.result # 0 /\ \E i \in DOMAIN c.history : c.history[i] = c.result
    /\ c.ref # Unset => c.text = c.ref

\* Of the review: what is being sent is the case on screen, and what is shown as under
\* review is.
ReviewRight(c, s, fs) ==
    /\ c.sent \in {s, Unset} /\ (c.review = "sending" => c.sent = s)
    /\ c.queued = "yes" \/ c.review = "queued" => s \in fs

\* One page is read at a time, the one after those that are there.
PagesRight(c) ==
    /\ \A i \in DOMAIN c.pages : c.pages[i] = i
    /\ c.reads = <<>> \/ c.reads = <<Len(c.pages) + 1>>

\* The calls that may still write, and that each was asked for.
Promoting(c) == IF c.promote = NoCall THEN 0 ELSE 1
Recording(c) == IF c.replay # NoCall /\ c.replay.recorded = 0 THEN 1 ELSE 0
ToWrite(c, o) == Cardinality(o) + Promoting(c) + Recording(c)
InBudget(c, o, vs, rs, n) ==
    /\ \A d \in Dataset : vs[d] + ToWrite(c, o) <= n
    /\ Len(rs) + ToWrite(c, o) <= n

StoreRight ==
    /\ standing \in [Dataset -> DatasetStatus] /\ records \in [Dataset -> SUBSET CaseId]
    /\ versions \in [Dataset -> Nat] /\ replays \in Seq(CaseId) /\ findings \subseteq CaseId

CaseInv ==
    /\ shown \in CaseId \cup {Unset} /\ Content(content) /\ StoreRight
    /\ orphans \subseteq Call /\ IsFiniteSet(orphans)
    /\ \A call \in orphans : Consented(call, consents)
    /\ consents \subseteq CaseId \X Dataset /\ moves \in 0..MaxMoves
    /\ PromoteRight(content, shown, consents) /\ ReplayRight(content, shown, replays)
    /\ ReviewRight(content, shown, findings) /\ PagesRight(content)
    /\ InBudget(content, orphans, versions, replays, moves)


-----------------------------------------------------------------------------
(* The drawer of a case: its operators                                         *)

\* Some replays, each once, newest first.
Lists(s, ids) == s \in [1..Cardinality(ids) -> ids] /\ ToSet(s) = ids /\ Descending(s)

\* A newer one goes before those that are listed.
LEMMA NewerGoesFirst ==
    ASSUME NEW m \in Nat, m # 0, NEW ids \in SUBSET (1..m), m \in ids,
           NEW s, Lists(s, ids \ {m})
    PROVE  \E t : Lists(t, ids)
<1> DEFINE rest == ids \ {m}
           t == [i \in 1..Cardinality(ids) |-> IF i = 1 THEN m ELSE s[i - 1]]
<1>1. IsFiniteSet(ids) /\ Cardinality(ids) \in Nat
  <2>1. 1 \in Int /\ m \in Int
    OBVIOUS
  <2>2. IsFiniteSet(1..m)
    BY <2>1, FS_Interval
  <2> QED BY <2>2, FS_Subset, FS_CardinalityType
<1>2. Cardinality(rest) = Cardinality(ids) - 1 /\ Cardinality(rest) \in Nat
  BY <1>1, FS_RemoveElement, FS_CardinalityType
<1>3. /\ \A i \in 1..Cardinality(rest) : s[i] \in rest
      /\ \A r \in rest : \E i \in 1..Cardinality(rest) : s[i] = r
      /\ \A i, j \in 1..Cardinality(rest) : i < j => s[i] > s[j]
  <2>1. s \in [1..Cardinality(rest) -> rest] /\ ToSet(s) = rest /\ Descending(s)
    BY DEF Lists
  <2>2. DOMAIN s = 1..Cardinality(rest)
    BY <2>1
  <2> QED BY <2>1, <2>2 DEF ToSet, Descending
<1>4. /\ DOMAIN t = 1..Cardinality(ids) /\ t[1] = m /\ 1 \in DOMAIN t
      /\ \A i \in 1..Cardinality(ids) : i # 1 => i - 1 \in 1..Cardinality(rest) /\ t[i] = s[i - 1]
      /\ \A i \in 1..Cardinality(rest) : i + 1 \in 1..Cardinality(ids) /\ t[i + 1] = s[i]
  <2> HIDE DEF rest
  <2>1. \A i \in 1..Cardinality(ids) : i # 1 => i - 1 \in 1..Cardinality(rest)
    BY <1>1, <1>2
  <2>2. \A i \in 1..Cardinality(rest) :
           i + 1 \in 1..Cardinality(ids) /\ i + 1 # 1 /\ (i + 1) - 1 = i
    BY <1>1, <1>2
  <2>3. 1 \in 1..Cardinality(ids)
    BY <1>1, <1>2
  <2> QED BY <2>1, <2>2, <2>3
<1> HIDE DEF t, rest
<1>5. ASSUME NEW i \in 1..Cardinality(ids) PROVE t[i] \in ids
  <2>1. CASE i = 1
    BY <2>1, <1>4
  <2>2. CASE i # 1
    <3>1. i - 1 \in 1..Cardinality(rest) /\ t[i] = s[i - 1]
      BY <2>2, <1>4
    <3>2. s[i - 1] \in rest
      BY <3>1, <1>3
    <3> QED BY <3>1, <3>2 DEF rest
  <2> QED BY <2>1, <2>2
<1>6. \A r \in ids : \E i \in 1..Cardinality(ids) : t[i] = r
  <2> SUFFICES ASSUME NEW r \in ids PROVE \E i \in 1..Cardinality(ids) : t[i] = r
    OBVIOUS
  <2>1. CASE r = m
    BY <2>1, <1>4
  <2>2. CASE r # m
    <3>1. PICK i \in 1..Cardinality(rest) : s[i] = r
      BY <2>2, <1>3 DEF rest
    <3> QED BY <3>1, <1>4
  <2> QED BY <2>1, <2>2
<1>7. \A i, j \in 1..Cardinality(ids) : i < j => t[i] > t[j]
  <2> SUFFICES ASSUME NEW i \in 1..Cardinality(ids), NEW j \in 1..Cardinality(ids), i < j
               PROVE  t[i] > t[j]
    OBVIOUS
  <2>1. j # 1 /\ j - 1 \in 1..Cardinality(rest) /\ t[j] = s[j - 1] /\ s[j - 1] \in rest
    <3>1. j # 1
      BY <1>1
    <3> QED BY <3>1, <1>3, <1>4
  <2>2. CASE i = 1
    <3>1. \A r \in rest : r \in Nat /\ r < m
      BY DEF rest
    <3>2. t[j] < m /\ t[i] = m /\ t[j] \in Nat
      BY <2>1, <2>2, <3>1, <1>4
    <3> QED BY <3>2
  <2>3. CASE i # 1
    <3>1. i - 1 < j - 1
      BY <1>1
    <3>2. i - 1 \in 1..Cardinality(rest) /\ t[i] = s[i - 1]
      BY <2>3, <1>4
    <3> QED BY <3>1, <3>2, <2>1, <1>3
  <2> QED BY <2>2, <2>3
<1>8. t \in [1..Cardinality(ids) -> ids]
  <2>1. t = [i \in 1..Cardinality(ids) |-> t[i]]
    BY DEF t
  <2> QED BY <2>1, <1>5
<1>9. ToSet(t) = ids
  <2>1. ToSet(t) = {t[i] : i \in 1..Cardinality(ids)}
    BY <1>4 DEF ToSet
  <2> QED BY <2>1, <1>5, <1>6
<1>10. Descending(t)
  BY <1>4, <1>7 DEF Descending
<1> QED BY <1>8, <1>9, <1>10 DEF Lists

\* Whatever replays there are can be listed.
LEMMA ThereIsAList ==
    ASSUME NEW n \in Nat, NEW ids \in SUBSET (1..n)
    PROVE  \E s : Lists(s, ids)
<1> DEFINE Bad == {m \in Nat : \E S \in SUBSET (1..m) : ~\E s : Lists(s, S)}
<1>1. SUFFICES ASSUME Bad # {} PROVE FALSE
  BY <1>1
<1>2. PICK m \in Bad : \A k \in Bad : ~(<<k, m>> \in Less)
  <2>1. Bad \subseteq Nat
    OBVIOUS
  <2> QED BY <1>1, <2>1, NoDescent, WFMin
<1>3. PICK S \in SUBSET (1..m) : ~\E s : Lists(s, S)
  BY <1>2
<1>4. m \in Nat
  BY <1>2
<1>5. S # {}
  <2> SUFFICES ASSUME S = {} PROVE FALSE
    OBVIOUS
  <2> DEFINE s == [i \in 1..0 |-> 0]
  <2>1. Cardinality(S) = 0
    BY FS_EmptySet
  <2>2. DOMAIN s = {} /\ 1..0 = {}
    OBVIOUS
  <2>3. s \in [1..Cardinality(S) -> S]
    BY <2>1, <2>2
  <2>4. ToSet(s) = S /\ Descending(s)
    BY <2>2 DEF ToSet, Descending
  <2> QED BY <2>3, <2>4, <1>3 DEF Lists
<1>6. m # 0 /\ m - 1 \in Nat
  <2>1. PICK x \in S : x \in 1..m
    BY <1>5
  <2> QED BY <1>4, <2>1
<1>7. \A R \in SUBSET (1..m - 1) : \E s : Lists(s, R)
  <2>1. <<m - 1, m>> \in Less
    BY <1>4, <1>6 DEF Less
  <2> QED BY <1>2, <1>6, <2>1
<1>8. S \ {m} \in SUBSET (1..m - 1)
  BY <1>4, <1>6
<1>9. PICK s : Lists(s, S \ {m})
  BY <1>7, <1>8
<1>10. CASE m \in S
  BY <1>3, <1>4, <1>6, <1>9, <1>10, NewerGoesFirst
<1>11. CASE m \notin S
  <2>1. S \ {m} = S
    BY <1>11
  <2> QED BY <2>1, <1>3, <1>9
<1> QED BY <1>10, <1>11

\* The list of replays has just the replays it is asked for.
LEMMA NewestFirstFacts ==
    ASSUME NEW n \in Nat, NEW ids \in SUBSET (1..n)
    PROVE  /\ NewestFirst(ids) \in Seq(Nat)
           /\ \A i \in DOMAIN NewestFirst(ids) : NewestFirst(ids)[i] \in ids
           /\ \A r \in ids : \E i \in DOMAIN NewestFirst(ids) : NewestFirst(ids)[i] = r
<1> DEFINE s == NewestFirst(ids)
<1>1. Lists(s, ids)
  BY ThereIsAList DEF NewestFirst, Lists
<1> HIDE DEF s
<1>2. s \in [1..Cardinality(ids) -> ids] /\ ToSet(s) = ids
  BY <1>1 DEF Lists
<1>3. Cardinality(ids) \in Nat
  <2>1. IsFiniteSet(1..n)
    BY FS_Interval
  <2> QED BY <2>1, FS_Subset, FS_CardinalityType
<1>4. s \in Seq(Nat)
  <2>1. ids \subseteq Nat
    OBVIOUS
  <2>2. s \in [1..Cardinality(ids) -> Nat]
    BY <1>2, <2>1
  <2> QED BY <1>3, <2>2, SeqDef
<1>5. /\ \A i \in DOMAIN s : s[i] \in ids
      /\ \A r \in ids : \E i \in DOMAIN s : s[i] = r
  BY <1>2 DEF ToSet
<1> QED BY <1>4, <1>5 DEF s

-----------------------------------------------------------------------------
(* What a step leaves as it was                                                *)

SamePromote(c, d) ==
    /\ d.promote = c.promote /\ d.promoted = c.promoted /\ d.created = c.created
    /\ d.createVersion = c.createVersion /\ d.mode = c.mode /\ d.selected = c.selected
SameReplay(c, d) ==
    /\ d.replay = c.replay /\ d.replayed = c.replayed /\ d.history = c.history
    /\ d.result = c.result /\ d.ref = c.ref /\ d.text = c.text
SameReview(c, d) == d.sent = c.sent /\ d.review = c.review /\ d.queued = c.queued
SamePages(c, d) == d.pages = c.pages /\ d.reads = c.reads
SameAll(c, d) == SamePromote(c, d) /\ SameReplay(c, d) /\ SameReview(c, d) /\ SamePages(c, d)

LEMMA FieldNames ==
    /\ "panel" \in Fields /\ "config" \in Fields /\ "mode" \in Fields /\ "selected" \in Fields
    /\ "newName" \in Fields /\ "createVersion" \in Fields /\ "promote" \in Fields
    /\ "created" \in Fields /\ "promoted" \in Fields /\ "ref" \in Fields /\ "text" \in Fields
    /\ "replay" \in Fields /\ "replayed" \in Fields /\ "result" \in Fields
    /\ "history" \in Fields /\ "queued" \in Fields /\ "review" \in Fields
    /\ "sent" \in Fields /\ "pages" \in Fields /\ "reads" \in Fields
BY DEF Fields

LEMMA PromoteFrame ==
    ASSUME NEW c, NEW d, NEW s, NEW ag, PromoteRight(c, s, ag), SamePromote(c, d)
    PROVE  PromoteRight(d, s, ag) /\ Promoting(d) = Promoting(c)
BY DEF PromoteRight, SamePromote, Promoting, Consented

LEMMA ReplayFrame ==
    ASSUME NEW c, NEW d, NEW s, NEW rs, ReplayRight(c, s, rs), SameReplay(c, d)
    PROVE  ReplayRight(d, s, rs) /\ Recording(d) = Recording(c)
BY DEF ReplayRight, SameReplay, Recording

LEMMA ReviewFrame ==
    ASSUME NEW c, NEW d, NEW s, NEW fs, NEW gs, ReviewRight(c, s, fs), SameReview(c, d),
           fs \subseteq gs
    PROVE  ReviewRight(d, s, gs)
BY DEF ReviewRight, SameReview

LEMMA PagesFrame ==
    ASSUME NEW c, NEW d, PagesRight(c), SamePages(c, d)
    PROVE  PagesRight(d)
BY DEF PagesRight, SamePages

\* More has been recorded: what was listed is where it was.
LEMMA MoreRecorded ==
    ASSUME NEW c, NEW s, NEW rs \in Seq(CaseId), NEW qs \in Seq(CaseId), ReplayRight(c, s, rs),
           Len(rs) <= Len(qs), \A i \in 1..Len(rs) : qs[i] = rs[i]
    PROVE  ReplayRight(c, s, qs)
<1>1. Len(rs) \in Nat /\ Len(qs) \in Nat
  OBVIOUS
<1>2. \A i \in 1..Len(rs) : i \in 1..Len(qs) /\ qs[i] = rs[i]
  BY <1>1
<1>3. \A i \in 0..Len(rs) : i \in 0..Len(qs)
  BY <1>1
<1> QED BY <1>2, <1>3 DEF ReplayRight

\* One more has been agreed to.
LEMMA MoreConsents ==
    ASSUME NEW c, NEW s, NEW ag, NEW bg, PromoteRight(c, s, ag), ag \subseteq bg
    PROVE  PromoteRight(c, s, bg)
BY DEF PromoteRight, Consented

\* What is under way is counted.
LEMMA Counts ==
    ASSUME NEW c
    PROVE  /\ Promoting(c) \in 0..1 /\ (c.promote = NoCall <=> Promoting(c) = 0)
           /\ Recording(c) \in 0..1
           /\ c.replay = NoCall \/ c.replay.recorded # 0 <=> Recording(c) = 0
BY DEF Promoting, Recording

LEMMA Fits ==
    \A a, b, v, w, n, m \in Nat : b + w <= n /\ a + v <= b + w + (m - n) => a + v <= m
OBVIOUS

\* A step that lets no more be written than it has moves for keeps the budget.
LEMMA BudgetKept ==
    ASSUME NEW c, NEW o, NEW d, NEW p, NEW n \in Nat, NEW m \in Nat,
           NEW vs \in [Dataset -> Nat], NEW us \in [Dataset -> Nat],
           NEW rs \in Seq(CaseId), NEW qs \in Seq(CaseId), InBudget(c, o, vs, rs, n),
           NEW w \in Nat, w = ToWrite(c, o), NEW v \in Nat, v = ToWrite(d, p),
           \A x \in Dataset : us[x] + v <= vs[x] + w + (m - n),
           Len(qs) + v <= Len(rs) + w + (m - n)
    PROVE  InBudget(d, p, us, qs, m)
<1>1. \A x \in Dataset : vs[x] \in Nat /\ us[x] \in Nat /\ vs[x] + w <= n
  BY DEF InBudget
<1>2. Len(rs) \in Nat /\ Len(qs) \in Nat /\ Len(rs) + w <= n
  BY DEF InBudget
<1>3. ASSUME NEW x \in Dataset PROVE us[x] + v <= m
  <2>1. vs[x] \in Nat /\ us[x] \in Nat /\ vs[x] + w <= n /\ us[x] + v <= vs[x] + w + (m - n)
    BY <1>1
  <2> QED BY <2>1, Fits
<1>4. Len(qs) + v <= m
  BY <1>2
<1> QED BY <1>3, <1>4 DEF InBudget

\* A step of the drawer that is known by what it does to the content.
LEMMA ContentStep ==
    ASSUME CaseInv, UNCHANGED shown, Elsewhere, Content(content'),
           moves' \in {moves, moves + 1}, moves' <= MaxMoves, MaxMoves \in Nat,
           PromoteRight(content', shown, consents), ReplayRight(content', shown, replays),
           ReviewRight(content', shown, findings), PagesRight(content'),
           Promoting(content') + Recording(content')
             <= Promoting(content) + Recording(content) + (moves' - moves)
    PROVE  CaseInv'
<1> USE DEF Elsewhere, store
<1>1. Cardinality(orphans) \in Nat /\ moves \in Nat
  BY FS_CardinalityType DEF CaseInv
<1>2. StoreRight' /\ moves' \in 0..MaxMoves /\ (\A call \in orphans : Consented(call, consents))'
  BY <1>1 DEF CaseInv, StoreRight, Consented
<1>3. ToWrite(content, orphans) \in Nat /\ ToWrite(content', orphans) \in Nat
      /\ ToWrite(content', orphans) <= ToWrite(content, orphans) + (moves' - moves)
  <2>1. /\ Promoting(content) \in 0..1 /\ Recording(content) \in 0..1
        /\ Promoting(content') \in 0..1 /\ Recording(content') \in 0..1
    BY Counts
  <2> QED BY <1>1, <2>1 DEF ToWrite
<1>4. InBudget(content', orphans, versions, replays, moves')
  <2>1. /\ versions \in [Dataset -> Nat] /\ replays \in Seq(CaseId) /\ moves' \in Nat
        /\ InBudget(content, orphans, versions, replays, moves)
    BY <1>2 DEF CaseInv, StoreRight
  <2> DEFINE w == ToWrite(content, orphans)
             v == ToWrite(content', orphans)
             n == moves'
  <2>2. w \in Nat /\ v \in Nat /\ n \in Nat /\ v <= w + (n - moves)
    BY <1>3, <2>1
  <2>3. Len(replays) \in Nat /\ \A x \in Dataset : versions[x] \in Nat
    BY <2>1
  <2> HIDE DEF w, v, n
  <2>4. \A k \in Nat : k + v <= k + w + (n - moves)
    BY <2>2, <1>1
  <2>5. /\ \A x \in Dataset : versions[x] + v <= versions[x] + w + (n - moves)
        /\ Len(replays) + v <= Len(replays) + w + (n - moves)
    BY <2>3, <2>4
  <2>6. w = ToWrite(content, orphans) /\ v = ToWrite(content', orphans)
    BY DEF w, v
  <2>7. InBudget(content', orphans, versions, replays, n)
    BY <1>1, <2>1, <2>2, <2>5, <2>6, BudgetKept
  <2> QED BY <2>7 DEF n
<1> QED BY <1>2, <1>4 DEF CaseInv, InBudget, ToWrite

\* A step that changes nothing that the invariant is about.
LEMMA AsideFrame ==
    ASSUME CaseInv, MaxMoves \in Nat, Quietly \/ ByReader, Content(content'), SameAll(content, content')
    PROVE  CaseInv'
<1>1. UNCHANGED shown /\ Elsewhere /\ moves' \in {moves, moves + 1} /\ moves' <= MaxMoves /\ moves \in Nat
  BY DEF CaseInv, Quietly, ByReader, Uses
<1>2. PromoteRight(content', shown, consents) /\ Promoting(content') = Promoting(content)
  BY PromoteFrame DEF CaseInv, SameAll
<1>3. ReplayRight(content', shown, replays) /\ Recording(content') = Recording(content)
  BY ReplayFrame DEF CaseInv, SameAll
<1>4. ReviewRight(content', shown, findings) /\ PagesRight(content')
  BY ReviewFrame, PagesFrame DEF CaseInv, SameAll
<1>5. Promoting(content) \in 0..1 /\ Recording(content) \in 0..1
  BY Counts
<1> QED BY <1>1, <1>2, <1>3, <1>4, <1>5, ContentStep

Aside ==
    \/ ConfigArrives \/ ConfigFails \/ RetryConfig \/ DatasetsArrive \/ OpenReplay
    \/ PromptsArrive \/ PromptsFail \/ RetryPrompts \/ SwitchSupply \/ ReplaysFail \/ RetryReplays
    \/ AgreementArrives \/ AgreementFails \/ ToggleTrace \/ TraceArrives \/ TraceFails
    \/ ReadTraceAgain

LEMMA AsideStep ==
    ASSUME CaseInv, MaxMoves \in Nat, Aside
    PROVE  CaseInv'
<1> SUFFICES (Quietly \/ ByReader) /\ Content(content') /\ SameAll(content, content')
  BY AsideFrame
<1>0. Content(content) /\ standing \in [Dataset -> DatasetStatus] /\ Len(replays) \in Nat
  BY DEF CaseInv, StoreRight
<1> USE DEF Becomes
<1>1. CASE ConfigArrives \/ ConfigFails \/ RetryConfig
  <2>1. PICK v \in {"loading", "ready", "failed"} : content' = [content EXCEPT !.config = v]
    BY <1>1 DEF ConfigArrives, ConfigFails, RetryConfig
  <2>2. Quietly \/ ByReader
    BY <1>1 DEF ConfigArrives, ConfigFails, RetryConfig
  <2> QED BY <1>0, <2>1, <2>2, FieldNames
          DEF SameAll, SamePromote, SameReplay, SameReview, SamePages, Content, Whole, Typed
<1>2. CASE DatasetsArrive
  <2>1. content' = [content EXCEPT !.listing = FALSE, !.listed = standing] /\ Quietly
    BY <1>2 DEF DatasetsArrive
  <2> QED BY <1>0, <2>1, FieldNames
          DEF SameAll, SamePromote, SameReplay, SameReview, SamePages, Content, Whole, Typed
<1>3. CASE OpenReplay
  <2>1. PICK v \in {"custom", "saved"}, k \in Nat :
           content' = [content EXCEPT !.panel = "replay", !.supply = v, !.prompts = "loading",
                                      !.reading = "loading", !.from = k]
    BY <1>0, <1>3 DEF OpenReplay
  <2>2. ByReader
    BY <1>3 DEF OpenReplay
  <2> QED BY <1>0, <2>1, <2>2, FieldNames
          DEF SameAll, SamePromote, SameReplay, SameReview, SamePages, Content, Whole, Typed
<1>4. CASE PromptsArrive \/ PromptsFail \/ RetryPrompts
  <2>1. PICK v \in {"loading", "loaded", "failed"} : content' = [content EXCEPT !.prompts = v]
    BY <1>4 DEF PromptsArrive, PromptsFail, RetryPrompts
  <2>2. Quietly \/ ByReader
    BY <1>4 DEF PromptsArrive, PromptsFail, RetryPrompts
  <2> QED BY <1>0, <2>1, <2>2, FieldNames
          DEF SameAll, SamePromote, SameReplay, SameReview, SamePages, Content, Whole, Typed
<1>5. CASE SwitchSupply
  <2>1. PICK v \in {"custom", "saved"} : content' = [content EXCEPT !.supply = v]
    BY <1>5 DEF SwitchSupply
  <2>2. ByReader
    BY <1>5 DEF SwitchSupply
  <2> QED BY <1>0, <2>1, <2>2, FieldNames
          DEF SameAll, SamePromote, SameReplay, SameReview, SamePages, Content, Whole, Typed
<1>6. CASE ReplaysFail \/ RetryReplays
  <2>1. PICK v \in {"loading", "failed"}, k \in Nat :
           content' = [content EXCEPT !.reading = v] \/
           content' = [content EXCEPT !.reading = v, !.from = k]
    BY <1>0, <1>6 DEF ReplaysFail, RetryReplays
  <2>2. ByReader
    BY <1>6 DEF ReplaysFail, RetryReplays
  <2>3. CASE content' = [content EXCEPT !.reading = v]
    BY <1>0, <2>2, <2>3, FieldNames
       DEF SameAll, SamePromote, SameReplay, SameReview, SamePages, Content, Whole, Typed
  <2>4. CASE content' = [content EXCEPT !.reading = v, !.from = k]
    BY <1>0, <2>2, <2>4, FieldNames
       DEF SameAll, SamePromote, SameReplay, SameReview, SamePages, Content, Whole, Typed
  <2> QED BY <2>1, <2>3, <2>4
<1>7. CASE AgreementArrives \/ AgreementFails
  <2>1. PICK v \in {"read", "failed"} : content' = [content EXCEPT !.agreement = v]
    BY <1>7 DEF AgreementArrives, AgreementFails
  <2>2. Quietly \/ ByReader
    BY <1>7 DEF AgreementArrives, AgreementFails
  <2> QED BY <1>0, <2>1, <2>2, FieldNames
          DEF SameAll, SamePromote, SameReplay, SameReview, SamePages, Content, Whole, Typed
<1>8. CASE ToggleTrace \/ TraceArrives \/ TraceFails \/ ReadTraceAgain
  <2>1. PICK v \in {"closed", "loading", "available", "pending", "failed"} :
           content' = [content EXCEPT !.trace = v]
    <3>1. CASE ToggleTrace
      BY <3>1 DEF ToggleTrace
    <3>2. CASE TraceArrives
      BY <3>2 DEF TraceArrives
    <3>3. CASE TraceFails \/ ReadTraceAgain
      BY <3>3 DEF TraceFails, ReadTraceAgain
    <3> QED BY <1>8, <3>1, <3>2, <3>3
  <2>2. Quietly \/ ByReader
    BY <1>8 DEF ToggleTrace, TraceArrives, TraceFails, ReadTraceAgain
  <2> QED BY <1>0, <2>1, <2>2, FieldNames
          DEF SameAll, SamePromote, SameReplay, SameReview, SamePages, Content, Whole, Typed
<1> QED BY <1>1, <1>2, <1>3, <1>4, <1>5, <1>6, <1>7, <1>8 DEF Aside
-----------------------------------------------------------------------------
(* Promoting                                                                   *)

\* A step of the form of a promotion.
LEMMA PromoteFormFrame ==
    ASSUME CaseInv, MaxMoves \in Nat, ByReader, Content(content'), SameReplay(content, content'),
           SameReview(content, content'), SamePages(content, content'),
           PromoteRight(content', shown, consents)
    PROVE  CaseInv'
<1>1. UNCHANGED shown /\ Elsewhere /\ moves' = moves + 1 /\ moves' <= MaxMoves /\ moves \in Nat
  BY DEF CaseInv, ByReader, Uses
<1>2. ReplayRight(content', shown, replays) /\ Recording(content') = Recording(content)
  BY ReplayFrame DEF CaseInv
<1>3. ReviewRight(content', shown, findings) /\ PagesRight(content')
  BY ReviewFrame, PagesFrame DEF CaseInv
<1>4. Promoting(content) \in 0..1 /\ Recording(content) \in 0..1 /\ Promoting(content') \in 0..1
  BY Counts
<1>5. Promoting(content') + Recording(content')
        <= Promoting(content) + Recording(content) + (moves' - moves)
  BY <1>1, <1>2, <1>4
<1> QED BY <1>1, <1>2, <1>3, <1>5, ContentStep

PromoteForm ==
    \/ OpenPromote \/ DatasetsFail \/ ChangeTargetMode \/ ChangeExpectedSource
    \/ \E d \in Dataset : ChooseDataset(d) \/ ChangeNewDatasetName(d)
    \/ CommitPromote

LEMMA PromoteFormStep ==
    ASSUME CaseInv, MaxMoves \in Nat, PromoteForm
    PROVE  CaseInv'
<1> SUFFICES /\ ByReader /\ Content(content') /\ SameReplay(content, content')
             /\ SameReview(content, content') /\ SamePages(content, content')
             /\ PromoteRight(content', shown, consents)
  BY PromoteFormFrame
<1>0. Content(content) /\ PromoteRight(content, shown, consents)
  BY DEF CaseInv
<1>o. NoOutcome \in CallOutcome /\ NoOutcome.case = Unset
  BY DEF NoOutcome, CallOutcome
<1> USE DEF Becomes
<1>1. CASE OpenPromote
  <2>1. PICK l : content' = [content EXCEPT !.panel = "promote", !.promoted = NoOutcome,
                                            !.listing = TRUE, !.listed = l]
    BY <1>1 DEF OpenPromote
  <2>2. ByReader
    BY <1>1 DEF OpenPromote
  <2>3. Content(content')
    BY <1>0, <1>o, <2>1, FieldNames DEF Content, Whole, Typed
  <2>4. SameReplay(content, content') /\ SameReview(content, content') /\ SamePages(content, content')
    BY <1>0, <2>1, FieldNames DEF SameReplay, SameReview, SamePages, Content, Whole
  <2>5. PromoteRight(content', shown, consents)
    BY <1>0, <1>o, <2>1, FieldNames DEF PromoteRight, Consented, Content, Whole
  <2> QED BY <2>2, <2>3, <2>4, <2>5
<1>2. CASE DatasetsFail
  <2>1. PICK p \in CallOutcome :
           /\ content' = [content EXCEPT !.listing = FALSE, !.promoted = p]
           /\ p = content.promoted \/ p = NoOutcome
    <3>1. content.promoted \in CallOutcome
      BY <1>0 DEF Content, Typed
    <3> QED BY <1>2, <1>o, <3>1 DEF DatasetsFail
  <2>2. ByReader
    BY <1>2 DEF DatasetsFail
  <2>3. Content(content')
    BY <1>0, <2>1, FieldNames DEF Content, Whole, Typed
  <2>4. SameReplay(content, content') /\ SameReview(content, content') /\ SamePages(content, content')
    BY <1>0, <2>1, FieldNames DEF SameReplay, SameReview, SamePages, Content, Whole
  <2>5. PromoteRight(content', shown, consents)
    BY <1>0, <1>o, <2>1, FieldNames DEF PromoteRight, Consented, Content, Whole
  <2> QED BY <2>2, <2>3, <2>4, <2>5
<1>3. CASE ChangeTargetMode
  <2>1. PICK m : content' = [content EXCEPT !.mode = m, !.createVersion = FALSE,
                                            !.promoted = NoOutcome]
    BY <1>3 DEF ChangeTargetMode
  <2>2. ByReader
    BY <1>3 DEF ChangeTargetMode
  <2>3. Content(content')
    BY <1>0, <1>o, <2>1, FieldNames DEF Content, Whole, Typed
  <2>4. SameReplay(content, content') /\ SameReview(content, content') /\ SamePages(content, content')
    BY <1>0, <2>1, FieldNames DEF SameReplay, SameReview, SamePages, Content, Whole
  <2>5. PromoteRight(content', shown, consents)
    BY <1>0, <1>o, <2>1, FieldNames DEF PromoteRight, Consented, Content, Whole
  <2> QED BY <2>2, <2>3, <2>4, <2>5
<1>4. CASE ChangeExpectedSource
  <2>1. PICK e : content' = [content EXCEPT !.source = e, !.promoted = NoOutcome]
    BY <1>4 DEF ChangeExpectedSource
  <2>2. ByReader
    BY <1>4 DEF ChangeExpectedSource
  <2>3. Content(content')
    BY <1>0, <1>o, <2>1, FieldNames DEF Content, Whole, Typed
  <2>4. SameReplay(content, content') /\ SameReview(content, content') /\ SamePages(content, content')
    BY <1>0, <2>1, FieldNames DEF SameReplay, SameReview, SamePages, Content, Whole
  <2>5. PromoteRight(content', shown, consents)
    BY <1>0, <1>o, <2>1, FieldNames DEF PromoteRight, Consented, Content, Whole
  <2> QED BY <2>2, <2>3, <2>4, <2>5
<1>5. ASSUME NEW d \in Dataset, ChooseDataset(d)
      PROVE  /\ ByReader /\ Content(content') /\ SameReplay(content, content')
             /\ SameReview(content, content') /\ SamePages(content, content')
             /\ PromoteRight(content', shown, consents)
  <2>1. content' = [content EXCEPT !.selected = d, !.createVersion = FALSE, !.promoted = NoOutcome]
    BY <1>5 DEF ChooseDataset, SelectDataset
  <2>2. ByReader
    BY <1>5 DEF ChooseDataset, SelectDataset
  <2>3. Content(content')
    BY <1>0, <1>o, <2>1, FieldNames DEF Content, Whole, Typed, Named
  <2>4. SameReplay(content, content') /\ SameReview(content, content') /\ SamePages(content, content')
    BY <1>0, <2>1, FieldNames DEF SameReplay, SameReview, SamePages, Content, Whole
  <2>5. PromoteRight(content', shown, consents)
    BY <1>0, <1>o, <2>1, FieldNames DEF PromoteRight, Consented, Content, Whole
  <2> QED BY <2>2, <2>3, <2>4, <2>5
<1>6. ASSUME NEW d \in Dataset, ChangeNewDatasetName(d)
      PROVE  /\ ByReader /\ Content(content') /\ SameReplay(content, content')
             /\ SameReview(content, content') /\ SamePages(content, content')
             /\ PromoteRight(content', shown, consents)
  <2>1. content' = [content EXCEPT !.newName = d, !.promoted = NoOutcome]
    BY <1>6 DEF ChangeNewDatasetName
  <2>2. ByReader
    BY <1>6 DEF ChangeNewDatasetName
  <2>3. Content(content')
    BY <1>0, <1>o, <2>1, FieldNames DEF Content, Whole, Typed, Named
  <2>4. SameReplay(content, content') /\ SameReview(content, content') /\ SamePages(content, content')
    BY <1>0, <2>1, FieldNames DEF SameReplay, SameReview, SamePages, Content, Whole
  <2>5. PromoteRight(content', shown, consents)
    BY <1>0, <1>o, <2>1, FieldNames DEF PromoteRight, Consented, Content, Whole
  <2> QED BY <2>2, <2>3, <2>4, <2>5
<1>7. CASE CommitPromote
  <2> DEFINE call == [kind |-> IF content.mode = "new" THEN "create" ELSE "promote", case |-> shown,
                      target |-> IF content.mode = "new" THEN content.newName ELSE content.selected,
                      consent |-> content.createVersion, prompt |-> Unset, recorded |-> 0]
  <2>1. content' = [content EXCEPT !.promoted = NoOutcome, !.created = Unset, !.promote = call]
        /\ ByReader /\ shown \in CaseId
    BY <1>7 DEF CommitPromote, ByReader, CaseInv
  <2>2. /\ call \in Call /\ call.kind \in {"create", "promote"} /\ call.case = shown
        /\ Consented(call, consents)
    <3>1. /\ content.newName \in Named /\ content.selected \in Named
          /\ content.createVersion \in BOOLEAN
      BY <1>0 DEF Content, Typed
    <3>2. call \in Call
      BY <2>1, <3>1 DEF Call, Named
    <3>3. content.createVersion => content.mode = "existing" /\ <<shown, content.selected>> \in consents
      BY <1>0 DEF PromoteRight
    <3> QED BY <3>2, <3>3 DEF Consented
  <2> HIDE DEF call
  <2>3. Content(content')
    BY <1>0, <1>o, <2>1, <2>2, FieldNames DEF Content, Whole, Typed, Named
  <2>4. SameReplay(content, content') /\ SameReview(content, content') /\ SamePages(content, content')
    BY <1>0, <2>1, FieldNames DEF SameReplay, SameReview, SamePages, Content, Whole
  <2>5. PromoteRight(content', shown, consents)
    BY <1>0, <1>o, <2>1, <2>2, FieldNames DEF PromoteRight, Content, Whole
  <2> QED BY <2>1, <2>3, <2>4, <2>5
<1> QED BY <1>1, <1>2, <1>3, <1>4, <1>5, <1>6, <1>7 DEF PromoteForm

\* What a call does to the server's data.
LEMMA CarriedFacts ==
    ASSUME StoreRight, NEW call \in Call, Carried(call)
    PROVE  /\ StoreRight' /\ findings' = findings
           /\ \A d \in Dataset : versions'[d] <= versions[d] + 1
           /\ call.kind # "promote" => versions' = versions
           /\ call.kind # "replay" \/ call.recorded # 0 => replays' = replays
           /\ call.kind = "replay" /\ call.recorded = 0 => replays' = Append(replays, call.case)
<1>1. call.case \in CaseId
  BY DEF Call
<1>2. standing' \in [Dataset -> DatasetStatus]
  BY DEF StoreRight, Carried, DatasetStatus
<1>3. records' \in [Dataset -> SUBSET CaseId]
  <2>1. CASE call.target \in Dataset
    BY <1>1, <2>1 DEF StoreRight, Carried
  <2>2. CASE call.target \notin Dataset
    BY <2>2 DEF StoreRight, Carried
  <2> QED BY <2>1, <2>2
<1>4. versions' \in [Dataset -> Nat] /\ \A d \in Dataset : versions'[d] <= versions[d] + 1
  <2>1. CASE call.target \in Dataset
    BY <2>1 DEF StoreRight, Carried
  <2>2. CASE call.target \notin Dataset
    <3>1. versions \in [Dataset -> Nat]
      BY DEF StoreRight
    <3> DEFINE more == [versions EXCEPT ![call.target] = @ + 1]
    <3>2. DOMAIN more = Dataset /\ \A d \in Dataset : more[d] = versions[d]
      BY <2>2, <3>1
    <3>3. more \in [Dataset -> Nat] /\ \A d \in Dataset : more[d] <= versions[d] + 1
      <4>1. more = [d \in Dataset |-> more[d]]
        BY <3>1
      <4> HIDE DEF more
      <4> QED BY <3>1, <3>2, <4>1
    <3>4. versions' = more \/ versions' = versions
      BY DEF Carried
    <3> HIDE DEF more
    <3> QED BY <3>1, <3>3, <3>4
  <2> QED BY <2>1, <2>2
<1>5. replays' \in Seq(CaseId)
  BY <1>1 DEF StoreRight, Carried
<1> QED BY <1>2, <1>3, <1>4, <1>5 DEF StoreRight, Carried, Copies

\* A record of replays that has grown by one at most.
Grown(rs, qs) ==
    /\ Len(rs) <= Len(qs) /\ Len(qs) <= Len(rs) + 1
    /\ \A i \in 1..Len(rs) : qs[i] = rs[i]

LEMMA CarriedGrows ==
    ASSUME StoreRight, NEW call \in Call, Carried(call)
    PROVE  /\ Grown(replays, replays')
           /\ call.kind = "replay" /\ call.recorded = 0 =>
                Len(replays') = Len(replays) + 1 /\ replays'[Len(replays) + 1] = call.case
<1>1. replays \in Seq(CaseId) /\ call.case \in CaseId
  BY DEF StoreRight, Call
<1>2. CASE call.kind = "replay" /\ call.recorded = 0
  <2>1. replays' = Append(replays, call.case)
    BY <1>2, CarriedFacts
  <2>2. /\ Len(Append(replays, call.case)) = Len(replays) + 1
        /\ \A i \in 1..Len(replays) : Append(replays, call.case)[i] = replays[i]
        /\ Append(replays, call.case)[Len(replays) + 1] = call.case
    BY <1>1, AppendProperties
  <2> QED BY <1>1, <2>1, <2>2 DEF Grown
<1>3. CASE ~(call.kind = "replay" /\ call.recorded = 0)
  <2>1. replays' = replays
    BY <1>3, CarriedFacts
  <2> QED BY <1>1, <1>3, <2>1 DEF Grown
<1> QED BY <1>2, <1>3

\* The promotion is answered: what is shown of it is of the case on screen, and a
\* dataset that was created and stayed empty is named.
LEMMA AdvanceRight ==
    ASSUME Content(content), PromoteRight(content, shown, consents), content.promote # NoCall,
           NEW ok \in BOOLEAN, PromoteAdvances(ok)
    PROVE  /\ Content(content') /\ SameReplay(content, content')
           /\ SameReview(content, content') /\ SamePages(content, content')
           /\ PromoteRight(content', shown, consents)
           /\ ~ok \/ content.promote.kind = "promote" => content'.promote = NoCall
<1> DEFINE call == content.promote
           rep == [case |-> call.case, ok |-> FALSE, made |-> content.created]
           done == [case |-> call.case, ok |-> TRUE, made |-> Unset]
           next == [call EXCEPT !.kind = "promote"]
<1>1. /\ call \in Call /\ call.case = shown /\ Consented(call, consents)
      /\ call.kind \in {"create", "promote"} /\ content.created \in Named
  BY DEF Content, Typed, PromoteRight
<1>2. rep \in CallOutcome /\ done \in CallOutcome /\ call.target \in Named
  BY <1>1 DEF CallOutcome, Call, Named
<1>3. /\ next \in Call /\ next.kind = "promote" /\ next.case = shown /\ next # NoCall
      /\ Consented(next, consents)
  <2>1. /\ next \in Call /\ next.kind = "promote" /\ next.case = call.case
        /\ next.consent = call.consent /\ next.target = call.target
    BY <1>1 DEF Call
  <2>2. next # NoCall
    BY <2>1 DEF NoCall
  <2> QED BY <1>1, <2>1, <2>2 DEF Consented
<1>4. /\ rep.case = shown /\ ~rep.ok /\ rep.made = content.created
      /\ done.case = shown /\ done.ok
  BY <1>1
<1>5. content' = IF ~ok THEN [content EXCEPT !.promote = NoCall, !.promoted = rep]
                 ELSE IF call.kind = "create"
                 THEN [content EXCEPT !.promote = next, !.created = call.target]
                 ELSE [content EXCEPT !.promote = NoCall, !.created = Unset, !.promoted = done]
  BY DEF PromoteAdvances, Reported, Failure
<1>6. CASE ~ok
  <2>1. content' = [content EXCEPT !.promote = NoCall, !.promoted = rep]
    BY <1>5, <1>6
  <2> HIDE DEF rep
  <2>2. Content(content')
    BY <1>2, <2>1, FieldNames DEF Content, Whole, Typed
  <2>3. /\ SameReplay(content, content') /\ SameReview(content, content')
        /\ SamePages(content, content') /\ content'.promote = NoCall
    BY <2>1, FieldNames DEF SameReplay, SameReview, SamePages, Content, Whole
  <2>4. PromoteRight(content', shown, consents)
    BY <1>4, <2>1, FieldNames DEF PromoteRight, Content, Whole
  <2> QED BY <2>2, <2>3, <2>4
<1>7. CASE ok /\ call.kind = "create"
  <2> DEFINE target == call.target
  <2>1. content' = [content EXCEPT !.promote = next, !.created = target] /\ target \in Named
    BY <1>2, <1>5, <1>7
  <2> HIDE DEF next, target
  <2>2. Content(content')
    BY <1>3, <2>1, FieldNames DEF Content, Whole, Typed
  <2>3. /\ SameReplay(content, content') /\ SameReview(content, content')
        /\ SamePages(content, content')
    BY <2>1, FieldNames DEF SameReplay, SameReview, SamePages, Content, Whole
  <2>4. PromoteRight(content', shown, consents)
    BY <1>3, <2>1, FieldNames DEF PromoteRight, Content, Whole
  <2> QED BY <1>7, <2>2, <2>3, <2>4
<1>8. CASE ok /\ call.kind # "create"
  <2>1. content' = [content EXCEPT !.promote = NoCall, !.created = Unset, !.promoted = done]
    BY <1>5, <1>8
  <2> HIDE DEF done
  <2>2. Content(content')
    BY <1>2, <2>1, FieldNames DEF Content, Whole, Typed, Named
  <2>3. /\ SameReplay(content, content') /\ SameReview(content, content')
        /\ SamePages(content, content') /\ content'.promote = NoCall
    BY <2>1, FieldNames DEF SameReplay, SameReview, SamePages, Content, Whole
  <2>4. PromoteRight(content', shown, consents)
    BY <1>4, <2>1, FieldNames DEF PromoteRight, Content, Whole
  <2> QED BY <2>2, <2>3, <2>4
<1> QED BY <1>6, <1>7, <1>8

LEMMA Spends ==
    \A a, b, v, w, n, m \in Nat :
        m <= n /\ v <= w /\ (a = b \/ (a <= b + 1 /\ v + 1 <= w)) => a + v <= b + w + (n - m)
OBVIOUS

\* What the server carries out of a call, and what is then left to be written.
LEMMA CarriedBudget ==
    ASSUME CaseInv, MaxMoves \in Nat, NEW call \in Call, Carried(call), UNCHANGED consents,
           moves' \in {moves, moves + 1}, moves' <= MaxMoves,
           NEW w \in Nat, w = ToWrite(content, orphans),
           NEW v \in Nat, v = ToWrite(content', orphans'),
           v <= w,
           call.kind = "promote" \/ (call.kind = "replay" /\ call.recorded = 0) => v + 1 <= w
    PROVE  InBudget(content', orphans', versions', replays', moves')
<1>1. /\ StoreRight /\ moves \in Nat /\ moves' \in Nat /\ moves <= moves'
      /\ InBudget(content, orphans, versions, replays, moves)
  BY DEF CaseInv
<1>2. /\ StoreRight' /\ \A d \in Dataset : versions'[d] <= versions[d] + 1
      /\ call.kind # "promote" => versions' = versions
      /\ call.kind # "replay" \/ call.recorded # 0 => replays' = replays
      /\ Len(replays') <= Len(replays) + 1
  BY <1>1, CarriedFacts, CarriedGrows DEF Grown
<1>3. /\ versions \in [Dataset -> Nat] /\ versions' \in [Dataset -> Nat]
      /\ replays \in Seq(CaseId) /\ replays' \in Seq(CaseId)
      /\ Len(replays) \in Nat /\ Len(replays') \in Nat
      /\ \A d \in Dataset : versions[d] \in Nat /\ versions'[d] \in Nat
  BY <1>1, <1>2 DEF StoreRight
<1>4. \A d \in Dataset : versions'[d] = versions[d] \/ (versions'[d] <= versions[d] + 1 /\ v + 1 <= w)
  BY <1>2
<1>5. Len(replays') = Len(replays) \/ (Len(replays') <= Len(replays) + 1 /\ v + 1 <= w)
  BY <1>2
<1> DEFINE n == moves'
           us == versions'
           qs == replays'
<1>6. /\ n \in Nat /\ moves <= n /\ \A d \in Dataset : us[d] \in Nat /\ versions[d] \in Nat
      /\ \A d \in Dataset : us[d] = versions[d] \/ (us[d] <= versions[d] + 1 /\ v + 1 <= w)
      /\ Len(qs) = Len(replays) \/ (Len(qs) <= Len(replays) + 1 /\ v + 1 <= w)
      /\ us \in [Dataset -> Nat] /\ qs \in Seq(CaseId) /\ Len(qs) \in Nat
  BY <1>1, <1>3, <1>4, <1>5
<1> HIDE DEF n, us, qs
<1>7. \A d \in Dataset : us[d] + v <= versions[d] + w + (n - moves)
  BY <1>1, <1>6, Spends
<1>8. Len(qs) + v <= Len(replays) + w + (n - moves)
  BY <1>1, <1>3, <1>6, Spends
<1>9. InBudget(content', orphans', us, qs, n)
  BY <1>1, <1>3, <1>6, <1>7, <1>8, BudgetKept
<1> QED BY <1>9 DEF n, us, qs

\* What is to be written is counted.
LEMMA ToWriteCounts ==
    ASSUME NEW c, NEW o, IsFiniteSet(o)
    PROVE  ToWrite(c, o) \in Nat /\ Cardinality(o) \in Nat
           /\ ToWrite(c, o) = Cardinality(o) + Promoting(c) + Recording(c)
BY Counts, FS_CardinalityType DEF ToWrite

LEMMA PromoteCallStep ==
    ASSUME CaseInv, MaxMoves \in Nat, PromoteAnswered \/ (\E before \in BOOLEAN : PromoteFails(before))
    PROVE  CaseInv'
<1>0. /\ Content(content) /\ PromoteRight(content, shown, consents) /\ content.promote # NoCall
      /\ content.promote \in Call /\ content.promote.kind \in {"create", "promote"}
      /\ StoreRight /\ IsFiniteSet(orphans) /\ moves \in Nat
      /\ UNCHANGED <<shown, orphans, consents>>
      /\ moves' \in {moves, moves + 1} /\ moves' <= MaxMoves
  <2>1. /\ Content(content) /\ PromoteRight(content, shown, consents) /\ StoreRight
        /\ IsFiniteSet(orphans) /\ moves \in Nat /\ moves <= MaxMoves
    BY DEF CaseInv
  <2>2. /\ content.promote # NoCall /\ UNCHANGED <<shown, orphans, consents>>
        /\ moves' = moves \/ (moves' = moves + 1 /\ moves < MaxMoves)
    BY DEF PromoteAnswered, PromoteFails, Uses
  <2>3. content.promote \in Call /\ content.promote.kind \in {"create", "promote"}
    BY <2>1, <2>2 DEF Content, Typed, PromoteRight
  <2> QED BY <2>1, <2>2, <2>3
<1>1. PICK ok \in BOOLEAN :
         /\ PromoteAdvances(ok)
         /\ \/ Carried(content.promote) /\ (ok <=> Succeeds(content.promote)) /\ moves' = moves
            \/ Carried(content.promote) /\ ~ok /\ moves' = moves + 1
            \/ UNCHANGED store /\ ~ok /\ moves' = moves + 1
  <2>1. CASE PromoteAnswered
    <3>1. PICK b \in BOOLEAN : b = Succeeds(content.promote)
      BY DEF Succeeds, Creates, Writes, Copies
    <3>2. PromoteAdvances(b)
      BY <2>1, <3>1, ZenonT(20) DEF PromoteAnswered
    <3> QED BY <2>1, <3>1, <3>2 DEF PromoteAnswered
  <2>2. CASE \E before \in BOOLEAN : PromoteFails(before)
    BY <2>2 DEF PromoteFails, Uses
  <2> QED BY <2>1, <2>2
<1>2. /\ Content(content') /\ SameReplay(content, content')
      /\ SameReview(content, content') /\ SamePages(content, content')
      /\ PromoteRight(content', shown, consents)
      /\ ~ok \/ content.promote.kind = "promote" => content'.promote = NoCall
  BY <1>0, <1>1, AdvanceRight
<1>3. /\ ReplayRight(content', shown, replays) /\ Recording(content') = Recording(content)
      /\ ReviewRight(content', shown, findings) /\ PagesRight(content')
  BY <1>2, ReplayFrame, ReviewFrame, PagesFrame DEF CaseInv
<1>4. CASE UNCHANGED store
  <2>1. Promoting(content') \in 0..1 /\ Recording(content) \in 0..1 /\ Promoting(content) = 1
    BY <1>0, Counts DEF Promoting
  <2>2. Promoting(content') + Recording(content')
          <= Promoting(content) + Recording(content) + (moves' - moves)
    BY <1>0, <1>3, <2>1
  <2>3. UNCHANGED shown /\ Elsewhere
    BY <1>0, <1>4 DEF Elsewhere
  <2> QED BY <1>0, <1>2, <1>3, <2>2, <2>3, ContentStep
<1>5. CASE Carried(content.promote)
  <2> DEFINE w == ToWrite(content, orphans)
             v == ToWrite(content', orphans')
  <2>1. /\ w \in Nat /\ v \in Nat /\ v <= w
        /\ content.promote.kind = "promote" => v + 1 <= w
    <3>1. /\ Promoting(content') \in 0..1 /\ Recording(content) \in 0..1 /\ Promoting(content) = 1
          /\ content.promote.kind = "promote" => Promoting(content') = 0
      BY <1>0, <1>2, Counts DEF Promoting
    <3>2. /\ w = Cardinality(orphans) + Promoting(content) + Recording(content)
          /\ v = Cardinality(orphans) + Promoting(content') + Recording(content)
          /\ Cardinality(orphans) \in Nat
      BY <1>0, <1>3, ToWriteCounts DEF ToWrite
    <3> HIDE DEF w, v
    <3> QED BY <3>1, <3>2
  <2>2. InBudget(content', orphans', versions', replays', moves')
    BY <1>0, <1>5, <2>1, CarriedBudget
  <2>3. StoreRight' /\ findings' = findings /\ replays' = replays
    BY <1>0, <1>5, CarriedFacts
  <2>4. (\A call \in orphans : Consented(call, consents))' /\ moves' \in 0..MaxMoves
    BY <1>0 DEF CaseInv, Consented
  <2> QED BY <1>0, <1>2, <1>3, <2>2, <2>3, <2>4 DEF CaseInv
<1> QED BY <1>1, <1>4, <1>5

\* The call of a content that is gone: a creation goes on to its promotion.
LEMMA OrphanStep ==
    ASSUME CaseInv, MaxMoves \in Nat, NEW call \in orphans, OrphanEnds(call)
    PROVE  CaseInv'
<1> DEFINE next == [call EXCEPT !.kind = "promote"]
<1>0. /\ call \in Call /\ Consented(call, consents) /\ StoreRight /\ moves \in Nat
      /\ IsFiniteSet(orphans) /\ orphans \subseteq Call /\ moves <= MaxMoves
      /\ Carried(call) /\ UNCHANGED <<shown, content, consents, moves>>
  BY DEF CaseInv, OrphanEnds
<1>1. /\ next \in Call /\ Consented(next, consents)
  BY <1>0 DEF Call, Consented
<1> HIDE DEF next
<1>2. \/ call.kind = "create" /\ orphans' = (orphans \ {call}) \cup {next}
      \/ orphans' = orphans \ {call}
  BY DEF OrphanEnds, Creates, next
<1>3. /\ IsFiniteSet(orphans \ {call}) /\ Cardinality(orphans \ {call}) = Cardinality(orphans) - 1
      /\ Cardinality(orphans) \in Nat /\ Cardinality(orphans \ {call}) \in Nat
  BY <1>0, FS_RemoveElement, FS_CardinalityType
<1>4. /\ IsFiniteSet(orphans') /\ Cardinality(orphans') \in Nat
      /\ Cardinality(orphans') <= Cardinality(orphans)
      /\ call.kind # "create" => Cardinality(orphans') + 1 <= Cardinality(orphans)
  <2>1. CASE orphans' = orphans \ {call}
    BY <1>3, <2>1
  <2>2. CASE call.kind = "create" /\ orphans' = (orphans \ {call}) \cup {next}
    <3>1. /\ IsFiniteSet((orphans \ {call}) \cup {next})
          /\ Cardinality((orphans \ {call}) \cup {next})
               \in {Cardinality(orphans \ {call}), Cardinality(orphans \ {call}) + 1}
      BY <1>3, FS_AddElement
    <3> QED BY <1>3, <2>2, <3>1
  <2> QED BY <1>2, <2>1, <2>2
<1>5. orphans' \subseteq Call /\ \A o \in orphans' : Consented(o, consents)
  BY <1>0, <1>1, <1>2 DEF CaseInv
<1> DEFINE w == ToWrite(content, orphans)
           v == ToWrite(content', orphans')
<1>6. /\ w \in Nat /\ v \in Nat /\ v <= w
      /\ call.kind # "create" => v + 1 <= w
  <2>1. Promoting(content) \in 0..1 /\ Recording(content) \in 0..1
    BY Counts
  <2>2. /\ w = Cardinality(orphans) + Promoting(content) + Recording(content)
        /\ v = Cardinality(orphans') + Promoting(content) + Recording(content)
    BY <1>0 DEF ToWrite
  <2> HIDE DEF w, v
  <2> QED BY <1>3, <1>4, <2>1, <2>2
<1>7. InBudget(content', orphans', versions', replays', moves')
  BY <1>0, <1>6, CarriedBudget
<1>8. StoreRight' /\ findings' = findings /\ Grown(replays, replays')
  BY <1>0, CarriedFacts, CarriedGrows
<1>9. ReplayRight(content, shown, replays')
  BY <1>0, <1>8, MoreRecorded DEF CaseInv, StoreRight, Grown
<1> QED BY <1>0, <1>4, <1>5, <1>7, <1>8, <1>9 DEF CaseInv, Consented

\* What a new content says.
LEMMA FreshContentRight ==
    ASSUME CaseDrawerAssumption, NEW s, NEW rs, Len(rs) \in Nat
    PROVE  /\ Content(FreshContent) /\ PromoteRight(FreshContent, s, {})
           /\ ReplayRight(FreshContent, s, rs) /\ ReviewRight(FreshContent, s, {})
           /\ PagesRight(FreshContent)
           /\ Promoting(FreshContent) = 0 /\ Recording(FreshContent) = 0
<1>1. /\ NoOutcome \in CallOutcome /\ NoOutcome.case = Unset /\ NoOutcome.ok = FALSE
  BY DEF NoOutcome, CallOutcome
<1> HIDE DEF NoOutcome
<1>2. Whole(FreshContent)
  BY DEF Whole, Fields, FreshContent
<1>3. Typed(FreshContent)
  BY <1>1 DEF Typed, Named, FreshContent
<1>4. /\ FreshContent.promote = NoCall /\ FreshContent.created = Unset
      /\ FreshContent.promoted = NoOutcome /\ FreshContent.createVersion = FALSE
      /\ FreshContent.replay = NoCall /\ FreshContent.replayed = NoOutcome
      /\ FreshContent.history = <<>> /\ FreshContent.result = 0 /\ FreshContent.ref = Unset
      /\ FreshContent.sent = Unset /\ FreshContent.review = "idle"
      /\ FreshContent.queued = "loading"
      /\ FreshContent.pages = <<>> /\ FreshContent.reads = <<>>
  BY DEF FreshContent
<1> HIDE DEF FreshContent
<1>5. DOMAIN FreshContent.history = {} /\ DOMAIN FreshContent.pages = {}
  BY <1>4
<1>6. PromoteRight(FreshContent, s, {})
  BY <1>1, <1>4 DEF PromoteRight
<1>7. ReplayRight(FreshContent, s, rs)
  BY <1>1, <1>4, <1>5 DEF ReplayRight
<1>8. ReviewRight(FreshContent, s, {}) /\ PagesRight(FreshContent)
  BY <1>4, <1>5 DEF ReviewRight, PagesRight
<1>9. Promoting(FreshContent) = 0 /\ Recording(FreshContent) = 0
  BY <1>4 DEF Promoting, Recording
<1> QED BY <1>2, <1>3, <1>6, <1>7, <1>8, <1>9 DEF Content

\* A call more, if there is one.
LEMMA OneMore ==
    ASSUME NEW o, IsFiniteSet(o), NEW x
    PROVE  /\ IsFiniteSet(o \cup {x}) /\ Cardinality(o) \in Nat
           /\ Cardinality(o \cup {x}) \in Nat /\ Cardinality(o \cup {x}) <= Cardinality(o) + 1
<1>1. /\ IsFiniteSet(o \cup {x})
      /\ Cardinality(o \cup {x}) = IF x \in o THEN Cardinality(o) ELSE Cardinality(o) + 1
  BY FS_AddElement
<1>2. Cardinality(o) \in Nat
  BY FS_CardinalityType
<1> QED BY <1>1, <1>2

\* Another case: the calls of the one that was shown go on at the server.
LEMMA ShowStep ==
    ASSUME CaseInv, CaseDrawerAssumption, NEW c \in CaseId \cup {Unset}, Show(c)
    PROVE  CaseInv'
<1> DEFINE left == {content.promote, content.replay} \ {NoCall}
<1>0. /\ Content(content) /\ PromoteRight(content, shown, consents)
      /\ ReplayRight(content, shown, replays) /\ StoreRight /\ moves \in Nat
      /\ IsFiniteSet(orphans) /\ orphans \subseteq Call
      /\ MaxMoves \in Nat /\ moves < MaxMoves /\ moves' = moves + 1
      /\ shown' = c /\ content' = FreshContent /\ orphans' = orphans \cup left
      /\ UNCHANGED consents /\ UNCHANGED <<standing, records, versions, replays, findings>>
  BY DEF CaseInv, Show, Uses, ContentOf, Keyed, CaseDrawerAssumption, store
<1>1. /\ left \subseteq Call /\ \A o \in left : Consented(o, consents)
  <2>1. content.promote \in Call \cup {NoCall} /\ content.replay \in Call \cup {NoCall}
    BY <1>0 DEF Content, Typed
  <2>2. content.promote # NoCall => Consented(content.promote, consents)
    BY <1>0 DEF PromoteRight
  <2>3. content.replay # NoCall => Consented(content.replay, consents)
    BY <1>0 DEF ReplayRight, Consented
  <2> QED BY <2>1, <2>2, <2>3
<1> DEFINE p == IF content.promote = NoCall THEN 0 ELSE 1
           r == IF content.replay = NoCall THEN 0 ELSE 1
<1>2. /\ IsFiniteSet(orphans') /\ Cardinality(orphans') \in Nat /\ Cardinality(orphans) \in Nat
      /\ Cardinality(orphans') <= Cardinality(orphans) + p + r
  <2> DEFINE one == IF content.promote = NoCall THEN orphans ELSE orphans \cup {content.promote}
             two == IF content.replay = NoCall THEN one ELSE one \cup {content.replay}
  <2>1. orphans' = two
    BY <1>0
  <2>2. /\ IsFiniteSet(one) /\ Cardinality(one) \in Nat /\ Cardinality(orphans) \in Nat
        /\ Cardinality(one) <= Cardinality(orphans) + p
    <3>1. CASE content.promote = NoCall
      <4>1. one = orphans /\ p = 0
        BY <3>1
      <4>2. Cardinality(orphans) \in Nat
        BY <1>0, FS_CardinalityType
      <4> QED BY <1>0, <4>1, <4>2
    <3>2. CASE content.promote # NoCall
      <4>1. one = orphans \cup {content.promote} /\ p = 1
        BY <3>2
      <4> HIDE DEF one, p
      <4> QED BY <1>0, <4>1, OneMore
    <3> QED BY <3>1, <3>2
  <2> HIDE DEF one
  <2>3. /\ IsFiniteSet(two) /\ Cardinality(two) \in Nat
        /\ Cardinality(two) <= Cardinality(one) + r
    <3>1. CASE content.replay = NoCall
      <4>1. two = one /\ r = 0
        BY <3>1
      <4> QED BY <2>2, <4>1
    <3>2. CASE content.replay # NoCall
      <4>1. two = one \cup {content.replay} /\ r = 1
        BY <3>2
      <4> HIDE DEF two, r
      <4> QED BY <2>2, <4>1, OneMore
    <3> QED BY <3>1, <3>2
  <2>4. p \in 0..1 /\ r \in 0..1
    OBVIOUS
  <2> HIDE DEF two, p, r
  <2> QED BY <2>1, <2>2, <2>3, <2>4
<1>3. /\ p = Promoting(content) /\ p \in 0..1 /\ r \in 0..1 /\ Recording(content) \in 0..1
  BY Counts DEF Promoting
<1>4. /\ Len(replays) \in Nat /\ replays \in Seq(CaseId) /\ versions \in [Dataset -> Nat]
      /\ \A d \in Dataset : versions[d] \in Nat
  BY <1>0 DEF StoreRight
<1>5. /\ Content(content') /\ PromoteRight(content', shown', {})
      /\ ReplayRight(content', shown', replays) /\ ReviewRight(content', shown', {})
      /\ PagesRight(content') /\ Promoting(content') = 0 /\ Recording(content') = 0
  BY <1>0, <1>4, FreshContentRight
<1>6. PromoteRight(content', shown', consents) /\ ReviewRight(content', shown', findings)
  BY <1>5, MoreConsents, ReviewFrame DEF SameReview
<1> HIDE DEF p, r, left
<1> DEFINE w == ToWrite(content, orphans)
           v == ToWrite(content', orphans')
<1>7. w \in Nat /\ v \in Nat /\ v <= w + 1
  <2>1. /\ w = Cardinality(orphans) + Promoting(content) + Recording(content)
        /\ v = Cardinality(orphans') + 0 + 0
    BY <1>5 DEF ToWrite
  <2> HIDE DEF w, v
  <2> QED BY <1>2, <1>3, <2>1
<1>8. InBudget(content', orphans', versions, replays, moves')
  <2> DEFINE n == moves'
  <2>1. InBudget(content, orphans, versions, replays, moves) /\ w = ToWrite(content, orphans)
        /\ v = ToWrite(content', orphans')
    BY DEF CaseInv
  <2>2. n \in Nat /\ n = moves + 1
    BY <1>0
  <2> HIDE DEF w, v, n
  <2>3. \A k \in Nat : k + v <= k + w + (n - moves)
    BY <1>0, <1>7, <2>2
  <2>4. /\ \A d \in Dataset : versions[d] + v <= versions[d] + w + (n - moves)
        /\ Len(replays) + v <= Len(replays) + w + (n - moves)
    BY <1>4, <2>3
  <2>5. InBudget(content', orphans', versions, replays, n)
    BY <1>0, <1>4, <1>7, <2>1, <2>2, <2>4, BudgetKept
  <2> QED BY <2>5 DEF n
<1>9. /\ orphans' \subseteq Call /\ (\A o \in orphans : Consented(o, consents))'
      /\ moves' \in 0..MaxMoves /\ shown' \in CaseId \cup {Unset}
  BY <1>0, <1>1 DEF CaseInv, Consented
<1> QED BY <1>0, <1>2, <1>5, <1>6, <1>8, <1>9 DEF CaseInv, StoreRight
-----------------------------------------------------------------------------
(* Replaying                                                                   *)

\* A step of the replay that leaves the store and what the other parts keep.
LEMMA ReplayFormFrame ==
    ASSUME CaseInv, MaxMoves \in Nat, Quietly \/ ByReader, Content(content'),
           SamePromote(content, content'), SameReview(content, content'),
           SamePages(content, content'), ReplayRight(content', shown, replays),
           Recording(content') <= Recording(content) + (moves' - moves)
    PROVE  CaseInv'
<1>1. /\ UNCHANGED shown /\ Elsewhere /\ moves' \in {moves, moves + 1} /\ moves' <= MaxMoves
      /\ moves \in Nat /\ moves' \in Nat
  BY DEF CaseInv, Quietly, ByReader, Uses
<1>2. PromoteRight(content', shown, consents) /\ Promoting(content') = Promoting(content)
  BY PromoteFrame DEF CaseInv
<1>3. ReviewRight(content', shown, findings) /\ PagesRight(content')
  BY ReviewFrame, PagesFrame DEF CaseInv
<1>4. Promoting(content) \in 0..1 /\ Recording(content) \in 0..1 /\ Recording(content') \in 0..1
  BY Counts
<1>5. Promoting(content') + Recording(content')
        <= Promoting(content) + Recording(content) + (moves' - moves)
  BY <1>1, <1>2, <1>4
<1> QED BY <1>1, <1>2, <1>3, <1>5, ContentStep

ReplayForm ==
    \/ \E p \in Prompt : StartFromSaved(p)
    \/ \E t \in Text \cup {Unset} : ChangeText(t)
    \/ CommitReplay \/ ReplayAnswered \/ ReplayFails
    \/ \E n \in 0..Len(replays) : ReplaysArrive(n)
    \/ SelectReplay

LEMMA ReplayFormStep ==
    ASSUME CaseInv, CaseDrawerAssumption, ReplayForm
    PROVE  CaseInv'
<1> DEFINE Goal == /\ Quietly \/ ByReader
                   /\ Content(content') /\ SamePromote(content, content')
                   /\ SameReview(content, content') /\ SamePages(content, content')
                   /\ ReplayRight(content', shown, replays)
                   /\ Recording(content') <= Recording(content) + (moves' - moves)
<1> SUFFICES Goal
  BY ReplayFormFrame DEF CaseDrawerAssumption
<1>0. /\ Content(content) /\ ReplayRight(content, shown, replays) /\ moves \in Nat
      /\ replays \in Seq(CaseId) /\ Len(replays) \in Nat
  BY DEF CaseInv, StoreRight
<1>o. NoOutcome \in CallOutcome /\ NoOutcome.case = Unset /\ NoOutcome.ok = FALSE
  BY DEF NoOutcome, CallOutcome
<1>r. Recording(content) \in 0..1 /\ Recording(content') \in 0..1
  BY Counts
<1>q. ByReader => moves' = moves + 1
  BY DEF ByReader, Uses
<1> USE DEF Becomes
<1>1. ASSUME NEW p \in Prompt, StartFromSaved(p) PROVE Goal
  <2>1. content' = [content EXCEPT !.ref = p, !.text = p] /\ ByReader
    BY <1>1 DEF StartFromSaved
  <2>2. Content(content')
    BY <1>0, <2>1, FieldNames DEF Content, Whole, Typed
  <2>3. SamePromote(content, content') /\ SameReview(content, content') /\ SamePages(content, content')
    BY <1>0, <2>1, FieldNames DEF SamePromote, SameReview, SamePages, Content, Whole
  <2>4. ReplayRight(content', shown, replays)
    BY <1>0, <2>1, FieldNames DEF ReplayRight, Content, Whole
  <2> QED BY <1>0, <1>r, <1>q, <2>1, <2>2, <2>3, <2>4
<1>2. ASSUME NEW t \in Text \cup {Unset}, ChangeText(t) PROVE Goal
  <2>1. content' = [content EXCEPT !.text = t, !.ref = Unset] /\ ByReader
    BY <1>2 DEF ChangeText, TextChangedTo, EditedText
  <2>2. Content(content')
    BY <1>0, <2>1, FieldNames DEF Content, Whole, Typed
  <2>3. SamePromote(content, content') /\ SameReview(content, content') /\ SamePages(content, content')
    BY <1>0, <2>1, FieldNames DEF SamePromote, SameReview, SamePages, Content, Whole
  <2>4. ReplayRight(content', shown, replays)
    BY <1>0, <2>1, FieldNames DEF ReplayRight, Content, Whole
  <2> QED BY <1>0, <1>r, <1>q, <2>1, <2>2, <2>3, <2>4
<1>3. CASE CommitReplay
  <2> DEFINE call == [kind |-> "replay", case |-> shown, target |-> Unset, consent |-> FALSE,
                      recorded |-> 0,
                      prompt |-> IF content.ref # Unset THEN content.ref ELSE content.text]
  <2>1. /\ content' = [content EXCEPT !.replayed = NoOutcome, !.result = 0, !.replay = call]
        /\ ByReader /\ shown \in CaseId
    BY <1>3 DEF CommitReplay, ByReader, CaseInv
  <2>2. /\ call \in Call /\ call.kind = "replay" /\ call.case = shown /\ ~call.consent
        /\ call.recorded = 0
    <3>1. content.ref \in Prompt \cup {Unset} /\ content.text \in Prompt \cup Text \cup {Unset}
      BY <1>0 DEF Content, Typed
    <3>2. MaxMoves \in Nat
      BY DEF CaseDrawerAssumption
    <3> QED BY <2>1, <3>1, <3>2 DEF Call
  <2> HIDE DEF call
  <2>3. Content(content')
    BY <1>0, <1>o, <2>1, <2>2, FieldNames DEF Content, Whole, Typed
  <2>4. SamePromote(content, content') /\ SameReview(content, content') /\ SamePages(content, content')
    BY <1>0, <2>1, FieldNames DEF SamePromote, SameReview, SamePages, Content, Whole
  <2>5. /\ content'.replay = call /\ content'.replayed = NoOutcome /\ content'.result = 0
        /\ content'.history = content.history
        /\ content'.ref = content.ref /\ content'.text = content.text
    BY <1>0, <2>1, FieldNames DEF Content, Whole
  <2>6. ReplayRight(content', shown, replays)
    BY <1>0, <1>o, <2>2, <2>5 DEF ReplayRight
  <2> QED BY <1>0, <1>r, <1>q, <2>1, <2>3, <2>4, <2>6
<1>4. CASE ReplayAnswered
  <2> DEFINE n == content.replay.recorded
             h == <<n>> \o content.history
             done == [case |-> content.replay.case, ok |-> TRUE, made |-> Unset]
  <2>1. /\ content' = [content EXCEPT !.replay = NoCall, !.result = n, !.history = h,
                                      !.replayed = done]
        /\ Quietly /\ content.replay # NoCall /\ n # 0 /\ moves' = moves
    BY <1>4 DEF ReplayAnswered, Quietly
  <2>2. /\ n \in 1..Len(replays) /\ replays[n] = shown /\ content.replay.case = shown
        /\ content.replay \in Call
    BY <1>0, <2>1 DEF ReplayRight, Content, Typed
  <2>3. done \in CallOutcome /\ done.case = shown
    BY <2>2 DEF CallOutcome, Call
  <2>4. /\ h \in Seq(Nat) /\ \A i \in DOMAIN h : h[i] \in 1..Len(replays) /\ replays[h[i]] = shown
        /\ \E i \in DOMAIN h : h[i] = n
    <3> DEFINE old == content.history
    <3>1. old \in Seq(Nat) /\ \A i \in DOMAIN old : old[i] \in 1..Len(replays) /\ replays[old[i]] = shown
      BY <1>0 DEF Content, Typed, ReplayRight
    <3>2. n \in Nat
      BY <1>0, <2>2
    <3> HIDE DEF old, n
    <3>3. <<n>> \in Seq(Nat) /\ Len(<<n>>) = 1 /\ <<n>>[1] = n
      BY <3>2
    <3>4. /\ <<n>> \o old \in Seq(Nat) /\ Len(<<n>> \o old) = 1 + Len(old)
          /\ \A i \in 1..1 + Len(old) : (<<n>> \o old)[i] = IF i <= 1 THEN <<n>>[i] ELSE old[i - 1]
      BY <3>1, <3>3, ConcatProperties
    <3> DEFINE g == <<n>> \o old
    <3>5. /\ g \in Seq(Nat) /\ DOMAIN g = 1..1 + Len(old) /\ g[1] = n /\ Len(old) \in Nat
          /\ \A i \in 1..1 + Len(old) : i # 1 => g[i] = old[i - 1] /\ i - 1 \in DOMAIN old
      <4> HIDE DEF g
      <4>1. Len(old) \in Nat /\ DOMAIN old = 1..Len(old)
        BY <3>1
      <4>2. /\ g \in Seq(Nat) /\ Len(g) = 1 + Len(old)
            /\ \A i \in 1..1 + Len(old) : g[i] = IF i <= 1 THEN <<n>>[i] ELSE old[i - 1]
        BY <3>4 DEF g
      <4>3. DOMAIN g = 1..1 + Len(old)
        BY <4>2
      <4>4. 1 \in 1..1 + Len(old)
        BY <4>1
      <4>5. g[1] = n
        BY <3>3, <4>2, <4>4
      <4>6. \A i \in 1..1 + Len(old) : i # 1 => i - 1 \in 1..Len(old) /\ ~(i <= 1)
        BY <4>1
      <4> QED BY <4>1, <4>2, <4>3, <4>5, <4>6
    <3>6. g = h
      BY DEF g, old, n
    <3> HIDE DEF g
    <3>7. \A i \in DOMAIN g : g[i] \in 1..Len(replays) /\ replays[g[i]] = shown
      BY <2>2, <3>1, <3>5 DEF n
    <3>8. 1 \in DOMAIN g
      BY <3>5
    <3>9. g \in Seq(Nat) /\ (\E i \in DOMAIN g : g[i] = n)
      BY <3>5, <3>8
    <3> HIDE DEF h
    <3> QED BY <3>6, <3>7, <3>9
  <2> HIDE DEF n, h, done
  <2>5. Content(content')
    BY <1>0, <2>1, <2>3, <2>4, FieldNames DEF Content, Whole, Typed
  <2>6. SamePromote(content, content') /\ SameReview(content, content') /\ SamePages(content, content')
    BY <1>0, <2>1, FieldNames DEF SamePromote, SameReview, SamePages, Content, Whole
  <2>7. /\ content'.replay = NoCall /\ content'.replayed = done /\ content'.result = n
        /\ content'.history = h
        /\ content'.ref = content.ref /\ content'.text = content.text
    BY <1>0, <2>1, FieldNames DEF Content, Whole
  <2>8. n \in 0..Len(replays)
    BY <2>2, <1>0
  <2>9. ReplayRight(content', shown, replays)
    BY <1>0, <2>1, <2>3, <2>4, <2>7, <2>8 DEF ReplayRight
  <2>10. Recording(content') = 0
    BY <2>7 DEF Recording
  <2> QED BY <1>0, <1>r, <2>1, <2>5, <2>6, <2>9, <2>10
<1>5. CASE ReplayFails
  <2> DEFINE out == [case |-> content.replay.case, ok |-> FALSE, made |-> Unset]
  <2>1. /\ content' = [content EXCEPT !.replay = NoCall, !.replayed = out]
        /\ ByReader /\ content.replay # NoCall
    BY <1>5 DEF ReplayFails, Failure
  <2>2. out \in CallOutcome /\ out.case = shown /\ ~out.ok
    <3>1. content.replay.case = shown /\ content.replay \in Call
      BY <1>0, <2>1 DEF ReplayRight, Content, Typed
    <3> QED BY <3>1 DEF CallOutcome, Call
  <2> HIDE DEF out
  <2>3. Content(content')
    BY <1>0, <2>1, <2>2, FieldNames DEF Content, Whole, Typed
  <2>4. SamePromote(content, content') /\ SameReview(content, content') /\ SamePages(content, content')
    BY <1>0, <2>1, FieldNames DEF SamePromote, SameReview, SamePages, Content, Whole
  <2>5. /\ content'.replay = NoCall /\ content'.replayed = out
        /\ content'.result = content.result /\ content'.history = content.history
        /\ content'.ref = content.ref /\ content'.text = content.text
    BY <1>0, <2>1, FieldNames DEF Content, Whole
  <2>6. ReplayRight(content', shown, replays)
    BY <1>0, <2>2, <2>5 DEF ReplayRight
  <2> QED BY <1>0, <1>r, <1>q, <2>1, <2>3, <2>4, <2>6
<1>6. ASSUME NEW n \in 0..Len(replays), ReplaysArrive(n) PROVE Goal
  <2> DEFINE ids == ToSet(content.history) \cup OfCase(n, shown)
             h == NewestFirst(ids)
  <2>1. /\ content' = [content EXCEPT !.reading = "none", !.history = h]
        /\ Quietly /\ moves' = moves
    BY <1>6 DEF ReplaysArrive, HistoryAfter, Merged, Quietly
  <2>2. /\ ids \subseteq 1..Len(replays) /\ \A r \in ids : replays[r] = shown
        /\ \A i \in DOMAIN content.history : content.history[i] \in ids
    <3>1. \A i \in DOMAIN content.history :
            content.history[i] \in 1..Len(replays) /\ replays[content.history[i]] = shown
      BY <1>0 DEF ReplayRight
    <3>2. \A r \in 1..n : r \in 1..Len(replays)
      BY <1>0
    <3> QED BY <3>1, <3>2 DEF ToSet, OfCase
  <2> HIDE DEF ids
  <2>3. /\ h \in Seq(Nat) /\ \A i \in DOMAIN h : h[i] \in ids
        /\ \A r \in ids : \E i \in DOMAIN h : h[i] = r
    BY <1>0, <2>2, NewestFirstFacts
  <2> HIDE DEF h
  <2>4. Content(content')
    BY <1>0, <2>1, <2>3, FieldNames DEF Content, Whole, Typed
  <2>5. SamePromote(content, content') /\ SameReview(content, content') /\ SamePages(content, content')
    BY <1>0, <2>1, FieldNames DEF SamePromote, SameReview, SamePages, Content, Whole
  <2>6. /\ content'.replay = content.replay /\ content'.replayed = content.replayed
        /\ content'.result = content.result /\ content'.history = h
        /\ content'.ref = content.ref /\ content'.text = content.text
    BY <1>0, <2>1, FieldNames DEF Content, Whole
  <2>7. ReplayRight(content', shown, replays)
    <3>1. \A i \in DOMAIN h : h[i] \in 1..Len(replays) /\ replays[h[i]] = shown
      BY <2>2, <2>3
    <3>2. content.replayed.ok => content.result # 0 /\ content.result \in ids
      BY <1>0, <2>2 DEF ReplayRight
    <3>3. content.replayed.ok => content.result # 0 /\ \E i \in DOMAIN h : h[i] = content.result
      BY <2>3, <3>2
    <3> QED BY <1>0, <2>6, <3>1, <3>3 DEF ReplayRight
  <2>8. Recording(content') = Recording(content)
    BY <2>6 DEF Recording
  <2> QED BY <1>0, <1>r, <2>1, <2>4, <2>5, <2>7, <2>8
<1>7. CASE SelectReplay
  <2>1. PICK r \in ToSet(content.history) : content' = [content EXCEPT !.result = r]
    BY <1>7 DEF SelectReplay
  <2>2. ByReader
    BY <1>7 DEF SelectReplay
  <2>3. PICK i \in DOMAIN content.history : content.history[i] = r
    BY <2>1 DEF ToSet
  <2>4. r \in 1..Len(replays) /\ r # 0 /\ r \in 0..Len(replays)
    <3>1. r \in 1..Len(replays)
      BY <1>0, <2>3 DEF ReplayRight
    <3> QED BY <1>0, <3>1
  <2>5. Content(content')
    BY <1>0, <2>1, FieldNames DEF Content, Whole, Typed
  <2>6. SamePromote(content, content') /\ SameReview(content, content') /\ SamePages(content, content')
    BY <1>0, <2>1, FieldNames DEF SamePromote, SameReview, SamePages, Content, Whole
  <2>7. /\ content'.replay = content.replay /\ content'.replayed = content.replayed
        /\ content'.result = r /\ content'.history = content.history
        /\ content'.ref = content.ref /\ content'.text = content.text
    BY <1>0, <2>1, FieldNames DEF Content, Whole
  <2>8. ReplayRight(content', shown, replays)
    BY <1>0, <2>3, <2>4, <2>7 DEF ReplayRight
  <2> QED BY <1>0, <1>r, <1>q, <2>2, <2>5, <2>6, <2>8
<1> QED BY <1>1, <1>2, <1>3, <1>4, <1>5, <1>6, <1>7 DEF ReplayForm

\* The server records a replay.
LEMMA RecordedStep ==
    ASSUME CaseInv, CaseDrawerAssumption, ReplayRecorded
    PROVE  CaseInv'
<1> DEFINE call == content.replay
           n == Len(replays')
           next == [call EXCEPT !.recorded = n]
<1>0. /\ Content(content) /\ PromoteRight(content, shown, consents)
      /\ ReplayRight(content, shown, replays) /\ StoreRight /\ moves \in Nat /\ moves <= MaxMoves
      /\ IsFiniteSet(orphans) /\ MaxMoves \in Nat /\ call # NoCall /\ call.recorded = 0
      /\ Carried(call) /\ UNCHANGED <<shown, orphans, consents, moves>>
      /\ InBudget(content, orphans, versions, replays, moves)
  BY DEF CaseInv, ReplayRecorded, CaseDrawerAssumption
<1>1. /\ call \in Call /\ call.kind = "replay" /\ call.case = shown /\ ~call.consent
  BY <1>0 DEF Content, Typed, ReplayRight
<1>2. /\ StoreRight' /\ findings' = findings /\ Grown(replays, replays')
      /\ n = Len(replays) + 1 /\ replays'[Len(replays) + 1] = shown
  BY <1>0, <1>1, CarriedFacts, CarriedGrows
<1>3. Recording(content) = 1 /\ Promoting(content) \in 0..1 /\ Cardinality(orphans) \in Nat
  BY <1>0, Counts, FS_CardinalityType DEF Recording
<1>4. n \in 1..MaxMoves /\ n \in Nat /\ n # 0 /\ n \in 1..Len(replays')
  <2>1. Len(replays) \in Nat
    BY <1>0 DEF StoreRight
  <2>2. Len(replays) + (Cardinality(orphans) + Promoting(content) + Recording(content)) <= moves
    BY <1>0 DEF InBudget, ToWrite
  <2> HIDE DEF n
  <2>3. n \in Nat /\ 1 <= n /\ n <= MaxMoves
    BY <1>0, <1>2, <1>3, <2>1, <2>2
  <2> QED BY <2>3 DEF n
<1>5. /\ next \in Call /\ next.kind = "replay" /\ next.case = shown /\ ~next.consent
      /\ next.recorded = n
  <2> HIDE DEF n
  <2> QED BY <1>0, <1>1, <1>4 DEF Call
<1>6. content' = [content EXCEPT !.replay = next]
  BY DEF ReplayRecorded, Becomes
<1> HIDE DEF next
<1>7. Content(content')
  BY <1>0, <1>5, <1>6, FieldNames DEF Content, Whole, Typed
<1>8. SamePromote(content, content') /\ SameReview(content, content') /\ SamePages(content, content')
  BY <1>0, <1>6, FieldNames DEF SamePromote, SameReview, SamePages, Content, Whole
<1>9. /\ content'.replay = next /\ content'.replayed = content.replayed
      /\ content'.result = content.result /\ content'.history = content.history
      /\ content'.ref = content.ref /\ content'.text = content.text
  BY <1>0, <1>6, FieldNames DEF Content, Whole
<1>10. ReplayRight(content', shown, replays')
  <2>1. ReplayRight(content, shown, replays')
    BY <1>0, <1>2, MoreRecorded DEF StoreRight, Grown
  <2>2. n \in 1..Len(replays') /\ replays'[n] = shown
    BY <1>2, <1>4
  <2> HIDE DEF n
  <2> QED BY <1>5, <1>9, <2>1, <2>2 DEF ReplayRight
<1>11. /\ PromoteRight(content', shown, consents) /\ Promoting(content') = Promoting(content)
       /\ ReviewRight(content', shown, findings) /\ PagesRight(content')
  BY <1>8, PromoteFrame, ReviewFrame, PagesFrame DEF CaseInv
<1>12. Recording(content') = 0
  BY <1>4, <1>5, <1>9 DEF Recording
<1> DEFINE w == ToWrite(content, orphans)
           v == ToWrite(content', orphans')
<1>13. w \in Nat /\ v \in Nat /\ v + 1 <= w
  <2>1. /\ w = Cardinality(orphans) + Promoting(content) + 1
        /\ v = Cardinality(orphans) + Promoting(content) + 0
    BY <1>0, <1>3, <1>11, <1>12 DEF ToWrite
  <2> HIDE DEF w, v
  <2> QED BY <1>3, <2>1
<1>14. InBudget(content', orphans', versions', replays', moves')
  <2>1. w = ToWrite(content, orphans) /\ v = ToWrite(content', orphans') /\ v <= w
    <3>1. w \in Nat /\ v \in Nat /\ v + 1 <= w
      BY <1>13
    <3> HIDE DEF w, v
    <3>2. v <= w
      BY <3>1
    <3> QED BY <3>2 DEF w, v
  <2> QED BY <1>0, <1>1, <1>13, <2>1, CarriedBudget
<1>15. (\A o \in orphans : Consented(o, consents))' /\ moves' \in 0..MaxMoves
  BY <1>0 DEF CaseInv, Consented
<1> QED BY <1>0, <1>2, <1>7, <1>10, <1>11, <1>14, <1>15 DEF CaseInv
-----------------------------------------------------------------------------
(* The review of the case                                                      *)

\* A step of the review: what is known of the server's findings only grows.
LEMMA ReviewFormFrame ==
    ASSUME CaseInv, MaxMoves \in Nat, UNCHANGED <<shown, orphans, consents>>,
           UNCHANGED <<standing, records, versions, replays>>,
           findings \subseteq findings', findings' \subseteq CaseId,
           moves' \in {moves, moves + 1}, moves' <= MaxMoves, Content(content'),
           SamePromote(content, content'), SameReplay(content, content'),
           ReviewRight(content', shown, findings'), PagesRight(content')
    PROVE  CaseInv'
<1>1. moves \in Nat /\ moves' \in 0..MaxMoves /\ StoreRight /\ IsFiniteSet(orphans)
  BY DEF CaseInv
<1>2. PromoteRight(content', shown, consents) /\ Promoting(content') = Promoting(content)
  BY PromoteFrame DEF CaseInv
<1>3. ReplayRight(content', shown, replays) /\ Recording(content') = Recording(content)
  BY ReplayFrame DEF CaseInv
<1>4. InBudget(content', orphans, versions, replays, moves')
  <2> DEFINE w == ToWrite(content, orphans)
             n == moves'
  <2>1. InBudget(content, orphans, versions, replays, moves) /\ w \in Nat
        /\ w = ToWrite(content, orphans) /\ w = ToWrite(content', orphans)
    BY <1>1, <1>2, <1>3, ToWriteCounts DEF CaseInv, ToWrite
  <2>2. /\ n \in Nat /\ moves <= n /\ versions \in [Dataset -> Nat] /\ replays \in Seq(CaseId)
        /\ Len(replays) \in Nat /\ \A d \in Dataset : versions[d] \in Nat
    BY <1>1 DEF StoreRight
  <2> HIDE DEF w, n
  <2>3. \A k \in Nat : k + w <= k + w + (n - moves)
    BY <1>1, <2>1, <2>2
  <2>4. /\ \A y \in Dataset : versions[y] + w <= versions[y] + w + (n - moves)
        /\ Len(replays) + w <= Len(replays) + w + (n - moves)
    BY <2>2, <2>3
  <2>5. InBudget(content', orphans, versions, replays, n)
    BY <1>1, <2>1, <2>2, <2>4, BudgetKept
  <2> QED BY <2>5 DEF n
<1>5. StoreRight' /\ (\A o \in orphans : Consented(o, consents))'
  BY <1>1 DEF CaseInv, StoreRight, Consented
<1> QED BY <1>1, <1>2, <1>3, <1>4, <1>5 DEF CaseInv

ReviewForm ==
    \/ FindingsArrive \/ FindingsFail \/ SendToReview \/ ReviewOpened
    \/ \E before \in BOOLEAN : ReviewFails(before)
    \/ LoadPage \/ PageArrives \/ PageFails \/ Back

LEMMA ReviewFormStep ==
    ASSUME CaseInv, MaxMoves \in Nat, ReviewForm
    PROVE  CaseInv'
<1> DEFINE Goal == /\ UNCHANGED <<shown, orphans, consents>>
                   /\ UNCHANGED <<standing, records, versions, replays>>
                   /\ findings \subseteq findings' /\ findings' \subseteq CaseId
                   /\ moves' \in {moves, moves + 1} /\ moves' <= MaxMoves /\ Content(content')
                   /\ SamePromote(content, content') /\ SameReplay(content, content')
                   /\ ReviewRight(content', shown, findings') /\ PagesRight(content')
<1> SUFFICES Goal
  BY ReviewFormFrame
<1>0. /\ Content(content) /\ ReviewRight(content, shown, findings) /\ PagesRight(content)
      /\ moves \in Nat /\ moves <= MaxMoves /\ findings \subseteq CaseId
      /\ shown \in CaseId \cup {Unset}
  BY DEF CaseInv, StoreRight
<1>q. Quietly \/ ByReader =>
        /\ UNCHANGED <<shown, orphans, consents>> /\ UNCHANGED <<standing, records, versions, replays>>
        /\ findings' = findings /\ moves' \in {moves, moves + 1} /\ moves' <= MaxMoves
  BY <1>0 DEF Quietly, ByReader, Elsewhere, store, Uses
<1> USE DEF Becomes
<1>1. CASE FindingsArrive \/ FindingsFail
  <2>1. PICK f \in {"yes", "no"} : content' = [content EXCEPT !.queued = f]
                                   /\ (f = "yes" => shown \in findings)
    BY <1>1 DEF FindingsArrive, FindingsFail
  <2>2. Quietly \/ ByReader
    BY <1>1 DEF FindingsArrive, FindingsFail
  <2>3. Content(content')
    BY <1>0, <2>1, FieldNames DEF Content, Whole, Typed
  <2>4. SamePromote(content, content') /\ SameReplay(content, content') /\ SamePages(content, content')
    BY <1>0, <2>1, FieldNames DEF SamePromote, SameReplay, SamePages, Content, Whole
  <2>5. /\ content'.queued = f /\ content'.review = content.review /\ content'.sent = content.sent
    BY <1>0, <2>1, FieldNames DEF Content, Whole
  <2>6. ReviewRight(content', shown, findings) /\ PagesRight(content')
    BY <1>0, <2>1, <2>4, <2>5, PagesFrame DEF ReviewRight
  <2> QED BY <1>0, <1>q, <2>2, <2>3, <2>4, <2>6
<1>2. CASE SendToReview
  <2>1. content' = [content EXCEPT !.review = "sending", !.sent = shown] /\ ByReader
    BY <1>2 DEF SendToReview
  <2>3. Content(content')
    BY <1>0, <2>1, FieldNames DEF Content, Whole, Typed
  <2>4. SamePromote(content, content') /\ SameReplay(content, content') /\ SamePages(content, content')
    BY <1>0, <2>1, FieldNames DEF SamePromote, SameReplay, SamePages, Content, Whole
  <2>5. /\ content'.queued = content.queued /\ content'.review = "sending" /\ content'.sent = shown
    BY <1>0, <2>1, FieldNames DEF Content, Whole
  <2>6. ReviewRight(content', shown, findings) /\ PagesRight(content')
    BY <1>0, <2>1, <2>4, <2>5, PagesFrame DEF ReviewRight
  <2> QED BY <1>0, <1>q, <2>1, <2>3, <2>4, <2>6
<1>3. CASE ReviewOpened
  <2>1. /\ content' = [content EXCEPT !.review = "queued"] /\ findings' = findings \cup {content.sent}
        /\ UNCHANGED <<shown, orphans, consents, moves, standing, records, versions, replays>>
        /\ shown # Unset /\ content.review = "sending"
    BY <1>3 DEF ReviewOpened, OnCase
  <2>2. content.sent = shown /\ shown \in CaseId
    BY <1>0, <2>1 DEF ReviewRight
  <2>3. Content(content')
    BY <1>0, <2>1, FieldNames DEF Content, Whole, Typed
  <2>4. SamePromote(content, content') /\ SameReplay(content, content') /\ SamePages(content, content')
    BY <1>0, <2>1, FieldNames DEF SamePromote, SameReplay, SamePages, Content, Whole
  <2>5. content'.queued = content.queued /\ content'.review = "queued" /\ content'.sent = content.sent
    BY <1>0, <2>1, FieldNames DEF Content, Whole
  <2>6. ReviewRight(content', shown, findings') /\ PagesRight(content')
    BY <1>0, <2>1, <2>2, <2>4, <2>5, PagesFrame DEF ReviewRight
  <2> QED BY <1>0, <2>1, <2>2, <2>3, <2>4, <2>6
<1>4. ASSUME NEW before \in BOOLEAN, ReviewFails(before) PROVE Goal
  <2>1. /\ content' = [content EXCEPT !.review = "failed"]
        /\ findings' = findings \/ findings' = findings \cup {content.sent}
        /\ UNCHANGED <<shown, orphans, consents, standing, records, versions, replays>>
        /\ moves' = moves + 1 /\ moves < MaxMoves
        /\ shown # Unset /\ content.review = "sending"
    BY <1>4 DEF ReviewFails, OnCase, Uses
  <2>2. content.sent = shown /\ shown \in CaseId
    BY <1>0, <2>1 DEF ReviewRight
  <2>3. Content(content')
    BY <1>0, <2>1, FieldNames DEF Content, Whole, Typed
  <2>4. SamePromote(content, content') /\ SameReplay(content, content') /\ SamePages(content, content')
    BY <1>0, <2>1, FieldNames DEF SamePromote, SameReplay, SamePages, Content, Whole
  <2>5. content'.queued = content.queued /\ content'.review = "failed" /\ content'.sent = content.sent
    BY <1>0, <2>1, FieldNames DEF Content, Whole
  <2>6. ReviewRight(content', shown, findings') /\ PagesRight(content')
    BY <1>0, <2>1, <2>2, <2>4, <2>5, PagesFrame DEF ReviewRight
  <2>7. findings \subseteq findings' /\ findings' \subseteq CaseId /\ moves' <= MaxMoves
    BY <1>0, <2>1, <2>2
  <2> QED BY <2>1, <2>3, <2>4, <2>6, <2>7
<1>5. CASE LoadPage
  <2> DEFINE r == Append(content.reads, Len(content.pages) + 1)
  <2>1. content' = [content EXCEPT !.reads = r] /\ ByReader /\ content.reads = <<>>
    BY <1>5 DEF LoadPage, MayLoadPage, MayReadPage, NextOffset
  <2>2. r = <<Len(content.pages) + 1>> /\ r \in Seq(Nat)
    <3>1. Len(content.pages) + 1 \in Nat
      BY <1>0 DEF Content, Typed
    <3> QED BY <2>1, <3>1
  <2> HIDE DEF r
  <2>3. Content(content')
    BY <1>0, <2>1, <2>2, FieldNames DEF Content, Whole, Typed
  <2>4. SamePromote(content, content') /\ SameReplay(content, content') /\ SameReview(content, content')
    BY <1>0, <2>1, FieldNames DEF SamePromote, SameReplay, SameReview, Content, Whole
  <2>5. content'.pages = content.pages /\ content'.reads = r
    BY <1>0, <2>1, FieldNames DEF Content, Whole
  <2>6. PagesRight(content') /\ ReviewRight(content', shown, findings)
    BY <1>0, <2>2, <2>4, <2>5, ReviewFrame DEF PagesRight
  <2> QED BY <1>0, <1>q, <2>1, <2>3, <2>4, <2>6
<1>6. CASE PageArrives
  <2> DEFINE r == Tail(content.reads)
             p == Append(content.pages, Head(content.reads))
             n == Len(content.pages)
  <2>1. content' = [content EXCEPT !.reads = r, !.pages = p] /\ Quietly /\ content.reads # <<>>
    BY <1>6 DEF PageArrives
  <2>2. /\ content.pages \in Seq(Nat) /\ n \in Nat /\ content.reads = <<n + 1>>
        /\ \A i \in DOMAIN content.pages : content.pages[i] = i
    BY <1>0, <2>1 DEF Content, Typed, PagesRight
  <2>3. r = <<>> /\ r \in Seq(Nat) /\ Head(content.reads) = n + 1
    BY <2>2
  <2>4. /\ p \in Seq(Nat) /\ \A i \in DOMAIN p : p[i] = i
    <3>1. p = Append(content.pages, n + 1)
      BY <2>3
    <3>2. /\ p \in Seq(Nat) /\ Len(p) = n + 1 /\ p[n + 1] = n + 1
          /\ \A i \in 1..n : p[i] = content.pages[i]
      BY <2>2, <3>1, AppendProperties
    <3>3. DOMAIN content.pages = 1..n /\ DOMAIN p = 1..n + 1
      BY <2>2, <3>2
    <3> HIDE DEF p, n
    <3>4. n \in Nat /\ \A i \in 1..n + 1 : i \in 1..n \/ i = n + 1
      BY <2>2
    <3> QED BY <2>2, <3>2, <3>3, <3>4
  <2> HIDE DEF r, p
  <2>5. Content(content')
    BY <1>0, <2>1, <2>3, <2>4, FieldNames DEF Content, Whole, Typed
  <2>6. SamePromote(content, content') /\ SameReplay(content, content') /\ SameReview(content, content')
    BY <1>0, <2>1, FieldNames DEF SamePromote, SameReplay, SameReview, Content, Whole
  <2>7. content'.pages = p /\ content'.reads = r
    BY <1>0, <2>1, FieldNames DEF Content, Whole
  <2>8. PagesRight(content') /\ ReviewRight(content', shown, findings)
    BY <1>0, <2>3, <2>4, <2>6, <2>7, ReviewFrame DEF PagesRight
  <2> QED BY <1>0, <1>q, <2>1, <2>5, <2>6, <2>8
<1>7. CASE PageFails
  <2> DEFINE r == Tail(content.reads)
  <2>1. content' = [content EXCEPT !.reads = r] /\ ByReader /\ content.reads # <<>>
    BY <1>7 DEF PageFails
  <2>2. r = <<>> /\ r \in Seq(Nat)
    <3>1. content.pages \in Seq(Nat) /\ content.reads = <<Len(content.pages) + 1>>
      BY <1>0, <2>1 DEF Content, Typed, PagesRight
    <3> QED BY <3>1
  <2> HIDE DEF r
  <2>3. Content(content')
    BY <1>0, <2>1, <2>2, FieldNames DEF Content, Whole, Typed
  <2>4. SamePromote(content, content') /\ SameReplay(content, content') /\ SameReview(content, content')
    BY <1>0, <2>1, FieldNames DEF SamePromote, SameReplay, SameReview, Content, Whole
  <2>5. content'.pages = content.pages /\ content'.reads = r
    BY <1>0, <2>1, FieldNames DEF Content, Whole
  <2>6. PagesRight(content') /\ ReviewRight(content', shown, findings)
    BY <1>0, <2>2, <2>4, <2>5, ReviewFrame DEF PagesRight
  <2> QED BY <1>0, <1>q, <2>1, <2>3, <2>4, <2>6
<1>8. CASE Back
  <2>1. content' = [content EXCEPT !.panel = "case", !.agreement = "loading", !.queued = "loading",
                                   !.review = "idle", !.sent = Unset, !.trace = "closed",
                                   !.pages = <<>>, !.reads = <<>>]
        /\ ByReader
    BY <1>8 DEF Back
  <2>2. <<>> \in Seq(Nat)
    OBVIOUS
  <2>3. Content(content')
    BY <1>0, <2>1, <2>2, FieldNames DEF Content, Whole, Typed
  <2>4. SamePromote(content, content') /\ SameReplay(content, content')
    BY <1>0, <2>1, FieldNames DEF SamePromote, SameReplay, Content, Whole
  <2>5. /\ content'.queued = "loading" /\ content'.review = "idle" /\ content'.sent = Unset
        /\ content'.pages = <<>> /\ content'.reads = <<>>
    BY <1>0, <2>1, FieldNames DEF Content, Whole
  <2>6. DOMAIN content'.pages = {}
    BY <2>5
  <2>7. PagesRight(content') /\ ReviewRight(content', shown, findings)
    BY <2>5, <2>6 DEF PagesRight, ReviewRight
  <2> QED BY <1>0, <1>q, <2>1, <2>3, <2>4, <2>7
<1> QED BY <1>1, <1>2, <1>3, <1>4, <1>5, <1>6, <1>7, <1>8 DEF ReviewForm

\* Somebody else moves a dataset on.
LEMMA OthersStep ==
    ASSUME CaseInv, MaxMoves \in Nat, NEW d \in Dataset, OthersMove(d)
    PROVE  CaseInv'
<1>1. /\ StoreRight /\ moves \in Nat /\ moves' = moves + 1 /\ moves' <= MaxMoves
      /\ UNCHANGED <<shown, content, orphans, records, versions, replays, findings, consents>>
      /\ standing' = [standing EXCEPT ![d] = IF @ = "DRAFT" THEN "PUBLISHED" ELSE "RETIRED"]
      /\ IsFiniteSet(orphans)
  BY DEF CaseInv, OthersMove, Uses
<1>2. StoreRight'
  BY <1>1 DEF StoreRight, DatasetStatus
<1>3. InBudget(content, orphans, versions, replays, moves')
  <2> DEFINE w == ToWrite(content, orphans)
             n == moves'
  <2>1. InBudget(content, orphans, versions, replays, moves) /\ w \in Nat
        /\ w = ToWrite(content, orphans)
    BY <1>1, ToWriteCounts DEF CaseInv
  <2>2. /\ n \in Nat /\ moves <= n /\ versions \in [Dataset -> Nat] /\ replays \in Seq(CaseId)
        /\ Len(replays) \in Nat /\ \A x \in Dataset : versions[x] \in Nat
    BY <1>1 DEF StoreRight
  <2> HIDE DEF w, n
  <2>3. \A k \in Nat : k + w <= k + w + (n - moves)
    BY <1>1, <2>1, <2>2
  <2>4. /\ \A y \in Dataset : versions[y] + w <= versions[y] + w + (n - moves)
        /\ Len(replays) + w <= Len(replays) + w + (n - moves)
    BY <2>2, <2>3
  <2>5. InBudget(content, orphans, versions, replays, n)
    BY <1>1, <2>1, <2>2, <2>4, BudgetKept
  <2> QED BY <2>5 DEF n
<1>4. moves' \in 0..MaxMoves
  BY <1>1
<1> QED BY <1>1, <1>2, <1>3, <1>4 DEF CaseInv, InBudget, ToWrite, Consented

\* The reader agrees to a copy, or takes that back.
LEMMA ToggleStep ==
    ASSUME CaseInv, MaxMoves \in Nat, ToggleCreateVersion
    PROVE  CaseInv'
<1> DEFINE yes == ~content.createVersion
           ag == consents'
<1>0. /\ Content(content) /\ PromoteRight(content, shown, consents) /\ StoreRight
      /\ moves \in Nat /\ moves' = moves + 1 /\ moves' <= MaxMoves /\ IsFiniteSet(orphans)
      /\ UNCHANGED <<shown, orphans>> /\ UNCHANGED <<standing, records, versions, replays, findings>>
      /\ shown \in CaseId /\ content.mode = "existing" /\ content.selected \in Dataset
      /\ content.promote = NoCall
      /\ content' = [content EXCEPT !.createVersion = yes]
      /\ ag = IF content.createVersion THEN consents ELSE consents \cup {<<shown, content.selected>>}
  BY DEF CaseInv, ToggleCreateVersion, Uses, Immutable, Chosen, Selectable, Editable, store, Becomes
<1>1. content.createVersion \in BOOLEAN /\ yes \in BOOLEAN
  BY <1>0 DEF Content, Typed
<1>2. /\ consents \subseteq ag /\ ag \subseteq CaseId \X Dataset
      /\ yes => <<shown, content.selected>> \in ag
  BY <1>0, <1>1 DEF CaseInv
<1> HIDE DEF yes, ag
<1>3. Content(content')
  BY <1>0, <1>1, FieldNames DEF Content, Whole, Typed
<1>4. SameReplay(content, content') /\ SameReview(content, content') /\ SamePages(content, content')
  BY <1>0, FieldNames DEF SameReplay, SameReview, SamePages, Content, Whole
<1>5. /\ content'.promote = content.promote /\ content'.promoted = content.promoted
      /\ content'.created = content.created /\ content'.createVersion = yes
      /\ content'.mode = content.mode /\ content'.selected = content.selected
  BY <1>0, FieldNames DEF Content, Whole
<1>6. PromoteRight(content', shown, ag)
  BY <1>0, <1>2, <1>5 DEF PromoteRight
<1>7. Promoting(content') = Promoting(content)
  BY <1>5 DEF Promoting
<1>8. /\ ReplayRight(content', shown, replays) /\ Recording(content') = Recording(content)
      /\ ReviewRight(content', shown, findings) /\ PagesRight(content')
  BY <1>4, ReplayFrame, ReviewFrame, PagesFrame DEF CaseInv
<1>9. \A o \in orphans : Consented(o, ag)
  BY <1>2 DEF CaseInv, Consented
<1>10. InBudget(content', orphans, versions, replays, moves')
  <2> DEFINE w == ToWrite(content, orphans)
             n == moves'
  <2>1. InBudget(content, orphans, versions, replays, moves) /\ w \in Nat
        /\ w = ToWrite(content, orphans) /\ w = ToWrite(content', orphans)
    BY <1>0, <1>7, <1>8, ToWriteCounts DEF CaseInv, ToWrite
  <2>2. /\ n \in Nat /\ moves <= n /\ versions \in [Dataset -> Nat] /\ replays \in Seq(CaseId)
        /\ Len(replays) \in Nat /\ \A x \in Dataset : versions[x] \in Nat
    BY <1>0 DEF StoreRight
  <2> HIDE DEF w, n
  <2>3. \A k \in Nat : k + w <= k + w + (n - moves)
    BY <1>0, <2>1, <2>2
  <2>4. /\ \A y \in Dataset : versions[y] + w <= versions[y] + w + (n - moves)
        /\ Len(replays) + w <= Len(replays) + w + (n - moves)
    BY <2>2, <2>3
  <2>5. InBudget(content', orphans, versions, replays, n)
    BY <1>0, <2>1, <2>2, <2>4, BudgetKept
  <2> QED BY <2>5 DEF n
<1>11. moves' \in 0..MaxMoves /\ StoreRight'
  BY <1>0 DEF StoreRight
<1>12. UNCHANGED <<shown, orphans, replays, findings, versions>> /\ orphans \subseteq Call
       /\ shown' \in CaseId \cup {Unset} /\ IsFiniteSet(orphans)
  BY <1>0 DEF CaseInv
<1> QED BY <1>2, <1>3, <1>6, <1>8, <1>9, <1>10, <1>11, <1>12 DEF CaseInv, ag
-----------------------------------------------------------------------------
(* The drawer of a case: what is proved                                        *)

LEMMA CaseInvInit ==
    ASSUME CaseDrawerAssumption, CaseDrawerInit PROVE CaseInv
<1>1. /\ shown \in CaseId /\ content = FreshContent /\ orphans = {} /\ replays = <<>> /\ findings = {}
      /\ consents = {} /\ moves = 0 /\ MaxMoves \in Nat /\ Cardinality(orphans) = 0
      /\ versions = [d \in Dataset |-> 0] /\ Len(replays) = 0
  BY FS_EmptySet DEF CaseDrawerInit, CaseDrawerAssumption
<1>2. /\ Content(content) /\ PromoteRight(content, shown, consents)
      /\ ReplayRight(content, shown, replays) /\ ReviewRight(content, shown, findings)
      /\ PagesRight(content) /\ Promoting(content) = 0 /\ Recording(content) = 0
  BY <1>1, FreshContentRight
<1>3. StoreRight
  BY <1>1 DEF StoreRight, CaseDrawerInit, DatasetStatus
<1>4. InBudget(content, orphans, versions, replays, moves)
  <2>1. ToWrite(content, orphans) = 0
    BY <1>1, <1>2 DEF ToWrite
  <2> QED BY <1>1, <2>1 DEF InBudget
<1>5. IsFiniteSet(orphans) /\ moves \in 0..MaxMoves
  BY <1>1, FS_EmptySet
<1> QED BY <1>1, <1>2, <1>3, <1>4, <1>5 DEF CaseInv

LEMMA CaseInvStep ==
    ASSUME CaseInv, CaseDrawerAssumption, CaseDrawerNext
    PROVE  CaseInv'
<1>0. MaxMoves \in Nat
  BY DEF CaseDrawerAssumption
<1>1. ASSUME NEW c \in CaseId \cup {Unset}, Show(c) PROVE CaseInv'
  BY <1>1, ShowStep
<1>2. CASE Aside
  BY <1>0, <1>2, AsideStep
<1>3. CASE PromoteForm
  BY <1>0, <1>3, PromoteFormStep
<1>4. CASE PromoteAnswered \/ \E before \in BOOLEAN : PromoteFails(before)
  BY <1>0, <1>4, PromoteCallStep
<1>5. ASSUME NEW call \in orphans, OrphanEnds(call) PROVE CaseInv'
  BY <1>0, <1>5, OrphanStep
<1>6. ASSUME NEW d \in Dataset, OthersMove(d) PROVE CaseInv'
  BY <1>0, <1>6, OthersStep
<1>7. CASE ToggleCreateVersion
  BY <1>0, <1>7, ToggleStep
<1>8. CASE ReplayForm
  BY <1>8, ReplayFormStep
<1>9. CASE ReplayRecorded
  BY <1>9, RecordedStep
<1>10. CASE ReviewForm
  BY <1>0, <1>10, ReviewFormStep
<1>11. CASE PromoteNext
  BY <1>11, <1>2, <1>3, <1>4, <1>5, <1>6, <1>7 DEF PromoteNext, Aside, PromoteForm
<1>12. CASE ReplayNext
  BY <1>12, <1>2, <1>8, <1>9 DEF ReplayNext, Aside, ReplayForm
<1>13. CASE CaseReviewNext
  BY <1>13, <1>2, <1>10 DEF CaseReviewNext, Aside, ReviewForm
<1>14. CASE ConfigArrives \/ ConfigFails \/ RetryConfig \/ Back
  BY <1>14, <1>2, <1>10 DEF Aside, ReviewForm
<1> QED BY <1>1, <1>11, <1>12, <1>13, <1>14 DEF CaseDrawerNext

LEMMA CaseInvStays ==
    ASSUME CaseDrawerAssumption, CaseInv, [CaseDrawerNext]_caseDrawerVars PROVE CaseInv'
<1>1. CASE CaseDrawerNext
  BY <1>1, CaseInvStep
<1>2. CASE UNCHANGED caseDrawerVars
  <2>1. UNCHANGED <<shown, content, orphans, standing, records, versions, replays, findings,
                    consents, moves>>
    BY <1>2 DEF caseDrawerVars
  <2>2. StoreRight' /\ (\A call \in orphans : Consented(call, consents))'
    BY <2>1 DEF CaseInv, StoreRight, Consented
  <2>3. /\ Content(content') /\ PromoteRight(content', shown', consents')
        /\ ReplayRight(content', shown', replays') /\ ReviewRight(content', shown', findings')
        /\ PagesRight(content') /\ InBudget(content', orphans', versions', replays', moves')
    BY <2>1, Zenon DEF CaseInv
  <2> QED BY <2>1, <2>2, <2>3 DEF CaseInv
<1> QED BY <1>1, <1>2

\* What the drawer keeps of a case is of that case, in every reachable state.
THEOREM CaseInvariance ==
    ASSUME CaseDrawerAssumption PROVE CaseDrawerSpec => []CaseInv
BY CaseInvInit, CaseInvStays, PTL DEF CaseDrawerSpec

\* Type correctness: the calls, what is shown of them, the lists of replays and the
\* server's data have their types, and no more is written than the bound allows.
THEOREM CaseTypesCorrect ==
    ASSUME CaseDrawerAssumption PROVE CaseDrawerSpec => []CaseDrawerTypeOK
<1>1. CaseInv => CaseDrawerTypeOK
  <2> SUFFICES ASSUME CaseInv PROVE CaseDrawerTypeOK
    OBVIOUS
  <2>1. /\ Content(content) /\ StoreRight /\ ReplayRight(content, shown, replays)
        /\ MaxMoves \in Nat /\ moves \in 0..MaxMoves /\ IsFiniteSet(orphans)
    BY DEF CaseInv, CaseDrawerAssumption
  <2>2. versions \in [Dataset -> 0..MaxMoves]
    <3>1. \A d \in Dataset : versions[d] \in Nat /\ versions[d] + ToWrite(content, orphans) <= moves
      BY <2>1 DEF CaseInv, InBudget, StoreRight
    <3>2. ToWrite(content, orphans) \in Nat
      BY <2>1, ToWriteCounts
    <3>3. ASSUME NEW d \in Dataset PROVE versions[d] \in 0..MaxMoves
      BY <2>1, <3>1, <3>2
    <3> QED BY <2>1, <3>3 DEF StoreRight
  <2>3. ToSet(content.history) \cup ({content.result} \ {0}) \subseteq DOMAIN replays
    <3>1. DOMAIN replays = 1..Len(replays) /\ Len(replays) \in Nat
      BY <2>1 DEF StoreRight
    <3>2. ToSet(content.history) \subseteq 1..Len(replays)
      BY <2>1 DEF ReplayRight, ToSet
    <3>3. content.result \in 0..Len(replays)
      BY <2>1 DEF ReplayRight
    <3> QED BY <3>1, <3>2, <3>3
  <2>4. /\ content.panel \in {"case", "promote", "replay"}
        /\ content.config \in {"loading", "ready", "failed"}
        /\ content.promote \in Call \cup {NoCall} /\ content.replay \in Call \cup {NoCall}
        /\ content.promoted \in CallOutcome /\ content.replayed \in CallOutcome
    BY <2>1 DEF Content, Typed
  <2>5. /\ shown \in CaseId \cup {Unset} /\ orphans \subseteq Call
        /\ standing \in [Dataset -> DatasetStatus] /\ records \in [Dataset -> SUBSET CaseId]
        /\ replays \in Seq(CaseId) /\ findings \subseteq CaseId
        /\ consents \subseteq CaseId \X Dataset /\ moves \in 0..MaxMoves
    BY DEF CaseInv, StoreRight
  <2> QED BY <2>2, <2>3, <2>4, <2>5 DEF CaseDrawerTypeOK
<1> QED BY <1>1, CaseInvariance, PTL

\* What the drawer shows is of the case it shows; copies were agreed to for their case and
\* their dataset; a dataset left empty is named; an answered replay is listed; an edited
\* prompt claims no version; what is shown as under review is; pages are in order.
THEOREM CaseDrawersAreTrue ==
    ASSUME CaseDrawerAssumption PROVE CaseDrawerSpec => []CaseDrawerIsTrue
<1>1. CaseInv => CaseDrawerIsTrue
  <2> SUFFICES ASSUME CaseInv PROVE CaseDrawerIsTrue
    OBVIOUS
  <2>1. /\ Content(content) /\ PromoteRight(content, shown, consents)
        /\ ReplayRight(content, shown, replays) /\ ReviewRight(content, shown, findings)
        /\ PagesRight(content) /\ \A call \in orphans : Consented(call, consents)
    BY DEF CaseInv
  <2>2. \A r \in ToSet(content.history) : replays[r] = shown
    BY <2>1 DEF ReplayRight, ToSet
  <2>3. OutcomesAreOfTheCase
    BY <2>1, <2>2 DEF OutcomesAreOfTheCase, PromoteRight, ReplayRight, ReviewRight
  <2>4. CopiesWereAgreedTo
    <3>1. content.promote # NoCall => Consented(content.promote, consents)
      BY <2>1 DEF PromoteRight
    <3>2. content.replay # NoCall => ~content.replay.consent
      BY <2>1 DEF ReplayRight
    <3> QED BY <2>1, <3>1, <3>2 DEF CopiesWereAgreedTo, CallsUnderWay, Consented
  <2>5. EmptyDatasetIsNamed
    BY <2>1 DEF EmptyDatasetIsNamed, PromoteRight
  <2>6. AnsweredReplayIsListed
    BY <2>1 DEF AnsweredReplayIsListed, ReplayRight, ToSet
  <2>7. EditedPromptHasNoVersion /\ QueuedIsUnderReview /\ PagesInOrder
    BY <2>1 DEF EditedPromptHasNoVersion, QueuedIsUnderReview, Queued, PagesInOrder, ReplayRight,
                ReviewRight, PagesRight
  <2> QED BY <2>3, <2>4, <2>5, <2>6, <2>7 DEF CaseDrawerIsTrue
<1> QED BY <1>1, CaseInvariance, PTL

=============================================================================
