--------------------------- MODULE GovernanceProofs ---------------------------
(* Proofs about the catalogue of governance records, for any profiles, policies  *)
(* and assignments, and any number of requests and of loads.  The catalogue       *)
(* shows the page's own work in spite of loads that overlap it, an action that    *)
(* is pending is one under way, and nothing untested is approved, unless by a     *)
(* request that wrote over a row it had not read.                                 *)
(* Proofs about the list of the traces tab, for any traces, queries and size of a *)
(* page: of the reads under way one is wanted, and it goes on where the list ends; *)
(* so the list keeps to its filters, is newest first and has no gaps.             *)
(* Proofs about the first values of the evaluation form, for any catalogues and   *)
(* any number of visits and runs: a rerun is its source's, what is remembered of  *)
(* a run is its form, and a prepared evaluation leaves the draft alone.           *)
EXTENDS Governance, TraceLists, RunPrefill, FiniteSetTheorems, SequenceTheorems,
        WellFoundedInduction, TLAPS

CallState == [id : Nat, rec : Record, act : Action, page : BOOLEAN,
              step : {"asked", "read", "written", "refused", "reload"},
              seen : 0..MaxCalls, gen : Nat]
LoadState == [gen : Nat, background : BOOLEAN,
              read : {Nothing} \cup [Record -> RecordView], missing : SUBSET Kind]
CatalogueState == [shown : [Record -> RecordView], loading : BOOLEAN, generation : Nat,
                   missing : SUBSET Kind, error : BOOLEAN]
DialogState == [drawer : MaybeRecord, retire : MaybeRecord, test : MaybeRecord,
                override : MaybeRecord, create : MaybeRecord]

-----------------------------------------------------------------------------
(* The inductive invariant *)

\* The requests that may still write.
Undecided(requests) == {c \in requests : c.step \in {"asked", "read"}}
Reading == {c \in calls : c.step = "read"}

\* The shape of the state, and what bounds a revision: each write was a request.
GovernanceShape ==
    /\ records \in [Record -> RecordView] /\ own \in [Record -> 0..MaxCalls]
    /\ overlooked \subseteq Record /\ asked \in 0..MaxCalls
    /\ calls \subseteq CallState /\ IsFiniteSet(calls)
    /\ catalogue \in CatalogueState
    /\ loads \subseteq LoadState /\ \A l \in loads : l.gen \in 1..catalogue.generation
    /\ pending \in {Nothing} \cup (Record \X Action)
    /\ dialogs \in DialogState
    /\ \A r \in Record : records[r].rev + Cardinality(Undecided(calls)) <= asked

\* The loads that may still change what is shown.
Counting(l) == l.gen = catalogue.generation
\* What a load has read, or what is shown, has what the page wrote of a record.
HasOwn(missing, snapshot, r) == KindOf(r) \in missing \/ snapshot[r].rev >= own[r]
ReloadDue(r) == \E c \in calls : c.page /\ c.step = "written" /\ c.rec = r
WillBeShown(r) ==
    /\ \A l \in loads : Counting(l) /\ l.read # Nothing => HasOwn(l.missing, l.read, r)
    /\ \/ \E l \in loads : Counting(l)
       \/ catalogue.error
       \/ HasOwn(catalogue.missing, catalogue.shown, r)

\* Own work is in the database, and on the screen unless a reload is due.
OwnWork ==
    /\ \A r \in Record : own[r] <= records[r].rev
    /\ \A r \in Record : ReloadDue(r) \/ WillBeShown(r)

\* Each reload waits for a load of its own, and an action that is pending is
\* one under way; creating is never pending, the create dialog says so itself.
Pendings ==
    /\ PendingHasACall
    /\ pending # Nothing => pending[2] # "create"
    /\ \A c \in calls : c.step = "reload" => c.gen <= catalogue.generation
    /\ \A c, d \in calls : c.step = "reload" /\ d.step = "reload" /\ c.gen = d.gen => c = d

\* A request between its read and its write is still legal if nobody has written
\* since: revisions only grow, so the same revision is the same row.
DecidedOnRead ==
    /\ \A c \in Reading :
         /\ c.seen <= records[c.rec].rev
         /\ c.seen = records[c.rec].rev => Legal(c.rec, c.act, records[c.rec])
    /\ ApprovedWasTested

GovernanceInv == GovernanceShape /\ OwnWork /\ Pendings

-----------------------------------------------------------------------------
(* Counting requests *)

\* A request more adds at most one that is undecided.
LEMMA OneMoreAsked ==
    ASSUME NEW S, IsFiniteSet(S), NEW c
    PROVE  /\ IsFiniteSet(S \cup {c})
           /\ Cardinality(Undecided(S)) \in Nat /\ Cardinality(Undecided(S \cup {c})) \in Nat
           /\ Cardinality(Undecided(S \cup {c})) <= Cardinality(Undecided(S)) + 1
<1>1. IsFiniteSet(S \cup {c})
  BY FS_AddElement
<1>2. IsFiniteSet(Undecided(S)) /\ Cardinality(Undecided(S)) \in Nat
  BY FS_Subset, FS_CardinalityType DEF Undecided
<1>3. IsFiniteSet(Undecided(S) \cup {c})
      /\ Cardinality(Undecided(S) \cup {c}) <= Cardinality(Undecided(S)) + 1
  <2>1. /\ IsFiniteSet(Undecided(S) \cup {c})
        /\ Cardinality(Undecided(S) \cup {c}) =
             IF c \in Undecided(S) THEN Cardinality(Undecided(S)) ELSE Cardinality(Undecided(S)) + 1
    BY <1>2, FS_AddElement, Zenon
  <2> QED BY <1>2, <2>1
<1>4. Undecided(S \cup {c}) \in SUBSET (Undecided(S) \cup {c})
  BY DEF Undecided
<1>5. /\ IsFiniteSet(Undecided(S \cup {c}))
      /\ Cardinality(Undecided(S \cup {c})) <= Cardinality(Undecided(S) \cup {c})
  BY <1>3, <1>4, FS_Subset
<1>6. Cardinality(Undecided(S \cup {c})) \in Nat /\ Cardinality(Undecided(S) \cup {c}) \in Nat
  BY <1>3, <1>5, FS_CardinalityType
<1> QED BY <1>1, <1>2, <1>3, <1>5, <1>6

\* Fewer requests, with at most decided ones in the place of others, have no more
\* that are undecided.
LEMMA NoneMoreAsked ==
    ASSUME NEW S, IsFiniteSet(S), NEW T, IsFiniteSet(T), Undecided(T) \subseteq Undecided(S)
    PROVE  /\ Cardinality(Undecided(S)) \in Nat /\ Cardinality(Undecided(T)) \in Nat
           /\ Cardinality(Undecided(T)) <= Cardinality(Undecided(S))
<1>1. IsFiniteSet(Undecided(S)) /\ IsFiniteSet(Undecided(T))
  BY FS_Subset DEF Undecided
<1>2. Undecided(T) \in SUBSET Undecided(S)
  OBVIOUS
<1> QED BY <1>1, <1>2, FS_Subset, FS_CardinalityType

\* A request that is decided is one undecided request less.
LEMMA OneLessAsked ==
    ASSUME NEW S, IsFiniteSet(S), NEW c \in Undecided(S), NEW T, IsFiniteSet(T),
           Undecided(T) \subseteq Undecided(S) \ {c}
    PROVE  /\ Cardinality(Undecided(S)) \in Nat /\ Cardinality(Undecided(T)) \in Nat
           /\ Cardinality(Undecided(T)) + 1 <= Cardinality(Undecided(S))
<1>1. IsFiniteSet(Undecided(S)) /\ IsFiniteSet(Undecided(T))
  BY FS_Subset DEF Undecided
<1>2. /\ IsFiniteSet(Undecided(S) \ {c})
      /\ Cardinality(Undecided(S) \ {c}) = Cardinality(Undecided(S)) - 1
  BY <1>1, FS_RemoveElement
<1>3. Undecided(T) \in SUBSET (Undecided(S) \ {c})
  OBVIOUS
<1>4. Cardinality(Undecided(T)) <= Cardinality(Undecided(S) \ {c})
  BY <1>2, <1>3, FS_Subset
<1> QED BY <1>1, <1>2, <1>4, FS_CardinalityType

\* What is left of a request that was answered.
LEMMA AnsweredCalls ==
    ASSUME calls \subseteq CallState, IsFiniteSet(calls), NEW c \in calls,
           NEW step \in {"written", "refused"}
    PROVE  /\ Answered(c, step) \subseteq CallState /\ IsFiniteSet(Answered(c, step))
           /\ \A d \in Answered(c, step) :
                 \/ d \in calls /\ d # c
                 \/ /\ c.page /\ d.page /\ d.step = step
                    /\ d.rec = c.rec /\ d.act = c.act /\ d.gen = c.gen
           /\ \A d \in calls : d # c => d \in Answered(c, step)
           /\ c.page => \E d \in Answered(c, step) :
                           d.page /\ d.step = step /\ d.rec = c.rec /\ d.act = c.act
<1> DEFINE left == [c EXCEPT !.step = step]
<1>1. /\ left \in CallState /\ left.step = step /\ left.page = c.page
      /\ left.rec = c.rec /\ left.act = c.act /\ left.gen = c.gen
  BY DEF CallState
<1>2. Answered(c, step) = (calls \ {c}) \cup (IF c.page THEN {left} ELSE {})
  BY DEF Answered
<1> HIDE DEF left
<1>3. IsFiniteSet(calls \ {c}) /\ IsFiniteSet((calls \ {c}) \cup {left})
  <2>1. IsFiniteSet(calls \ {c})
    BY FS_RemoveElement
  <2> QED BY <2>1, FS_AddElement
<1>4. IsFiniteSet(Answered(c, step))
  BY <1>2, <1>3
<1> QED BY <1>1, <1>2, <1>4

-----------------------------------------------------------------------------
(* The start *)

\* The invariant holds when the page opens.
LEMMA GovernanceInitInv ==
    ASSUME GovernanceAssumption, GovernanceInit PROVE GovernanceInv /\ DecidedOnRead
<1>1. PICK s \in {"draft", "validated"}, t \in BOOLEAN :
        records = [r \in Record |->
             [status |-> IF r \in Assignment THEN "active"
                         ELSE IF r \in Policy THEN "absent" ELSE s,
              tested |-> r \in Profile /\ t, rev |-> 0]]
  BY DEF GovernanceInit
<1>2. \A r \in Record : records[r] \in RecordView /\ records[r].rev = 0
                        /\ records[r].status # "approved"
  BY <1>1 DEF RecordView, Status, GovernanceAssumption
<1>3. records \in [Record -> RecordView]
  BY <1>1, <1>2
<1>4. own \in [Record -> 0..MaxCalls] /\ \A r \in Record : own[r] = 0
  BY DEF GovernanceInit, GovernanceAssumption
<1>5. Absent \in RecordView /\ Absent.rev = 0
  BY DEF Absent, RecordView, Status, GovernanceAssumption
<1>6. /\ catalogue \in CatalogueState /\ catalogue.generation = 1
  BY <1>5 DEF GovernanceInit, CatalogueState
<1>7. /\ loads \subseteq LoadState /\ \A l \in loads : l.gen = 1 /\ l.read = Nothing
      /\ \E l \in loads : l.gen = 1
  BY DEF GovernanceInit, LoadState
<1>8. Undecided(calls) = {} /\ Cardinality(Undecided(calls)) = 0 /\ IsFiniteSet(calls)
  BY FS_EmptySet DEF GovernanceInit, Undecided
<1>9. /\ calls = {} /\ overlooked = {} /\ asked = 0 /\ pending = Nothing
      /\ dialogs \in DialogState
  BY DEF GovernanceInit, DialogState, MaybeRecord
<1>10. GovernanceShape
  BY <1>2, <1>3, <1>4, <1>6, <1>7, <1>8, <1>9 DEF GovernanceShape, GovernanceAssumption
<1>11. OwnWork
  BY <1>2, <1>4, <1>6, <1>7 DEF OwnWork, WillBeShown, Counting
<1>12. Pendings
  BY <1>9 DEF Pendings, PendingHasACall
<1>13. DecidedOnRead
  BY <1>2, <1>9 DEF DecidedOnRead, Reading, ApprovedWasTested, Record
<1> QED BY <1>10, <1>11, <1>12, <1>13 DEF GovernanceInv

-----------------------------------------------------------------------------
(* The steps: dialogs and requests *)

\* A step of the dialogs alone.
LEMMA DialogStep ==
    ASSUME GovernanceInv, UNCHANGED <<records, own, overlooked, calls, asked, catalogue, loads, pending>>,
           dialogs' \in DialogState
    PROVE  GovernanceInv' /\ (DecidedOnRead => DecidedOnRead')
<1>1. GovernanceShape'
  BY DEF GovernanceInv, GovernanceShape, Undecided
<1>2. OwnWork'
  BY DEF GovernanceInv, OwnWork, ReloadDue, WillBeShown, Counting, HasOwn
<1>3. Pendings'
  BY DEF GovernanceInv, Pendings, PendingHasACall
<1>4. DecidedOnRead => DecidedOnRead'
  BY DEF DecidedOnRead, Reading, ApprovedWasTested
<1> QED BY <1>1, <1>2, <1>3, <1>4 DEF GovernanceInv

\* A request is made, which may be what is pending from now on.
LEMMA AskStep ==
    ASSUME GovernanceInv, NEW c \in CallState, c.step = "asked", asked < MaxCalls,
           MaxCalls \in Nat, calls' = calls \cup {c}, asked' = asked + 1,
           UNCHANGED <<records, own, overlooked, catalogue, loads, dialogs>>,
           \/ UNCHANGED pending
           \/ c.page /\ c.act # "create" /\ pending' = <<c.rec, c.act>>
    PROVE  GovernanceInv' /\ (DecidedOnRead => DecidedOnRead')
<1>t. /\ calls \subseteq CallState /\ IsFiniteSet(calls) /\ asked \in 0..MaxCalls
      /\ records \in [Record -> RecordView] /\ pending \in {Nothing} \cup (Record \X Action)
      /\ \A r \in Record : records[r].rev + Cardinality(Undecided(calls)) <= asked
  BY DEF GovernanceInv, GovernanceShape
<1>1. GovernanceShape'
  <2>1. /\ IsFiniteSet(calls') /\ Cardinality(Undecided(calls)) \in Nat
        /\ Cardinality(Undecided(calls')) \in Nat
        /\ Cardinality(Undecided(calls')) <= Cardinality(Undecided(calls)) + 1
    BY <1>t, OneMoreAsked
  <2>2. \A r \in Record : records[r].rev \in Nat
    BY <1>t DEF RecordView
  <2>3. \A r \in Record : records'[r].rev + Cardinality(Undecided(calls')) <= asked'
    BY <1>t, <2>1, <2>2
  <2>4. calls' \subseteq CallState /\ asked' \in 0..MaxCalls
    BY <1>t
  <2>5. pending' \in {Nothing} \cup (Record \X Action)
    BY <1>t DEF CallState
  <2> QED BY <2>1, <2>3, <2>4, <2>5 DEF GovernanceInv, GovernanceShape
<1>2. OwnWork'
  BY DEF GovernanceInv, OwnWork, ReloadDue, WillBeShown, Counting, HasOwn
<1>3. Pendings'
  <2>1. PendingHasACall' /\ (pending' # Nothing => pending'[2] # "create")
    <3>1. CASE UNCHANGED pending
      BY <3>1 DEF GovernanceInv, Pendings, PendingHasACall
    <3>2. CASE c.page /\ c.act # "create" /\ pending' = <<c.rec, c.act>>
      BY <3>2 DEF PendingHasACall
    <3> QED BY <3>1, <3>2
  <2> QED BY <2>1 DEF GovernanceInv, Pendings
<1>4. DecidedOnRead => DecidedOnRead'
  <2>1. Reading' = Reading
    BY DEF Reading
  <2> QED BY <2>1 DEF DecidedOnRead, ApprovedWasTested
<1> QED BY <1>1, <1>2, <1>3, <1>4 DEF GovernanceInv

\* A request moves on to its read or its refusal, and leaves the record alone.
LEMMA MoveStep ==
    ASSUME GovernanceInv, NEW c \in calls, c.step = "asked",
           calls' \subseteq CallState, IsFiniteSet(calls'), calls \ {c} \subseteq calls',
           \A d \in calls' : \/ d \in calls \ {c}
                             \/ d.step \in {"read", "refused"},
           c.page => \E d \in calls' : d.page /\ d.rec = c.rec /\ d.act = c.act,
           Cardinality(Undecided(calls)) \in Nat, Cardinality(Undecided(calls')) \in Nat,
           Cardinality(Undecided(calls')) <= Cardinality(Undecided(calls)),
           UNCHANGED <<records, own, overlooked, asked, catalogue, loads, pending, dialogs>>
    PROVE  GovernanceInv'
<1>1. GovernanceShape'
  <2>1. /\ records \in [Record -> RecordView] /\ asked \in Nat
        /\ \A r \in Record : records[r].rev + Cardinality(Undecided(calls)) <= asked
    BY DEF GovernanceInv, GovernanceShape
  <2>2. \A r \in Record : records[r].rev \in Int
    BY <2>1 DEF RecordView
  <2>3. \A r \in Record : records'[r].rev + Cardinality(Undecided(calls')) <= asked'
    BY <2>1, <2>2
  <2> QED BY <2>3 DEF GovernanceInv, GovernanceShape
<1>2. OwnWork'
  <2>1. \A r \in Record : ReloadDue(r) => ReloadDue(r)'
    BY DEF ReloadDue
  <2>2. \A r \in Record : WillBeShown(r) => WillBeShown(r)'
    BY DEF WillBeShown, Counting, HasOwn
  <2> QED BY <2>1, <2>2 DEF GovernanceInv, OwnWork
<1>3. Pendings'
  <2>1. PendingHasACall'
    <3>1. ASSUME pending # Nothing PROVE \E d \in calls' : d.page /\ <<d.rec, d.act>> = pending
      <4>1. PICK d \in calls : d.page /\ <<d.rec, d.act>> = pending
        BY <3>1 DEF GovernanceInv, Pendings, PendingHasACall
      <4>2. CASE d = c
        BY <4>1, <4>2
      <4>3. CASE d # c
        BY <4>1, <4>3
      <4> QED BY <4>2, <4>3
    <3> QED BY <3>1 DEF PendingHasACall
  <2>2. \A d \in calls' : d.step = "reload" => d \in calls
    OBVIOUS
  <2> QED BY <2>1, <2>2 DEF GovernanceInv, Pendings
<1> QED BY <1>1, <1>2, <1>3 DEF GovernanceInv

\* A request that goes on to its read is still one that is undecided.
LEMMA ReplaceUndecided ==
    ASSUME NEW S, IsFiniteSet(S), NEW c \in Undecided(S), NEW d
    PROVE  /\ IsFiniteSet((S \ {c}) \cup {d})
           /\ Cardinality(Undecided(S)) \in Nat
           /\ Cardinality(Undecided((S \ {c}) \cup {d})) \in Nat
           /\ Cardinality(Undecided((S \ {c}) \cup {d})) <= Cardinality(Undecided(S))
<1>1. IsFiniteSet(S \ {c})
  BY FS_RemoveElement
<1>2. Undecided(S \ {c}) \subseteq Undecided(S) \ {c}
  BY DEF Undecided
<1>3. /\ Cardinality(Undecided(S)) \in Nat /\ Cardinality(Undecided(S \ {c})) \in Nat
      /\ Cardinality(Undecided(S \ {c})) + 1 <= Cardinality(Undecided(S))
  BY <1>1, <1>2, OneLessAsked
<1>4. /\ IsFiniteSet((S \ {c}) \cup {d})
      /\ Cardinality(Undecided((S \ {c}) \cup {d})) \in Nat
      /\ Cardinality(Undecided((S \ {c}) \cup {d})) <= Cardinality(Undecided(S \ {c})) + 1
  BY <1>1, OneMoreAsked
<1> QED BY <1>3, <1>4

\* A request is refused, before or after its record is read.
LEMMA RefusedStep ==
    ASSUME GovernanceInv, NEW c \in calls, c.step = "asked",
           calls' = Answered(c, "refused"),
           UNCHANGED <<records, own, overlooked, asked, catalogue, loads, pending, dialogs>>
    PROVE  GovernanceInv' /\ (DecidedOnRead => DecidedOnRead')
<1>1. calls \subseteq CallState /\ IsFiniteSet(calls)
  BY DEF GovernanceInv, GovernanceShape
<1>2. /\ calls' \subseteq CallState /\ IsFiniteSet(calls')
      /\ \A d \in calls' : d \in calls \ {c} \/ d.step = "refused"
      /\ calls \ {c} \subseteq calls'
      /\ c.page => \E d \in calls' : d.page /\ d.rec = c.rec /\ d.act = c.act
  BY <1>1, AnsweredCalls
<1>3. Undecided(calls') \subseteq Undecided(calls)
  BY <1>2 DEF Undecided
<1>4. GovernanceInv'
  BY <1>1, <1>2, <1>3, NoneMoreAsked, MoveStep
<1>5. DecidedOnRead => DecidedOnRead'
  <2>1. Reading' = Reading
    BY <1>2 DEF Reading
  <2> QED BY <2>1 DEF DecidedOnRead, ApprovedWasTested
<1> QED BY <1>4, <1>5

\* The record is read: the request goes on if it is legal, else it is refused.
LEMMA ChecksStep ==
    ASSUME GovernanceInv, NEW c \in calls, Checks(c)
    PROVE  GovernanceInv' /\ (DecidedOnRead => DecidedOnRead')
<1>t. /\ calls \subseteq CallState /\ IsFiniteSet(calls) /\ c \in CallState /\ c.step = "asked"
      /\ UNCHANGED <<records, own, overlooked, asked, catalogue, loads, pending, dialogs>>
  BY DEF GovernanceInv, GovernanceShape, Checks
<1>1. CASE ~Legal(c.rec, c.act, records[c.rec])
  BY <1>1, <1>t, RefusedStep DEF Checks
<1>2. CASE Legal(c.rec, c.act, records[c.rec])
  <2> DEFINE d == [c EXCEPT !.step = "read", !.seen = records[c.rec].rev]
  <2>0. c.rec \in Record /\ records[c.rec].rev \in 0..MaxCalls
    BY <1>t DEF CallState, GovernanceInv, GovernanceShape, RecordView
  <2>1. /\ d \in CallState /\ d.step = "read" /\ d.page = c.page /\ d.rec = c.rec
        /\ d.act = c.act /\ d.seen = records[c.rec].rev
    BY <1>t, <2>0 DEF CallState
  <2>2. calls' = (calls \ {c}) \cup {d}
    BY <1>2 DEF Checks
  <2> HIDE DEF d
  <2>3. c \in Undecided(calls)
    BY <1>t DEF Undecided
  <2>4. /\ IsFiniteSet(calls') /\ Cardinality(Undecided(calls)) \in Nat
        /\ Cardinality(Undecided(calls')) \in Nat
        /\ Cardinality(Undecided(calls')) <= Cardinality(Undecided(calls))
    BY <1>t, <2>2, <2>3, ReplaceUndecided
  <2>5. /\ calls' \subseteq CallState /\ calls \ {c} \subseteq calls'
        /\ \A e \in calls' : e \in calls \ {c} \/ e.step \in {"read", "refused"}
        /\ c.page => \E e \in calls' : e.page /\ e.rec = c.rec /\ e.act = c.act
    BY <1>t, <2>1, <2>2
  <2>6. GovernanceInv'
    BY <1>t, <2>4, <2>5, MoveStep
  <2>7. ASSUME DecidedOnRead PROVE DecidedOnRead'
    <3>1. \A e \in Reading' : e \in Reading \/ e = d
      BY <2>2 DEF Reading
    <3>2. \A e \in Reading' :
            /\ e.seen <= records[e.rec].rev
            /\ e.seen = records[e.rec].rev => Legal(e.rec, e.act, records[e.rec])
      BY <1>2, <2>0, <2>1, <2>7, <3>1 DEF DecidedOnRead
    <3>3. ApprovedWasTested'
      BY <1>t, <2>7 DEF DecidedOnRead, ApprovedWasTested
    <3> QED BY <1>t, <3>2, <3>3 DEF DecidedOnRead
  <2> QED BY <2>6, <2>7
<1> QED BY <1>1, <1>2

\* The read record is written, with the columns of the request.
LEMMA CommitsStep ==
    ASSUME GovernanceAssumption, GovernanceInv, NEW c \in calls, Commits(c)
    PROVE  GovernanceInv' /\ (DecidedOnRead => DecidedOnRead')
<1> DEFINE r == c.rec
           row == Written(c.act, records[r])
<1>t. /\ calls \subseteq CallState /\ IsFiniteSet(calls) /\ c \in CallState /\ c.step = "read"
      /\ records \in [Record -> RecordView] /\ own \in [Record -> 0..MaxCalls]
      /\ asked \in 0..MaxCalls /\ MaxCalls \in Nat
      /\ \A q \in Record : records[q].rev + Cardinality(Undecided(calls)) <= asked
      /\ \A q \in Record : own[q] <= records[q].rev
      /\ UNCHANGED <<asked, catalogue, loads, pending, dialogs>>
      /\ calls' = Answered(c, "written")
      /\ records' = [records EXCEPT ![r] = row]
      /\ own' = IF c.page THEN [own EXCEPT ![r] = records[r].rev + 1] ELSE own
      /\ overlooked \subseteq Record
      /\ overlooked' = IF c.seen = records[r].rev THEN overlooked \ {r} ELSE overlooked \cup {r}
  BY DEF GovernanceInv, GovernanceShape, OwnWork, Commits, GovernanceAssumption
<1>r. r \in Record /\ c.act \in Action /\ records[r] \in RecordView
  BY <1>t DEF CallState
<1>1. /\ calls' \subseteq CallState /\ IsFiniteSet(calls')
      /\ \A d \in calls' : \/ d \in calls \ {c}
                           \/ d.page /\ d.step = "written" /\ d.rec = r /\ d.act = c.act
      /\ calls \ {c} \subseteq calls'
      /\ c.page => \E d \in calls' : d.page /\ d.step = "written" /\ d.rec = r /\ d.act = c.act
  <2> DEFINE left == Answered(c, "written")
  <2>1. /\ left \subseteq CallState /\ IsFiniteSet(left)
        /\ \A d \in left : \/ d \in calls /\ d # c
                           \/ /\ c.page /\ d.page /\ d.step = "written"
                              /\ d.rec = c.rec /\ d.act = c.act /\ d.gen = c.gen
        /\ \A d \in calls : d # c => d \in left
        /\ c.page => \E d \in left :
                        d.page /\ d.step = "written" /\ d.rec = c.rec /\ d.act = c.act
    BY <1>t, AnsweredCalls
  <2>2. calls' = left
    BY <1>t
  <2> HIDE DEF left
  <2>3. calls' \subseteq CallState /\ IsFiniteSet(calls') /\ calls \ {c} \subseteq calls'
    BY <2>1, <2>2
  <2>4. \A d \in left : \/ d \in calls \ {c}
                        \/ d.page /\ d.step = "written" /\ d.rec = r /\ d.act = c.act
    BY <2>1
  <2>5. c.page => \E d \in left : d.page /\ d.step = "written" /\ d.rec = r /\ d.act = c.act
    BY <2>1
  <2> QED BY <2>2, <2>3, <2>4, <2>5
<1>2. /\ Cardinality(Undecided(calls)) \in Nat /\ Cardinality(Undecided(calls')) \in Nat
      /\ Cardinality(Undecided(calls')) + 1 <= Cardinality(Undecided(calls))
  <2>1. c \in Undecided(calls) /\ Undecided(calls') \subseteq Undecided(calls) \ {c}
    BY <1>t, <1>1 DEF Undecided
  <2> QED BY <1>t, <1>1, <2>1, OneLessAsked
<1>3. \A q \in Record : records[q].rev \in Nat
  BY <1>t DEF RecordView
<1>4. PICK n \in 0..MaxCalls : n = records[r].rev + 1
  BY <1>t, <1>r, <1>2, <1>3
<1>5. row \in RecordView /\ row.rev = n
  BY <1>r, <1>4 DEF Written, Becomes, RecordView, Status, Transition, Evidence, Action
<1> HIDE DEF row
<1>6. records' \in [Record -> RecordView] /\ own' \in [Record -> 0..MaxCalls]
  BY <1>t, <1>r, <1>4, <1>5
<1>7. \A q \in Record : records'[q].rev = IF q = r THEN n ELSE records[q].rev
  BY <1>t, <1>r, <1>5
<1>8. \A q \in Record : records'[q].rev + Cardinality(Undecided(calls')) <= asked
  <2> TAKE q \in Record
  <2>1. records'[q].rev <= records[q].rev + 1 /\ records'[q].rev \in Nat
    BY <1>3, <1>4, <1>7
  <2> QED BY <2>1, <1>2, <1>3, <1>t
<1>9. GovernanceShape'
  BY <1>1, <1>6, <1>8, <1>r, <1>t DEF GovernanceShape, GovernanceInv
<1>10. \A q \in Record : own'[q] = IF c.page /\ q = r THEN n ELSE own[q]
  BY <1>t, <1>r, <1>4
<1>11. OwnWork'
  <2>1. \A q \in Record : own'[q] <= records'[q].rev
    <3> TAKE q \in Record
    <3>1. own[q] <= records[q].rev /\ own[q] \in Int
      BY <1>t
    <3> QED BY <3>1, <1>3, <1>4, <1>7, <1>10
  <2>2. ASSUME NEW q \in Record PROVE ReloadDue(q)' \/ WillBeShown(q)'
    <3>1. CASE c.page /\ q = r
      BY <3>1, <1>1 DEF ReloadDue
    <3>2. CASE ~(c.page /\ q = r)
      <4>1. own'[q] = own[q]
        BY <3>2, <1>10
      <4>2. ReloadDue(q) => ReloadDue(q)'
        BY <1>t, <1>1 DEF ReloadDue
      <4>3. WillBeShown(q) => WillBeShown(q)'
        BY <1>t, <4>1 DEF WillBeShown, Counting, HasOwn
      <4> QED BY <4>2, <4>3 DEF GovernanceInv, OwnWork
    <3> QED BY <3>1, <3>2
  <2> QED BY <2>1, <2>2 DEF OwnWork
<1>12. Pendings'
  <2>1. PendingHasACall'
    <3>1. ASSUME pending # Nothing PROVE \E d \in calls' : d.page /\ <<d.rec, d.act>> = pending
      <4>1. PICK d \in calls : d.page /\ <<d.rec, d.act>> = pending
        BY <3>1 DEF GovernanceInv, Pendings, PendingHasACall
      <4>2. CASE d = c
        BY <4>1, <4>2, <1>1
      <4>3. CASE d # c
        BY <4>1, <4>3, <1>1
      <4> QED BY <4>2, <4>3
    <3> QED BY <3>1, <1>t DEF PendingHasACall
  <2>2. \A d \in calls' : d.step = "reload" => d \in calls
    BY <1>1
  <2> QED BY <1>t, <2>1, <2>2 DEF GovernanceInv, Pendings
<1>13. ASSUME DecidedOnRead PROVE DecidedOnRead'
  <2>1. \A q \in Record : q # r => records'[q] = records[q]
    BY <1>t, <1>r
  <2>2. ASSUME NEW d \in Reading'
        PROVE  /\ d.seen <= records'[d.rec].rev
               /\ d.seen = records'[d.rec].rev => Legal(d.rec, d.act, records'[d.rec])
    <3>1. d \in Reading /\ d.rec \in Record /\ d.seen \in 0..MaxCalls
      BY <1>1, <1>t DEF Reading, CallState
    <3>2. /\ d.seen <= records[d.rec].rev
          /\ d.seen = records[d.rec].rev => Legal(d.rec, d.act, records[d.rec])
      BY <1>13, <3>1 DEF DecidedOnRead
    <3>3. CASE d.rec = r
      <4>1. d.seen < records'[d.rec].rev
        BY <1>3, <1>4, <1>7, <3>1, <3>2, <3>3
      <4>2. records'[d.rec].rev \in Nat
        BY <1>4, <1>7, <3>1, <3>3
      <4> QED BY <3>1, <4>1, <4>2
    <3>4. CASE d.rec # r
      BY <2>1, <3>1, <3>2, <3>4
    <3> QED BY <3>3, <3>4
  <2>3. c \in Reading /\ (c.seen = records[r].rev => Legal(r, c.act, records[r]))
    BY <1>13, <1>t DEF DecidedOnRead, Reading
  <2>4. c.seen = records[r].rev /\ r \in Profile /\ row.status = "approved" => row.tested
    <3>1. CASE c.act = "approve"
      BY <3>1, <2>3, <1>r DEF row, Legal, Evidence, Written, Transition
    <3>2. CASE c.act \in Evidence
      BY <3>2, <2>3, <1>r DEF row, Legal, Written, Evidence, Transition
    <3>3. CASE c.act \notin Evidence /\ c.act # "approve"
      BY <3>3, <1>r DEF row, Written, Becomes, Action, Transition
    <3> QED BY <3>1, <3>2, <3>3
  <2>5. ApprovedWasTested'
    <3>1. ASSUME NEW q \in Profile, records'[q].status = "approved"
          PROVE  records'[q].tested \/ q \in overlooked'
      <4>1. q \in Record /\ (q \in overlooked => q = r \/ q \in overlooked')
        BY <1>t DEF Record
      <4>2. CASE q = r
        BY <1>t, <1>r, <2>4, <3>1, <4>1, <4>2
      <4>3. CASE q # r
        BY <1>13, <2>1, <3>1, <4>1, <4>3 DEF DecidedOnRead, ApprovedWasTested
      <4> QED BY <4>2, <4>3
    <3> QED BY <3>1 DEF ApprovedWasTested
  <2> QED BY <2>2, <2>5 DEF DecidedOnRead
<1> QED BY <1>9, <1>11, <1>12, <1>13 DEF GovernanceInv

-----------------------------------------------------------------------------
(* The steps: the catalogue *)

\* A load begins a generation, whose answer will hold whatever is written by now.
LEMMA LoadBegins ==
    ASSUME GovernanceInv, NEW background \in BOOLEAN, Load(background), UNCHANGED own
    PROVE  /\ catalogue' \in CatalogueState /\ catalogue.generation \in Nat
           /\ catalogue'.generation = catalogue.generation + 1
           /\ loads' \subseteq LoadState /\ \A l \in loads' : l.gen \in 1..catalogue'.generation
           /\ \A r \in Record : WillBeShown(r)'
<1>t. /\ catalogue \in CatalogueState /\ loads \subseteq LoadState
      /\ \A l \in loads : l.gen \in 1..catalogue.generation
  BY DEF GovernanceInv, GovernanceShape
<1>1. catalogue.generation \in Nat
  BY <1>t DEF CatalogueState
<1>2. PICK n \in Nat : n = catalogue.generation + 1
  BY <1>1
<1> DEFINE new == [gen |-> n, background |-> background, read |-> Nothing, missing |-> {}]
<1>3. catalogue' = [catalogue EXCEPT !.generation = n, !.loading = @ \/ ~background,
                                     !.missing = {}, !.error = FALSE]
      /\ loads' = loads \cup {new}
  BY <1>2 DEF Load
<1>4. catalogue' \in CatalogueState /\ catalogue'.generation = n
  BY <1>3, <1>t DEF CatalogueState
<1>5. new \in LoadState /\ new.gen = n /\ new.read = Nothing
  BY DEF LoadState
<1> HIDE DEF new
<1>6. loads' \subseteq LoadState /\ \A l \in loads' : l.gen \in 1..n
  BY <1>1, <1>2, <1>3, <1>5, <1>t
<1>7. \A l \in loads' : l.gen = n => l = new
  BY <1>1, <1>2, <1>3, <1>5, <1>t
<1>8. \A r \in Record : WillBeShown(r)'
  BY <1>3, <1>4, <1>5, <1>7 DEF WillBeShown, Counting
<1> QED BY <1>1, <1>2, <1>4, <1>6, <1>8

\* The catalogue is refreshed by hand.
LEMMA RefreshStep ==
    ASSUME GovernanceInv, Refresh PROVE GovernanceInv' /\ (DecidedOnRead => DecidedOnRead')
<1>1. Load(FALSE) /\ UNCHANGED <<records, own, overlooked, calls, asked, pending, dialogs>>
  BY DEF Refresh
<1>2. /\ catalogue' \in CatalogueState /\ catalogue.generation \in Nat
      /\ catalogue'.generation = catalogue.generation + 1
      /\ loads' \subseteq LoadState /\ \A l \in loads' : l.gen \in 1..catalogue'.generation
      /\ \A r \in Record : WillBeShown(r)'
  BY <1>1, LoadBegins
<1>3. GovernanceShape'
  BY <1>1, <1>2 DEF GovernanceInv, GovernanceShape, Undecided
<1>4. OwnWork'
  BY <1>1, <1>2 DEF GovernanceInv, OwnWork
<1>5. Pendings'
  <2>1. \A c \in calls : c.step = "reload" => c.gen <= catalogue'.generation
    BY <1>2 DEF GovernanceInv, GovernanceShape, Pendings, CallState
  <2> QED BY <1>1, <2>1 DEF GovernanceInv, Pendings, PendingHasACall
<1>6. DecidedOnRead => DecidedOnRead'
  BY <1>1 DEF DecidedOnRead, Reading, ApprovedWasTested
<1> QED BY <1>3, <1>4, <1>5, <1>6 DEF GovernanceInv

\* What was written is loaded again: the request waits for that load.
LEMMA ReloadStep ==
    ASSUME GovernanceInv, NEW c \in calls, Reload(c)
    PROVE  GovernanceInv' /\ (DecidedOnRead => DecidedOnRead')
<1>t. /\ calls \subseteq CallState /\ IsFiniteSet(calls) /\ c \in CallState
      /\ c.step = "written" /\ Load(c.act \notin {"archive", "restore"})
      /\ UNCHANGED <<records, own, overlooked, asked, pending, dialogs>>
  BY DEF GovernanceInv, GovernanceShape, Reload
<1>1. /\ catalogue' \in CatalogueState /\ catalogue.generation \in Nat
      /\ catalogue'.generation = catalogue.generation + 1
      /\ loads' \subseteq LoadState /\ \A l \in loads' : l.gen \in 1..catalogue'.generation
      /\ \A r \in Record : WillBeShown(r)'
  BY <1>t, LoadBegins
<1>2. PICK n \in Nat : n = catalogue.generation + 1
  BY <1>1
<1> DEFINE d == [c EXCEPT !.step = "reload", !.gen = n]
<1>3. /\ d \in CallState /\ d.step = "reload" /\ d.gen = n
      /\ d.page = c.page /\ d.rec = c.rec /\ d.act = c.act
  BY <1>t DEF CallState
<1>4. calls' = (calls \ {c}) \cup {d}
  BY <1>2 DEF Reload
<1> HIDE DEF d
<1>5. IsFiniteSet(calls \ {c}) /\ IsFiniteSet(calls')
  <2>1. IsFiniteSet(calls \ {c})
    BY <1>t, FS_RemoveElement
  <2> QED BY <1>4, <2>1, FS_AddElement
<1>6. Undecided(calls') \subseteq Undecided(calls) /\ Reading' = Reading
  BY <1>t, <1>3, <1>4 DEF Undecided, Reading
<1>7. /\ Cardinality(Undecided(calls)) \in Nat /\ Cardinality(Undecided(calls')) \in Nat
      /\ Cardinality(Undecided(calls')) <= Cardinality(Undecided(calls))
  BY <1>t, <1>5, <1>6, NoneMoreAsked
<1>8. GovernanceShape'
  <2>1. \A r \in Record : records[r].rev \in Int
    BY DEF GovernanceInv, GovernanceShape, RecordView
  <2>2. /\ asked \in Int
        /\ \A r \in Record : records[r].rev + Cardinality(Undecided(calls)) <= asked
    BY DEF GovernanceInv, GovernanceShape
  <2>3. \A r \in Record : records'[r].rev + Cardinality(Undecided(calls')) <= asked'
    BY <2>1, <2>2, <1>7, <1>t
  <2>4. calls' \subseteq CallState
    BY <1>t, <1>3, <1>4
  <2> QED BY <1>t, <1>1, <1>5, <2>3, <2>4 DEF GovernanceInv, GovernanceShape
<1>9. OwnWork'
  BY <1>t, <1>1 DEF GovernanceInv, OwnWork
<1>10. Pendings'
  <2>1. PendingHasACall'
    BY <1>t, <1>3, <1>4 DEF GovernanceInv, Pendings, PendingHasACall
  <2>2. \A e \in calls : e.step = "reload" => e.gen \in Nat /\ e.gen < n
    BY <1>1, <1>2, <1>t DEF GovernanceInv, Pendings, CallState
  <2>3. \A e \in calls' : e.step = "reload" => e.gen <= catalogue'.generation
    BY <1>1, <1>2, <1>3, <1>4, <2>2
  <2>4. \A e, f \in calls' : e.step = "reload" /\ f.step = "reload" /\ e.gen = f.gen => e = f
    BY <1>3, <1>4, <2>2 DEF GovernanceInv, Pendings
  <2> QED BY <1>t, <2>1, <2>3, <2>4 DEF GovernanceInv, Pendings
<1>11. DecidedOnRead => DecidedOnRead'
  BY <1>6, <1>t DEF DecidedOnRead, ApprovedWasTested
<1> QED BY <1>8, <1>9, <1>10, <1>11 DEF GovernanceInv

\* Fewer requests are under way, none of them one that has still to be loaded.
LEMMA CallsLeave ==
    ASSUME GovernanceInv, calls' \subseteq calls,
           \A c \in calls \ calls' : c.step \in {"refused", "reload"},
           UNCHANGED <<records, own, overlooked, asked>>
    PROVE  /\ calls' \subseteq CallState /\ IsFiniteSet(calls') /\ Reading' = Reading
           /\ \A r \in Record : records'[r].rev + Cardinality(Undecided(calls')) <= asked'
           /\ \A r \in Record : ReloadDue(r) => ReloadDue(r)'
<1>t. calls \subseteq CallState /\ IsFiniteSet(calls)
  BY DEF GovernanceInv, GovernanceShape
<1>1. IsFiniteSet(calls')
  BY <1>t, FS_Subset
<1>2. Undecided(calls') \subseteq Undecided(calls) /\ Reading' = Reading
  BY DEF Undecided, Reading
<1>3. /\ Cardinality(Undecided(calls)) \in Nat /\ Cardinality(Undecided(calls')) \in Nat
      /\ Cardinality(Undecided(calls')) <= Cardinality(Undecided(calls))
  BY <1>t, <1>1, <1>2, NoneMoreAsked
<1>4. \A r \in Record : records'[r].rev + Cardinality(Undecided(calls')) <= asked'
  <2>1. \A r \in Record : records[r].rev \in Int
    BY DEF GovernanceInv, GovernanceShape, RecordView
  <2>2. /\ asked \in Int
        /\ \A r \in Record : records[r].rev + Cardinality(Undecided(calls)) <= asked
    BY DEF GovernanceInv, GovernanceShape
  <2> QED BY <2>1, <2>2, <1>3
<1>5. \A r \in Record : ReloadDue(r) => ReloadDue(r)'
  BY DEF ReloadDue
<1> QED BY <1>t, <1>1, <1>2, <1>4, <1>5

\* A refusal is shown, and what was pending is over.
LEMMA ActionFailsStep ==
    ASSUME GovernanceInv, NEW c \in calls, ActionFails(c)
    PROVE  GovernanceInv' /\ (DecidedOnRead => DecidedOnRead')
<1>t. /\ c.step = "refused" /\ calls' = calls \ {c} /\ pending' = Settled(c)
      /\ UNCHANGED <<records, own, overlooked, asked, catalogue, loads, dialogs>>
  BY DEF ActionFails
<1>1. /\ calls' \subseteq CallState /\ IsFiniteSet(calls') /\ Reading' = Reading
      /\ \A r \in Record : records'[r].rev + Cardinality(Undecided(calls')) <= asked'
      /\ \A r \in Record : ReloadDue(r) => ReloadDue(r)'
  BY <1>t, CallsLeave
<1>2. GovernanceShape'
  BY <1>t, <1>1 DEF GovernanceInv, GovernanceShape, Settled
<1>3. OwnWork'
  <2>1. \A r \in Record : WillBeShown(r) => WillBeShown(r)'
    BY <1>t DEF WillBeShown, Counting, HasOwn
  <2> QED BY <1>t, <1>1, <2>1 DEF GovernanceInv, OwnWork
<1>4. Pendings'
  <2>1. ASSUME pending' # Nothing
        PROVE  pending'[2] # "create" /\ \E d \in calls' : d.page /\ <<d.rec, d.act>> = pending'
    <3>1. c.act = "create" /\ pending' = pending
      BY <2>1, <1>t DEF Settled
    <3>2. PICK d \in calls : d.page /\ <<d.rec, d.act>> = pending
      BY <2>1, <3>1 DEF GovernanceInv, Pendings, PendingHasACall
    <3>3. pending[2] # "create"
      BY <2>1, <3>1 DEF GovernanceInv, Pendings
    <3>4. d.act = pending[2]
      BY <3>2
    <3>5. d # c
      BY <3>1, <3>3, <3>4
    <3> QED BY <3>1, <3>2, <3>3, <3>5, <1>t
  <2> QED BY <1>t, <2>1 DEF GovernanceInv, Pendings, PendingHasACall
<1>5. DecidedOnRead => DecidedOnRead'
  BY <1>t, <1>1 DEF DecidedOnRead, ApprovedWasTested
<1> QED BY <1>2, <1>3, <1>4, <1>5 DEF GovernanceInv

\* The lists are read as they are by now, so they hold what the page wrote.
LEMMA LoadReadsStep ==
    ASSUME GovernanceAssumption, GovernanceInv, NEW l \in loads, NEW missing \in SUBSET Kind,
           LoadReads(l, missing)
    PROVE  GovernanceInv' /\ (DecidedOnRead => DecidedOnRead')
<1> DEFINE snapshot == [r \in Record |-> IF KindOf(r) \in missing THEN Absent ELSE records[r]]
           row == [l EXCEPT !.read = snapshot, !.missing = missing]
<1>t. /\ records \in [Record -> RecordView] /\ loads \subseteq LoadState /\ l \in LoadState
      /\ \A k \in loads : k.gen \in 1..catalogue.generation
      /\ \A r \in Record : own[r] <= records[r].rev
  BY DEF GovernanceInv, GovernanceShape, OwnWork
<1>1. Absent \in RecordView
  BY DEF Absent, RecordView, Status, GovernanceAssumption
<1>2. snapshot \in [Record -> RecordView]
  BY <1>1, <1>t
<1>3. \A r \in Record : KindOf(r) \in missing \/ snapshot[r] = records[r]
  OBVIOUS
<1>4. /\ loads' = (loads \ {l}) \cup {row}
      /\ UNCHANGED <<records, own, overlooked, calls, asked, catalogue, pending, dialogs>>
  BY DEF LoadReads
<1> HIDE DEF snapshot
<1>5. row \in LoadState /\ row.gen = l.gen /\ row.read = snapshot /\ row.missing = missing
  BY <1>2, <1>t DEF LoadState
<1> HIDE DEF row
<1>d. PICK d \in LoadState :
        /\ loads' = (loads \ {l}) \cup {d} /\ d.gen = l.gen
        /\ \A r \in Record : KindOf(r) \in d.missing \/ d.read[r] = records[r]
  BY <1>3, <1>4, <1>5
<1>6. GovernanceShape'
  BY <1>t, <1>4, <1>d DEF GovernanceInv, GovernanceShape, Undecided
<1>7. OwnWork'
  <2>1. ASSUME NEW r \in Record, WillBeShown(r) PROVE WillBeShown(r)'
    <3>1. (\E k \in loads : Counting(k)) => \E k \in loads' : Counting(k)'
      BY <1>4, <1>d DEF Counting
    <3>2. own[r] \in Int /\ records[r].rev \in Int
      BY DEF GovernanceInv, GovernanceShape, RecordView
    <3>3. HasOwn(d.missing, d.read, r)'
      BY <1>4, <1>d, <1>t, <3>2 DEF HasOwn
    <3>4. ASSUME NEW k \in loads', Counting(k)', k.read # Nothing
          PROVE  HasOwn(k.missing, k.read, r)'
      <4>1. CASE k = d
        BY <4>1, <3>3
      <4>2. CASE k # d
        BY <4>2, <3>4, <2>1, <1>4, <1>d DEF WillBeShown, Counting, HasOwn
      <4> QED BY <4>1, <4>2
    <3>5. \/ \E k \in loads' : Counting(k)'
          \/ catalogue'.error
          \/ HasOwn(catalogue.missing, catalogue.shown, r)'
      BY <2>1, <3>1, <1>4 DEF WillBeShown, HasOwn
    <3> QED BY <3>4, <3>5, <1>4 DEF WillBeShown
  <2>2. \A r \in Record : ReloadDue(r) => ReloadDue(r)'
    BY <1>4 DEF ReloadDue
  <2> QED BY <1>4, <2>1, <2>2 DEF GovernanceInv, OwnWork
<1>8. Pendings'
  BY <1>4 DEF GovernanceInv, Pendings, PendingHasACall
<1>9. DecidedOnRead => DecidedOnRead'
  BY <1>4 DEF DecidedOnRead, Reading, ApprovedWasTested
<1> QED BY <1>6, <1>7, <1>8, <1>9 DEF GovernanceInv

\* The action that waited for a load is over with it, whatever the load brought.
LEMMA FinishKeeps ==
    ASSUME GovernanceInv, NEW l, Finish(l), UNCHANGED <<records, own, overlooked, asked>>,
           catalogue'.generation = catalogue.generation
    PROVE  /\ calls' \subseteq calls /\ \A c \in calls \ calls' : c.step = "reload"
           /\ pending' \in {Nothing} \cup (Record \X Action) /\ dialogs' \in DialogState
           /\ Pendings'
<1>t. /\ calls \subseteq CallState /\ pending \in {Nothing} \cup (Record \X Action)
      /\ dialogs \in DialogState
  BY DEF GovernanceInv, GovernanceShape
<1>1. calls' = calls \ Waiting(l)
  BY DEF Finish
<1>2. calls' \subseteq calls /\ \A c \in calls \ calls' : c.step = "reload"
  BY <1>1 DEF Waiting
<1>3. CASE Waiting(l) = {}
  <2>1. calls' = calls /\ UNCHANGED <<pending, dialogs>>
    BY <1>1, <1>3 DEF Finish
  <2>2. Pendings'
    BY <2>1 DEF GovernanceInv, Pendings, PendingHasACall
  <2> QED BY <2>1, <2>2, <1>2, <1>t
<1>4. CASE Waiting(l) # {}
  <2>1. PICK c \in Waiting(l) :
         /\ pending' = IF c.act = "create" THEN pending ELSE Nothing
         /\ dialogs' = IF c.act \in {"archive", "restore"} THEN dialogs
                       ELSE [dialogs EXCEPT !.retire = Done(c, "retire", "retire"),
                                            !.test = Done(c, "test", "mark-tested"),
                                            !.override = Done(c, "override", "override"),
                                            !.create = Done(c, "create", "create")]
    BY <1>4 DEF Finish
  <2>2. \A d \in Waiting(l) : d = c
    BY DEF Waiting, GovernanceInv, Pendings
  <2>3. dialogs' \in DialogState
    <3> DEFINE retire == Done(c, "retire", "retire")
               test == Done(c, "test", "mark-tested")
               override == Done(c, "override", "override")
               create == Done(c, "create", "create")
    <3>1. /\ retire \in MaybeRecord /\ test \in MaybeRecord
          /\ override \in MaybeRecord /\ create \in MaybeRecord
      BY <1>t DEF Done, DialogState, MaybeRecord
    <3>2. dialogs' = dialogs \/ dialogs' = [dialogs EXCEPT !.retire = retire, !.test = test,
                                                          !.override = override, !.create = create]
      BY <2>1
    <3> HIDE DEF retire, test, override, create
    <3> QED BY <1>t, <3>1, <3>2 DEF DialogState
  <2>4. ASSUME pending' # Nothing
        PROVE  pending'[2] # "create" /\ \E d \in calls' : d.page /\ <<d.rec, d.act>> = pending'
    <3>1. c.act = "create" /\ pending' = pending
      BY <2>1, <2>4
    <3>2. PICK d \in calls : d.page /\ <<d.rec, d.act>> = pending
      BY <2>4, <3>1 DEF GovernanceInv, Pendings, PendingHasACall
    <3>3. pending[2] # "create"
      BY <2>4, <3>1 DEF GovernanceInv, Pendings
    <3>4. d.act = pending[2]
      BY <3>2
    <3>5. d \notin Waiting(l)
      BY <2>2, <3>1, <3>3, <3>4
    <3> QED BY <3>1, <3>2, <3>3, <3>5, <1>1
  <2>5. Pendings'
    BY <2>4, <1>2 DEF GovernanceInv, Pendings, PendingHasACall
  <2> QED BY <2>1, <2>3, <2>5, <1>2, <1>t
<1> QED BY <1>3, <1>4

\* A load is answered or fails: only the latest one may change what is shown.
LEMMA LoadEndsStep ==
    ASSUME GovernanceInv, NEW l \in loads, LoadArrives(l) \/ LoadFails(l)
    PROVE  GovernanceInv' /\ (DecidedOnRead => DecidedOnRead')
<1>t. /\ catalogue \in CatalogueState /\ loads \subseteq LoadState /\ l \in LoadState
      /\ \A k \in loads : k.gen \in 1..catalogue.generation
      /\ loads' = loads \ {l} /\ Finish(l) /\ UNCHANGED <<records, own, overlooked, asked>>
  BY DEF GovernanceInv, GovernanceShape, LoadArrives, LoadFails
<1>1. /\ catalogue' \in CatalogueState /\ catalogue'.generation = catalogue.generation
      /\ ~Counting(l) => catalogue' = catalogue
      /\ Counting(l) => \/ catalogue'.error
                        \/ /\ l.read # Nothing /\ catalogue'.shown = l.read
                           /\ catalogue'.missing = l.missing
  <2>1. CASE LoadArrives(l)
    <3>1. l.read # Nothing /\ l.read \in [Record -> RecordView] /\ l.missing \in SUBSET Kind
      BY <2>1, <1>t DEF LoadArrives, LoadState
    <3>2. CASE Current(l)
      <4>1. catalogue' = [catalogue EXCEPT !.shown = l.read, !.missing = l.missing,
                                           !.loading = @ /\ l.background]
        BY <2>1, <3>2 DEF LoadArrives
      <4> QED BY <4>1, <3>1, <3>2, <1>t DEF CatalogueState, Current, Counting
    <3>3. CASE ~Current(l)
      BY <2>1, <3>3, <1>t DEF LoadArrives, Current, Counting
    <3> QED BY <3>2, <3>3
  <2>2. CASE LoadFails(l)
    <3>1. CASE Current(l)
      <4>1. catalogue' = [catalogue EXCEPT !.error = TRUE, !.loading = @ /\ l.background]
        BY <2>2, <3>1 DEF LoadFails
      <4> QED BY <4>1, <3>1, <1>t DEF CatalogueState, Current, Counting
    <3>2. CASE ~Current(l)
      BY <2>2, <3>2, <1>t DEF LoadFails, Current, Counting
    <3> QED BY <3>1, <3>2
  <2> QED BY <2>1, <2>2
<1>2. /\ calls' \subseteq calls /\ \A c \in calls \ calls' : c.step = "reload"
      /\ pending' \in {Nothing} \cup (Record \X Action) /\ dialogs' \in DialogState
      /\ Pendings'
  BY <1>t, <1>1, FinishKeeps
<1>3. /\ calls' \subseteq CallState /\ IsFiniteSet(calls') /\ Reading' = Reading
      /\ \A r \in Record : records'[r].rev + Cardinality(Undecided(calls')) <= asked'
      /\ \A r \in Record : ReloadDue(r) => ReloadDue(r)'
  BY <1>t, <1>2, CallsLeave
<1>4. GovernanceShape'
  BY <1>t, <1>1, <1>2, <1>3 DEF GovernanceInv, GovernanceShape
<1>5. OwnWork'
  <2>1. ASSUME NEW r \in Record, WillBeShown(r) PROVE WillBeShown(r)'
    <3>1. \A k \in loads' : Counting(k)' /\ k.read # Nothing => HasOwn(k.missing, k.read, r)'
      BY <2>1, <1>t, <1>1 DEF WillBeShown, Counting, HasOwn
    <3>2. CASE Counting(l)
      <4>1. l.read # Nothing => HasOwn(l.missing, l.read, r)
        BY <2>1, <3>2 DEF WillBeShown
      <4>2. catalogue'.error \/ HasOwn(catalogue.missing, catalogue.shown, r)'
        BY <4>1, <3>2, <1>1, <1>t DEF HasOwn
      <4> QED BY <3>1, <4>2 DEF WillBeShown
    <3>3. CASE ~Counting(l)
      <4>1. (\E k \in loads : Counting(k)) => \E k \in loads' : Counting(k)'
        BY <3>3, <1>1, <1>t DEF Counting
      <4>2. \/ \E k \in loads' : Counting(k)'
            \/ catalogue'.error
            \/ HasOwn(catalogue.missing, catalogue.shown, r)'
        BY <2>1, <3>3, <4>1, <1>1, <1>t DEF WillBeShown, HasOwn
      <4> QED BY <3>1, <4>2 DEF WillBeShown
    <3> QED BY <3>2, <3>3
  <2> QED BY <1>t, <1>3, <2>1 DEF GovernanceInv, OwnWork
<1>6. DecidedOnRead => DecidedOnRead'
  BY <1>t, <1>3 DEF DecidedOnRead, ApprovedWasTested
<1> QED BY <1>2, <1>4, <1>5, <1>6 DEF GovernanceInv

-----------------------------------------------------------------------------
(* The steps: the actions of the page and of others *)

\* A request of the page, or of somebody else.
LEMMA CallStep ==
    ASSUME GovernanceAssumption, GovernanceInv, NEW r \in Record, NEW act \in Action,
           Call(r, act), UNCHANGED <<records, own, overlooked, catalogue, loads, dialogs>>,
           UNCHANGED pending \/ (act # "create" /\ pending' = <<r, act>>)
    PROVE  GovernanceInv' /\ (DecidedOnRead => DecidedOnRead')
<1> DEFINE c == [id |-> asked, rec |-> r, act |-> act, page |-> TRUE, step |-> "asked",
                 seen |-> 0, gen |-> 0]
<1>1. c \in CallState /\ c.step = "asked" /\ c.page /\ c.act = act /\ c.rec = r
  BY DEF CallState, GovernanceInv, GovernanceShape, GovernanceAssumption
<1>2. asked < MaxCalls /\ MaxCalls \in Nat /\ calls' = calls \cup {c} /\ asked' = asked + 1
  BY DEF Call, GovernanceAssumption
<1> HIDE DEF c
<1> QED BY <1>1, <1>2, AskStep

\* Another user asks for something.
LEMMA OtherAsksStep ==
    ASSUME GovernanceAssumption, GovernanceInv, NEW r \in Record, NEW act \in Action,
           OtherAsks(r, act)
    PROVE  GovernanceInv' /\ (DecidedOnRead => DecidedOnRead')
<1> DEFINE c == [id |-> asked, rec |-> r, act |-> act, page |-> FALSE, step |-> "asked",
                 seen |-> 0, gen |-> 0]
<1>1. c \in CallState /\ c.step = "asked"
  BY DEF CallState, GovernanceInv, GovernanceShape, GovernanceAssumption
<1>2. /\ asked < MaxCalls /\ MaxCalls \in Nat /\ calls' = calls \cup {c} /\ asked' = asked + 1
      /\ UNCHANGED <<records, own, overlooked, catalogue, loads, pending, dialogs>>
  BY DEF OtherAsks, GovernanceAssumption
<1> HIDE DEF c
<1> QED BY <1>1, <1>2, AskStep

\* A request is refused for what the model leaves out.
LEMMA RefusesStep ==
    ASSUME GovernanceInv, NEW c \in calls, Refuses(c)
    PROVE  GovernanceInv' /\ (DecidedOnRead => DecidedOnRead')
BY RefusedStep DEF Refuses

\* The buttons of a row, of a drawer and of the dialogs.
LEMMA ButtonSteps ==
    ASSUME GovernanceAssumption, GovernanceInv,
           \/ CloseDrawer \/ ConfirmRetire \/ SubmitTest \/ SubmitOverride \/ SubmitCreate
           \/ \E field \in {"retire", "test", "override", "create"} : Dismiss(field)
           \/ \E r \in Record :
                 OpenRecord(r) \/ RunPrimary(r) \/ OverrideNotTested(r) \/ OpenCreate(r)
    PROVE  GovernanceInv' /\ (DecidedOnRead => DecidedOnRead')
<1>t. dialogs \in DialogState
  BY DEF GovernanceInv, GovernanceShape
<1>1. ASSUME NEW r \in MaybeRecord,
             NEW field \in {"drawer", "retire", "test", "override", "create"},
             dialogs' = [dialogs EXCEPT ![field] = r],
             UNCHANGED <<records, own, overlooked, calls, asked, catalogue, loads, pending>>
      PROVE  GovernanceInv' /\ (DecidedOnRead => DecidedOnRead')
  <2>1. dialogs' \in DialogState
    BY <1>1, <1>t DEF DialogState
  <2> QED BY <2>1, <1>1, DialogStep
<1>2. ASSUME NEW field \in {"drawer", "retire", "test", "override", "create"},
             NEW act \in Action, act # "create", dialogs[field] # Nothing,
             Start(dialogs[field], act)
      PROVE  GovernanceInv' /\ (DecidedOnRead => DecidedOnRead')
  <2>1. dialogs[field] \in Record
    BY <1>2, <1>t DEF DialogState, MaybeRecord
  <2> QED BY <2>1, <1>2, CallStep DEF Start
<1>3. CASE CloseDrawer
  BY <1>1, <1>3 DEF CloseDrawer, MaybeRecord
<1>4. CASE ConfirmRetire
  BY <1>2, <1>4 DEF ConfirmRetire, Action, Transition
<1>5. CASE SubmitTest
  BY <1>2, <1>5 DEF SubmitTest, Action, Evidence
<1>6. CASE SubmitOverride
  BY <1>2, <1>6 DEF SubmitOverride, Action, Evidence
<1>7. CASE SubmitCreate
  <2>1. dialogs.create \in Record
    BY <1>7, <1>t DEF SubmitCreate, DialogState, MaybeRecord
  <2>2. "create" \in Action
    BY DEF Action, Transition
  <2> QED BY <1>7, <2>1, <2>2, CallStep DEF SubmitCreate
<1>8. ASSUME NEW field \in {"retire", "test", "override", "create"}, Dismiss(field)
      PROVE  GovernanceInv' /\ (DecidedOnRead => DecidedOnRead')
  BY <1>1, <1>8 DEF Dismiss, MaybeRecord
<1>9. ASSUME NEW r \in Record, NEW field \in {"retire", "test", "override", "create"},
             Asks(r, field)
      PROVE  GovernanceInv' /\ (DecidedOnRead => DecidedOnRead')
  BY <1>1, <1>9 DEF Asks, MaybeRecord
<1>10. ASSUME NEW r \in Record, OpenRecord(r) PROVE GovernanceInv' /\ (DecidedOnRead => DecidedOnRead')
  BY <1>1, <1>10 DEF OpenRecord, MaybeRecord
<1>11. ASSUME NEW r \in Record, RunPrimary(r) PROVE GovernanceInv' /\ (DecidedOnRead => DecidedOnRead')
  <2>1. PrimaryAction(r) \in Action /\ PrimaryAction(r) # "create"
    BY DEF PrimaryAction, Action, Transition, Evidence
  <2>2. CASE Asks(r, "test") \/ Asks(r, "retire")
    BY <2>2, <1>9
  <2>3. CASE Start(r, PrimaryAction(r))
    BY <2>1, <2>3, CallStep DEF Start
  <2> QED BY <1>11, <2>2, <2>3 DEF RunPrimary
<1>12. ASSUME NEW r \in Record, OverrideNotTested(r) \/ OpenCreate(r)
       PROVE  GovernanceInv' /\ (DecidedOnRead => DecidedOnRead')
  BY <1>9, <1>12 DEF OverrideNotTested, OpenCreate
<1> QED BY <1>3, <1>4, <1>5, <1>6, <1>7, <1>8, <1>10, <1>11, <1>12

\* Every step keeps the invariant, and what requests one at a time keep.
LEMMA GovernanceStepInv ==
    ASSUME GovernanceAssumption, GovernanceInv, [GovernanceNext]_governanceVars
    PROVE  GovernanceInv' /\ (DecidedOnRead => DecidedOnRead')
<1>1. CASE UNCHANGED governanceVars
  <2>1. dialogs' \in DialogState
    BY <1>1 DEF governanceVars, GovernanceInv, GovernanceShape
  <2> QED BY <1>1, <2>1, DialogStep DEF governanceVars
<1>2. ASSUME NEW r \in Record, NEW act \in Action, OtherAsks(r, act)
      PROVE  GovernanceInv' /\ (DecidedOnRead => DecidedOnRead')
  BY <1>2, OtherAsksStep
<1>3. ASSUME NEW c \in calls,
             Checks(c) \/ Commits(c) \/ Refuses(c) \/ Reload(c) \/ ActionFails(c)
      PROVE  GovernanceInv' /\ (DecidedOnRead => DecidedOnRead')
  BY <1>3, ChecksStep, CommitsStep, RefusesStep, ReloadStep, ActionFailsStep
<1>4. CASE Refresh
  BY <1>4, RefreshStep
<1>5. ASSUME NEW l \in loads, NEW m \in {{}, {"profile"}}, LoadReads(l, m)
      PROVE  GovernanceInv' /\ (DecidedOnRead => DecidedOnRead')
  <2>1. m \in SUBSET Kind
    BY DEF Kind
  <2> QED BY <1>5, <2>1, LoadReadsStep
<1>6. ASSUME NEW l \in loads, LoadArrives(l) \/ LoadFails(l)
      PROVE  GovernanceInv' /\ (DecidedOnRead => DecidedOnRead')
  BY <1>6, LoadEndsStep
<1>7. ASSUME \/ CloseDrawer \/ ConfirmRetire \/ SubmitTest \/ SubmitOverride \/ SubmitCreate
             \/ \E field \in {"retire", "test", "override", "create"} : Dismiss(field)
             \/ \E r \in Record :
                   OpenRecord(r) \/ RunPrimary(r) \/ OverrideNotTested(r) \/ OpenCreate(r)
      PROVE  GovernanceInv' /\ (DecidedOnRead => DecidedOnRead')
  BY <1>7, ButtonSteps
<1> QED BY <1>1, <1>2, <1>3, <1>4, <1>5, <1>6, <1>7 DEF GovernanceNext

-----------------------------------------------------------------------------
(* The results *)

\* The catalogue and its records keep their types, for any records, requests,
\* loads and overlap: a revision never outruns the requests made.
THEOREM GovernanceTypesCorrect ==
    ASSUME GovernanceAssumption PROVE GovernanceSpec => []GovernanceTypeOK
<1>1. GovernanceInit => GovernanceInv
  BY GovernanceInitInv
<1>2. GovernanceInv /\ [GovernanceNext]_governanceVars => GovernanceInv'
  BY GovernanceStepInv
<1>3. GovernanceInv => GovernanceTypeOK
  BY DEF GovernanceInv, GovernanceShape, GovernanceTypeOK, CallState, LoadState, CatalogueState,
     DialogState
<1> QED BY <1>1, <1>2, <1>3, PTL DEF GovernanceSpec

\* ContractsPage: once nothing is under way the catalogue shows what was changed
\* on it, and a row says Saving only while its action is under way, however many
\* actions and loads overlap and whoever else writes.
THEOREM CatalogueIsTrue ==
    ASSUME GovernanceAssumption PROVE GovernanceSpec => []GovernanceIsTrue
<1>1. GovernanceInit => GovernanceInv
  BY GovernanceInitInv
<1>2. GovernanceInv /\ [GovernanceNext]_governanceVars => GovernanceInv'
  BY GovernanceStepInv
<1>3. GovernanceInv => GovernanceIsTrue
  <2> SUFFICES ASSUME GovernanceInv PROVE CatalogueShowsOwnWork
    BY DEF GovernanceIsTrue, GovernanceInv, Pendings
  <2> QED BY DEF CatalogueShowsOwnWork, GovernanceInv, OwnWork, ReloadDue, WillBeShown, HasOwn
<1> QED BY <1>1, <1>2, <1>3, PTL DEF GovernanceSpec

\* store.py:5771, 6894: with any number of requests between their reads and their
\* writes, an approved profile was tested or its test overridden since it was last
\* reinstated, or the request that wrote it last had read an older row.
THEOREM ApprovedWereTested ==
    ASSUME GovernanceAssumption PROVE GovernanceSpec => []ApprovedWasTested
<1>1. GovernanceInit => GovernanceInv /\ DecidedOnRead
  BY GovernanceInitInv
<1>2. GovernanceInv /\ DecidedOnRead /\ [GovernanceNext]_governanceVars
        => (GovernanceInv /\ DecidedOnRead)'
  BY GovernanceStepInv
<1>3. GovernanceInv /\ DecidedOnRead => ApprovedWasTested
  BY DEF DecidedOnRead
<1> QED BY <1>1, <1>2, <1>3, PTL DEF GovernanceSpec

-----------------------------------------------------------------------------
(* The list of traces: newest first                                            *)

\* A sequence lists a set newest first.
Lists(s, S) ==
    /\ s \in Seq(Trace) /\ Loaded(s) = S
    /\ \A i, j \in 1 .. Len(s) : i < j => s[i] > s[j]

\* Traces are numbered from 1.
LEMMA TracesAreNumbers ==
    ASSUME TraceListAssumption
    PROVE  \A t \in Trace : t \in Nat /\ t \in Int /\ t >= 1 /\ t <= MaxTrace
  BY DEF TraceListAssumption, Trace

Earlier == {p \in Nat \X Nat : p[1] < p[2]}

\* A set of traces that is not empty has a newest one.
LEMMA NewestIsNewest ==
    ASSUME TraceListAssumption, NEW S \in SUBSET Trace, S # {}
    PROVE  Newest(S) \in S /\ \A u \in S : u <= Newest(S)
<1> DEFINE T == {MaxTrace - t : t \in S}
<1>1. MaxTrace \in Nat /\ \A t \in S : t \in 1 .. MaxTrace
  BY DEF TraceListAssumption, Trace
<1>2. \A t \in S : MaxTrace - t \in Nat
  BY <1>1
<1>3. T \subseteq Nat /\ T # {}
  BY <1>2
<1>4. IsWellFoundedOn(Earlier, Nat)
  BY NatLessThanWellFounded DEF OpToRel, Earlier
<1>5. PICK m \in T : \A n \in T : ~(<<n, m>> \in Earlier)
  BY <1>3, <1>4, WFMin
<1>6. PICK t \in S : m = MaxTrace - t
  BY <1>5
<1>7. \A u \in S : u <= t
  <2> TAKE u \in S
  <2>1. MaxTrace - u \in T /\ <<MaxTrace - u, MaxTrace - t>> \in Nat \X Nat
    BY <1>2
  <2>2. ~(MaxTrace - u < MaxTrace - t)
    BY <1>5, <1>6, <2>1 DEF Earlier
  <2> QED BY <1>1, <2>2
<1> QED BY <1>7 DEF Newest

\* What holds of no traces, and of a set if it holds of the set without its newest
\* trace, holds of every set of traces.
LEMMA NewestInduction ==
    ASSUME TraceListAssumption, NEW G, {} \in G,
           \A S \in SUBSET Trace : S # {} /\ S \ {Newest(S)} \in G => S \in G
    PROVE  \A S \in SUBSET Trace : S \in G
<1> DEFINE Bad == {n \in Nat : \E S \in SUBSET Trace : S \notin G /\ \A t \in S : t <= n}
<1>1. MaxTrace \in Nat /\ Trace = 1 .. MaxTrace
  BY DEF TraceListAssumption, Trace
<1>2. SUFFICES ASSUME Bad # {} PROVE FALSE
  <2>1. SUFFICES ASSUME NEW S \in SUBSET Trace PROVE S \in G
    OBVIOUS
  <2>2. \A t \in S : t <= MaxTrace
    BY <1>1
  <2> QED BY <1>1, <1>2, <2>2
<1>3. IsWellFoundedOn(Earlier, Nat)
  BY NatLessThanWellFounded DEF OpToRel, Earlier
<1>4. PICK n \in Bad : \A m \in Bad : ~(<<m, n>> \in Earlier)
  <2>1. Bad \subseteq Nat
    OBVIOUS
  <2> QED BY <1>2, <1>3, <2>1, WFMin
<1>5. PICK S \in SUBSET Trace : S \notin G /\ \A t \in S : t <= n
  BY <1>4
<1>6. S # {} /\ n \in Nat
  BY <1>4, <1>5
<1>7. Newest(S) \in S /\ \A u \in S : u <= Newest(S)
  BY <1>6, NewestIsNewest
<1> DEFINE R == S \ {Newest(S)}
<1>8. R \notin G /\ R \in SUBSET Trace
  BY <1>5, <1>6
<1>9. \A t \in R : t <= n - 1
  <2> TAKE t \in R
  <2>1. t \in S /\ t # Newest(S) /\ t <= Newest(S) /\ Newest(S) <= n
    BY <1>5, <1>7
  <2>2. t \in Int /\ Newest(S) \in Int
    BY <2>1, <1>7, TracesAreNumbers
  <2> QED BY <1>6, <2>1, <2>2
<1>10. n - 1 \in Nat
  <2>1. Newest(S) >= 1 /\ Newest(S) <= n /\ Newest(S) \in Int
    BY <1>5, <1>7, TracesAreNumbers
  <2> QED BY <1>6, <2>1
<1>11. n - 1 \in Bad
  BY <1>8, <1>9, <1>10
<1>12. <<n - 1, n>> \in Earlier
  BY <1>6, <1>10 DEF Earlier
<1> QED BY <1>4, <1>11, <1>12

\* No trace is listed by the empty sequence.
LEMMA NothingListed ==
    ASSUME NEW s PROVE Lists(s, {}) <=> s = <<>>
<1>1. Lists(<<>>, {})
  BY DEF Lists, Loaded
<1>2. ASSUME Lists(s, {}) PROVE s = <<>>
  <2>1. s \in Seq(Trace) /\ \A i \in 1 .. Len(s) : s[i] \in {}
    BY <1>2 DEF Lists, Loaded
  <2>2. Len(s) = 0
    BY <2>1
  <2> QED BY <2>1, <2>2
<1> QED BY <1>1, <1>2

\* The newest trace is put before the others.
LEMMA NewestListed ==
    ASSUME TraceListAssumption, NEW S \in SUBSET Trace, S # {}, NEW s, Lists(s, S \ {Newest(S)})
    PROVE  Lists(<<Newest(S)>> \o s, S)
<1> DEFINE u == <<Newest(S)>> \o s
<1>1. Newest(S) \in S /\ (\A t \in S : t <= Newest(S)) /\ Newest(S) \in Trace
  BY NewestIsNewest
<1>2. s \in Seq(Trace) /\ Len(s) \in Nat /\ Loaded(s) = S \ {Newest(S)}
  BY DEF Lists
<1>3. /\ u \in Seq(Trace) /\ Len(u) = Len(s) + 1 /\ u[1] = Newest(S)
      /\ \A i \in 1 .. Len(s) : u[i + 1] = s[i]
  BY <1>1, <1>2
<1> HIDE DEF u
<1>4. \A i \in 1 .. Len(s) : s[i] \in S \ {Newest(S)}
  BY <1>2 DEF Loaded
<1>5. \A i \in 2 .. Len(u) : i - 1 \in 1 .. Len(s) /\ u[i] = s[i - 1]
  BY <1>2, <1>3
<1>6. Loaded(u) = S
  <2>1. \A i \in 1 .. Len(u) : i = 1 \/ i \in 2 .. Len(u)
    BY <1>2, <1>3
  <2>2. \A i \in 1 .. Len(u) : u[i] \in S
    BY <1>1, <1>3, <1>4, <1>5, <2>1
  <2>3. ASSUME NEW t \in S PROVE \E i \in 1 .. Len(u) : u[i] = t
    <3>1. CASE t = Newest(S)
      BY <1>2, <1>3, <3>1
    <3>2. CASE t # Newest(S)
      <4>1. PICK i \in 1 .. Len(s) : s[i] = t
        BY <1>2, <3>2 DEF Loaded
      <4>2. i + 1 \in 1 .. Len(u) /\ u[i + 1] = t
        BY <1>2, <1>3, <4>1
      <4> QED BY <4>2
    <3> QED BY <3>1, <3>2
  <2> QED BY <2>2, <2>3 DEF Loaded
<1>7. \A i, j \in 1 .. Len(u) : i < j => u[i] > u[j]
  <2>1. SUFFICES ASSUME NEW i \in 1 .. Len(u), NEW j \in 1 .. Len(u), i < j PROVE u[i] > u[j]
    OBVIOUS
  <2>2. j \in 2 .. Len(u) /\ j - 1 \in 1 .. Len(s) /\ u[j] = s[j - 1]
    BY <1>2, <1>3, <1>5, <2>1
  <2>3. CASE i = 1
    <3>1. u[j] \in S /\ u[j] # Newest(S) /\ u[j] <= Newest(S)
      BY <1>1, <1>4, <2>2
    <3>2. u[j] \in Int /\ Newest(S) \in Int
      BY <1>1, <3>1, TracesAreNumbers
    <3> QED BY <1>3, <2>3, <3>1, <3>2
  <2>4. CASE i # 1
    <3>1. i - 1 \in 1 .. Len(s) /\ u[i] = s[i - 1] /\ i - 1 < j - 1
      BY <1>2, <1>3, <1>5, <2>1, <2>4
    <3> QED BY <2>2, <3>1 DEF Lists
  <2> QED BY <2>3, <2>4
<1> QED BY <1>3, <1>6, <1>7 DEF Lists, u

\* A list newest first begins with the newest trace, and goes on with the others.
LEMMA ListBegins ==
    ASSUME TraceListAssumption, NEW S \in SUBSET Trace, S # {}, NEW s, Lists(s, S)
    PROVE  s = <<Newest(S)>> \o Tail(s) /\ Lists(Tail(s), S \ {Newest(S)})
<1>1. Newest(S) \in S /\ \A t \in S : t <= Newest(S)
  BY NewestIsNewest
<1>2. /\ s \in Seq(Trace) /\ Len(s) \in Nat /\ \A i \in 1 .. Len(s) : s[i] \in S /\ s[i] \in Int
      /\ \A i, j \in 1 .. Len(s) : i < j => s[i] > s[j]
      /\ \A t \in S : \E i \in 1 .. Len(s) : s[i] = t
  BY TracesAreNumbers, SMTT(30) DEF Lists, Loaded
<1>3. PICK k \in 1 .. Len(s) : s[k] = Newest(S)
  BY <1>1, <1>2
<1>4. k = 1
  <2>1. SUFFICES ASSUME k # 1 PROVE FALSE
    OBVIOUS
  <2>2. 1 \in 1 .. Len(s) /\ 1 < k
    BY <1>2, <1>3, <2>1
  <2>3. s[1] > s[k] /\ s[1] <= Newest(S) /\ s[1] \in Int /\ s[k] \in Int
    BY <1>1, <1>2, <1>3, <2>2
  <2> QED BY <1>3, <2>3
<1>5. /\ s # <<>> /\ Tail(s) \in Seq(Trace) /\ Len(Tail(s)) = Len(s) - 1 /\ s[1] = Newest(S)
      /\ \A i \in 1 .. Len(s) - 1 : Tail(s)[i] = s[i + 1]
  BY <1>2, <1>3, <1>4
<1>6. s = <<Newest(S)>> \o Tail(s)
  <2>1. s = <<Head(s)>> \o Tail(s) /\ Head(s) = s[1]
    BY <1>2, <1>5
  <2> QED BY <1>5, <2>1
<1>7. \A i \in 1 .. Len(s) - 1 :
         i + 1 \in 1 .. Len(s) /\ i + 1 # 1 /\ 1 < i + 1 /\ 1 \in 1 .. Len(s)
  BY <1>2
<1>8. Loaded(Tail(s)) = S \ {Newest(S)}
  <2>1. ASSUME NEW i \in 1 .. Len(Tail(s)) PROVE Tail(s)[i] \in S \ {Newest(S)}
    <3>1. i \in 1 .. Len(s) - 1
      BY <1>5
    <3>2. s[i + 1] \in S /\ s[1] > s[i + 1] /\ s[1] \in Int /\ s[i + 1] \in Int
      BY <1>2, <1>7, <3>1
    <3> QED BY <1>5, <3>1, <3>2
  <2>2. ASSUME NEW t \in S \ {Newest(S)} PROVE \E i \in 1 .. Len(Tail(s)) : Tail(s)[i] = t
    <3>1. PICK i \in 1 .. Len(s) : s[i] = t
      BY <1>2
    <3>2. i # 1
      BY <1>5, <3>1
    <3>3. i - 1 \in 1 .. Len(Tail(s)) /\ Tail(s)[i - 1] = t
      BY <1>2, <1>5, <3>1, <3>2
    <3> QED BY <3>3
  <2> QED BY <2>1, <2>2 DEF Loaded
<1>9. \A i, j \in 1 .. Len(Tail(s)) : i < j => Tail(s)[i] > Tail(s)[j]
  <2>1. SUFFICES ASSUME NEW i \in 1 .. Len(Tail(s)), NEW j \in 1 .. Len(Tail(s)), i < j
                 PROVE  Tail(s)[i] > Tail(s)[j]
    OBVIOUS
  <2>2. i \in 1 .. Len(s) - 1 /\ j \in 1 .. Len(s) - 1 /\ i + 1 < j + 1
    BY <1>2, <1>5, <2>1
  <2> QED BY <1>2, <1>5, <1>7, <2>2
<1> QED BY <1>5, <1>6, <1>8, <1>9 DEF Lists

\* There is one way to list a set newest first.
LEMMA OneList ==
    ASSUME TraceListAssumption
    PROVE  \A S \in SUBSET Trace : \E s : Lists(s, S) /\ \A u : Lists(u, S) => u = s
<1> DEFINE G == {S \in SUBSET Trace : \E s : Lists(s, S) /\ \A u : Lists(u, S) => u = s}
<1>1. {} \in G
  BY NothingListed
<1>2. ASSUME NEW S \in SUBSET Trace, S # {}, S \ {Newest(S)} \in G PROVE S \in G
  <2>1. PICK r : /\ Lists(r, S \ {Newest(S)})
                 /\ \A u : Lists(u, S \ {Newest(S)}) => u = r
    BY <1>2
  <2>2. Lists(<<Newest(S)>> \o r, S)
    BY <1>2, <2>1, NewestListed
  <2>3. ASSUME NEW u, Lists(u, S) PROVE u = <<Newest(S)>> \o r
    BY <1>2, <2>1, <2>3, ListBegins
  <2> QED BY <2>2, <2>3
<1> HIDE DEF G
<1>3. \A S \in SUBSET Trace : S \in G
  BY <1>1, <1>2, NewestInduction
<1> QED BY <1>3 DEF G

\* NewestFirst is what its equation says.
LEMMA NewestFirstEquation ==
    ASSUME TraceListAssumption
    PROVE  NewestFirst = [S \in SUBSET Trace |->
               IF S = {} THEN <<>> ELSE <<Newest(S)>> \o NewestFirst[S \ {Newest(S)}]]
<1> DEFINE f == [S \in SUBSET Trace |-> CHOOSE s : Lists(s, S)]
           E(g) == [S \in SUBSET Trace |->
                       IF S = {} THEN <<>> ELSE <<Newest(S)>> \o g[S \ {Newest(S)}]]
<1>1. \A S \in SUBSET Trace : Lists(f[S], S) /\ \A u : Lists(u, S) => u = f[S]
  BY OneList
<1>2. ASSUME NEW S \in SUBSET Trace
      PROVE f[S] = IF S = {} THEN <<>> ELSE <<Newest(S)>> \o f[S \ {Newest(S)}]
  <2>1. CASE S = {}
    BY <1>1, <2>1, NothingListed
  <2>2. CASE S # {}
    <3>1. Lists(f[S \ {Newest(S)}], S \ {Newest(S)})
      BY <1>1
    <3>2. Lists(<<Newest(S)>> \o f[S \ {Newest(S)}], S)
      BY <2>2, <3>1, NewestListed
    <3> QED BY <1>1, <2>2, <3>2
  <2> QED BY <2>1, <2>2
<1>3. f = E(f)
  <2>1. E(f) = [S \in SUBSET Trace |-> f[S]]
    BY <1>2
  <2>2. f = [S \in SUBSET Trace |-> f[S]]
    OBVIOUS
  <2> QED BY <2>1, <2>2
<1>4. NewestFirst = CHOOSE g : g = E(g)
  BY DEF NewestFirst
<1> HIDE DEF f
<1> QED BY <1>3, <1>4

\* NewestFirst lists a set newest first.
LEMMA NewestFirstLists ==
    ASSUME TraceListAssumption, NEW S \in SUBSET Trace
    PROVE  Lists(NewestFirst[S], S)
<1> DEFINE G == {R \in SUBSET Trace : Lists(NewestFirst[R], R)}
<1>1. \A R \in SUBSET Trace :
         NewestFirst[R] = IF R = {} THEN <<>> ELSE <<Newest(R)>> \o NewestFirst[R \ {Newest(R)}]
  BY NewestFirstEquation
<1>2. {} \in G
  BY <1>1, NothingListed
<1>3. ASSUME NEW R \in SUBSET Trace, R # {}, R \ {Newest(R)} \in G PROVE R \in G
  BY <1>1, <1>3, NewestListed
<1> HIDE DEF G
<1>4. S \in G
  BY <1>2, <1>3, NewestInduction
<1> QED BY <1>4 DEF G

\* A sequence of different elements has as many as the set of them.
LEMMA ListedCount ==
    ASSUME TraceListAssumption, NEW S \in SUBSET Trace, NEW s, Lists(s, S)
    PROVE  Cardinality(S) = Len(s)
<1>1. /\ s \in Seq(Trace) /\ Len(s) \in Nat /\ Loaded(s) = S
      /\ \A i, j \in 1 .. Len(s) : i < j => s[i] > s[j]
      /\ \A i \in 1 .. Len(s) : s[i] \in Int
  BY TracesAreNumbers DEF Lists
<1>2. \A i, j \in 1 .. Len(s) : s[i] = s[j] => i = j
  <2>1. SUFFICES ASSUME NEW i \in 1 .. Len(s), NEW j \in 1 .. Len(s), i < j, s[i] = s[j]
                 PROVE  FALSE
    BY <1>1
  <2> QED BY <1>1, <2>1
<1>3. s \in Bijection(1 .. Len(s), S)
  <2>1. s \in [1 .. Len(s) -> S] /\ \A t \in S : \E i \in 1 .. Len(s) : s[i] = t
    BY <1>1 DEF Loaded
  <2> QED BY <1>2, <2>1 DEF Bijection, Injection, Surjection, IsInjective
<1>4. ExistsBijection(1 .. Len(s), S)
  BY <1>3 DEF ExistsBijection
<1> QED BY <1>1, <1>4, FS_CountingElements

\* Traces can be counted.
LEMMA TracesAreFinite ==
    ASSUME TraceListAssumption, NEW S \in SUBSET Trace
    PROVE  IsFiniteSet(S) /\ Cardinality(S) \in Nat
<1>1. IsFiniteSet(Trace)
  BY FS_Interval DEF TraceListAssumption, Trace
<1> QED BY <1>1, FS_Subset, FS_CardinalityType

\* What is before the cursor.
Rest(view, cursor) == {t \in Visible(view) : cursor = 0 \/ t < cursor}

\* A page holds the newest traces before its cursor, newest first: all of them, or
\* those down to where the next page goes on.
LEMMA PageFacts ==
    ASSUME TraceListAssumption, NEW view \in View, NEW cursor \in Trace \cup {0}
    PROVE  LET p == PageOf(view, cursor) IN
           /\ Lists(p.items, Loaded(p.items)) /\ Loaded(p.items) \subseteq Rest(view, cursor)
           /\ p.total \in Nat /\ p.hiddenCount \in Nat /\ p.more \in BOOLEAN
           /\ p.next \in Trace \cup {0}
           /\ p.next = 0 => Loaded(p.items) = Rest(view, cursor)
           /\ p.next # 0 => p.more /\ p.items # <<>> /\ p.next = p.items[Len(p.items)]
           /\ p.items # <<>> =>
                 \A t \in Rest(view, cursor) : t >= p.items[Len(p.items)] => t \in Loaded(p.items)
<1> DEFINE p == PageOf(view, cursor)
           R == Rest(view, cursor)
           all == NewestFirst[R]
           n == IF Cardinality(R) < PageSize THEN Cardinality(R) ELSE PageSize
           s == SubSeq(all, 1, n)
<1>1. R \in SUBSET Trace /\ Visible(view) \in SUBSET Trace
  BY DEF Rest, Visible, View, TraceListAssumption, Trace
<1>2. /\ Cardinality(R) \in Nat /\ Cardinality(Visible(view)) \in Nat
      /\ PageSize \in Nat /\ PageSize > 0
  BY <1>1, TracesAreFinite DEF TraceListAssumption
<1>3. /\ Lists(all, R) /\ Len(all) = Cardinality(R) /\ all \in Seq(Trace) /\ Loaded(all) = R
      /\ \A i, j \in 1 .. Len(all) : i < j => all[i] > all[j]
  BY <1>1, NewestFirstLists, ListedCount DEF Lists
<1>4. /\ p.items = s /\ p.total = Cardinality(Visible(view)) /\ p.more = (Cardinality(R) > PageSize)
      /\ p.next = IF Cardinality(R) > PageSize THEN s[Len(s)] ELSE 0
      /\ p.hiddenCount = Cardinality({t \in Matching[view.query] : t <= captured} \cap hidden)
  BY DEF PageOf, Rest
<1> HIDE DEF p, R, all
<1>5. n \in 0 .. Len(all) /\ n \in Nat
  BY <1>2, <1>3
<1>6. s \in Seq(Trace) /\ Len(s) = n /\ \A i \in 1 .. n : s[i] = all[i]
  BY <1>3, <1>5
<1>7. 0 \notin Trace
  BY TracesAreNumbers
<1> HIDE DEF s, n
<1>8. Lists(s, Loaded(s)) /\ Loaded(s) \subseteq R
  <2>1. 1 .. n \subseteq 1 .. Len(all) /\ \A i \in 1 .. Len(all) : all[i] \in R
    BY <1>3, <1>5 DEF Loaded
  <2> QED BY <1>3, <1>6, <2>1 DEF Lists, Loaded
<1>9. Cardinality(R) <= PageSize => Loaded(s) = R
  <2>1. SUFFICES ASSUME Cardinality(R) <= PageSize PROVE R \subseteq Loaded(s)
    BY <1>8
  <2>2. n = Len(all)
    BY <1>2, <1>3, <2>1 DEF n
  <2> QED BY <1>3, <1>6, <2>2 DEF Loaded
<1>10. Cardinality(R) > PageSize =>
          s # <<>> /\ s[Len(s)] \in Trace /\ s[Len(s)] # 0 /\ n = PageSize /\ n \in 1 .. n
  <2>1. SUFFICES ASSUME Cardinality(R) > PageSize
                 PROVE  /\ s # <<>> /\ s[Len(s)] \in Trace /\ s[Len(s)] # 0
                        /\ n = PageSize /\ n \in 1 .. n
    OBVIOUS
  <2>2. n = PageSize
    BY <1>2, <2>1 DEF n
  <2>3. n \in 1 .. n
    BY <1>2, <2>2
  <2>4. s # <<>> /\ s[Len(s)] \in Trace
    BY <1>6, <2>3
  <2> QED BY <1>7, <2>2, <2>3, <2>4
<1>11. ASSUME s # <<>>, NEW t \in R, t >= s[Len(s)] PROVE t \in Loaded(s)
  <2>1. n \in 1 .. Len(all) /\ n \in 1 .. n /\ Len(s) = n
    BY <1>5, <1>6, <1>11
  <2>2. PICK i \in 1 .. Len(all) : all[i] = t
    BY <1>3 DEF Loaded
  <2>3. s[n] = all[n] /\ all[n] \in Int /\ t \in Int
    BY <1>3, <1>6, <2>1, <2>2, TracesAreNumbers
  <2>4. ~(n < i)
    BY <1>3, <1>11, <2>1, <2>2, <2>3
  <2>5. i \in 1 .. n
    BY <1>5, <2>2, <2>4
  <2> QED BY <1>6, <2>2, <2>5 DEF Loaded
<1>12. p.hiddenCount \in Nat
  <2>1. {t \in Matching[view.query] : t <= captured} \cap hidden \in SUBSET Trace
    BY DEF View, TraceListAssumption, Trace
  <2> QED BY <1>4, <2>1, TracesAreFinite
<1>13. p.next = 0 => Cardinality(R) <= PageSize
  BY <1>2, <1>4, <1>10
<1>14. p.next # 0 => Cardinality(R) > PageSize
  BY <1>4
<1>15. /\ p.total \in Nat /\ p.more \in BOOLEAN /\ p.next \in Trace \cup {0}
  BY <1>2, <1>4, <1>10
<1>16. p.next # 0 => p.more /\ p.items # <<>> /\ p.next = p.items[Len(p.items)]
  BY <1>4, <1>10, <1>14
<1> QED BY <1>4, <1>8, <1>9, <1>11, <1>12, <1>13, <1>15, <1>16 DEF p, R

\* A page of later rows is appended as it is, and the list ends where it ends.
LEMMA RowsAppended ==
    ASSUME TraceListAssumption, NEW base, Lists(base, Loaded(base)), NEW q, Lists(q, Loaded(q)),
           \A b \in Loaded(base), t \in Loaded(q) : b > t
    PROVE  LET s == base \o NewestFirst[Loaded(q) \ Loaded(base)] IN
           /\ Lists(s, Loaded(s)) /\ Loaded(s) = Loaded(base) \cup Loaded(q)
           /\ q = <<>> => s = base
           /\ q # <<>> => s # <<>> /\ s[Len(s)] = q[Len(q)]
           /\ base # <<>> => s # <<>> /\ s[1] = base[1]
           /\ base = <<>> => s = q
<1>1. /\ base \in Seq(Trace) /\ Len(base) \in Nat /\ q \in Seq(Trace) /\ Len(q) \in Nat
      /\ \A i, j \in 1 .. Len(base) : i < j => base[i] > base[j]
      /\ \A i, j \in 1 .. Len(q) : i < j => q[i] > q[j]
      /\ \A i \in 1 .. Len(base) : base[i] \in Loaded(base) /\ base[i] \in Trace
      /\ \A i \in 1 .. Len(q) : q[i] \in Loaded(q) /\ q[i] \in Trace
  BY DEF Lists, Loaded
<1>2. Loaded(q) \ Loaded(base) = Loaded(q)
  <2>1. \A t \in Loaded(q) : t \in Int
    BY <1>1, TracesAreNumbers DEF Loaded
  <2> QED BY <2>1
<1>3. NewestFirst[Loaded(q) \ Loaded(base)] = q
  <2>1. Loaded(q) \in SUBSET Trace
    BY <1>1 DEF Loaded
  <2> QED BY <1>2, <2>1, OneList, NewestFirstLists
<1> DEFINE s == base \o q
<1>4. /\ s \in Seq(Trace) /\ Len(s) = Len(base) + Len(q)
      /\ \A i \in 1 .. Len(base) : s[i] = base[i]
      /\ \A i \in 1 .. Len(q) : s[Len(base) + i] = q[i]
  BY <1>1
<1>5. q = <<>> => s = base
  BY <1>1
<1>6. base = <<>> => s = q
  BY <1>1
<1> HIDE DEF s
<1>7. \A i \in 1 .. Len(s) : \/ i \in 1 .. Len(base) /\ s[i] = base[i]
                             \/ /\ i > Len(base) /\ i - Len(base) \in 1 .. Len(q)
                                /\ s[i] = q[i - Len(base)]
  <2> TAKE i \in 1 .. Len(s)
  <2>1. CASE i <= Len(base)
    BY <1>1, <1>4, <2>1
  <2>2. CASE ~(i <= Len(base))
    <3>1. i - Len(base) \in 1 .. Len(q) /\ Len(base) + (i - Len(base)) = i /\ i > Len(base)
      BY <1>1, <1>4, <2>2
    <3> QED BY <1>4, <3>1
  <2> QED BY <2>1, <2>2
<1>8. Loaded(s) = Loaded(base) \cup Loaded(q)
  <2>1. Loaded(s) \subseteq Loaded(base) \cup Loaded(q)
    BY <1>1, <1>7 DEF Loaded
  <2>2. 1 .. Len(base) \subseteq 1 .. Len(s)
    BY <1>1, <1>4
  <2>3. \A i \in 1 .. Len(q) : Len(base) + i \in 1 .. Len(s)
    BY <1>1, <1>4
  <2>4. Loaded(base) \subseteq Loaded(s)
    BY <1>4, <2>2 DEF Loaded
  <2>5. Loaded(q) \subseteq Loaded(s)
    BY <1>4, <2>3 DEF Loaded
  <2> QED BY <2>1, <2>4, <2>5
<1>9. Lists(s, Loaded(s))
  <2>1. SUFFICES ASSUME NEW i \in 1 .. Len(s), NEW j \in 1 .. Len(s), i < j PROVE s[i] > s[j]
    BY <1>4 DEF Lists
  <2>2. CASE j \in 1 .. Len(base)
    <3>1. i \in 1 .. Len(base)
      BY <1>1, <2>1, <2>2
    <3> QED BY <1>1, <1>4, <2>1, <2>2, <3>1
  <2>3. CASE j \notin 1 .. Len(base)
    <3>1. j - Len(base) \in 1 .. Len(q) /\ s[j] = q[j - Len(base)]
      BY <1>7, <2>3
    <3>2. CASE i \in 1 .. Len(base)
      BY <1>1, <1>4, <3>1, <3>2
    <3>3. CASE i \notin 1 .. Len(base)
      <4>1. i - Len(base) \in 1 .. Len(q) /\ s[i] = q[i - Len(base)]
        BY <1>7, <3>3
      <4>2. i - Len(base) < j - Len(base)
        BY <1>1, <2>1
      <4> QED BY <1>1, <3>1, <4>1, <4>2
    <3> QED BY <3>2, <3>3
  <2> QED BY <2>2, <2>3
<1>10. q # <<>> => s # <<>> /\ s[Len(s)] = q[Len(q)]
  <2>1. SUFFICES ASSUME q # <<>> PROVE s # <<>> /\ s[Len(s)] = q[Len(q)]
    OBVIOUS
  <2>2. Len(q) \in 1 .. Len(q) /\ Len(s) > 0
    BY <1>1, <1>4, <2>1
  <2> QED BY <1>4, <2>2
<1>11. base # <<>> => s # <<>> /\ s[1] = base[1]
  <2>1. SUFFICES ASSUME base # <<>> PROVE s # <<>> /\ s[1] = base[1]
    OBVIOUS
  <2>2. 1 \in 1 .. Len(base) /\ Len(s) > 0
    BY <1>1, <1>4, <2>1
  <2> QED BY <1>4, <2>2
<1> QED BY <1>3, <1>5, <1>6, <1>8, <1>9, <1>10, <1>11 DEF s

-----------------------------------------------------------------------------
(* The list of traces: the inductive invariant                                 *)

\* Of the reads under way only the one asked for last is wanted: the first page
\* while the tab is loading, and else the page after the list.
ReadsAreInTurn ==
    /\ \A r \in reads : r.seq <= requestSeq
    /\ \A r, s \in reads : r.cursor = 0 /\ s.cursor = 0 /\ r.seq = s.seq => r = s
    /\ \A r, s \in reads : r.cursor # 0 /\ s.cursor # 0 => r = s
    /\ \A r \in reads : r.cursor # 0 => tab.loadingMore
    /\ \A r \in reads : Wanted(r) => (tab.loading <=> r.cursor = 0)
MoreFollows ==
    \A r \in reads : Wanted(r) /\ r.cursor # 0 =>
        r.cursor = list.next /\ (overtaken \/ r.view = list.view)
WantedForFilters ==
    \/ overtaken
    \/ /\ \A r \in reads : Wanted(r) => r.view = filters.applied
       /\ tab.loading \/ list.view = filters.applied

HiddenWereHidden == hidden \subseteq everHidden

\* The rows are newest first and captured; the next page goes on after the last.
RowsDescend == Lists(list.items, Loaded(list.items)) /\ \A t \in Loaded(list.items) : t <= captured
NextIsLast ==
    list.next # 0 => /\ list.items # <<>> /\ list.next = list.items[Len(list.items)]
                     /\ list.more

Due(view) == {t \in Matching[view.query] : t <= captured /\ t \notin everHidden}
NothingIsSkipped ==
    ~overtaken /\ list.items # <<>> =>
        \A t \in Due(list.view) :
            /\ t <= list.items[1]
            /\ list.next = 0 \/ t >= list.items[Len(list.items)]
            => t \in Loaded(list.items)

RowsInv == RowsDescend /\ NextIsLast /\ NothingIsSkipped
TraceInv ==
    /\ TraceTypeOK /\ ReadsAreInTurn /\ MoreFollows /\ WantedForFilters /\ HiddenWereHidden
    /\ RowsInv

-----------------------------------------------------------------------------
(* The list of traces: steps                                                   *)

\* The link has opened the tab.
LEMMA TraceInitInv == ASSUME TraceListAssumption, TraceInit PROVE TraceInv
<1> DEFINE view == [query |-> FirstQuery, showHidden |-> FALSE]
<1>1. view \in View /\ 0 \in Trace \cup {0}
  BY DEF TraceListAssumption, View
<1>2. list.items = <<>> /\ list.next = 0 /\ list.view = view /\ filters.applied = view
  BY DEF TraceInit
<1>3. reads = {[seq |-> 1, view |-> view, cursor |-> 0]} /\ requestSeq = 1 /\ tab.loading = TRUE
      /\ overtaken = FALSE
  BY DEF TraceInit
<1>4. TraceTypeOK
  <2>1. filters \in [typed: Query, applied: View] /\ list \in ListState
    BY <1>1 DEF TraceInit, TraceListAssumption, ListState
  <2>2. reads \subseteq Read
    BY <1>1, <1>3 DEF Read
  <2>3. /\ tab \in [loading: BOOLEAN, loadingMore: BOOLEAN, error: BOOLEAN]
        /\ spent \in [changes: Nat, toggles: Nat, failures: Nat] /\ captured \in 0 .. MaxTrace
    BY DEF TraceInit, TraceListAssumption
  <2>4. /\ hidden = {} /\ everHidden = {} /\ toggles = {}
        /\ overtaken \in BOOLEAN /\ requestSeq \in Nat
    BY DEF TraceInit
  <2> QED BY <2>1, <2>2, <2>3, <2>4 DEF TraceTypeOK
<1>5. ReadsAreInTurn /\ MoreFollows /\ WantedForFilters
  BY <1>2, <1>3 DEF ReadsAreInTurn, MoreFollows, WantedForFilters, Wanted
<1>6. HiddenWereHidden
  BY DEF TraceInit, HiddenWereHidden
<1>7. RowsInv
  <2>1. Loaded(<<>>) = {}
    BY DEF Loaded
  <2>2. Lists(<<>>, {})
    BY NothingListed
  <2> QED BY <1>2, <2>1, <2>2 DEF RowsInv, RowsDescend, NextIsLast, NothingIsSkipped
<1> QED BY <1>4, <1>5, <1>6, <1>7 DEF TraceInv

\* The rows keep to their rules while they stay: what is captured later is newer,
\* and what was never hidden gets less.
LEMMA RowsStay ==
    ASSUME TraceListAssumption, TraceInv, UNCHANGED list,
           captured' \in 0 .. MaxTrace, captured <= captured',
           everHidden \subseteq everHidden', overtaken => overtaken'
    PROVE  RowsInv'
<1>1. /\ captured \in Int /\ captured' \in Int /\ list \in ListState /\ list.items \in Seq(Trace)
      /\ list.view \in View /\ Matching[list.view.query] \subseteq Trace
  BY DEF TraceInv, TraceTypeOK, TraceListAssumption, ListState, View, Trace
<1>2. \A t \in Loaded(list.items) : t \in Int
  BY <1>1, TracesAreNumbers DEF Loaded
<1>3. RowsDescend'
  BY <1>1, <1>2 DEF TraceInv, RowsInv, RowsDescend
<1>4. NextIsLast'
  BY DEF TraceInv, RowsInv, NextIsLast
<1>5. ASSUME ~overtaken', list.items # <<>>, NEW t \in Due(list.view)', t <= list.items[1],
             list.next = 0 \/ t >= list.items[Len(list.items)]
      PROVE  t \in Loaded(list.items)
  <2>1. 1 \in 1 .. Len(list.items)
    BY <1>1, <1>5
  <2>2. list.items[1] \in Loaded(list.items)
    BY <2>1 DEF Loaded
  <2>3. list.items[1] <= captured /\ list.items[1] \in Int /\ t \in Trace /\ t \in Int
    BY <1>1, <1>2, <1>5, <2>2, TracesAreNumbers DEF TraceInv, RowsInv, RowsDescend, Due
  <2>4. t <= captured
    BY <1>1, <1>5, <2>3
  <2>5. t \in Due(list.view)
    BY <1>5, <2>4 DEF Due
  <2> QED BY <1>5, <2>5 DEF TraceInv, RowsInv, NothingIsSkipped
<1>6. NothingIsSkipped'
  BY <1>5 DEF NothingIsSkipped
<1> QED BY <1>3, <1>4, <1>6 DEF RowsInv

\* What asks for the first page again is the only read that is wanted.
LEMMA FirstPageAsked ==
    ASSUME TraceInv, NEW view \in View, LoadFirst(view),
           tab' = [tab EXCEPT !.loading = TRUE, !.error = FALSE], UNCHANGED list
    PROVE  /\ requestSeq' \in Nat /\ reads' \subseteq Read /\ ReadsAreInTurn' /\ MoreFollows'
           /\ tab' \in [loading: BOOLEAN, loadingMore: BOOLEAN, error: BOOLEAN] /\ tab'.loading
           /\ \A r \in reads' : Wanted(r)' => r.view = view
<1> DEFINE first == [seq |-> requestSeq + 1, view |-> view, cursor |-> 0]
<1>1. /\ requestSeq \in Nat /\ reads \subseteq Read
      /\ tab \in [loading: BOOLEAN, loadingMore: BOOLEAN, error: BOOLEAN]
  BY DEF TraceInv, TraceTypeOK
<1>2. requestSeq' = requestSeq + 1 /\ reads' = reads \cup {first}
  BY DEF LoadFirst
<1>3. first \in Read /\ first.seq = requestSeq' /\ first.view = view /\ first.cursor = 0
  BY <1>1, <1>2 DEF Read
<1>4. /\ tab' \in [loading: BOOLEAN, loadingMore: BOOLEAN, error: BOOLEAN] /\ tab'.loading
      /\ tab'.loadingMore = tab.loadingMore
  BY <1>1
<1> HIDE DEF first
<1>5. \A r \in reads : r.seq < requestSeq' /\ r.seq \in Nat
  <2> TAKE r \in reads
  <2>1. r.seq \in Nat /\ r.seq <= requestSeq
    BY <1>1 DEF Read, TraceInv, ReadsAreInTurn
  <2> QED BY <1>1, <1>2, <2>1
<1>6. \A r \in reads' : Wanted(r)' => r = first
  BY <1>1, <1>2, <1>5 DEF Wanted
<1>7. ReadsAreInTurn'
  <2>1. \A r \in reads' : r.seq <= requestSeq'
    BY <1>1, <1>2, <1>3, <1>5
  <2>2. \A r, s \in reads' : r.cursor = 0 /\ s.cursor = 0 /\ r.seq = s.seq => r = s
    BY <1>1, <1>2, <1>3, <1>5 DEF TraceInv, ReadsAreInTurn
  <2>3. /\ \A r, s \in reads' : r.cursor # 0 /\ s.cursor # 0 => r = s
        /\ \A r \in reads' : r.cursor # 0 => tab'.loadingMore
    BY <1>2, <1>3, <1>4 DEF TraceInv, ReadsAreInTurn
  <2>4. \A r \in reads' : Wanted(r)' => (tab'.loading <=> r.cursor = 0)
    BY <1>3, <1>4, <1>6
  <2> QED BY <2>1, <2>2, <2>3, <2>4 DEF ReadsAreInTurn
<1>8. MoreFollows'
  BY <1>3, <1>6 DEF MoreFollows
<1> QED BY <1>1, <1>2, <1>3, <1>4, <1>6, <1>7, <1>8

\* The filters change what is asked for.
LEMMA ApplyKeeps ==
    ASSUME TraceListAssumption, TraceInv, NEW typed \in Query, NEW view \in View,
           Apply(typed, view), spent' \in [changes: Nat, toggles: Nat, failures: Nat]
    PROVE  TraceInv'
<1>1. /\ filters' = [typed |-> typed, applied |-> view] /\ LoadFirst(view)
      /\ tab' = [tab EXCEPT !.loading = TRUE, !.error = FALSE]
      /\ UNCHANGED <<captured, hidden, list, toggles, everHidden, overtaken>>
  BY DEF Apply
<1>2. /\ requestSeq' \in Nat /\ reads' \subseteq Read /\ ReadsAreInTurn' /\ MoreFollows'
      /\ tab' \in [loading: BOOLEAN, loadingMore: BOOLEAN, error: BOOLEAN] /\ tab'.loading
      /\ \A r \in reads' : Wanted(r)' => r.view = view
  BY <1>1, FirstPageAsked
<1>3. filters' \in [typed: Query, applied: View] /\ filters'.applied = view
  BY <1>1
<1>4. TraceTypeOK'
  BY <1>1, <1>2, <1>3 DEF TraceInv, TraceTypeOK
<1>5. WantedForFilters'
  BY <1>2, <1>3 DEF WantedForFilters
<1>6. HiddenWereHidden' /\ RowsInv'
  <2>1. captured \in 0 .. MaxTrace /\ captured <= captured
    BY DEF TraceInv, TraceTypeOK, TraceListAssumption
  <2> QED BY <1>1, <2>1, RowsStay DEF TraceInv, HiddenWereHidden
<1> QED BY <1>2, <1>4, <1>5, <1>6 DEF TraceInv

\* The reads and the tab stay, and so does what is known of them.
LEMMA ReadsStay ==
    ASSUME TraceInv, UNCHANGED <<reads, requestSeq, tab, list, overtaken>>,
           filters'.applied = filters.applied
    PROVE  ReadsAreInTurn' /\ MoreFollows' /\ WantedForFilters'
  BY DEF TraceInv, ReadsAreInTurn, MoreFollows, WantedForFilters, Wanted

\* A trace is captured, a search typed, or what was hidden fails to be.
LEMMA QuietSteps ==
    ASSUME TraceListAssumption, TraceInv,
           \/ Capture \/ \E q \in Query : TypeSearch(q)
           \/ \E t \in Trace : ToggleHidden(t)
           \/ \E r \in toggles : ToggleCommits(r) \/ ToggleFails(r)
    PROVE  TraceInv'
<1>1. /\ captured \in 0 .. MaxTrace /\ MaxTrace \in Nat /\ captured <= captured
      /\ captured \in Nat /\ TraceTypeOK
  BY DEF TraceInv, TraceTypeOK, TraceListAssumption
<1>2. CASE Capture
  <2>1. captured' \in 0 .. MaxTrace /\ captured <= captured'
    BY <1>1, <1>2 DEF Capture
  <2>2. UNCHANGED <<hidden, filters, list, tab, requestSeq, reads, toggles, everHidden, overtaken,
                    spent>>
    BY <1>2 DEF Capture
  <2>3. TraceTypeOK' /\ HiddenWereHidden'
    BY <1>1, <2>1, <2>2 DEF TraceTypeOK, TraceInv, HiddenWereHidden
  <2> QED BY <2>1, <2>2, <2>3, ReadsStay, RowsStay DEF TraceInv
<1>3. ASSUME NEW q \in Query, TypeSearch(q) PROVE TraceInv'
  <2>1. /\ filters' \in [typed: Query, applied: View] /\ filters'.applied = filters.applied
        /\ spent' \in [changes: Nat, toggles: Nat, failures: Nat]
    BY <1>1, <1>3 DEF TypeSearch, TraceTypeOK
  <2>2. UNCHANGED <<captured, hidden, list, tab, requestSeq, reads, toggles, everHidden, overtaken>>
    BY <1>3 DEF TypeSearch
  <2>3. TraceTypeOK' /\ HiddenWereHidden'
    BY <1>1, <2>1, <2>2 DEF TraceTypeOK, TraceInv, HiddenWereHidden
  <2> QED BY <1>1, <2>1, <2>2, <2>3, ReadsStay, RowsStay DEF TraceInv
<1>4. ASSUME NEW t \in Trace, ToggleHidden(t) PROVE TraceInv'
  <2>1. toggles' \subseteq Toggle
    <3>1. PICK hide \in BOOLEAN : hide = (t \notin hidden)
      OBVIOUS
    <3>2. [trace |-> t, hide |-> hide, view |-> filters.applied, done |-> FALSE] \in Toggle
      BY <1>1, <1>4 DEF TraceTypeOK, Toggle
    <3>3. toggles' = toggles \cup {[trace |-> t, hide |-> hide, view |-> filters.applied,
                                    done |-> FALSE]}
      BY <1>4, <3>1 DEF ToggleHidden
    <3> QED BY <1>1, <3>2, <3>3 DEF TraceTypeOK
  <2>2. /\ UNCHANGED <<captured, hidden, filters, list, tab, requestSeq, reads, everHidden,
                       overtaken>>
        /\ spent' \in [changes: Nat, toggles: Nat, failures: Nat]
    BY <1>1, <1>4 DEF ToggleHidden, TraceTypeOK
  <2>3. TraceTypeOK' /\ HiddenWereHidden'
    BY <1>1, <2>1, <2>2 DEF TraceTypeOK, TraceInv, HiddenWereHidden
  <2> QED BY <1>1, <2>2, <2>3, ReadsStay, RowsStay DEF TraceInv
<1>5. ASSUME NEW r \in toggles, ToggleCommits(r) PROVE TraceInv'
  <2>1. r \in Toggle /\ r.trace \in Trace
    BY <1>1 DEF TraceTypeOK, Toggle
  <2>2. toggles' \subseteq Toggle
    <3>1. [r EXCEPT !.done = TRUE] \in Toggle
      BY <2>1 DEF Toggle
    <3> QED BY <1>1, <1>5, <3>1 DEF ToggleCommits, TraceTypeOK
  <2>3. /\ hidden' \subseteq Trace /\ everHidden' \subseteq Trace /\ HiddenWereHidden'
        /\ everHidden \subseteq everHidden'
    BY <1>1, <1>5, <2>1 DEF ToggleCommits, TraceTypeOK, TraceInv, HiddenWereHidden
  <2>4. UNCHANGED <<captured, filters, list, tab, requestSeq, reads, overtaken, spent>>
    BY <1>5 DEF ToggleCommits
  <2>5. TraceTypeOK'
    BY <1>1, <2>2, <2>3, <2>4 DEF TraceTypeOK
  <2> QED BY <1>1, <2>3, <2>4, <2>5, ReadsStay, RowsStay DEF TraceInv
<1>6. ASSUME NEW r \in toggles, ToggleFails(r) PROVE TraceInv'
  <2>1. /\ toggles' \subseteq toggles
        /\ UNCHANGED <<captured, hidden, filters, list, tab, requestSeq, reads, everHidden,
                       overtaken, spent>>
    BY <1>6 DEF ToggleFails
  <2>2. TraceTypeOK' /\ HiddenWereHidden'
    BY <1>1, <2>1 DEF TraceTypeOK, TraceInv, HiddenWereHidden
  <2> QED BY <1>1, <2>1, <2>2, ReadsStay, RowsStay DEF TraceInv
<1> QED BY <1>2, <1>3, <1>4, <1>5, <1>6

\* The list restarts, for filters that have changed or after an error.
LEMMA RestartSteps ==
    ASSUME TraceListAssumption, TraceInv, Debounced \/ ToggleShowHidden \/ Retry
    PROVE  TraceInv'
<1>1. /\ filters \in [typed: Query, applied: View]
      /\ spent \in [changes: Nat, toggles: Nat, failures: Nat]
      /\ filters.typed \in Query /\ filters.applied \in View
      /\ [filters.applied EXCEPT !.query = filters.typed] \in View
      /\ [filters.applied EXCEPT !.showHidden = ~@] \in View
  BY DEF TraceInv, TraceTypeOK, View
<1>2. CASE Debounced
  BY <1>1, <1>2, ApplyKeeps DEF Debounced
<1>3. CASE ToggleShowHidden
  <2>1. spent' \in [changes: Nat, toggles: Nat, failures: Nat]
    BY <1>1, <1>3 DEF ToggleShowHidden
  <2> QED BY <1>1, <1>3, <2>1, ApplyKeeps DEF ToggleShowHidden
<1>4. CASE Retry
  BY <1>1, <1>4, ApplyKeeps DEF Retry
<1> QED BY <1>2, <1>3, <1>4

\* A toggle that ends asks for the list again, for the filters it began under.
LEMMA ToggleReturnsStep ==
    ASSUME TraceListAssumption, TraceInv, NEW r \in toggles, ToggleReturns(r)
    PROVE  TraceInv'
<1>1. /\ toggles' \subseteq toggles /\ LoadFirst(r.view)
      /\ tab' = [tab EXCEPT !.loading = TRUE, !.error = FALSE]
      /\ overtaken' = (overtaken \/ r.view # filters.applied)
      /\ UNCHANGED <<captured, hidden, filters, list, everHidden, spent>>
  BY DEF ToggleReturns
<1>2. r.view \in View
  BY DEF TraceInv, TraceTypeOK, Toggle
<1>3. /\ requestSeq' \in Nat /\ reads' \subseteq Read /\ ReadsAreInTurn' /\ MoreFollows'
      /\ tab' \in [loading: BOOLEAN, loadingMore: BOOLEAN, error: BOOLEAN] /\ tab'.loading
      /\ \A s \in reads' : Wanted(s)' => s.view = r.view
  BY <1>1, <1>2, FirstPageAsked
<1>4. TraceTypeOK'
  BY <1>1, <1>3 DEF TraceInv, TraceTypeOK
<1>5. WantedForFilters'
  BY <1>1, <1>3 DEF WantedForFilters
<1>6. HiddenWereHidden' /\ RowsInv'
  <2>1. captured \in 0 .. MaxTrace /\ captured <= captured
    BY DEF TraceInv, TraceTypeOK, TraceListAssumption
  <2> QED BY <1>1, <2>1, RowsStay DEF TraceInv, HiddenWereHidden
<1> QED BY <1>3, <1>4, <1>5, <1>6 DEF TraceInv

\* The next page is asked for, where the list ends.
LEMMA LoadMoreStep ==
    ASSUME TraceListAssumption, TraceInv, LoadMore
    PROVE  TraceInv'
<1> DEFINE more == [seq |-> requestSeq, view |-> filters.applied, cursor |-> list.next]
<1>1. /\ ~tab.loading /\ list.next # 0 /\ ~tab.loadingMore
      /\ tab' = [tab EXCEPT !.loadingMore = TRUE, !.error = FALSE] /\ reads' = reads \cup {more}
      /\ UNCHANGED <<captured, hidden, filters, list, requestSeq, toggles, everHidden, overtaken,
                     spent>>
  BY DEF LoadMore, CanLoadMoreTraces
<1>2. TraceTypeOK /\ requestSeq \in Nat /\ reads \subseteq Read
  BY DEF TraceInv, TraceTypeOK
<1>3. /\ more \in Read /\ more.seq = requestSeq /\ more.view = filters.applied
      /\ more.cursor = list.next
  BY <1>2 DEF TraceTypeOK, Read, ListState
<1>4. /\ tab' \in [loading: BOOLEAN, loadingMore: BOOLEAN, error: BOOLEAN]
      /\ tab'.loading = FALSE /\ tab'.loadingMore = TRUE
  BY <1>1, <1>2 DEF TraceTypeOK
<1> HIDE DEF more
<1>5. TraceTypeOK'
  BY <1>1, <1>2, <1>3, <1>4 DEF TraceTypeOK
<1>6. \A r \in reads : r.cursor = 0
  BY <1>1 DEF TraceInv, ReadsAreInTurn
<1>7. \A r \in reads : ~Wanted(r)
  BY <1>1, <1>6 DEF TraceInv, ReadsAreInTurn
<1>8. ReadsAreInTurn'
  <2>1. \A r \in reads' : r.seq <= requestSeq'
    BY <1>1, <1>2, <1>3 DEF TraceInv, ReadsAreInTurn
  <2>2. \A r, s \in reads' : r.cursor = 0 /\ s.cursor = 0 /\ r.seq = s.seq => r = s
    BY <1>1, <1>3 DEF TraceInv, ReadsAreInTurn
  <2>3. /\ \A r, s \in reads' : r.cursor # 0 /\ s.cursor # 0 => r = s
        /\ \A r \in reads' : r.cursor # 0 => tab'.loadingMore
    BY <1>1, <1>4, <1>6
  <2>4. \A r \in reads' : Wanted(r)' => (tab'.loading <=> r.cursor = 0)
    BY <1>1, <1>3, <1>4, <1>7 DEF Wanted
  <2> QED BY <2>1, <2>2, <2>3, <2>4 DEF ReadsAreInTurn
<1>9. MoreFollows' /\ WantedForFilters'
  BY <1>1, <1>3, <1>4, <1>7 DEF TraceInv, MoreFollows, WantedForFilters, Wanted
<1>10. HiddenWereHidden' /\ RowsInv'
  <2>1. captured \in 0 .. MaxTrace /\ captured <= captured
    BY DEF TraceInv, TraceTypeOK, TraceListAssumption
  <2> QED BY <1>1, <2>1, RowsStay DEF TraceInv, HiddenWereHidden
<1> QED BY <1>5, <1>8, <1>9, <1>10 DEF TraceInv

\* A read that ends leaves the others in turn.
LEMMA ReadSettles ==
    ASSUME TraceInv, NEW r \in reads, NEW error \in BOOLEAN, Settle(r, error),
           reads' = reads \ {r}, UNCHANGED requestSeq
    PROVE  /\ ReadsAreInTurn'
           /\ tab' \in [loading: BOOLEAN, loadingMore: BOOLEAN, error: BOOLEAN]
           /\ Wanted(r) => ~tab'.loading /\ \A s \in reads' : ~Wanted(s)'
           /\ ~Wanted(r) => tab'.loading = tab.loading
           /\ \A s \in reads' : Wanted(s)' => Wanted(s)
<1>1. tab \in [loading: BOOLEAN, loadingMore: BOOLEAN, error: BOOLEAN]
  BY DEF TraceInv, TraceTypeOK
<1>2. /\ tab' \in [loading: BOOLEAN, loadingMore: BOOLEAN, error: BOOLEAN]
      /\ tab'.loading = IF r.cursor = 0 /\ Wanted(r) THEN FALSE ELSE tab.loading
      /\ tab'.loadingMore = IF r.cursor = 0 THEN tab.loadingMore ELSE FALSE
  <2> DEFINE shown == tab.error \/ (error /\ Wanted(r))
             loading == IF r.cursor = 0 /\ Wanted(r) THEN FALSE ELSE tab.loading
             loadingMore == IF r.cursor = 0 THEN tab.loadingMore ELSE FALSE
  <2>1. shown \in BOOLEAN /\ loading \in BOOLEAN /\ loadingMore \in BOOLEAN
    BY <1>1
  <2>2. tab' = [loading |-> loading, loadingMore |-> loadingMore, error |-> shown]
    BY DEF Settle
  <2> HIDE DEF shown, loading, loadingMore
  <2>3. /\ tab' \in [loading: BOOLEAN, loadingMore: BOOLEAN, error: BOOLEAN]
        /\ tab'.loading = loading /\ tab'.loadingMore = loadingMore
    BY <2>1, <2>2
  <2> QED BY <2>3 DEF loading, loadingMore
<1>3. \A s \in reads' : (Wanted(s)' <=> Wanted(s)) /\ s \in reads /\ s # r
  BY DEF Wanted
<1>4. Wanted(r) => ~tab'.loading
  BY <1>2 DEF TraceInv, ReadsAreInTurn
<1>5. ASSUME Wanted(r), NEW s \in reads', Wanted(s) PROVE FALSE
  <2>1. /\ s \in reads /\ s # r /\ s.seq = r.seq
        /\ (tab.loading <=> s.cursor = 0) /\ (tab.loading <=> r.cursor = 0)
    BY <1>3, <1>5 DEF Wanted, TraceInv, ReadsAreInTurn
  <2> QED BY <2>1 DEF TraceInv, ReadsAreInTurn
<1>6. ReadsAreInTurn'
  <2>1. /\ \A s \in reads' : s.seq <= requestSeq'
        /\ \A s, u \in reads' : s.cursor = 0 /\ u.cursor = 0 /\ s.seq = u.seq => s = u
        /\ \A s, u \in reads' : s.cursor # 0 /\ u.cursor # 0 => s = u
    BY <1>3 DEF TraceInv, ReadsAreInTurn
  <2>2. \A s \in reads' : s.cursor # 0 => tab'.loadingMore
    BY <1>2, <1>3 DEF TraceInv, ReadsAreInTurn
  <2>3. \A s \in reads' : Wanted(s)' => (tab'.loading <=> s.cursor = 0)
    BY <1>2, <1>3, <1>5 DEF TraceInv, ReadsAreInTurn
  <2> QED BY <2>1, <2>2, <2>3 DEF ReadsAreInTurn
<1> QED BY <1>2, <1>3, <1>4, <1>5, <1>6

\* A page arrives as it was asked for: the rows go on, newest first, and none that
\* was never hidden is left out.
LEMMA PageArrives ==
    ASSUME TraceListAssumption, TraceInv, NEW r \in reads, Wanted(r),
           list' = AppendTracesPage(list, PageOf(r.view, r.cursor), r.view, r.cursor = 0),
           UNCHANGED <<captured, hidden, everHidden, overtaken>>
    PROVE  list' \in ListState /\ list'.view = r.view /\ RowsInv'
<1> DEFINE p == PageOf(r.view, r.cursor)
           base == IF r.cursor = 0 THEN <<>> ELSE list.items
           s == base \o NewestFirst[Loaded(p.items) \ Loaded(base)]
<1>1. /\ TraceTypeOK /\ r.view \in View /\ r.cursor \in Trace \cup {0} /\ list \in ListState
      /\ captured \in Nat /\ 0 \notin Trace
  BY TracesAreNumbers DEF TraceInv, TraceTypeOK, Read, TraceListAssumption
<1>2. /\ Lists(p.items, Loaded(p.items)) /\ Loaded(p.items) \subseteq Rest(r.view, r.cursor)
      /\ p.total \in Nat /\ p.hiddenCount \in Nat /\ p.more \in BOOLEAN
      /\ p.next \in Trace \cup {0}
      /\ p.next = 0 => Loaded(p.items) = Rest(r.view, r.cursor)
      /\ p.next # 0 => p.more /\ p.items # <<>> /\ p.next = p.items[Len(p.items)]
      /\ p.items # <<>> =>
            \A t \in Rest(r.view, r.cursor) :
                t >= p.items[Len(p.items)] => t \in Loaded(p.items)
  BY <1>1, PageFacts
<1>3. /\ r.cursor # 0 => /\ r.cursor = list.next /\ (overtaken \/ r.view = list.view)
                         /\ list.items # <<>> /\ list.next = list.items[Len(list.items)]
  BY DEF TraceInv, MoreFollows, RowsInv, NextIsLast
<1>4. \A t \in Rest(r.view, r.cursor) :
         /\ t \in Trace /\ t \in Int /\ t <= captured /\ (r.cursor = 0 \/ t < r.cursor)
  <2>1. Visible(r.view) \subseteq Trace /\ \A t \in Visible(r.view) : t <= captured
    BY <1>1 DEF Visible, View, TraceListAssumption, Trace
  <2> QED BY <2>1, TracesAreNumbers DEF Rest
<1>5. /\ Lists(base, Loaded(base)) /\ base \in Seq(Trace) /\ Len(base) \in Nat
      /\ \A t \in Loaded(base) : t <= captured /\ t \in Int
      /\ r.cursor # 0 => base = list.items
  <2>1. CASE r.cursor = 0
    <3>1. base = <<>> /\ Loaded(<<>>) = {} /\ Lists(<<>>, {})
      BY <2>1, NothingListed DEF Loaded
    <3> HIDE DEF base
    <3>2. base \in Seq(Trace) /\ Len(base) \in Nat
      BY <3>1
    <3> QED BY <2>1, <3>1, <3>2
  <2>2. CASE r.cursor # 0
    <3>1. Lists(list.items, Loaded(list.items)) /\ \A t \in Loaded(list.items) : t <= captured
      BY DEF TraceInv, RowsInv, RowsDescend
    <3>2. list.items \in Seq(Trace)
      BY <1>1 DEF ListState
    <3>3. \A t \in Loaded(list.items) : t \in Int
      BY <3>2, TracesAreNumbers DEF Loaded
    <3> QED BY <2>2, <3>1, <3>2, <3>3
  <2> QED BY <2>1, <2>2
<1>6. base # <<>> => /\ \A b \in Loaded(base) : b >= r.cursor
                     /\ r.cursor = base[Len(base)] /\ r.cursor # 0 /\ r.cursor \in Int
  <2>1. SUFFICES ASSUME base # <<>>
                 PROVE  /\ \A b \in Loaded(base) : b >= r.cursor
                        /\ r.cursor = base[Len(base)] /\ r.cursor # 0 /\ r.cursor \in Int
    OBVIOUS
  <2>2. /\ r.cursor # 0 /\ base = list.items /\ r.cursor = base[Len(base)]
        /\ Len(base) \in 1 .. Len(base)
    BY <1>3, <1>5, <2>1
  <2>3. ASSUME NEW i \in 1 .. Len(base) PROVE base[i] >= base[Len(base)]
    <3>1. base[i] \in Int /\ base[Len(base)] \in Int
      BY <1>5, <2>2 DEF Loaded
    <3>2. i < Len(base) \/ i = Len(base)
      BY <1>5
    <3>3. i < Len(base) => base[i] > base[Len(base)]
      BY <1>5, <2>2 DEF Lists
    <3> QED BY <3>1, <3>2, <3>3
  <2>4. r.cursor \in Int
    BY <1>5, <2>2 DEF Loaded
  <2> QED BY <2>2, <2>3, <2>4 DEF Loaded
<1> HIDE DEF p, base
<1>7. \A b \in Loaded(base), t \in Loaded(p.items) : b > t
  <2> TAKE b \in Loaded(base), t \in Loaded(p.items)
  <2>1. base # <<>>
    BY DEF Loaded
  <2>2. t < r.cursor /\ t \in Int /\ b \in Int /\ b >= r.cursor /\ r.cursor \in Int
    BY <1>2, <1>4, <1>5, <1>6, <2>1
  <2> QED BY <2>2
<1>8. /\ Lists(s, Loaded(s)) /\ Loaded(s) = Loaded(base) \cup Loaded(p.items)
      /\ p.items = <<>> => s = base
      /\ p.items # <<>> => s # <<>> /\ s[Len(s)] = p.items[Len(p.items)]
      /\ base # <<>> => s # <<>> /\ s[1] = base[1]
      /\ base = <<>> => s = p.items
  <2> DEFINE q == p.items
  <2>1. /\ Lists(base, Loaded(base)) /\ Lists(q, Loaded(q))
        /\ \A b \in Loaded(base), t \in Loaded(q) : b > t
    BY <1>2, <1>5, <1>7
  <2> HIDE DEF q
  <2>2. LET u == base \o NewestFirst[Loaded(q) \ Loaded(base)] IN
        /\ Lists(u, Loaded(u)) /\ Loaded(u) = Loaded(base) \cup Loaded(q)
        /\ q = <<>> => u = base
        /\ q # <<>> => u # <<>> /\ u[Len(u)] = q[Len(q)]
        /\ base # <<>> => u # <<>> /\ u[1] = base[1]
        /\ base = <<>> => u = q
    BY <2>1, RowsAppended
  <2> QED BY <2>2 DEF q
<1> DEFINE more == p.more \/ p.next # 0 \/ p.total > Len(s)
<1>9. list' = [items |-> s, total |-> p.total, next |-> p.next, more |-> more,
               hiddenCount |-> p.hiddenCount, view |-> r.view]
  BY DEF AppendTracesPage, p, base
<1>10. more \in BOOLEAN /\ s \in Seq(Trace) /\ (p.next # 0 => more)
  BY <1>8 DEF Lists
<1> HIDE DEF s, more
<1>11. /\ list' \in ListState /\ list'.view = r.view /\ list'.items = s /\ list'.next = p.next
       /\ list'.more = more
  BY <1>1, <1>2, <1>9, <1>10 DEF ListState
<1>12. RowsDescend'
  <2>1. \A t \in Loaded(s) : t <= captured
    BY <1>2, <1>4, <1>5, <1>8
  <2> QED BY <1>8, <1>11, <2>1 DEF RowsDescend
<1>13. NextIsLast'
  BY <1>2, <1>8, <1>10, <1>11 DEF NextIsLast
<1>14. ASSUME ~overtaken, s # <<>>, NEW t \in Due(r.view), t <= s[1], p.next = 0 \/ t >= s[Len(s)]
       PROVE  t \in Loaded(s)
  <2>1. t \in Trace /\ t \in Int /\ t <= captured /\ t \in Visible(r.view)
    <3>1. Matching[r.view.query] \subseteq Trace
      BY <1>1 DEF View, TraceListAssumption, Trace
    <3> QED BY <1>14, <3>1, TracesAreNumbers
            DEF Due, Visible, TraceInv, HiddenWereHidden
  <2>2. CASE r.cursor # 0 /\ t >= r.cursor
    <3>1. r.view = list.view /\ base = list.items /\ base # <<>> /\ r.cursor = base[Len(base)]
      BY <1>3, <1>5, <1>14, <2>2
    <3>2. t <= list.items[1]
      BY <1>8, <1>14, <3>1
    <3>3. t \in Loaded(list.items)
      BY <1>14, <2>2, <3>1, <3>2 DEF TraceInv, RowsInv, NothingIsSkipped
    <3> QED BY <1>8, <3>1, <3>3
  <2>3. CASE r.cursor = 0 \/ t < r.cursor
    <3>1. t \in Rest(r.view, r.cursor)
      BY <2>1, <2>3 DEF Rest
    <3>2. CASE p.next = 0
      BY <1>2, <1>8, <3>1, <3>2
    <3>3. CASE p.next # 0
      BY <1>2, <1>8, <1>14, <3>1, <3>3
    <3> QED BY <3>2, <3>3
  <2>4. r.cursor = 0 \/ t < r.cursor \/ (r.cursor # 0 /\ t >= r.cursor)
    <3>1. r.cursor \in Int
      BY <1>1, TracesAreNumbers
    <3> QED BY <2>1, <3>1
  <2> QED BY <2>2, <2>3, <2>4
<1>15. NothingIsSkipped'
  <2>1. Due(r.view)' = Due(r.view)
    BY DEF Due
  <2>2. list'.items = s /\ list'.next = p.next /\ list'.view = r.view /\ overtaken' = overtaken
    BY <1>11
  <2>3. \A t \in Due(list.view)' : t \in Due(r.view)
    BY <2>2 DEF Due
  <2> QED BY <1>14, <2>2, <2>3 DEF NothingIsSkipped
<1> QED BY <1>11, <1>12, <1>13, <1>15 DEF RowsInv

\* An answer that is still wanted is shown, and any other is dropped.
LEMMA ReadArrivesStep ==
    ASSUME TraceListAssumption, TraceInv, NEW r \in reads, ReadArrives(r)
    PROVE  TraceInv'
<1>1. /\ reads' = reads \ {r} /\ Settle(r, FALSE)
      /\ UNCHANGED <<captured, hidden, filters, requestSeq, toggles, everHidden, overtaken, spent>>
      /\ list' = IF Wanted(r)
                 THEN AppendTracesPage(list, PageOf(r.view, r.cursor), r.view, r.cursor = 0)
                 ELSE list
  BY DEF ReadArrives
<1>2. /\ ReadsAreInTurn'
      /\ tab' \in [loading: BOOLEAN, loadingMore: BOOLEAN, error: BOOLEAN]
      /\ Wanted(r) => ~tab'.loading /\ \A s \in reads' : ~Wanted(s)'
      /\ ~Wanted(r) => tab'.loading = tab.loading
      /\ \A s \in reads' : Wanted(s)' => Wanted(s)
  BY <1>1, ReadSettles
<1>3. /\ captured \in 0 .. MaxTrace /\ captured <= captured /\ captured' = captured
      /\ HiddenWereHidden'
  BY <1>1 DEF TraceInv, TraceTypeOK, TraceListAssumption, HiddenWereHidden
<1>4. CASE Wanted(r)
  <2>1. list' \in ListState /\ list'.view = r.view /\ RowsInv'
    BY <1>1, <1>4, PageArrives
  <2>2. TraceTypeOK'
    BY <1>1, <1>2, <2>1 DEF TraceInv, TraceTypeOK
  <2>3. MoreFollows' /\ WantedForFilters'
    BY <1>1, <1>2, <1>4, <2>1 DEF TraceInv, MoreFollows, WantedForFilters
  <2> QED BY <1>2, <1>3, <2>1, <2>2, <2>3 DEF TraceInv
<1>5. CASE ~Wanted(r)
  <2>1. list' = list
    BY <1>1, <1>5
  <2>2. TraceTypeOK'
    BY <1>1, <1>2, <2>1 DEF TraceInv, TraceTypeOK
  <2>3. RowsInv'
    BY <1>1, <1>3, <2>1, RowsStay
  <2>4. MoreFollows' /\ WantedForFilters'
    BY <1>1, <1>2, <1>5, <2>1 DEF TraceInv, MoreFollows, WantedForFilters
  <2> QED BY <1>2, <1>3, <2>2, <2>3, <2>4 DEF TraceInv
<1> QED BY <1>4, <1>5

\* A first page that fails while it is wanted leaves the list empty.
LEMMA ReadFailsStep ==
    ASSUME TraceListAssumption, TraceInv, NEW r \in reads, ReadFails(r)
    PROVE  TraceInv'
<1>1. /\ reads' = reads \ {r} /\ Settle(r, TRUE)
      /\ UNCHANGED <<captured, hidden, filters, requestSeq, toggles, everHidden, overtaken>>
      /\ list' = IF Wanted(r) /\ r.cursor = 0 THEN EmptyTracesPageState(r.view) ELSE list
      /\ spent' = [spent EXCEPT !.failures = @ + 1]
  BY DEF ReadFails
<1>2. /\ ReadsAreInTurn'
      /\ tab' \in [loading: BOOLEAN, loadingMore: BOOLEAN, error: BOOLEAN]
      /\ Wanted(r) => ~tab'.loading /\ \A s \in reads' : ~Wanted(s)'
      /\ ~Wanted(r) => tab'.loading = tab.loading
      /\ \A s \in reads' : Wanted(s)' => Wanted(s)
  BY <1>1, ReadSettles
<1>3. /\ captured \in 0 .. MaxTrace /\ captured <= captured /\ captured' = captured
      /\ HiddenWereHidden' /\ spent' \in [changes: Nat, toggles: Nat, failures: Nat]
      /\ r.view \in View
  BY <1>1 DEF TraceInv, TraceTypeOK, TraceListAssumption, HiddenWereHidden, Read
<1>4. CASE Wanted(r) /\ r.cursor = 0
  <2>1. Loaded(<<>>) = {} /\ Lists(<<>>, {}) /\ NewestFirst[{}] = <<>>
    <3>1. Lists(NewestFirst[{}], {})
      BY NewestFirstLists
    <3> QED BY <3>1, NothingListed DEF Loaded
  <2>2. EmptyTracesPageState(r.view) =
            [items |-> <<>>, total |-> 0, next |-> 0, more |-> FALSE, hiddenCount |-> 0,
             view |-> r.view]
    <3>1. <<>> \o NewestFirst[Loaded(<<>>) \ Loaded(<<>>)] = <<>>
      BY <2>1
    <3>2. (FALSE \/ 0 # 0 \/ 0 > Len(<<>>)) = FALSE
      OBVIOUS
    <3> QED BY <3>1, <3>2 DEF EmptyTracesPageState, AppendTracesPage, NoPage
  <2>3. list' \in ListState /\ list'.view = r.view /\ list'.items = <<>> /\ list'.next = 0
    BY <1>1, <1>3, <1>4, <2>2 DEF ListState
  <2>4. RowsInv'
    BY <2>1, <2>3 DEF RowsInv, RowsDescend, NextIsLast, NothingIsSkipped
  <2>5. TraceTypeOK'
    BY <1>1, <1>2, <1>3, <2>3 DEF TraceInv, TraceTypeOK
  <2>6. MoreFollows' /\ WantedForFilters'
    BY <1>1, <1>2, <1>4, <2>3 DEF TraceInv, MoreFollows, WantedForFilters
  <2> QED BY <1>2, <1>3, <2>4, <2>5, <2>6 DEF TraceInv
<1>5. CASE ~(Wanted(r) /\ r.cursor = 0)
  <2>1. list' = list
    BY <1>1, <1>5
  <2>2. TraceTypeOK'
    BY <1>1, <1>2, <1>3, <2>1 DEF TraceInv, TraceTypeOK
  <2>3. RowsInv'
    BY <1>1, <1>3, <2>1, RowsStay
  <2>4. MoreFollows'
    BY <1>1, <1>2, <2>1 DEF TraceInv, MoreFollows
  <2>5. WantedForFilters'
    <3>1. CASE Wanted(r)
      <4>1. ~tab.loading
        BY <1>5, <3>1 DEF TraceInv, ReadsAreInTurn
      <4> QED BY <1>1, <1>2, <2>1, <3>1, <4>1 DEF TraceInv, WantedForFilters
    <3>2. CASE ~Wanted(r)
      BY <1>1, <1>2, <2>1, <3>2 DEF TraceInv, WantedForFilters
    <3> QED BY <3>1, <3>2
  <2> QED BY <1>2, <1>3, <2>2, <2>3, <2>4, <2>5 DEF TraceInv
<1> QED BY <1>4, <1>5

\* Every step of the traces tab keeps the invariant.
LEMMA TraceStepInv ==
    ASSUME TraceListAssumption, TraceInv, [TraceNext]_traceVars
    PROVE  TraceInv'
<1>1. CASE UNCHANGED traceVars
  <2>1. captured \in 0 .. MaxTrace /\ captured <= captured
    BY DEF TraceInv, TraceTypeOK, TraceListAssumption
  <2>2. UNCHANGED <<captured, hidden, filters, list, tab, requestSeq, reads, toggles, everHidden,
                    overtaken, spent>>
    BY <1>1 DEF traceVars
  <2>3. TraceTypeOK' /\ HiddenWereHidden'
    BY <2>2 DEF TraceInv, TraceTypeOK, HiddenWereHidden
  <2> QED BY <2>1, <2>2, <2>3, ReadsStay, RowsStay DEF TraceInv
<1>2. CASE \/ Capture \/ \E q \in Query : TypeSearch(q)
           \/ \E t \in Trace : ToggleHidden(t)
           \/ \E r \in toggles : ToggleCommits(r) \/ ToggleFails(r)
  BY <1>2, QuietSteps
<1>3. CASE Debounced \/ ToggleShowHidden \/ Retry
  BY <1>3, RestartSteps
<1>4. CASE LoadMore
  BY <1>4, LoadMoreStep
<1>5. CASE \E r \in reads : ReadArrives(r) \/ ReadFails(r)
  BY <1>5, ReadArrivesStep, ReadFailsStep
<1>6. CASE \E r \in toggles : ToggleReturns(r)
  BY <1>6, ToggleReturnsStep
<1> QED BY <1>1, <1>2, <1>3, <1>4, <1>5, <1>6 DEF TraceNext

\* The invariant holds of every behaviour of the traces tab.
LEMMA TraceInvariant == ASSUME TraceListAssumption PROVE TraceSpec => []TraceInv
<1>1. TraceInit => TraceInv
  BY TraceInitInv
<1>2. TraceInv /\ [TraceNext]_traceVars => TraceInv'
  BY TraceStepInv
<1> QED BY <1>1, <1>2, PTL DEF TraceSpec

\* The state of the traces tab keeps its type, for any traces, queries and page
\* size.
THEOREM TracesTypesCorrect ==
    ASSUME TraceListAssumption PROVE TraceSpec => []TraceTypeOK
<1>1. TraceInv => TraceTypeOK
  BY DEF TraceInv
<1> QED BY <1>1, TraceInvariant, PTL

\* A list that is not loading was read for the filters in force, whatever reads and
\* failures come late, unless a toggle ended under other filters than it began.
THEOREM FiltersWinOverLateAnswers ==
    ASSUME TraceListAssumption PROVE TraceSpec => []FiltersWinUntilToggle
<1>1. TraceInv => FiltersWinUntilToggle
  BY DEF TraceInv, WantedForFilters, FiltersWinUntilToggle
<1> QED BY <1>1, TraceInvariant, PTL

\* The list is newest first and repeats nothing, and leaves out no trace that was
\* never hidden between its first row and its last; nor after the last, once there
\* is nothing left to load: for any traces, page size, captures and reloads.
THEOREM ListHasNoGaps ==
    ASSUME TraceListAssumption PROVE TraceSpec => []LoadedWithoutGaps
<1>1. ASSUME TraceInv PROVE LoadedWithoutGaps
  <2>1. SUFFICES ASSUME ~overtaken, list.items # <<>> PROVE
            LET items == list.items IN
            /\ \A i \in 1 .. Len(items) - 1 : items[i] > items[i + 1]
            /\ {t \in Due(list.view) : items[Len(items)] <= t /\ t <= items[1]}
                  \subseteq Loaded(items)
            /\ ~CanLoadMoreTraces =>
                  {t \in Due(list.view) : t <= items[1]} \subseteq Loaded(items)
    BY DEF LoadedWithoutGaps, Due
  <2>2. /\ list.items \in Seq(Trace) /\ Len(list.items) \in Nat
        /\ \A i, j \in 1 .. Len(list.items) : i < j => list.items[i] > list.items[j]
        /\ Len(list.items) \in 1 .. Len(list.items)
        /\ Matching[list.view.query] \subseteq Trace
    <3>1. list \in ListState
      BY <1>1 DEF TraceInv, TraceTypeOK
    <3>2. list.items \in Seq(Trace) /\ Matching[list.view.query] \subseteq Trace
      BY <3>1 DEF ListState, View, TraceListAssumption, Trace
    <3>3. Len(list.items) \in Nat /\ Len(list.items) \in 1 .. Len(list.items)
      BY <2>1, <3>2
    <3> QED BY <1>1, <3>2, <3>3 DEF TraceInv, RowsInv, RowsDescend, Lists
  <2>3. \A i \in 1 .. Len(list.items) - 1 : list.items[i] > list.items[i + 1]
    <3> TAKE i \in 1 .. Len(list.items) - 1
    <3>1. i \in 1 .. Len(list.items) /\ i + 1 \in 1 .. Len(list.items) /\ i < i + 1
      BY <2>2
    <3> QED BY <2>2, <3>1
  <2>4. \A t \in Due(list.view) : t \in Int
    BY <2>2, TracesAreNumbers DEF Due
  <2>5. list.items[Len(list.items)] \in Int
    BY <2>2, TracesAreNumbers
  <2>6. \A t \in Due(list.view) :
           list.items[Len(list.items)] <= t => t >= list.items[Len(list.items)]
    BY <2>4, <2>5
  <2>7. ~CanLoadMoreTraces => list.next = 0
    BY <1>1 DEF TraceInv, RowsInv, NextIsLast, CanLoadMoreTraces
  <2> QED BY <1>1, <2>1, <2>3, <2>6, <2>7 DEF TraceInv, RowsInv, NothingIsSkipped
<1>2. TraceInv => LoadedWithoutGaps
  BY <1>1
<1> QED BY <1>2, TraceInvariant, PTL

-----------------------------------------------------------------------------
(* The first values of the form *)

RunState == [setup : Setup, form : Setup]
EntryState == [run : Nat, form : Setup]
LaunchState == [form : Setup, prepared : BOOLEAN, mine : BOOLEAN]

Unassigned(f) == [f EXCEPT !.id = None, !.version = None]

\* What a run was asked to do: an agent, some checks, and what it is assigned to.
Meaningful(s) ==
    /\ s.agent # None /\ s.checks # {}
    /\ Locked(s) => s.project = AssignedTo[<<s.id, s.version>>]
RunsInv ==
    /\ runs \in Seq(RunState) /\ Len(runs) <= MaxRuns
    /\ \A k \in DOMAIN runs : Meaningful(runs[k].setup)

\* What is remembered is of a run there is, and is its form.
StoreInv ==
    /\ store.draft \in Setup \cup {None}
    /\ store.memory \in Seq(EntryState) /\ Len(store.memory) <= Capacity
    /\ store = [draft |-> store.draft, memory |-> store.memory]
    /\ \A i \in DOMAIN store.memory :
          /\ store.memory[i].run \in DOMAIN runs
          /\ store.memory[i].form = Unassigned(runs[store.memory[i].run].form)

\* A rerun holds its source's values once they were read whole, and no Project
\* before; only a link waits for the link's timer, only a visit that may take the
\* draft for the draft's; and a load that has ended left all the checks, or failed.
IsSource(p, f) ==
    p.entry.way = "rerun" /\ p.prefilled /\ p.whole /\ ~p.dirty /\ p.config = "read" =>
        LET src == runs[p.entry.run].setup
        IN f.agent = src.agent /\ f.checks = src.checks /\ f.project \in {src.project, None}
Right(p, f) ==
    /\ p.entry.way = "rerun" => p.entry.run \in DOMAIN runs /\ p.config # "none"
    /\ p.entry.way = "rerun" /\ p.prefilled => p.config # "reading"
    /\ p.entry.way = "rerun" /\ ~p.prefilled /\ ~p.dirty => f.project = None
    /\ p.linkDue => p.entry.way = "link"
    /\ p.restoring # None => MayTakeDraft(p.entry)
    /\ ~p.loading /\ "metrics" \notin p.failed => p.metrics = Check
    /\ IsSource(p, f)
OnBench == page \in Workbench /\ Right(page, form)

\* A start can be made as it was clicked; one of the page on screen has its page.
StartsInv ==
    /\ launches \in Seq(LaunchState)
    /\ \A i \in DOMAIN launches :
          /\ launches[i].form.agent # None
          /\ ~Locked(launches[i].form) => launches[i].form.checks # {}
          /\ launches[i].mine => OnBench

PrefillInv ==
    /\ server \in [projects : SUBSET Project, assignments : SUBSET SavedAssignment]
    /\ RunsInv /\ StoreInv /\ StartsInv
    /\ form \in Setup
    /\ page = None \/ OnBench

\* The form opens empty, and nothing has been remembered.
LEMMA PrefillInitInv == ASSUME PrefillAssumption, PrefillInit PROVE PrefillInv
<1>1. EmptyForm \in Setup
  BY DEF EmptyForm, Setup, PrefillAssumption
<1>2. runs = <<>> /\ launches = <<>> /\ page = None /\ form = EmptyForm
      /\ store = [draft |-> None, memory |-> <<>>]
  BY DEF PrefillInit
<1>3. RunsInv
  BY <1>2 DEF RunsInv, PrefillAssumption
<1>4. StoreInv
  BY <1>2 DEF StoreInv, PrefillAssumption
<1>5. StartsInv
  BY <1>2 DEF StartsInv
<1>6. server \in [projects : SUBSET Project, assignments : SUBSET SavedAssignment]
  BY DEF PrefillInit
<1> QED BY <1>1, <1>2, <1>3, <1>4, <1>5, <1>6 DEF PrefillInv

-----------------------------------------------------------------------------
(* The first values of the form: what the effects make of it *)

\* An Assignment names a Project.
LEMMA AssignFacts ==
    ASSUME PrefillAssumption, NEW f \in Setup, NEW a \in SavedAssignment
    PROVE  /\ Assign(f, a) \in Setup /\ Assign(f, a).project = AssignedTo[a]
           /\ Assign(f, a).id = a[1] /\ Assign(f, a).version = a[2]
           /\ Assign(f, a).agent = f.agent /\ Assign(f, a).checks = f.checks
<1>1. AssignedTo[a] \in Project
  BY DEF PrefillAssumption
<1>2. a[1] \in {b[1] : b \in SavedAssignment} /\ a[2] \in {b[2] : b \in SavedAssignment}
  OBVIOUS
<1> QED BY <1>1, <1>2 DEF Assign, Setup

\* What this browser remembers of a run is a form.
LEMMA RecalledFacts ==
    ASSUME StoreInv, NEW run PROVE Recalled(store.memory, run) \in Setup \cup {None}
<1> DEFINE known == {i \in DOMAIN store.memory : store.memory[i].run = run}
<1>1. CASE known = {}
  BY <1>1 DEF Recalled
<1>2. CASE known # {}
  <2>1. (CHOOSE i \in known : TRUE) \in known
    BY <1>2
  <2>2. \A i \in known : store.memory[i] \in EntryState
    BY DEF StoreInv
  <2>3. \A i \in known : store.memory[i].form \in Setup
    BY <2>2 DEF EntryState
  <2> QED BY <1>2, <2>1, <2>3 DEF Recalled
<1> QED BY <1>1, <1>2

\* A rerun takes its one chance: the source's values, as far as the lists have them.
LEMMA RestoreFacts ==
    ASSUME PrefillAssumption, RunsInv, StoreInv, NEW p \in Workbench, NEW f \in Setup, Right(p, f),
           p.entry.way = "rerun", ~p.loading, ~p.prefilled, p.config # "reading"
    PROVE  LET r == RestoreRun(p, f)
           IN r.form \in Setup /\ r.page \in Workbench /\ Right(r.page, r.form)
<1> DEFINE src == Source(p)
           back == IF src = None THEN [project |-> None, notice |-> FALSE]
                   ELSE RestoredProject(p, src.project)
           assigned == p.config = "read" /\ src # None /\ Locked(src)
           agent == IF src.agent = None THEN f.agent ELSE src.agent
           some == IF src.checks = {} THEN f.checks ELSE src.checks \cap p.metrics
           project == IF back.project = None THEN f.project ELSE back.project
           id == IF assigned THEN src.id ELSE None
           version == IF assigned THEN src.version ELSE None
           kept == [f EXCEPT !.agent = agent, !.checks = some, !.project = project,
                             !.id = id, !.version = version]
           base == IF src = None THEN [f EXCEPT !.id = None, !.version = None] ELSE kept
           g == IF assigned /\ <<base.id, base.version>> \in p.assignments
                THEN Assign(base, <<base.id, base.version>>) ELSE base
           q == [p EXCEPT !.prefilled = TRUE, !.notice = back.notice, !.whole = p.failed = {}]
<1>1. RestoreRun(p, f) = [form |-> g, page |-> q]
  BY DEF RestoreRun
<1>2. /\ p.metrics \subseteq Check /\ p.assignments \subseteq SavedAssignment
      /\ p.projects \subseteq Project /\ p.config \in {"read", "failed"}
      /\ p.entry.run \in DOMAIN runs
  BY DEF Workbench, Right
<1>3. /\ src \in Setup \cup {None}
      /\ p.config = "read" => src = runs[p.entry.run].setup /\ src \in Setup /\ Meaningful(src)
  <2>1. runs[p.entry.run] \in RunState /\ Meaningful(runs[p.entry.run].setup)
    BY <1>2 DEF RunsInv
  <2>2. CASE p.config = "read"
    BY <2>1, <2>2 DEF Source, RunState
  <2>3. CASE p.config # "read"
    BY <2>3, RecalledFacts DEF Source
  <2> QED BY <2>2, <2>3
<1> HIDE DEF src
<1>4. back.project \in Project \cup {None} /\ back.notice \in BOOLEAN
      /\ (src # None => back.project \in {src.project, None})
  BY <1>2, <1>3 DEF RestoredProject, Setup
<1> HIDE DEF back
<1>5. ASSUME src # None
      PROVE  /\ kept \in Setup /\ kept.agent = agent /\ kept.checks = some
             /\ kept.project = project /\ kept.id = id /\ kept.version = version
  <2>1. src \in Setup
    BY <1>3, <1>5
  <2>2. /\ agent \in Agent \cup {None} /\ some \in SUBSET Check /\ project \in Project \cup {None}
        /\ id \in {a[1] : a \in SavedAssignment} \cup {None}
        /\ version \in {a[2] : a \in SavedAssignment} \cup {None}
    BY <2>1, <1>2, <1>4, <1>5 DEF Setup
  <2> HIDE DEF agent, some, project, id, version
  <2> QED BY <2>2 DEF Setup
<1> HIDE DEF kept
<1>6. base \in Setup /\ (src # None => base = kept)
  <2>1. [f EXCEPT !.id = None, !.version = None] \in Setup
    BY DEF Setup
  <2> QED BY <1>5, <2>1
<1> HIDE DEF base
<1>7. g \in Setup
  <2>1. <<base.id, base.version>> \in p.assignments => <<base.id, base.version>> \in SavedAssignment
    BY <1>2
  <2> QED BY <1>6, <2>1, AssignFacts
<1>8. /\ q \in Workbench /\ q.entry = p.entry /\ q.config = p.config /\ q.linkDue = p.linkDue
      /\ q.restoring = p.restoring /\ q.loading = p.loading /\ q.failed = p.failed
      /\ q.metrics = p.metrics /\ q.dirty = p.dirty /\ q.prefilled = TRUE
      /\ q.whole => p.failed = {}
  <2> DEFINE n == back.notice
             w == p.failed = {}
  <2>1. PICK v \in BOOLEAN : v = w
    OBVIOUS
  <2>2. q = [p EXCEPT !.prefilled = TRUE, !.notice = n, !.whole = v]
    BY <2>1
  <2>3. n \in BOOLEAN
    BY <1>4
  <2> HIDE DEF n, w, q
  <2> QED BY <2>1, <2>2, <2>3 DEF Workbench, w
<1>9. ASSUME q.whole, ~p.dirty, p.config = "read"
      PROVE  g.agent = src.agent /\ g.checks = src.checks /\ g.project \in {src.project, None}
  <2>1. /\ src = runs[p.entry.run].setup /\ src \in Setup /\ Meaningful(src) /\ src # None
        /\ f.project = None /\ p.metrics = Check
    BY <1>3, <1>8, <1>9 DEF Right, PrefillAssumption
  <2>2. agent = src.agent /\ some = src.checks /\ project \in {src.project, None}
    BY <2>1, <1>4 DEF Meaningful, Setup
  <2>3. base = kept /\ base.agent = src.agent /\ base.checks = src.checks
        /\ base.project \in {src.project, None}
    BY <2>1, <2>2, <1>5, <1>6
  <2>4. CASE assigned /\ <<base.id, base.version>> \in p.assignments
    <3>1. /\ base.id = src.id /\ base.version = src.version
          /\ src.project = AssignedTo[<<src.id, src.version>>]
      BY <2>1, <2>3, <2>4, <1>5 DEF Meaningful
    <3>2. <<base.id, base.version>> \in SavedAssignment
      BY <2>4, <1>2
    <3> QED BY <2>3, <2>4, <3>1, <3>2, <1>6, AssignFacts
  <2>5. CASE ~(assigned /\ <<base.id, base.version>> \in p.assignments)
    BY <2>3, <2>5
  <2> QED BY <2>4, <2>5
<1> HIDE DEF g, q
<1>10. Right(q, g)
  BY <1>2, <1>3, <1>8, <1>9 DEF Right, IsSource
<1> QED BY <1>1, <1>7, <1>8, <1>10

\* Following an agent takes its checks and its Project, as far as they are listed.
LEMMA FollowFacts ==
    ASSUME PrefillAssumption, NEW p \in Workbench, NEW f \in Setup, NEW agent \in Agent
    PROVE  FollowAgent(p, f, agent) \in Setup
<1> DEFINE checks == IF AgentChecks \cap p.metrics = {} THEN f.checks
                     ELSE AgentChecks \cap p.metrics
           project == IF BoundTo[agent] \in p.projects THEN BoundTo[agent] ELSE None
<1>1. checks \in SUBSET Check /\ project \in Project \cup {None}
  BY DEF Setup, Workbench, PrefillAssumption
<1>2. FollowAgent(p, f, agent) = [f EXCEPT !.agent = agent, !.checks = checks, !.project = project]
  BY DEF FollowAgent
<1> HIDE DEF checks, project
<1> QED BY <1>1, <1>2 DEF Setup

\* A page that only learns that it is filled, or what to say of it.
LEMMA NoticedFacts ==
    ASSUME NEW p \in Workbench, NEW f \in Setup, NEW g \in Setup, Right(p, f),
           p.entry.way # "rerun", NEW filled \in BOOLEAN, NEW notice \in BOOLEAN
    PROVE  LET q == [p EXCEPT !.prefilled = filled, !.notice = notice]
           IN q \in Workbench /\ Right(q, g)
<1> DEFINE q == [p EXCEPT !.prefilled = filled, !.notice = notice]
<1>1. /\ q \in Workbench /\ q.entry = p.entry /\ q.linkDue = p.linkDue
      /\ q.restoring = p.restoring /\ q.loading = p.loading /\ q.failed = p.failed
      /\ q.metrics = p.metrics
  BY DEF Workbench
<1> HIDE DEF q
<1>2. Right(q, g)
  BY <1>1 DEF Right, IsSource
<1> QED BY <1>1, <1>2 DEF q

\* Whatever fills the form, it is right for the page.
LEMMA PrefillFacts ==
    ASSUME PrefillAssumption, RunsInv, StoreInv, NEW p \in Workbench, NEW f \in Setup, Right(p, f)
    PROVE  LET r == Prefill(p, f)
           IN r.form \in Setup /\ r.page \in Workbench /\ Right(r.page, r.form)
<1> DEFINE r == Prefill(p, f)
           Fits(x) == x.form \in Setup /\ x.page \in Workbench /\ Right(x.page, x.form)
           late == p.loading \/ p.prefilled \/ p.config = "reading"
                   \/ p.entry.way \in {"fresh", "link"}
<1>0. SUFFICES Fits(r)
  OBVIOUS
<1>1. Fits([form |-> f, page |-> p])
  OBVIOUS
<1>2. CASE late
  <2>1. r = [form |-> f, page |-> p]
    BY <1>2 DEF Prefill
  <2> HIDE DEF r, Fits
  <2> QED BY <1>1, <2>1
<1>3. CASE ~late /\ p.entry.way = "rerun"
  <2>1. r = RestoreRun(p, f)
    BY <1>3 DEF Prefill
  <2>2. ~p.loading /\ ~p.prefilled /\ p.config # "reading"
    BY <1>3
  <2>3. Fits(RestoreRun(p, f))
    BY <1>3, <2>2, RestoreFacts
  <2> HIDE DEF r, Fits
  <2> QED BY <2>1, <2>3
<1>4. ASSUME p.entry.way # "rerun", NEW g \in Setup, NEW filled \in BOOLEAN, NEW notice \in BOOLEAN
      PROVE  Fits([form |-> g, page |-> [p EXCEPT !.prefilled = filled, !.notice = notice]])
  BY <1>4, NoticedFacts
<1>5. CASE ~late /\ p.entry.way # "rerun" /\ p.dirty
  <2>1. r = [form |-> f, page |-> [p EXCEPT !.prefilled = TRUE]]
    BY <1>5 DEF Prefill
  <2>2. /\ p.notice \in BOOLEAN /\ TRUE \in BOOLEAN
        /\ [p EXCEPT !.prefilled = TRUE] = [p EXCEPT !.prefilled = TRUE, !.notice = p.notice]
    BY DEF Workbench
  <2> HIDE DEF r, Fits
  <2> QED BY <1>4, <1>5, <2>1, <2>2
<1>6. CASE ~late /\ p.entry.way = "agent" /\ ~p.dirty
  <2>1. p.entry.agent \in Agent /\ p.entry.way # "rerun"
    BY <1>6 DEF Workbench, Entry, RerunLinks
  <2>2. CASE "agents" \in p.failed
    <3>1. r = [form |-> f, page |-> [p EXCEPT !.notice = TRUE]]
      BY <1>6, <2>2 DEF Prefill
    <3>2. /\ p.prefilled \in BOOLEAN /\ TRUE \in BOOLEAN
          /\ [p EXCEPT !.notice = TRUE] = [p EXCEPT !.prefilled = p.prefilled, !.notice = TRUE]
      BY DEF Workbench
    <3> HIDE DEF r, Fits
    <3> QED BY <1>4, <2>1, <3>1, <3>2
  <2>3. CASE "agents" \notin p.failed
    <3>1. r = [form |-> FollowAgent(p, f, p.entry.agent),
               page |-> [p EXCEPT !.prefilled = TRUE, !.notice = FALSE]]
      BY <1>6, <2>3 DEF Prefill
    <3>2. FollowAgent(p, f, p.entry.agent) \in Setup /\ TRUE \in BOOLEAN /\ FALSE \in BOOLEAN
      BY <2>1, FollowFacts
    <3> HIDE DEF r, Fits
    <3> QED BY <1>4, <2>1, <3>1, <3>2
  <2> QED BY <2>2, <2>3
<1>7. CASE ~late /\ p.entry.way \notin {"rerun", "agent"} /\ ~p.dirty
  <2> DEFINE checks == PreparedChecks \cap p.metrics
             project == IF PreparedProject \in p.projects THEN PreparedProject ELSE None
             g == [f EXCEPT !.checks = checks, !.project = project]
  <2>1. checks \in SUBSET Check /\ project \in Project \cup {None}
    BY DEF PrefillAssumption, Workbench
  <2>2. r = [form |-> g, page |-> [p EXCEPT !.prefilled = TRUE,
                                            !.notice = PreparedProject \notin p.projects]]
    BY <1>7 DEF Prefill
  <2> HIDE DEF checks, project
  <2>3. g \in Setup
    BY <2>1 DEF Setup
  <2>4. PICK n \in BOOLEAN : n = (PreparedProject \notin p.projects)
    OBVIOUS
  <2>5. r = [form |-> g, page |-> [p EXCEPT !.prefilled = TRUE, !.notice = n]] /\ TRUE \in BOOLEAN
    BY <2>2, <2>4
  <2> HIDE DEF g, r, Fits
  <2> QED BY <1>4, <1>7, <2>3, <2>4, <2>5
<1>8. p.dirty \in BOOLEAN /\ p.loading \in BOOLEAN /\ p.prefilled \in BOOLEAN
  BY DEF Workbench
<1> HIDE DEF r, Fits
<1> QED BY <1>2, <1>3, <1>5, <1>6, <1>7, <1>8

\* After the effects the page is right for its form.
LEMMA SettleFacts ==
    ASSUME PrefillAssumption, RunsInv, StoreInv, NEW p \in Workbench, NEW f \in Setup, Right(p, f),
           SettleForm(p, f), runs' = runs
    PROVE  form' \in Setup /\ OnBench'
<1> DEFINE g == Prefill(p, f).form
           q == Prefill(p, f).page
           due == q.linkDue \/ (~q.loading /\ q.entry.way = "link" /\ ~q.linkSeen)
           u == [q EXCEPT !.linkDue = due]
           draft == IF MayTakeDraft(u.entry) THEN store.draft ELSE None
           w == IF u.loading \/ u.draftSeen THEN u
                ELSE [u EXCEPT !.draftSeen = TRUE, !.restoring = draft]
<1>1. g \in Setup /\ q \in Workbench /\ Right(q, g)
  BY PrefillFacts
<1>2. form' = g /\ page' = w
  BY DEF SettleForm, LookForDraft
<1> HIDE DEF g, q
<1>3. PICK d \in BOOLEAN : d = due
  OBVIOUS
<1>4. d => q.linkDue \/ q.entry.way = "link"
  BY <1>3
<1>5. u = [q EXCEPT !.linkDue = d]
  BY <1>3
<1> HIDE DEF u, due
<1>6. /\ u \in Workbench /\ u.entry = q.entry /\ u.config = q.config /\ u.linkDue = d
      /\ u.restoring = q.restoring /\ u.loading = q.loading /\ u.failed = q.failed
      /\ u.metrics = q.metrics /\ u.dirty = q.dirty /\ u.prefilled = q.prefilled
      /\ u.whole = q.whole
  BY <1>1, <1>5 DEF Workbench
<1>7. Right(u, g)
  BY <1>1, <1>4, <1>6 DEF Right, IsSource
<1>8. draft \in Setup \cup {None} /\ (draft # None => MayTakeDraft(u.entry))
  BY DEF StoreInv
<1> HIDE DEF draft
<1>9. w \in Workbench /\ Right(w, g)
  <2> DEFINE v == [u EXCEPT !.draftSeen = TRUE, !.restoring = draft]
  <2>1. /\ v \in Workbench /\ v.entry = u.entry /\ v.config = u.config /\ v.linkDue = u.linkDue
        /\ v.restoring = draft /\ v.loading = u.loading /\ v.failed = u.failed
        /\ v.metrics = u.metrics /\ v.dirty = u.dirty /\ v.prefilled = u.prefilled
        /\ v.whole = u.whole
    BY <1>6, <1>8 DEF Workbench
  <2> HIDE DEF v
  <2>2. Right(v, g)
    BY <1>7, <1>8, <2>1 DEF Right, IsSource
  <2> QED BY <1>6, <1>7, <2>1, <2>2 DEF v
<1> HIDE DEF w
<1>10. page' \in Workbench /\ form' \in Setup
  BY <1>1, <1>2, <1>9
<1>11. Right(page, form)'
  BY <1>2, <1>9, runs' = runs DEF Right, IsSource
<1> QED BY <1>10, <1>11 DEF OnBench

-----------------------------------------------------------------------------
(* The first values of the form: the steps keep the invariant *)

\* A step that only moves the page and its form leaves the rest as it was.
LEMMA MovedPageInv ==
    ASSUME PrefillInv, server' = server, runs' = runs, store' = store, launches' = launches,
           form' \in Setup, OnBench'
    PROVE  PrefillInv'
<1>1. RunsInv' /\ StoreInv'
  BY DEF PrefillInv, RunsInv, StoreInv
<1>2. StartsInv'
  BY DEF PrefillInv, StartsInv
<1> QED BY <1>1, <1>2 DEF PrefillInv

\* A page the effects settle, over values it is right for, keeps the invariant.
LEMMA SettledInv ==
    ASSUME PrefillAssumption, PrefillInv, NEW p \in Workbench, NEW f \in Setup, Right(p, f),
           SettleForm(p, f), UNCHANGED <<server, runs, store, launches>>
    PROVE  PrefillInv'
<1>1. RunsInv /\ StoreInv
  BY DEF PrefillInv
<1>2. form' \in Setup /\ OnBench'
  BY <1>1, SettleFacts
<1> QED BY <1>2, MovedPageInv

\* A visit opens with an empty form over nothing read yet.
LEMMA OpenInv == ASSUME PrefillAssumption, PrefillInv, NEW entry \in Entry, Open(entry)
                 PROVE  PrefillInv'
<1> DEFINE config == IF entry.way = "rerun" THEN "reading" ELSE "none"
           q == [entry |-> entry, loading |-> TRUE, failed |-> {}, metrics |-> {},
                 projects |-> {}, assignments |-> {}, config |-> config,
                 prefilled |-> FALSE, whole |-> FALSE, notice |-> FALSE, dirty |-> FALSE,
                 draftSeen |-> FALSE, restoring |-> None,
                 linkSeen |-> FALSE, linkDue |-> FALSE, busy |-> FALSE]
<1>1. /\ page' = q /\ form' = EmptyForm /\ UNCHANGED <<server, runs, store, launches>>
      /\ (entry.way = "rerun" => entry.run \in DOMAIN runs)
  BY DEF Open
<1>2. EmptyForm \in Setup /\ EmptyForm.project = None
  BY DEF EmptyForm, Setup, PrefillAssumption
<1>3. config \in {"none", "reading"} /\ (entry.way = "rerun" => config = "reading")
  OBVIOUS
<1> HIDE DEF config
<1>4. q \in Workbench
  BY <1>3 DEF Workbench
<1>5. /\ q.entry = entry /\ q.config = config /\ q.prefilled = FALSE /\ q.linkDue = FALSE
      /\ q.restoring = None /\ q.loading = TRUE
  OBVIOUS
<1> HIDE DEF q
<1>6. Right(q, EmptyForm)
  BY <1>1, <1>2, <1>3, <1>5 DEF Right, IsSource
<1>7. Right(page, form)'
  BY <1>1, <1>6 DEF Right, IsSource
<1> QED BY <1>1, <1>2, <1>4, <1>7, MovedPageInv DEF OnBench

\* A load on its way takes the timers with it.
LEMMA RefreshSetupInv == ASSUME PrefillInv, RefreshSetup PROVE PrefillInv'
<1> DEFINE q == [page EXCEPT !.loading = TRUE, !.failed = {}, !.notice = FALSE,
                             !.restoring = None, !.linkDue = FALSE]
<1>1. page' = q /\ UNCHANGED <<server, runs, store, form, launches>> /\ OnBench
  BY DEF RefreshSetup, OnPage, PrefillInv
<1>2. /\ q \in Workbench /\ q.entry = page.entry /\ q.config = page.config /\ q.loading = TRUE
      /\ q.prefilled = page.prefilled /\ q.whole = page.whole /\ q.dirty = page.dirty
      /\ q.restoring = None /\ q.linkDue = FALSE
  BY <1>1 DEF OnBench, Workbench
<1> HIDE DEF q
<1>3. Right(q, form)
  BY <1>1, <1>2 DEF OnBench, Right, IsSource
<1>4. Right(page, form)'
  BY <1>1, <1>3 DEF Right, IsSource
<1>5. form' \in Setup
  BY <1>1 DEF PrefillInv
<1> QED BY <1>1, <1>2, <1>4, <1>5, MovedPageInv DEF OnBench

\* A load drops what is no longer listed; a rerun may lose its Project to it.
LEMMA LoadReturnsInv ==
    ASSUME PrefillAssumption, PrefillInv, NEW failing \in SUBSET {"metrics", "agents", "context"},
           LoadReturns(failing)
    PROVE  PrefillInv'
<1> DEFINE metrics == IF "metrics" \in failing THEN {} ELSE Check
           projects == IF "context" \in failing THEN {} ELSE server.projects
           assignments == IF "context" \in failing THEN {} ELSE server.assignments
           p == [page EXCEPT !.loading = FALSE, !.failed = failing, !.metrics = metrics,
                             !.projects = projects, !.assignments = assignments]
           project == IF form.project \in p.projects THEN form.project ELSE None
           id == IF \E a \in p.assignments : a[1] = form.id THEN form.id ELSE None
           version == IF \E a \in p.assignments : a[2] = form.version THEN form.version ELSE None
           f == [form EXCEPT !.project = project, !.id = id, !.version = version]
<1>1. /\ SettleForm(p, f) /\ UNCHANGED <<server, runs, store, launches>>
      /\ OnBench /\ form \in Setup
  BY DEF LoadReturns, OnPage, PrefillInv, Pruned
<1>2. /\ metrics \in SUBSET Check /\ ("metrics" \notin failing => metrics = Check)
      /\ projects \in SUBSET Project /\ assignments \in SUBSET SavedAssignment
  BY DEF PrefillInv
<1>3. /\ project \in Project \cup {None} /\ project \in {form.project, None}
      /\ id \in {a[1] : a \in SavedAssignment} \cup {None}
      /\ version \in {a[2] : a \in SavedAssignment} \cup {None}
  BY <1>1 DEF Setup
<1> HIDE DEF metrics, projects, assignments, project, id, version
<1>4. /\ p \in Workbench /\ p.entry = page.entry /\ p.config = page.config
      /\ p.prefilled = page.prefilled /\ p.whole = page.whole /\ p.dirty = page.dirty
      /\ p.restoring = page.restoring /\ p.linkDue = page.linkDue /\ p.loading = FALSE
      /\ p.failed = failing /\ p.metrics = metrics
  BY <1>1, <1>2 DEF OnBench, Workbench
<1>5. f \in Setup /\ f.agent = form.agent /\ f.checks = form.checks /\ f.project = project
  BY <1>1, <1>3 DEF Setup
<1> HIDE DEF p, f
<1>6. Right(p, f)
  BY <1>1, <1>2, <1>3, <1>4, <1>5 DEF OnBench, Right, IsSource
<1> QED BY <1>1, <1>4, <1>5, <1>6, SettledInv

\* The configuration is there before the rerun takes its chance.
LEMMA ConfigurationSettlesInv ==
    ASSUME PrefillAssumption, PrefillInv, NEW outcome \in {"read", "failed"},
           ConfigurationSettles(outcome)
    PROVE  PrefillInv'
<1> DEFINE p == [page EXCEPT !.config = outcome]
<1>1. /\ SettleForm(p, form) /\ UNCHANGED <<server, runs, store, launches>>
      /\ OnBench /\ form \in Setup /\ page.config = "reading"
  BY DEF ConfigurationSettles, OnPage, PrefillInv
<1>2. /\ p \in Workbench /\ p.entry = page.entry /\ p.config = outcome
      /\ p.prefilled = page.prefilled /\ p.whole = page.whole /\ p.dirty = page.dirty
      /\ p.restoring = page.restoring /\ p.linkDue = page.linkDue /\ p.loading = page.loading
      /\ p.failed = page.failed /\ p.metrics = page.metrics
  BY <1>1 DEF OnBench, Workbench
<1> HIDE DEF p
<1>3. Right(p, form)
  BY <1>1, <1>2 DEF OnBench, Right, IsSource
<1> QED BY <1>1, <1>2, <1>3, SettledInv

\* A link's Assignment is selected by its timer, and no rerun waits for one.
LEMMA LinkDueInv == ASSUME PrefillAssumption, PrefillInv, LinkDue PROVE PrefillInv'
<1> DEFINE q == [page EXCEPT !.linkSeen = TRUE, !.linkDue = FALSE]
           g == IF page.entry.assignment \in page.assignments
                THEN Assign(form, page.entry.assignment) ELSE form
<1>1. /\ page' = q /\ form' = g /\ UNCHANGED <<server, runs, store, launches>>
      /\ OnBench /\ form \in Setup /\ page.linkDue
  BY DEF LinkDue, OnPage, PrefillInv
<1>2. page.entry.way = "link" /\ page.assignments \subseteq SavedAssignment
  BY <1>1 DEF OnBench, Right, Workbench
<1>3. g \in Setup
  BY <1>1, <1>2, AssignFacts
<1>4. /\ q \in Workbench /\ q.entry = page.entry /\ q.restoring = page.restoring
      /\ q.linkDue = FALSE /\ q.loading = page.loading /\ q.failed = page.failed
      /\ q.metrics = page.metrics
  BY <1>1 DEF OnBench, Workbench
<1> HIDE DEF g, q
<1>5. Right(q, g)
  BY <1>1, <1>2, <1>4 DEF OnBench, Right, IsSource
<1>6. Right(page, form)'
  BY <1>1, <1>5 DEF Right, IsSource
<1> QED BY <1>1, <1>3, <1>4, <1>6, MovedPageInv DEF OnBench

\* The draft is taken by a visit without values of its own, never by a rerun.
LEMMA DraftDueInv == ASSUME PrefillAssumption, PrefillInv, DraftDue PROVE PrefillInv'
<1> DEFINE r == page.restoring
           agent == IF r.agent = None THEN form.agent ELSE r.agent
           checks == IF r.checks = {} THEN form.checks ELSE r.checks
           project == IF r.project \in page.projects THEN r.project ELSE form.project
           g == [form EXCEPT !.agent = agent, !.checks = checks, !.project = project]
           q == [page EXCEPT !.restoring = None]
<1>1. /\ page' = q /\ form' = g /\ UNCHANGED <<server, runs, store, launches>>
      /\ OnBench /\ form \in Setup /\ r # None
  BY DEF DraftDue, OnPage, PrefillInv
<1>2. page.entry.way # "rerun" /\ r \in Setup
  BY <1>1 DEF OnBench, Right, Workbench, MayTakeDraft
<1>3. agent \in Agent \cup {None} /\ checks \in SUBSET Check /\ project \in Project \cup {None}
  BY <1>1, <1>2 DEF Setup
<1> HIDE DEF agent, checks, project
<1>4. g \in Setup
  BY <1>1, <1>3 DEF Setup
<1>5. /\ q \in Workbench /\ q.entry = page.entry /\ q.restoring = None
      /\ q.linkDue = page.linkDue /\ q.loading = page.loading /\ q.failed = page.failed
      /\ q.metrics = page.metrics
  BY <1>1 DEF OnBench, Workbench
<1> HIDE DEF g, q
<1>6. Right(q, g)
  BY <1>1, <1>2, <1>5 DEF OnBench, Right, IsSource
<1>7. Right(page, form)'
  BY <1>1, <1>6 DEF Right, IsSource
<1> QED BY <1>1, <1>4, <1>5, <1>7, MovedPageInv DEF OnBench

\* An edited form promises nothing of its source.
LEMMA EditInv == ASSUME PrefillAssumption, PrefillInv, NEW f \in Setup, Edit(f) PROVE PrefillInv'
<1> DEFINE p == [page EXCEPT !.dirty = TRUE]
<1>1. SettleForm(p, f) /\ UNCHANGED <<server, runs, store, launches>> /\ OnBench
  BY DEF Edit, OnPage, PrefillInv
<1>2. /\ p \in Workbench /\ p.entry = page.entry /\ p.config = page.config
      /\ p.prefilled = page.prefilled /\ p.dirty = TRUE
      /\ p.restoring = page.restoring /\ p.linkDue = page.linkDue /\ p.loading = page.loading
      /\ p.failed = page.failed /\ p.metrics = page.metrics
  BY <1>1 DEF OnBench, Workbench
<1> HIDE DEF p
<1>3. Right(p, f)
  BY <1>1, <1>2 DEF OnBench, Right, IsSource
<1> QED BY <1>1, <1>2, <1>3, SettledInv

\* Each control writes a form.
LEMMA ToggleCheckInv ==
    ASSUME PrefillAssumption, PrefillInv, NEW c \in Check, ToggleCheck(c) PROVE PrefillInv'
<1> DEFINE checks == IF c \in form.checks THEN form.checks \ {c} ELSE form.checks \cup {c}
           f == [form EXCEPT !.checks = checks]
<1>1. Edit(f) /\ form \in Setup
  BY DEF ToggleCheck, PrefillInv
<1>2. checks \in SUBSET Check
  BY <1>1 DEF Setup
<1> HIDE DEF checks
<1>3. f \in Setup
  BY <1>1, <1>2 DEF Setup
<1> HIDE DEF f
<1> QED BY <1>1, <1>3, EditInv

\* A Project is chosen, an Assignment chosen or cleared.
LEMMA ChoiceInv ==
    ASSUME PrefillAssumption, PrefillInv,
           \/ \E p \in Project : ChooseProject(p)
           \/ \E a \in SavedAssignment : ChooseAssignment(a)
           \/ ClearAssignment
    PROVE  PrefillInv'
<1>1. form \in Setup
  BY DEF PrefillInv
<1>2. ASSUME NEW p \in Project, ChooseProject(p) PROVE PrefillInv'
  <2>1. [form EXCEPT !.project = p] \in Setup
    BY <1>1 DEF Setup
  <2> QED BY <1>2, <2>1, EditInv DEF ChooseProject
<1>3. ASSUME NEW a \in SavedAssignment, ChooseAssignment(a) PROVE PrefillInv'
  BY <1>1, <1>3, AssignFacts, EditInv DEF ChooseAssignment
<1>4. CASE ClearAssignment
  <2>1. [form EXCEPT !.id = None, !.version = None] \in Setup
    BY <1>1 DEF Setup
  <2> QED BY <1>4, <2>1, EditInv DEF ClearAssignment
<1> QED BY <1>2, <1>3, <1>4

\* An agent is chosen, with its Project.
LEMMA ChooseAgentInv ==
    ASSUME PrefillAssumption, PrefillInv, NEW agent \in Agent, ChooseAgent(agent)
    PROVE  PrefillInv'
<1> DEFINE g == FollowAgent(page, form, agent)
           f == [g EXCEPT !.checks = form.checks]
<1>1. Edit(f) /\ form \in Setup /\ page \in Workbench
  BY DEF ChooseAgent, PrefillInv, OnPage, OnBench
<1>2. g \in Setup
  BY <1>1, FollowFacts
<1> HIDE DEF g
<1>3. f \in Setup
  BY <1>1, <1>2 DEF Setup
<1> HIDE DEF f
<1> QED BY <1>1, <1>3, EditInv

\* The autosave keeps the form without its Assignment.
LEMMA AutoSaveInv == ASSUME PrefillAssumption, PrefillInv, AutoSave PROVE PrefillInv'
<1>1. /\ store' = [store EXCEPT !.draft = Unassigned(form)]
      /\ UNCHANGED <<server, runs, page, form, launches>>
  BY DEF AutoSave, Unassigned
<1>2. Unassigned(form) \in Setup
  BY DEF PrefillInv, Unassigned, Setup
<1>3. StoreInv
  BY DEF PrefillInv
<1>4. store' = [draft |-> Unassigned(form), memory |-> store.memory]
  BY <1>1, <1>3 DEF StoreInv
<1>5. StoreInv'
  BY <1>1, <1>2, <1>3, <1>4 DEF StoreInv
<1>6. RunsInv' /\ StartsInv' /\ (OnBench => OnBench')
  BY <1>1 DEF PrefillInv, RunsInv, StartsInv, OnBench, Right, IsSource
<1> QED BY <1>1, <1>5, <1>6 DEF PrefillInv

\* What is clicked has an agent, and checks or an Assignment.
LEMMA RunInv == ASSUME PrefillAssumption, PrefillInv, Run PROVE PrefillInv'
<1> DEFINE way == page.entry.way = "prepared"
           q == [page EXCEPT !.busy = TRUE]
<1>0. PICK v \in BOOLEAN : v = way
  OBVIOUS
<1> DEFINE l == [form |-> form, prepared |-> v, mine |-> TRUE]
<1>1. /\ page' = q /\ launches' = Append(launches, l)
      /\ UNCHANGED <<server, runs, store, form>>
      /\ form.agent # None /\ (~Locked(form) => form.checks # {})
  BY <1>0 DEF Run
<1>2. OnBench /\ form \in Setup /\ StartsInv
  BY DEF Run, OnPage, PrefillInv
<1>3. l \in LaunchState /\ l.form = form
  BY <1>2 DEF LaunchState
<1>4. /\ q \in Workbench /\ q.entry = page.entry /\ q.config = page.config
      /\ q.prefilled = page.prefilled /\ q.whole = page.whole /\ q.dirty = page.dirty
      /\ q.restoring = page.restoring /\ q.linkDue = page.linkDue /\ q.loading = page.loading
      /\ q.failed = page.failed /\ q.metrics = page.metrics
  BY <1>2 DEF OnBench, Workbench
<1> HIDE DEF l, q, way
<1>5. OnBench'
  <2>1. Right(q, form)
    BY <1>2, <1>4 DEF OnBench, Right, IsSource
  <2> QED BY <1>1, <1>4, <2>1 DEF OnBench, Right, IsSource
<1>6. StartsInv'
  <2>1. launches' \in Seq(LaunchState) /\ Len(launches') = Len(launches) + 1
    BY <1>1, <1>2, <1>3 DEF StartsInv
  <2>2. \A i \in DOMAIN launches' : launches'[i] = IF i \in DOMAIN launches THEN launches[i] ELSE l
    BY <1>1, <1>2, <1>3 DEF StartsInv
  <2>3. \A i \in DOMAIN launches' : /\ launches'[i].form.agent # None
                                    /\ ~Locked(launches'[i].form) => launches'[i].form.checks # {}
    BY <1>1, <1>2, <1>3, <2>2 DEF StartsInv
  <2> QED BY <1>5, <2>1, <2>3 DEF StartsInv
<1>7. RunsInv' /\ StoreInv'
  BY <1>1 DEF PrefillInv, RunsInv, StoreInv
<1> QED BY <1>1, <1>2, <1>5, <1>6, <1>7 DEF PrefillInv

\* What is left of a sequence holds only what was in it.
LEMMA RemovedFacts ==
    ASSUME NEW S, NEW s \in Seq(S), NEW i \in DOMAIN s
    PROVE  /\ RemoveAt(s, i) \in Seq(S)
           /\ \A j \in DOMAIN RemoveAt(s, i) : \E k \in DOMAIN s : RemoveAt(s, i)[j] = s[k]
<1>1. DOMAIN s = 1 .. Len(s) /\ Len(s) \in Nat /\ i \in 1 .. Len(s)
  OBVIOUS
<1> DEFINE a == SubSeq(s, 1, i - 1)
           b == SubSeq(s, i + 1, Len(s))
<1>2. /\ a \in Seq(S) /\ Len(a) = i - 1 /\ \A j \in 1 .. Len(a) : a[j] = s[j]
  BY <1>1
<1>3. /\ b \in Seq(S) /\ Len(b) = Len(s) - i /\ \A j \in 1 .. Len(b) : b[j] = s[j + i]
  BY <1>1, SMTT(30)
<1>4. RemoveAt(s, i) = a \o b
  BY DEF RemoveAt
<1> HIDE DEF a, b
<1>5. /\ a \o b \in Seq(S) /\ Len(a \o b) = Len(a) + Len(b)
      /\ \A j \in 1 .. Len(a) + Len(b) : (a \o b)[j] = IF j <= Len(a) THEN a[j] ELSE b[j - Len(a)]
  BY <1>2, <1>3, ConcatProperties
<1>6. ASSUME NEW j \in 1 .. Len(a \o b) PROVE \E k \in DOMAIN s : (a \o b)[j] = s[k]
  <2>1. CASE j <= Len(a)
    <3>1. (a \o b)[j] = a[j]
      BY <1>2, <1>3, <1>5, <2>1
    <3>2. a[j] = s[j] /\ j \in 1 .. Len(s)
      BY <1>1, <1>2, <1>3, <1>5, <2>1
    <3> QED BY <3>1, <3>2
  <2>2. CASE j > Len(a)
    <3>0. j \in 1 .. Len(a) + Len(b) /\ Len(a) \in Nat /\ Len(b) \in Nat
      BY <1>2, <1>3, <1>5
    <3>1. (a \o b)[j] = b[j - Len(a)] /\ j - Len(a) \in 1 .. Len(b)
      BY <3>0, <1>5, <2>2
    <3>2. b[j - Len(a)] = s[j - Len(a) + i] /\ j - Len(a) + i \in 1 .. Len(s)
      BY <1>1, <1>2, <1>3, <3>1, SMTT(30)
    <3> QED BY <3>1, <3>2
  <2> QED BY <1>2, <1>3, <1>5, <2>1, <2>2
<1>7. DOMAIN (a \o b) = 1 .. Len(a \o b)
  BY <1>5
<1> QED BY <1>4, <1>5, <1>6, <1>7

\* The starts of a page that was left are starts still, and have no page.
LEMMA LeftFacts ==
    ASSUME NEW starts \in Seq(LaunchState)
    PROVE  /\ Left(starts) \in Seq(LaunchState) /\ Len(Left(starts)) = Len(starts)
           /\ \A i \in DOMAIN Left(starts) :
                 Left(starts)[i].form = starts[i].form /\ Left(starts)[i].mine = FALSE
<1>1. \A i \in 1 .. Len(starts) :
        /\ [starts[i] EXCEPT !.mine = FALSE] \in LaunchState
        /\ [starts[i] EXCEPT !.mine = FALSE].form = starts[i].form
        /\ [starts[i] EXCEPT !.mine = FALSE].mine = FALSE
  <2>1. \A i \in 1 .. Len(starts) : starts[i] \in LaunchState
    OBVIOUS
  <2> QED BY <2>1 DEF LaunchState
<1>2. Left(starts) = [i \in 1 .. Len(starts) |-> [starts[i] EXCEPT !.mine = FALSE]]
  BY DEF Left
<1>3. Len(starts) \in Nat /\ DOMAIN Left(starts) = 1 .. Len(starts)
  BY <1>2
<1>4. \A i \in 1 .. Len(starts) : Left(starts)[i] = [starts[i] EXCEPT !.mine = FALSE]
  BY <1>2
<1> HIDE DEF Left
<1>5. Left(starts) \in [1 .. Len(starts) -> LaunchState]
  BY <1>1, <1>2
<1>6. Left(starts) \in Seq(LaunchState) /\ Len(Left(starts)) = Len(starts)
  BY <1>3, <1>5
<1> QED BY <1>1, <1>3, <1>4, <1>6

\* Leaving the page empties the form.
LEMMA LeavePageInv == ASSUME PrefillAssumption, PrefillInv, LeavePage PROVE PrefillInv'
<1>1. /\ page' = None /\ form' = EmptyForm /\ launches' = Left(launches)
      /\ UNCHANGED <<server, runs, store>> /\ StartsInv
  BY DEF LeavePage, PrefillInv
<1>2. EmptyForm \in Setup
  BY DEF EmptyForm, Setup, PrefillAssumption
<1>3. StartsInv'
  <2>1. launches \in Seq(LaunchState)
    BY <1>1 DEF StartsInv
  <2>2. /\ launches' \in Seq(LaunchState) /\ Len(launches') = Len(launches)
        /\ \A i \in DOMAIN launches' :
              launches'[i].form = launches[i].form /\ launches'[i].mine = FALSE
    BY <1>1, <2>1, LeftFacts
  <2>3. DOMAIN launches' = DOMAIN launches
    BY <2>1, <2>2
  <2> QED BY <1>1, <2>2, <2>3 DEF StartsInv
<1>4. RunsInv' /\ StoreInv'
  BY <1>1 DEF PrefillInv, RunsInv, StoreInv
<1> QED BY <1>1, <1>2, <1>3, <1>4 DEF PrefillInv

\* A run that was not started leaves its form on screen.
LEMMA RunRefusedInv ==
    ASSUME PrefillAssumption, PrefillInv, NEW i \in DOMAIN launches, RunRefused(i)
    PROVE  PrefillInv'
<1> DEFINE q == IF launches[i].mine THEN [page EXCEPT !.busy = FALSE, !.notice = TRUE] ELSE page
<1>1. /\ page' = q /\ launches' = RemoveAt(launches, i)
      /\ UNCHANGED <<server, runs, store, form>> /\ StartsInv /\ form \in Setup
  BY DEF RunRefused, PrefillInv
<1>2. OnBench => OnBench'
  <2>1. ASSUME OnBench
        PROVE  /\ q \in Workbench /\ q.entry = page.entry /\ q.config = page.config
               /\ q.prefilled = page.prefilled /\ q.whole = page.whole /\ q.dirty = page.dirty
               /\ q.restoring = page.restoring /\ q.linkDue = page.linkDue
               /\ q.loading = page.loading /\ q.failed = page.failed /\ q.metrics = page.metrics
    <3> DEFINE u == [page EXCEPT !.busy = FALSE, !.notice = TRUE]
    <3>1. /\ u \in Workbench /\ u.entry = page.entry /\ u.config = page.config
          /\ u.prefilled = page.prefilled /\ u.whole = page.whole /\ u.dirty = page.dirty
          /\ u.restoring = page.restoring /\ u.linkDue = page.linkDue
          /\ u.loading = page.loading /\ u.failed = page.failed /\ u.metrics = page.metrics
      BY <2>1 DEF OnBench, Workbench
    <3>2. q = u \/ q = page
      OBVIOUS
    <3> HIDE DEF u, q
    <3> QED BY <2>1, <3>1, <3>2 DEF OnBench
  <2> HIDE DEF q
  <2>2. ASSUME OnBench PROVE Right(q, form)
    BY <2>1, <2>2 DEF OnBench, Right, IsSource
  <2> QED BY <1>1, <2>1, <2>2 DEF OnBench, Right, IsSource
<1>3. page' = None \/ OnBench'
  <2>1. CASE launches[i].mine
    BY <1>1, <1>2, <2>1 DEF StartsInv
  <2>2. CASE ~launches[i].mine
    BY <1>1, <1>2, <2>2 DEF PrefillInv
  <2> QED BY <2>1, <2>2
<1>4. StartsInv'
  <2>1. launches \in Seq(LaunchState)
    BY <1>1 DEF StartsInv
  <2>2. /\ launches' \in Seq(LaunchState)
        /\ \A j \in DOMAIN launches' : \E k \in DOMAIN launches : launches'[j] = launches[k]
    BY <1>1, <2>1, RemovedFacts
  <2> QED BY <1>1, <1>2, <2>2 DEF StartsInv
<1>5. RunsInv' /\ StoreInv'
  BY <1>1 DEF PrefillInv, RunsInv, StoreInv
<1> QED BY <1>1, <1>3, <1>4, <1>5 DEF PrefillInv

\* What is archived no run names any the less.
LEMMA ArchiveInv == ASSUME PrefillInv, Archive PROVE PrefillInv'
<1> DEFINE Servers == [projects : SUBSET Project, assignments : SUBSET SavedAssignment]
<1>1. server \in Servers /\ UNCHANGED <<runs, store, page, form, launches>>
  BY DEF Archive, PrefillInv
<1>2. ASSUME NEW p, server' = [server EXCEPT !.projects = @ \ {p}] PROVE server' \in Servers
  BY <1>1, <1>2
<1>3. ASSUME NEW a, server' = [server EXCEPT !.assignments = @ \ {a}] PROVE server' \in Servers
  BY <1>1, <1>3
<1>4. server' \in Servers
  BY <1>2, <1>3 DEF Archive
<1>5. RunsInv' /\ StoreInv' /\ StartsInv' /\ (OnBench => OnBench')
  BY <1>1, ZenonT(40) DEF PrefillInv, RunsInv, StoreInv, StartsInv, OnBench, Right, IsSource
<1> QED BY <1>1, <1>4, <1>5 DEF PrefillInv

\* A new run is remembered last, until the store is full.
LEMMA RememberedFacts ==
    ASSUME PrefillAssumption, NEW memory \in Seq(EntryState), NEW run \in Nat, NEW f \in Setup,
           \A i \in DOMAIN memory : memory[i].run # run
    PROVE  LET m == Remembered(memory, run, f)
           IN /\ m \in Seq(EntryState) /\ Len(m) <= Capacity
              /\ \A i \in DOMAIN m : \/ i \in DOMAIN memory /\ m[i] = memory[i]
                                     \/ m[i] = [run |-> run, form |-> Unassigned(f)]
<1> DEFINE entry == [run |-> run, form |-> Unassigned(f)]
           next == Append(memory, entry)
           n == IF Len(next) < Capacity THEN Len(next) ELSE Capacity
<1>1. entry \in EntryState
  BY DEF Unassigned, Setup, EntryState
<1>2. Remembered(memory, run, f) = SubSeq(next, 1, n)
  BY DEF Remembered, Unassigned
<1> HIDE DEF entry
<1>3. /\ next \in Seq(EntryState) /\ Len(next) = Len(memory) + 1
      /\ \A i \in DOMAIN next : next[i] = IF i \in DOMAIN memory THEN memory[i] ELSE entry
  BY <1>1
<1> HIDE DEF next
<1>4. n \in Nat /\ n <= Len(next) /\ n <= Capacity
  BY <1>3 DEF PrefillAssumption
<1> HIDE DEF n
<1>5. /\ SubSeq(next, 1, n) \in Seq(EntryState) /\ Len(SubSeq(next, 1, n)) = n
      /\ \A i \in 1 .. n : SubSeq(next, 1, n)[i] = next[i] /\ i \in DOMAIN next
  BY <1>3, <1>4
<1> QED BY <1>2, <1>3, <1>4, <1>5 DEF entry

\* A run is started with what was clicked, and the form of it is remembered.
LEMMA RunStartedInv ==
    ASSUME PrefillAssumption, PrefillInv, NEW i \in DOMAIN launches, RunStarted(i)
    PROVE  PrefillInv'
<1> DEFINE l == launches[i]
           given == Assign(l.form, <<l.form.id, l.form.version>>)
           setup == IF Locked(l.form) THEN [given EXCEPT !.checks = Manifest] ELSE l.form
           r == [setup |-> setup, form |-> l.form]
           run == Len(runs) + 1
           m == Remembered(store.memory, run, l.form)
           draft == IF Forgets(l) THEN None ELSE store.draft
<1>1. /\ runs' = Append(runs, r) /\ store' = [draft |-> draft, memory |-> m]
      /\ launches' = Left(RemoveAt(launches, i)) /\ page' = None /\ form' = EmptyForm
      /\ server' = server /\ Len(runs) < MaxRuns /\ Accepts(l.form)
  BY DEF RunStarted, KeptForm
<1>2. /\ launches \in Seq(LaunchState) /\ l \in LaunchState /\ l.form \in Setup
      /\ l.form.agent # None /\ (~Locked(l.form) => l.form.checks # {})
  <2>1. launches \in Seq(LaunchState) /\ StartsInv
    BY DEF PrefillInv, StartsInv
  <2>2. launches[i] \in LaunchState
    BY <2>1
  <2> QED BY <2>1, <2>2 DEF StartsInv, LaunchState
<1>3. /\ runs \in Seq(RunState) /\ (\A k \in DOMAIN runs : Meaningful(runs[k].setup)) /\ StoreInv
      /\ server.assignments \subseteq SavedAssignment
  BY DEF PrefillInv, RunsInv
<1>4. setup \in Setup /\ Meaningful(setup)
  <2>1. CASE ~Locked(l.form)
    BY <1>2, <2>1 DEF Meaningful
  <2>2. CASE Locked(l.form)
    <3>1. <<l.form.id, l.form.version>> \in SavedAssignment
      BY <1>1, <1>3, <2>2 DEF Accepts
    <3>2. /\ given \in Setup /\ given.project = AssignedTo[<<l.form.id, l.form.version>>]
          /\ given.id = l.form.id /\ given.version = l.form.version /\ given.agent = l.form.agent
      BY <1>2, <3>1, AssignFacts
    <3> HIDE DEF given
    <3>3. /\ [given EXCEPT !.checks = Manifest] \in Setup
          /\ [given EXCEPT !.checks = Manifest].checks = Manifest
          /\ [given EXCEPT !.checks = Manifest].project = given.project
          /\ [given EXCEPT !.checks = Manifest].id = given.id
          /\ [given EXCEPT !.checks = Manifest].version = given.version
          /\ [given EXCEPT !.checks = Manifest].agent = given.agent
      BY <3>2 DEF Setup, PrefillAssumption
    <3> QED BY <1>2, <2>2, <3>2, <3>3 DEF Meaningful, PrefillAssumption
  <2> QED BY <2>1, <2>2
<1> HIDE DEF setup, given
<1>5. r \in RunState /\ r.setup = setup /\ r.form = l.form
  BY <1>2, <1>4 DEF RunState
<1> HIDE DEF r
<1>6. /\ runs' \in Seq(RunState) /\ Len(runs') = run
      /\ \A k \in DOMAIN runs' : runs'[k] = IF k \in DOMAIN runs THEN runs[k] ELSE r
      /\ DOMAIN runs \subseteq DOMAIN runs' /\ run \in DOMAIN runs' /\ run \notin DOMAIN runs
  BY <1>1, <1>3, <1>5
<1>7. RunsInv'
  BY <1>1, <1>3, <1>4, <1>5, <1>6 DEF RunsInv, PrefillAssumption
<1>8. StoreInv'
  <2>1. store.memory \in Seq(EntryState) /\ run \in Nat /\ draft \in Setup \cup {None}
    BY <1>3 DEF StoreInv
  <2>2. \A j \in DOMAIN store.memory :
          /\ store.memory[j].run \in DOMAIN runs /\ store.memory[j].run # run
          /\ store.memory[j].form = Unassigned(runs[store.memory[j].run].form)
    BY <1>3, <1>6 DEF StoreInv
  <2>3. /\ m \in Seq(EntryState) /\ Len(m) <= Capacity
        /\ \A j \in DOMAIN m : \/ j \in DOMAIN store.memory /\ m[j] = store.memory[j]
                               \/ m[j] = [run |-> run, form |-> Unassigned(l.form)]
    BY <1>2, <2>1, <2>2, RememberedFacts
  <2> HIDE DEF m, draft, run, l
  <2>4. \A j \in DOMAIN m :
           m[j].run \in DOMAIN runs' /\ m[j].form = Unassigned(runs'[m[j].run].form)
    <3> TAKE j \in DOMAIN m
    <3>1. CASE j \in DOMAIN store.memory /\ m[j] = store.memory[j]
      BY <1>6, <2>2, <3>1
    <3>2. CASE m[j] = [run |-> run, form |-> Unassigned(l.form)]
      BY <1>5, <1>6, <3>2
    <3> QED BY <2>3, <3>1, <3>2
  <2> QED BY <1>1, <2>1, <2>3, <2>4 DEF StoreInv
<1>9. StartsInv'
  <2> DEFINE rest == RemoveAt(launches, i)
  <2>1. /\ rest \in Seq(LaunchState)
        /\ \A j \in DOMAIN rest : \E k \in DOMAIN launches : rest[j] = launches[k]
    BY <1>2, RemovedFacts
  <2>2. launches' = Left(rest)
    BY <1>1
  <2> HIDE DEF rest
  <2>5. /\ launches' \in Seq(LaunchState) /\ Len(launches') = Len(rest)
        /\ \A j \in DOMAIN launches' : launches'[j].form = rest[j].form /\ launches'[j].mine = FALSE
    BY <2>1, <2>2, LeftFacts
  <2>6. DOMAIN launches' = DOMAIN rest
    BY <2>1, <2>5
  <2>3. /\ launches' \in Seq(LaunchState)
        /\ \A j \in DOMAIN launches' : /\ j \in DOMAIN rest /\ launches'[j].form = rest[j].form
                                       /\ launches'[j].mine = FALSE
    BY <2>5, <2>6
  <2>4. \A k \in DOMAIN launches : /\ launches[k].form.agent # None
                                   /\ ~Locked(launches[k].form) => launches[k].form.checks # {}
    BY DEF PrefillInv, StartsInv
  <2> QED BY <2>1, <2>3, <2>4 DEF StartsInv
<1>10. form' \in Setup
  BY <1>1 DEF EmptyForm, Setup, PrefillAssumption
<1> QED BY <1>1, <1>7, <1>8, <1>9, <1>10 DEF PrefillInv

-----------------------------------------------------------------------------
(* The first values of the form: what they keep *)

\* Every reachable state of the form's first values satisfies the invariant.
LEMMA PrefillInvariant == ASSUME PrefillAssumption PROVE PrefillSpec => []PrefillInv
<1>1. PrefillInit => PrefillInv
  BY PrefillInitInv
<1>2. PrefillInv /\ [PrefillNext]_prefillVars => PrefillInv'
  <2> SUFFICES ASSUME PrefillInv, [PrefillNext]_prefillVars PROVE PrefillInv'
    OBVIOUS
  <2>1. CASE UNCHANGED prefillVars
    BY <2>1, ZenonT(40)
       DEF prefillVars, PrefillInv, RunsInv, StoreInv, StartsInv, OnBench, Right, IsSource
  <2>2. ASSUME NEW entry \in Entry, Open(entry) PROVE PrefillInv'
    BY <2>2, OpenInv
  <2>3. CASE RefreshSetup
    BY <2>3, RefreshSetupInv
  <2>4. CASE LinkDue
    BY <2>4, LinkDueInv
  <2>5. CASE DraftDue
    BY <2>5, DraftDueInv
  <2>6. CASE AutoSave
    BY <2>6, AutoSaveInv
  <2>7. CASE Run
    BY <2>7, RunInv
  <2>8. CASE LeavePage
    BY <2>8, LeavePageInv
  <2>9. CASE Archive
    BY <2>9, ArchiveInv
  <2>10. ASSUME NEW failing \in SUBSET {"metrics", "agents", "context"}, LoadReturns(failing)
         PROVE  PrefillInv'
    BY <2>10, LoadReturnsInv
  <2>11. ASSUME NEW outcome \in {"read", "failed"}, ConfigurationSettles(outcome)
         PROVE  PrefillInv'
    BY <2>11, ConfigurationSettlesInv
  <2>12. ASSUME NEW c \in Check, ToggleCheck(c) PROVE PrefillInv'
    BY <2>12, ToggleCheckInv
  <2>13. ASSUME \/ \E p \in Project : ChooseProject(p)
                \/ \E a \in SavedAssignment : ChooseAssignment(a)
                \/ ClearAssignment
         PROVE  PrefillInv'
    BY <2>13, ChoiceInv
  <2>14. ASSUME NEW agent \in Agent, ChooseAgent(agent) PROVE PrefillInv'
    BY <2>14, ChooseAgentInv
  <2>15. ASSUME NEW i \in DOMAIN launches, RunStarted(i) \/ RunRefused(i) PROVE PrefillInv'
    BY <2>15, RunStartedInv, RunRefusedInv
  <2> QED BY <2>1, <2>2, <2>3, <2>4, <2>5, <2>6, <2>7, <2>8, <2>9, <2>10, <2>11, <2>12, <2>13,
             <2>14, <2>15 DEF PrefillNext
<1> QED BY <1>1, <1>2, PTL DEF PrefillSpec

\* The state of the form's first values stays in its types (EvaluationWorkbench,
\* run-form-memory): PrefillTypeOK.
THEOREM FirstValuesTypesCorrect == ASSUME PrefillAssumption PROVE PrefillSpec => []PrefillTypeOK
<1>1. PrefillInv => PrefillTypeOK
  <2> SUFFICES ASSUME PrefillInv PROVE PrefillTypeOK
    OBVIOUS
  <2>1. \A k \in DOMAIN runs : runs[k] \in RunState
    BY DEF PrefillInv, RunsInv
  <2>2. \A i \in DOMAIN launches : launches[i] \in LaunchState
    BY DEF PrefillInv, StartsInv
  <2> QED BY <2>1, <2>2 DEF PrefillInv, PrefillTypeOK, StoreInv, OnBench, RunState, LaunchState
<1> QED BY <1>1, PrefillInvariant, PTL

\* A rerun nobody has edited holds what its source was asked to do, and what is
\* remembered of a run is the form it was started with (RestoreRun,
\* rememberRunForm): PrefillIsTrue.
THEOREM RerunsAreTheirSource == ASSUME PrefillAssumption PROVE PrefillSpec => []PrefillIsTrue
<1>1. PrefillInv => RerunIsItsSource
  BY DEF PrefillInv, OnPage, OnBench, Right, IsSource, RerunIsItsSource
<1>2. PrefillInv => MemoryIsTheForm
  BY DEF PrefillInv, StoreInv, MemoryIsTheForm, Unassigned
<1> QED BY <1>1, <1>2, PrefillInvariant, PTL DEF PrefillIsTrue

\* A prepared evaluation leaves the user's other draft alone (the autosave's effect,
\* forgetDraft): PreparedLeavesDraft.
THEOREM PreparedNeverTouchesDraft == PrefillSpec => [][PreparedLeavesDraft]_prefillVars
<1>1. [PrefillNext]_prefillVars => [PreparedLeavesDraft]_prefillVars
  <2> SUFFICES ASSUME PrefillNext, store'.draft # store.draft PROVE PreparedLeavesDraft
    BY DEF PreparedLeavesDraft
  <2>1. AutoSave \/ \E i \in DOMAIN launches : RunStarted(i)
    BY DEF PrefillNext, Open, RefreshSetup, LinkDue, DraftDue, Run, LeavePage, Archive, LoadReturns,
           ConfigurationSettles, ToggleCheck, ChooseProject, ChooseAssignment, ClearAssignment,
           ChooseAgent, Edit, RunRefused
  <2>2. CASE AutoSave
    BY <2>2 DEF AutoSave, MaySave, PreparedLeavesDraft
  <2>3. ASSUME NEW i \in DOMAIN launches, RunStarted(i) PROVE PreparedLeavesDraft
    <3>1. ~launches[i].prepared
      BY <2>3 DEF RunStarted, Forgets
    <3> QED BY <2>3, <3>1 DEF RunStarted, PreparedLeavesDraft
  <2> QED BY <2>1, <2>2, <2>3
<1> QED BY <1>1, PTL DEF PrefillSpec

================================================================================
