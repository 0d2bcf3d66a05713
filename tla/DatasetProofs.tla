---------------------------- MODULE DatasetProofs -----------------------------
(* Proofs about datasets.  The registry, for any clients, names and record sets: *)
(* the inductive invariant adds to the types that a request under way names what *)
(* it will write; what the locked writes promise follows from it step by step.   *)
(* The lifecycle and the branches need more: what each request has seen.          *)
(* Generation jobs, for any jobs, processes and faults: the invariant relates,   *)
(* job by job, the durable row, the task and what was written; only a task past  *)
(* the commit of its phase registers, and while its heartbeat gets through       *)
(* nobody can fail its row.                                                      *)
(* The page of a data set, for any number of records, reloads and requests.  The *)
(* list of datasets and the dialog that watches a generation, for any jobs and   *)
(* reads: what the page names has begun, the URL is cleared of what is over only, *)
(* and the newest read of the list follows what the page was told of a job.      *)
EXTENDS DatasetGeneration, DatasetPage, GenerationWatch, FiniteSetTheorems, SequenceTheorems, TLAPS

-----------------------------------------------------------------------------
(* The registry *)

RequestsAddressed ==
    \A c \in Client :
        /\ clients[c].op \notin {"idle", "create"} => clients[c].name \in Name
        /\ clients[c].op \in {"create", "branch", "restore"} => clients[c].new \in Name
        /\ clients[c].op = "status" => clients[c].target \in Status

RegistryInv == RegistryTypeOK /\ RequestsAddressed

\* What a request may be, for the invariant
Addressed(request) ==
    /\ request \in Request
    /\ request.op \notin {"idle", "create"} => request.name \in Name
    /\ request.op \in {"create", "branch", "restore"} => request.new \in Name
    /\ request.op = "status" => request.target \in Status

\* What a row may be, for the invariant
WellFormed(row) == row \in Dataset /\ (row.status = "absent" => row = NoDataset)

-----------------------------------------------------------------------------
(* Two shapes of step: a request reads, or a row is written                    *)

\* No request is under way and no row exists at first.
LEMMA RegistryInitInv == RegistryInit => RegistryInv
  BY RegistryAssumption
  DEF RegistryInit, RegistryInv, RegistryTypeOK, RequestsAddressed, Exists, NoDataset,
      Dataset, Idle, Request, Name, Status, Records

\* The idle request is one.
LEMMA IdleAddressed == Addressed(Idle)
  BY RegistryAssumption DEF Addressed, Idle, Request, Name, Status

\* A request that reads keeps the invariant if it remembers what it will write.
LEMMA RequestKeeps ==
    ASSUME RegistryInv, NEW c \in Client, NEW request, Addressed(request),
           clients' = [clients EXCEPT ![c] = request], UNCHANGED datasets
    PROVE  RegistryInv'
  BY DEF RegistryInv, RegistryTypeOK, RequestsAddressed, Addressed, Exists

\* A write keeps the invariant if the row is well formed.
LEMMA RowKeeps ==
    ASSUME RegistryInv, NEW c \in Client, NEW n \in Name, NEW row, WellFormed(row),
           Store(n, row), Answer(c)
    PROVE  RegistryInv'
  <1>1. Addressed(Idle)
    BY IdleAddressed
  <1>. QED
    BY <1>1 DEF RegistryInv, RegistryTypeOK, RequestsAddressed, Addressed, Exists, Store,
                Answer, WellFormed

-----------------------------------------------------------------------------
(* One lemma per request                                                       *)

\* Refusals and failures change no row.
LEMMA FailsKeeps == ASSUME RegistryInv, NEW c \in Client, Fails(c) PROVE RegistryInv'
  BY IdleAddressed, RequestKeeps DEF Fails, Answer

\* A request that begins names what it has read and what it will create.
LEMMA NewRequests ==
    ASSUME NEW n \in Name
    PROVE  /\ Addressed([Idle EXCEPT !.op = "validate", !.name = n, !.seen = "DRAFT"])
           /\ \A seen, target \in Status :
                 Addressed([Idle EXCEPT !.op = "status", !.name = n, !.seen = seen,
                                        !.target = target])
           /\ Addressed([Idle EXCEPT !.op = "write", !.name = n])
           /\ \A version \in 0..MaxVersion :
                 Addressed([Idle EXCEPT !.op = "create", !.new = n, !.version = version])
           /\ \A source \in Name, version \in 0..MaxVersion :
                 Addressed([Idle EXCEPT !.op = "create", !.name = source, !.new = n,
                                        !.version = version])
           /\ \A source \in Name, version \in 0..MaxVersion, op \in {"branch", "restore"} :
                 Addressed([Idle EXCEPT !.op = op, !.name = source, !.new = n,
                                        !.version = version])
  <1>1. Idle \in Request /\ Name \subseteq 0..MaxName
    BY IdleAddressed DEF Addressed, Name
  <1>2. Addressed([Idle EXCEPT !.op = "validate", !.name = n, !.seen = "DRAFT"])
    BY <1>1 DEF Addressed, Request, Status
  <1>3. ASSUME NEW seen \in Status, NEW target \in Status
        PROVE  Addressed([Idle EXCEPT !.op = "status", !.name = n, !.seen = seen,
                                      !.target = target])
    BY <1>1 DEF Addressed, Request
  <1>4. Addressed([Idle EXCEPT !.op = "write", !.name = n])
    BY <1>1 DEF Addressed, Request
  <1>5. ASSUME NEW version \in 0..MaxVersion
        PROVE  Addressed([Idle EXCEPT !.op = "create", !.new = n, !.version = version])
    BY <1>1 DEF Addressed, Request
  <1>6. ASSUME NEW source \in Name, NEW version \in 0..MaxVersion
        PROVE  Addressed([Idle EXCEPT !.op = "create", !.name = source, !.new = n,
                                      !.version = version])
    BY <1>1 DEF Addressed, Request
  <1>7. ASSUME NEW source \in Name, NEW version \in 0..MaxVersion,
               NEW op \in {"branch", "restore"}
        PROVE  Addressed([Idle EXCEPT !.op = op, !.name = source, !.new = n,
                                      !.version = version])
    BY <1>1 DEF Addressed, Request
  <1>. QED
    BY <1>2, <1>3, <1>4, <1>5, <1>6, <1>7

\* Validation and the other transitions read.
LEMMA ReviewReads ==
    ASSUME RegistryInv, NEW c \in Client, NEW n \in Name,
           \/ BeginValidate(c, n)
           \/ GradeRecords(c)
           \/ \E target \in Status : BeginTransition(c, n, target)
    PROVE  RegistryInv'
  <1>1. CASE BeginValidate(c, n)
    <2>1. Addressed([Idle EXCEPT !.op = "validate", !.name = n, !.seen = "DRAFT"])
      BY NewRequests
    <2>. QED
      BY <1>1, <2>1, RequestKeeps DEF BeginValidate
  <1>2. CASE GradeRecords(c)
    <2> DEFINE verdict == Gate(datasets[clients[c].name].records)
    <2>1. clients[c] \in Request /\ clients[c].name \in Name
      BY <1>2 DEF GradeRecords, RegistryInv, RegistryTypeOK, RequestsAddressed
    <2>2. verdict \in Status
      BY <2>1, RegistryAssumption
         DEF Gate, RegistryInv, RegistryTypeOK, Dataset, Records, Status
    <2>3. Addressed([clients[c] EXCEPT !.op = "status", !.target = verdict])
      BY <2>1, <2>2 DEF Addressed, Request
    <2>4. clients' = [clients EXCEPT ![c] =
                         [clients[c] EXCEPT !.op = "status", !.target = verdict]]
      BY <1>2 DEF GradeRecords
    <2>. QED
      BY <1>2, <2>3, <2>4, RequestKeeps DEF GradeRecords
  <1>3. CASE \E target \in Status : BeginTransition(c, n, target)
    <2>1. PICK target \in Status : BeginTransition(c, n, target)
      BY <1>3
    <2>0. datasets[n].status \in Status
      BY <2>1 DEF BeginTransition, Exists, RegistryInv, RegistryTypeOK, Dataset
    <2>2. Addressed([Idle EXCEPT !.op = "status", !.name = n, !.seen = datasets[n].status,
                                 !.target = target])
      BY <2>0, NewRequests
    <2>. QED
      BY <2>1, <2>2, RequestKeeps DEF BeginTransition
  <1>. QED
    BY <1>1, <1>2, <1>3

\* A decision is written over whatever row the name has.
LEMMA UpdateStatusKeeps ==
    ASSUME RegistryInv, NEW c \in Client, UpdateStatus(c) PROVE RegistryInv'
  <1> DEFINE n == clients[c].name
             row == [datasets[n] EXCEPT !.status = clients[c].target]
  <1>1. n \in Name /\ clients[c].target \in Status
    BY DEF UpdateStatus, RegistryInv, RequestsAddressed
  <1>2. WellFormed(row)
    BY <1>1 DEF WellFormed, RegistryInv, RegistryTypeOK, Dataset, Status
  <1>. QED
    BY <1>1, <1>2, RowKeeps DEF UpdateStatus

\* Requests that write records, branch or create begin by reading.
LEMMA EditReads ==
    ASSUME RegistryInv, NEW c \in Client, NEW n \in Name,
           \/ BeginWrite(c, n) \/ SelectForEdit(c) \/ BeginCreate(c, n)
           \/ \E source \in Name : BeginVersion(c, source, n)
           \/ \E source \in Name, version \in 1..MaxVersion, op \in {"branch", "restore"} :
                 BeginClone(c, op, source, n, version)
           \/ SelectSource(c)
    PROVE  RegistryInv'
  <1>1. CASE BeginWrite(c, n)
    <2>1. Addressed([Idle EXCEPT !.op = "write", !.name = n])
      BY NewRequests
    <2>. QED
      BY <1>1, <2>1, RequestKeeps DEF BeginWrite
  <1>2. CASE SelectForEdit(c)
    <2> DEFINE version == datasets[clients[c].name].version
    <2>1. clients[c] \in Request /\ clients[c].name \in Name
      BY <1>2 DEF SelectForEdit, RegistryInv, RegistryTypeOK, RequestsAddressed
    <2>2. Addressed([clients[c] EXCEPT !.op = "edit", !.version = version])
      BY <2>1 DEF Addressed, Request, Dataset, RegistryInv, RegistryTypeOK
    <2>3. clients' = [clients EXCEPT ![c] =
                         [clients[c] EXCEPT !.op = "edit", !.version = version]]
      BY <1>2 DEF SelectForEdit
    <2>. QED
      BY <1>2, <2>2, <2>3, RequestKeeps DEF SelectForEdit
  <1>3. CASE BeginCreate(c, n)
    <2>1. 1 \in 0..MaxVersion
      BY RegistryAssumption
    <2>2. Addressed([Idle EXCEPT !.op = "create", !.new = n, !.version = 1])
      BY <2>1, NewRequests
    <2>. QED
      BY <1>3, <2>2, RequestKeeps DEF BeginCreate
  <1>4. CASE \E source \in Name : BeginVersion(c, source, n)
    <2>1. PICK source \in Name : BeginVersion(c, source, n)
      BY <1>4
    <2>2. datasets[source].version + 1 \in 0..MaxVersion
      <3>1. datasets[source].version \in 0..MaxVersion
        BY DEF RegistryInv, RegistryTypeOK, Dataset
      <3>2. datasets[source].version < MaxVersion
        BY <2>1 DEF BeginVersion
      <3>. QED
        BY <3>1, <3>2, RegistryAssumption
    <2>3. Addressed([Idle EXCEPT !.op = "create", !.name = source, !.new = n,
                                 !.version = datasets[source].version + 1])
      BY <2>2, NewRequests
    <2>. QED
      BY <2>1, <2>3, RequestKeeps DEF BeginVersion
  <1>5. CASE \E source \in Name, version \in 1..MaxVersion, op \in {"branch", "restore"} :
                BeginClone(c, op, source, n, version)
    <2>1. PICK source \in Name, version \in 1..MaxVersion, op \in {"branch", "restore"} :
             BeginClone(c, op, source, n, version)
      BY <1>5
    <2>2. version \in 0..MaxVersion
      BY RegistryAssumption
    <2>3. Addressed([Idle EXCEPT !.op = op, !.name = source, !.new = n,
                                 !.version = version])
      BY <2>2, NewRequests
    <2>. QED
      BY <2>1, <2>3, RequestKeeps DEF BeginClone
  <1>6. CASE SelectSource(c)
    <2> DEFINE seen == datasets[clients[c].name].status
    <2>1. clients[c] \in Request /\ clients[c].name \in Name /\ clients[c].new \in Name
      BY <1>6 DEF SelectSource, RegistryInv, RegistryTypeOK, RequestsAddressed
    <2>2. seen \in Status
      BY <1>6, <2>1 DEF SelectSource, Exists, RegistryInv, RegistryTypeOK, Dataset
    <2>3. Addressed([clients[c] EXCEPT !.seen = seen])
      BY <1>6, <2>1, <2>2 DEF SelectSource, Addressed, Request
    <2>4. clients' = [clients EXCEPT ![c] = [clients[c] EXCEPT !.seen = seen]]
      BY <1>6 DEF SelectSource
    <2>. QED
      BY <1>6, <2>3, <2>4, RequestKeeps DEF SelectSource
  <1>. QED
    BY <1>1, <1>2, <1>3, <1>4, <1>5, <1>6

\* A merge or a replacement keeps the row well formed.
LEMMA MergeKeeps ==
    ASSUME RegistryInv, NEW c \in Client, NEW content \in Records, MergeRecords(c, content)
    PROVE  RegistryInv'
  <1> DEFINE n == clients[c].name
             row == [datasets[n] EXCEPT !.records = content,
                                        !.version = MergeVersion(datasets[n])]
  <1>1. n \in Name /\ datasets[n] \in Dataset /\ datasets[n].status = "DRAFT"
    BY DEF MergeRecords, Mutable, RegistryInv, RegistryTypeOK, RequestsAddressed
  <1>2. MergeVersion(datasets[n]) \in 0..MaxVersion
    <2>1. datasets[n].version \in Nat /\ MergeVersion(datasets[n]) <= MaxVersion
      BY <1>1 DEF MergeRecords, Dataset
    <2>. QED
      BY <2>1, RegistryAssumption DEF MergeVersion
  <1>3. WellFormed(row)
    BY <1>1, <1>2 DEF WellFormed, Dataset
  <1>. QED
    BY <1>1, <1>3, RowKeeps DEF MergeRecords

\* So does the promotion of a record.
LEMMA UpsertKeeps ==
    ASSUME RegistryInv, NEW c \in Client, NEW content \in Content, UpsertRecord(c, content)
    PROVE  RegistryInv'
  <1> DEFINE n == clients[c].name
             row == [datasets[n] EXCEPT !.records = content, !.version = @ + 1]
  <1>1. n \in Name /\ datasets[n] \in Dataset /\ datasets[n].status = "DRAFT"
    BY DEF UpsertRecord, Mutable, RegistryInv, RegistryTypeOK, RequestsAddressed
  <1>2. datasets[n].version + 1 \in 0..MaxVersion
    <2>1. datasets[n].version \in Nat /\ datasets[n].version < MaxVersion
      BY <1>1 DEF UpsertRecord, Dataset
    <2>. QED
      BY <2>1, RegistryAssumption
  <1>3. WellFormed(row)
    BY <1>1, <1>2 DEF WellFormed, Dataset, Records
  <1>. QED
    BY <1>1, <1>3, RowKeeps DEF UpsertRecord

\* So does an edit, whatever version it has read.
LEMMA EditKeeps ==
    ASSUME RegistryInv, NEW c \in Client, NEW content \in Records, EditRecords(c, content)
    PROVE  RegistryInv'
  <1> DEFINE n == clients[c].name
             row == [datasets[n] EXCEPT !.records = content,
                                        !.version = clients[c].version + 1]
  <1>1. n \in Name /\ datasets[n] \in Dataset /\ datasets[n].status # "absent"
    BY DEF EditRecords, Exists, RegistryInv, RegistryTypeOK, RequestsAddressed
  <1>2. clients[c].version + 1 \in 0..MaxVersion
    <2>1. clients[c].version \in Nat /\ clients[c].version < MaxVersion
      BY DEF EditRecords, RegistryInv, RegistryTypeOK, Request
    <2>. QED
      BY <2>1, RegistryAssumption
  <1>3. WellFormed(row)
    BY <1>1, <1>2 DEF WellFormed, Dataset
  <1>. QED
    BY <1>1, <1>3, RowKeeps DEF EditRecords

\* Deletion leaves nothing of the row.
LEMMA DeleteKeeps ==
    ASSUME RegistryInv, NEW c \in Client, DeleteDataset(c) PROVE RegistryInv'
  <1>1. clients[c].name \in Name
    BY DEF DeleteDataset, RegistryInv, RequestsAddressed
  <1>2. WellFormed(NoDataset)
    BY RegistryAssumption DEF WellFormed, NoDataset, Dataset, Status, Records
  <1>. QED
    BY <1>1, <1>2, RowKeeps DEF DeleteDataset

\* Roots, versions and copies are drafts.
LEMMA CreateKeeps ==
    ASSUME RegistryInv, NEW c \in Client, NEW content \in Records,
           CreateDataset(c, content) \/ CloneDataset(c, content)
    PROVE  RegistryInv'
  <1> DEFINE row == [status |-> "DRAFT", version |-> clients[c].version,
                     parent |-> clients[c].name, records |-> content]
  <1>1. clients[c] \in Request /\ clients[c].new \in Name
    BY DEF CreateDataset, CloneDataset, RegistryInv, RegistryTypeOK, RequestsAddressed
  <1>2. WellFormed(row)
    BY <1>1 DEF WellFormed, Dataset, Status, Request
  <1>3. Store(clients[c].new, row) /\ Answer(c)
    BY DEF CreateDataset, CloneDataset
  <1>. QED
    BY <1>1, <1>2, <1>3, RowKeeps

-----------------------------------------------------------------------------
(* Types                                                                       *)

\* A reviewer's step keeps the invariant.
LEMMA ReviewerStepKeeps ==
    ASSUME RegistryInv, NEW c \in Client, ReviewerStep(c) PROVE RegistryInv'
  <1>1. \E n \in Name : TRUE
    BY RegistryAssumption DEF Name
  <1>. QED
    BY <1>1, ReviewReads, UpdateStatusKeeps DEF ReviewerStep

\* An editor's step keeps the invariant.
LEMMA EditorStepKeeps ==
    ASSUME RegistryInv, NEW c \in Client, EditorStep(c) PROVE RegistryInv'
  <1>1. \E n \in Name : TRUE
    BY RegistryAssumption DEF Name
  <1>. QED
    BY <1>1, EditReads, MergeKeeps, UpsertKeeps, EditKeeps, CreateKeeps, DeleteKeeps
       DEF EditorStep

\* Every step keeps the invariant.
LEMMA RegistryStepKeeps ==
    ASSUME RegistryInv, [RegistryNext]_registryVars PROVE RegistryInv'
  <1>1. Reviewer \subseteq Client /\ Editor \subseteq Client
    BY RegistryAssumption
  <1>2. CASE UNCHANGED registryVars
    BY <1>2 DEF registryVars, RegistryInv, RegistryTypeOK, RequestsAddressed, Exists
  <1>3. CASE RegistryNext
    BY <1>1, <1>3, ReviewerStepKeeps, EditorStepKeeps, FailsKeeps DEF RegistryNext
  <1>. QED
    BY <1>2, <1>3

\* Rows and requests keep their types, whatever the interleaving of requests.
THEOREM RegistryTypesCorrect == RegistrySpec => []RegistryTypeOK
  <1>1. RegistryInv => RegistryTypeOK
    BY DEF RegistryInv
  <1>. QED
    BY <1>1, RegistryInitInv, RegistryStepKeeps, PTL DEF RegistrySpec

-----------------------------------------------------------------------------
(* What the writes promise                                                     *)

\* What OnlyDraftsChange and VersionNamesRecords say of one row and one step
RowStep(n) ==
    /\ datasets'[n].records # datasets[n].records =>
          Mutable(n) \/ ~Exists(n) \/ EditedWithoutLock(n)
    /\ Exists(n) /\ datasets'[n] # NoDataset =>
          \/ /\ datasets[n].version <= datasets'[n].version
             /\ datasets[n].records \notin {"empty", datasets'[n].records} =>
                   datasets[n].version < datasets'[n].version
          \/ EditedWithoutLock(n)

\* A row that is not written satisfies both.
LEMMA UnwrittenRow ==
    ASSUME RegistryInv, NEW n \in Name, datasets'[n] = datasets[n] PROVE RowStep(n)
  <1>1. datasets[n].version \in Nat
    BY DEF RegistryInv, RegistryTypeOK, Dataset
  <1>. QED
    BY <1>1 DEF RowStep

\* So does the row of a step that stores one, if the stored row does.
LEMMA StoredRow ==
    ASSUME RegistryInv, NEW m \in Name, NEW row, Store(m, row),
           datasets'[m] = row => RowStep(m)
    PROVE  \A n \in Name : RowStep(n)
  <1>1. \A n \in Name : datasets'[n] = IF n = m THEN row ELSE datasets[n]
    BY DEF Store, RegistryInv, RegistryTypeOK
  <1>. QED
    BY <1>1, UnwrittenRow

\* The decision changes the status alone.
LEMMA UpdateStatusWrites ==
    ASSUME RegistryInv, NEW c \in Client, UpdateStatus(c) PROVE \A n \in Name : RowStep(n)
  <1> DEFINE m == clients[c].name
             row == [datasets[m] EXCEPT !.status = clients[c].target]
  <1>1. m \in Name /\ datasets[m] \in Dataset
    BY DEF UpdateStatus, RegistryInv, RegistryTypeOK, RequestsAddressed
  <1>2. row.version = datasets[m].version /\ row.records = datasets[m].records
    BY <1>1 DEF Dataset
  <1>3. datasets[m].version \in Nat
    BY <1>1 DEF Dataset
  <1>4. datasets'[m] = row => RowStep(m)
    BY <1>2, <1>3 DEF RowStep
  <1>. QED
    BY <1>1, <1>4, StoredRow DEF UpdateStatus

\* A merge or a promotion writes a draft, and a new number over old records.
LEMMA LockedWrites ==
    ASSUME RegistryInv, NEW c \in Client,
           \/ \E content \in Records : MergeRecords(c, content)
           \/ \E content \in Content : UpsertRecord(c, content)
           \/ DeleteDataset(c)
    PROVE  \A n \in Name : RowStep(n)
  <1> DEFINE m == clients[c].name
  <1>1. m \in Name /\ datasets[m] \in Dataset /\ Mutable(m) /\ datasets[m].version \in Nat
    <2>1. clients[c].op = "write" /\ Mutable(m)
      BY DEF MergeRecords, UpsertRecord, DeleteDataset
    <2>2. m \in Name
      BY <2>1 DEF RegistryInv, RequestsAddressed
    <2>. QED
      BY <2>1, <2>2 DEF RegistryInv, RegistryTypeOK, Dataset
  <1>2. CASE \E content \in Records : MergeRecords(c, content)
    <2>1. PICK content \in Records : MergeRecords(c, content)
      BY <1>2
    <2> DEFINE row == [datasets[m] EXCEPT !.records = content,
                                          !.version = MergeVersion(datasets[m])]
    <2>2. row.version = MergeVersion(datasets[m])
      BY <1>1 DEF Dataset
    <2>3. /\ datasets[m].version <= MergeVersion(datasets[m])
          /\ datasets[m].records # "empty" => datasets[m].version < MergeVersion(datasets[m])
      BY <1>1 DEF MergeVersion
    <2>4. datasets'[m] = row => RowStep(m)
      BY <1>1, <2>2, <2>3 DEF RowStep
    <2>. QED
      BY <1>1, <2>1, <2>4, StoredRow DEF MergeRecords
  <1>3. CASE \E content \in Content : UpsertRecord(c, content)
    <2>1. PICK content \in Content : UpsertRecord(c, content)
      BY <1>3
    <2> DEFINE row == [datasets[m] EXCEPT !.records = content, !.version = @ + 1]
    <2>2. row.version = datasets[m].version + 1
      BY <1>1 DEF Dataset
    <2>3. datasets'[m] = row => RowStep(m)
      BY <1>1, <2>2 DEF RowStep
    <2>. QED
      BY <1>1, <2>1, <2>3, StoredRow DEF UpsertRecord
  <1>4. CASE DeleteDataset(c)
    <2>1. datasets'[m] = NoDataset => RowStep(m)
      BY <1>1 DEF RowStep
    <2>. QED
      BY <1>1, <1>4, <2>1, StoredRow DEF DeleteDataset
  <1>. QED
    BY <1>2, <1>3, <1>4

\* The edits without a lock are the exception.
LEMMA UnlockedWrites ==
    ASSUME RegistryInv, NEW c \in Client, NEW content \in Records, EditRecords(c, content)
    PROVE  \A n \in Name : RowStep(n)
  <1>1. clients[c].op = "edit" /\ clients[c].name \in Name /\ clients'[c] = Idle
    BY DEF EditRecords, Answer, RegistryInv, RegistryTypeOK, RequestsAddressed
  <1>2. EditedWithoutLock(clients[c].name)
    BY <1>1 DEF EditedWithoutLock
  <1> DEFINE m == clients[c].name
             row == [datasets[m] EXCEPT !.records = content,
                                        !.version = clients[c].version + 1]
  <1>3. datasets'[m] = row => RowStep(m)
    BY <1>2 DEF RowStep
  <1>. QED
    BY <1>1, <1>3, StoredRow DEF EditRecords

\* A new row is written where none was.
LEMMA Creations ==
    ASSUME RegistryInv, NEW c \in Client, NEW content \in Records,
           CreateDataset(c, content) \/ CloneDataset(c, content)
    PROVE  \A n \in Name : RowStep(n)
  <1>1. clients[c].new \in Name /\ ~Exists(clients[c].new)
    BY DEF CreateDataset, CloneDataset, RegistryInv, RequestsAddressed
  <1>. QED
    BY <1>1, StoredRow DEF CreateDataset, CloneDataset, RowStep

\* Every step satisfies both.
LEMMA EveryRowStep ==
    ASSUME RegistryInv, [RegistryNext]_registryVars PROVE \A n \in Name : RowStep(n)
  <1>1. Reviewer \subseteq Client /\ Editor \subseteq Client
    BY RegistryAssumption
  <1>2. CASE UNCHANGED datasets
    BY <1>2, UnwrittenRow
  <1>3. ASSUME NEW c \in Client, ReviewerStep(c)
        PROVE  \A n \in Name : RowStep(n)
    BY <1>2, <1>3, UpdateStatusWrites
       DEF ReviewerStep, BeginValidate, GradeRecords, BeginTransition
  <1>4. ASSUME NEW c \in Client, EditorStep(c)
        PROVE  \A n \in Name : RowStep(n)
    BY <1>2, <1>4, LockedWrites, UnlockedWrites, Creations
       DEF EditorStep, BeginWrite, SelectForEdit, BeginCreate, BeginVersion, BeginClone,
           SelectSource
  <1>. QED
    BY <1>1, <1>2, <1>3, <1>4 DEF RegistryNext, registryVars, Fails

\* A request that read DRAFT and was overtaken by a decision or a deletion does
\* not write: records change only in drafts, the edits without a lock excepted.
THEOREM OnlyDraftsAreWritten == RegistrySpec => OnlyDraftsChange
  <1>1. ASSUME RegistryInv, [RegistryNext]_registryVars
        PROVE  [\A n \in Name : datasets'[n].records # datasets[n].records =>
                   Mutable(n) \/ ~Exists(n) \/ EditedWithoutLock(n)]_registryVars
    BY <1>1, EveryRowStep DEF RowStep
  <1>. QED
    BY <1>1, RegistryInitInv, RegistryStepKeeps, PTL DEF RegistrySpec, OnlyDraftsChange

\* However locked writers overtake one another, a version number never comes to
\* stand for other records.
THEOREM VersionsNameRecords == RegistrySpec => VersionNamesRecords
  <1>1. ASSUME RegistryInv, [RegistryNext]_registryVars
        PROVE  [\A n \in Name : Exists(n) /\ datasets'[n] # NoDataset =>
                   \/ /\ datasets[n].version <= datasets'[n].version
                      /\ datasets[n].records \notin {"empty", datasets'[n].records} =>
                            datasets[n].version < datasets'[n].version
                   \/ EditedWithoutLock(n)]_registryVars
    BY <1>1, EveryRowStep DEF RowStep
  <1>. QED
    BY <1>1, RegistryInitInv, RegistryStepKeeps, PTL DEF RegistrySpec, VersionNamesRecords

-----------------------------------------------------------------------------
(* The lifecycle and the branches: what a request has seen                     *)

\* What a request holds of the status it has read
Sighted(request) ==
    /\ request.op = "validate" => request.seen = "DRAFT"
    /\ request.op = "status" =>
          request.target \in AllowedTransitions[request.seen] \cup {request.seen}
    /\ request.op = "branch" => request.seen \in {"none"} \cup (Status \ NonBranchable)

\* Only reviewers decide, only editors copy.
InRole(c, request) ==
    /\ request.op \in {"validate", "status"} => c \in Reviewer
    /\ request.op \in {"branch", "restore"} => c \in Editor

SightInv ==
    /\ RegistryInv
    /\ \A c \in Client : Sighted(clients[c]) /\ InRole(c, clients[c])

\* What LifecycleRespected and RuledOutIsNotBranched say of one row and one step
StatusStep(n) ==
    /\ Exists(n) /\ datasets'[n].status # datasets[n].status =>
          \/ datasets'[n].status \in AllowedTransitions[datasets[n].status]
          \/ Mutable(n) /\ datasets'[n] = NoDataset
          \/ DecidedOnAnother(n)
    /\ ~Exists(n) /\ datasets'[n].records # "empty" /\ datasets'[n].parent # 0
       /\ datasets[datasets'[n].parent].status \in NonBranchable => WasBranchable(n)

\* A step moves one request, to one that is in order.
LEMMA SightKeeps ==
    ASSUME SightInv, RegistryInv', NEW c \in Client, NEW request,
           clients' = [clients EXCEPT ![c] = request],
           Sighted(request), InRole(c, request)
    PROVE  SightInv'
  <1>1. \A d \in Client : clients'[d] = IF d = c THEN request ELSE clients[d]
    BY DEF SightInv, RegistryInv, RegistryTypeOK
  <1>. QED
    BY <1>1 DEF SightInv

\* The end of a request is in order.
LEMMA IdleSighted == \A c \in Client : Sighted(Idle) /\ InRole(c, Idle)
  BY DEF Sighted, InRole, Idle

\* A row that is not written satisfies both.
LEMMA StatusKept ==
    ASSUME RegistryInv, NEW n \in Name, datasets'[n] = datasets[n] PROVE StatusStep(n)
  BY DEF StatusStep, RegistryInv, RegistryTypeOK, NoDataset

\* So do all rows of a step that stores one, if the stored row does.
LEMMA StatusStored ==
    ASSUME RegistryInv, NEW m \in Name, NEW row, Store(m, row),
           datasets'[m] = row => StatusStep(m)
    PROVE  \A n \in Name : StatusStep(n)
  <1>1. \A n \in Name : datasets'[n] = IF n = m THEN row ELSE datasets[n]
    BY DEF Store, RegistryInv, RegistryTypeOK
  <1>. QED
    BY <1>1, StatusKept

\* The locked and the unlocked writes of records leave the status, deletion asserts it.
LEMMA WritesKeepStatus ==
    ASSUME RegistryInv, NEW c \in Client,
           \/ \E content \in Records : MergeRecords(c, content)
           \/ \E content \in Content : UpsertRecord(c, content)
           \/ \E content \in Records : EditRecords(c, content)
           \/ DeleteDataset(c)
    PROVE  Answer(c) /\ \A n \in Name : StatusStep(n)
  <1> DEFINE m == clients[c].name
  <1>1. m \in Name /\ datasets[m] \in Dataset /\ Exists(m)
    BY DEF MergeRecords, UpsertRecord, EditRecords, DeleteDataset, Mutable, Exists,
           RegistryInv, RegistryTypeOK, RequestsAddressed
  <1>2. ASSUME NEW row, Store(m, row), row.status = datasets[m].status
        PROVE  \A n \in Name : StatusStep(n)
    <2>1. datasets'[m] = row => StatusStep(m)
      BY <1>1, <1>2 DEF StatusStep
    <2>. QED
      BY <1>1, <1>2, <2>1, StatusStored
  <1>3. CASE \E content \in Records : MergeRecords(c, content)
    <2>1. PICK content \in Records : MergeRecords(c, content)
      BY <1>3
    <2>2. [datasets[m] EXCEPT !.records = content,
                              !.version = MergeVersion(datasets[m])].status
            = datasets[m].status
      BY <1>1 DEF Dataset
    <2>. QED
      BY <1>2, <2>1, <2>2 DEF MergeRecords
  <1>4. CASE \E content \in Content : UpsertRecord(c, content)
    <2>1. PICK content \in Content : UpsertRecord(c, content)
      BY <1>4
    <2>2. [datasets[m] EXCEPT !.records = content, !.version = @ + 1].status
            = datasets[m].status
      BY <1>1 DEF Dataset
    <2>. QED
      BY <1>2, <2>1, <2>2 DEF UpsertRecord
  <1>5. CASE \E content \in Records : EditRecords(c, content)
    <2>1. PICK content \in Records : EditRecords(c, content)
      BY <1>5
    <2>2. [datasets[m] EXCEPT !.records = content,
                              !.version = clients[c].version + 1].status
            = datasets[m].status
      BY <1>1 DEF Dataset
    <2>. QED
      BY <1>2, <2>1, <2>2 DEF EditRecords
  <1>6. CASE DeleteDataset(c)
    <2>1. Mutable(m) /\ Store(m, NoDataset) /\ Answer(c)
      BY <1>6 DEF DeleteDataset
    <2>2. datasets'[m] = NoDataset => StatusStep(m)
      BY <1>1, <2>1 DEF StatusStep
    <2>. QED
      BY <1>1, <2>1, <2>2, StatusStored
  <1>. QED
    BY <1>3, <1>4, <1>5, <1>6

\* A new row has records and a parent only if it is a copy, and then of a source that
\* the copy has seen in a status that can be branched, or that it restores.
LEMMA CreationsAreAllowed ==
    ASSUME SightInv, NEW c \in Client, NEW content \in Records,
           CreateDataset(c, content) \/ CloneDataset(c, content)
    PROVE  Answer(c) /\ \A n \in Name : StatusStep(n)
  <1> DEFINE new == clients[c].new
             row == [status |-> "DRAFT", version |-> clients[c].version,
                     parent |-> clients[c].name, records |-> content]
  <1>1. /\ new \in Name /\ ~Exists(new) /\ Store(new, row) /\ Answer(c)
        /\ Sighted(clients[c]) /\ InRole(c, clients[c])
    BY DEF CreateDataset, CloneDataset, SightInv, RegistryInv, RequestsAddressed
  <1>2. clients'[c] = Idle
    BY <1>1 DEF Answer, SightInv, RegistryInv, RegistryTypeOK
  <1>3. content # "empty" /\ clients[c].name # 0 => WasBranchable(new)
    <2>1. CASE CreateDataset(c, content)
      BY <2>1 DEF CreateDataset
    <2>2. CASE CloneDataset(c, content)
      <3>1. /\ c \in Editor
            /\ \/ clients[c].op = "restore"
               \/ clients[c].op = "branch" /\ clients[c].seen \in Status \ NonBranchable
        BY <1>1, <2>2 DEF CloneDataset, Sighted, InRole
      <3>. QED
        BY <1>2, <3>1 DEF WasBranchable
    <2>. QED
      BY <2>1, <2>2
  <1>4. datasets'[new] = row => StatusStep(new)
    BY <1>1, <1>3 DEF StatusStep
  <1>. QED
    BY <1>1, <1>4, StatusStored DEF SightInv

\* A decision is one that was allowed from what its author saw.
LEMMA DecisionsAreAllowed ==
    ASSUME SightInv, NEW c \in Client, UpdateStatus(c)
    PROVE  Answer(c) /\ \A n \in Name : StatusStep(n)
  <1> DEFINE m == clients[c].name
             target == clients[c].target
             row == [datasets[m] EXCEPT !.status = target]
  <1>1. /\ m \in Name /\ datasets[m] \in Dataset /\ Exists(m) /\ Store(m, row) /\ Answer(c)
        /\ target \in AllowedTransitions[clients[c].seen] \cup {clients[c].seen}
        /\ c \in Reviewer /\ clients[c].op = "status"
    BY DEF UpdateStatus, SightInv, Sighted, InRole, RegistryInv, RegistryTypeOK,
           RequestsAddressed
  <1>2. clients'[c] = Idle
    BY <1>1 DEF Answer, SightInv, RegistryInv, RegistryTypeOK
  <1>3. row.status = target
    BY <1>1 DEF Dataset
  <1>4. clients[c].seen # datasets[m].status /\ datasets'[m] = row => DecidedOnAnother(m)
    BY <1>1, <1>2, <1>3 DEF DecidedOnAnother
  <1>5. datasets'[m] = row => StatusStep(m)
    BY <1>1, <1>3, <1>4 DEF StatusStep
  <1>. QED
    BY <1>1, <1>5, StatusStored DEF SightInv

\* Requests of reviewers remember the status that they read.
LEMMA ReviewsSee ==
    ASSUME SightInv, RegistryInv', NEW c \in Reviewer, c \in Client, NEW n \in Name,
           \/ BeginValidate(c, n)
           \/ GradeRecords(c)
           \/ \E target \in Status : BeginTransition(c, n, target)
    PROVE  SightInv'
  <1>1. Idle \in Request /\ clients[c] \in Request
    BY IdleAddressed DEF Addressed, SightInv, RegistryInv, RegistryTypeOK
  <1>2. CASE BeginValidate(c, n)
    <2> DEFINE request == [Idle EXCEPT !.op = "validate", !.name = n, !.seen = "DRAFT"]
    <2>1. request.op = "validate" /\ request.seen = "DRAFT"
      BY <1>1 DEF Request
    <2>2. Sighted(request) /\ InRole(c, request)
      BY <2>1 DEF Sighted, InRole
    <2>. QED
      BY <1>2, <2>2, SightKeeps DEF BeginValidate
  <1>3. CASE GradeRecords(c)
    <2> DEFINE verdict == Gate(datasets[clients[c].name].records)
               request == [clients[c] EXCEPT !.op = "status", !.target = verdict]
    <2>1. request.op = "status" /\ request.seen = "DRAFT" /\ request.target = verdict
      BY <1>1, <1>3 DEF Request, GradeRecords, SightInv, Sighted
    <2>2. clients[c].name \in Name
      BY <1>3 DEF GradeRecords, SightInv, RegistryInv, RequestsAddressed
    <2>3. verdict \in {"VALIDATED", "DRAFT", "REJECTED"}
      BY <2>2, RegistryAssumption
         DEF Gate, SightInv, RegistryInv, RegistryTypeOK, Dataset, Records
    <2>4. AllowedTransitions["DRAFT"] = {"VALIDATED", "REJECTED"}
      BY DEF AllowedTransitions
    <2>5. Sighted(request) /\ InRole(c, request)
      BY <2>1, <2>3, <2>4 DEF Sighted, InRole
    <2>6. clients' = [clients EXCEPT ![c] = request]
      BY <1>3 DEF GradeRecords
    <2>. QED
      BY <2>5, <2>6, SightKeeps
  <1>4. CASE \E target \in Status : BeginTransition(c, n, target)
    <2>1. PICK target \in Status : BeginTransition(c, n, target)
      BY <1>4
    <2> DEFINE request == [Idle EXCEPT !.op = "status", !.name = n,
                                       !.seen = datasets[n].status, !.target = target]
    <2>2. request.op = "status" /\ request.seen = datasets[n].status /\ request.target = target
      BY <1>1 DEF Request
    <2>3. target \in AllowedTransitions[datasets[n].status]
      BY <2>1 DEF BeginTransition
    <2>4. Sighted(request) /\ InRole(c, request)
      BY <2>2, <2>3 DEF Sighted, InRole
    <2>. QED
      BY <2>1, <2>4, SightKeeps DEF BeginTransition
  <1>. QED
    BY <1>2, <1>3, <1>4

\* Requests of editors have no status to go by, but for a branch that has selected
\* its source.
LEMMA EditsSee ==
    ASSUME SightInv, RegistryInv', NEW c \in Editor, c \in Client, NEW n \in Name,
           \/ BeginWrite(c, n) \/ SelectForEdit(c) \/ BeginCreate(c, n)
           \/ \E source \in Name : BeginVersion(c, source, n)
           \/ \E source \in Name, version \in 1..MaxVersion, op \in {"branch", "restore"} :
                 BeginClone(c, op, source, n, version)
           \/ SelectSource(c)
    PROVE  SightInv'
  <1>1. Idle \in Request /\ clients[c] \in Request
    BY IdleAddressed DEF Addressed, SightInv, RegistryInv, RegistryTypeOK
  <1>2. ASSUME NEW request, clients' = [clients EXCEPT ![c] = request],
               request.op \in {"write", "edit", "create"}
        PROVE  SightInv'
    BY <1>2, SightKeeps DEF Sighted, InRole
  <1>3. CASE BeginWrite(c, n)
    <2>1. [Idle EXCEPT !.op = "write", !.name = n].op = "write"
      BY <1>1 DEF Request
    <2>. QED
      BY <1>2, <1>3, <2>1 DEF BeginWrite
  <1>4. CASE SelectForEdit(c)
    <2> DEFINE request == [clients[c] EXCEPT !.op = "edit",
                                             !.version = datasets[clients[c].name].version]
    <2>1. request.op = "edit" /\ clients' = [clients EXCEPT ![c] = request]
      BY <1>1, <1>4 DEF Request, SelectForEdit
    <2>. QED
      BY <1>2, <2>1
  <1>5. CASE BeginCreate(c, n)
    <2>1. [Idle EXCEPT !.op = "create", !.new = n, !.version = 1].op = "create"
      BY <1>1 DEF Request
    <2>. QED
      BY <1>2, <1>5, <2>1 DEF BeginCreate
  <1>6. CASE \E source \in Name : BeginVersion(c, source, n)
    <2>1. PICK source \in Name : BeginVersion(c, source, n)
      BY <1>6
    <2>2. [Idle EXCEPT !.op = "create", !.name = source, !.new = n,
                       !.version = datasets[source].version + 1].op = "create"
      BY <1>1 DEF Request
    <2>. QED
      BY <1>2, <2>1, <2>2 DEF BeginVersion
  <1>7. CASE \E source \in Name, version \in 1..MaxVersion, op \in {"branch", "restore"} :
                BeginClone(c, op, source, n, version)
    <2>1. PICK source \in Name, version \in 1..MaxVersion, op \in {"branch", "restore"} :
             BeginClone(c, op, source, n, version)
      BY <1>7
    <2> DEFINE request == [Idle EXCEPT !.op = op, !.name = source, !.new = n,
                                       !.version = version]
    <2>2. request.op = op /\ request.seen = "none"
      BY <1>1 DEF Request, Idle
    <2>3. Sighted(request) /\ InRole(c, request)
      BY <2>2 DEF Sighted, InRole
    <2>. QED
      BY <2>1, <2>3, SightKeeps DEF BeginClone
  <1>8. CASE SelectSource(c)
    <2> DEFINE source == datasets[clients[c].name]
               request == [clients[c] EXCEPT !.seen = source.status]
    <2>1. /\ request.op = clients[c].op /\ request.seen = source.status
          /\ clients' = [clients EXCEPT ![c] = request]
      BY <1>1, <1>8 DEF Request, SelectSource
    <2>2. /\ clients[c].op \in {"branch", "restore"} /\ source.status # "absent"
          /\ clients[c].op = "branch" => source.status \notin NonBranchable
          /\ clients[c].name \in Name
      BY <1>8 DEF SelectSource, Exists, MayCopy, SightInv, RegistryInv, RequestsAddressed
    <2>3. source.status \in Status
      BY <2>2 DEF SightInv, RegistryInv, RegistryTypeOK, Dataset
    <2>4. Sighted(request) /\ InRole(c, request)
      BY <2>1, <2>2, <2>3 DEF Sighted, InRole
    <2>. QED
      BY <2>1, <2>4, SightKeeps
  <1>. QED
    BY <1>3, <1>4, <1>5, <1>6, <1>7, <1>8

\* Every step is one of these, whoever takes it.
LEMMA StatusStepAlways ==
    ASSUME SightInv, [RegistryNext]_registryVars
    PROVE  SightInv' /\ \A n \in Name : StatusStep(n)
  <1>1. RegistryInv /\ RegistryInv'
    BY RegistryStepKeeps DEF SightInv
  <1>2. Reviewer \subseteq Client /\ Editor \subseteq Client /\ \E n \in Name : TRUE
    BY RegistryAssumption DEF Name
  <1>3. ASSUME UNCHANGED datasets PROVE \A n \in Name : StatusStep(n)
    BY <1>1, <1>3, StatusKept
  <1>4. ASSUME NEW c \in Client, Answer(c) PROVE SightInv'
    BY <1>1, <1>4, IdleSighted, SightKeeps DEF Answer
  <1>5. CASE UNCHANGED registryVars
    <2>1. SightInv'
      BY <1>1, <1>5 DEF registryVars, SightInv
    <2>. QED
      BY <1>3, <1>5, <2>1 DEF registryVars
  <1>6. ASSUME NEW c \in Reviewer, ReviewerStep(c)
        PROVE  SightInv' /\ \A n \in Name : StatusStep(n)
    <2>1. CASE UpdateStatus(c)
      BY <1>2, <1>4, <2>1, DecisionsAreAllowed
    <2>2. CASE ~UpdateStatus(c)
      <3>1. \E n \in Name : \/ BeginValidate(c, n)
                             \/ GradeRecords(c)
                             \/ \E target \in Status : BeginTransition(c, n, target)
        BY <1>2, <1>6, <2>2 DEF ReviewerStep
      <3>2. UNCHANGED datasets
        BY <3>1 DEF BeginValidate, GradeRecords, BeginTransition
      <3>. QED
        BY <1>1, <1>2, <1>3, <3>1, <3>2, ReviewsSee
    <2>. QED
      BY <2>1, <2>2
  <1>7. ASSUME NEW c \in Editor, EditorStep(c)
        PROVE  SightInv' /\ \A n \in Name : StatusStep(n)
    <2>1. CASE \/ \E content \in Records : MergeRecords(c, content)
               \/ \E content \in Content : UpsertRecord(c, content)
               \/ \E content \in Records : EditRecords(c, content)
               \/ DeleteDataset(c)
      BY <1>1, <1>2, <1>4, <2>1, WritesKeepStatus
    <2>2. CASE \E content \in Records : CreateDataset(c, content) \/ CloneDataset(c, content)
      BY <1>2, <1>4, <2>2, CreationsAreAllowed
    <2>3. CASE \E n \in Name :
                  \/ BeginWrite(c, n) \/ SelectForEdit(c) \/ BeginCreate(c, n)
                  \/ \E source \in Name : BeginVersion(c, source, n)
                  \/ \E source \in Name, version \in 1..MaxVersion,
                        op \in {"branch", "restore"} : BeginClone(c, op, source, n, version)
                  \/ SelectSource(c)
      <3>1. UNCHANGED datasets
        BY <2>3 DEF BeginWrite, SelectForEdit, BeginCreate, BeginVersion, BeginClone,
                    SelectSource
      <3>. QED
        BY <1>1, <1>2, <1>3, <2>3, <3>1, EditsSee
    <2>. QED
      BY <1>2, <1>7, <2>1, <2>2, <2>3 DEF EditorStep
  <1>8. ASSUME NEW c \in Client, Fails(c)
        PROVE  SightInv' /\ \A n \in Name : StatusStep(n)
    BY <1>3, <1>4, <1>8 DEF Fails
  <1>. QED
    BY <1>2, <1>5, <1>6, <1>7, <1>8 DEF RegistryNext

\* No request is under way at first.
LEMMA SightInit == RegistryInit => SightInv
  BY RegistryInitInv, IdleSighted DEF RegistryInit, SightInv

\* However many reviewers decide at once, a status leaves the lifecycle only by a
\* decision that another has overtaken, and then for a status that was allowed from
\* the one its author saw; no other request moves a status but a deletion of a draft.
THEOREM LifecycleIsRespected == RegistrySpec => LifecycleRespected
  <1>1. ASSUME SightInv, [RegistryNext]_registryVars
        PROVE  /\ SightInv'
               /\ [\A n \in Name : Exists(n) /\ datasets'[n].status # datasets[n].status =>
                       \/ datasets'[n].status \in AllowedTransitions[datasets[n].status]
                       \/ Mutable(n) /\ datasets'[n] = NoDataset
                       \/ DecidedOnAnother(n)]_registryVars
    BY <1>1, StatusStepAlways DEF StatusStep
  <1>. QED
    BY <1>1, SightInit, PTL DEF RegistrySpec, LifecycleRespected

\* A dataset that is rejected or retired is not copied into a new draft but by a
\* restore, or by a branch that selected it when it could still be branched.
THEOREM RuledOutStaysUnbranched == RegistrySpec => RuledOutIsNotBranched
  <1>1. ASSUME SightInv, [RegistryNext]_registryVars
        PROVE  /\ SightInv'
               /\ [\A n \in Name : ~Exists(n) /\ datasets'[n].records # "empty"
                                   /\ datasets'[n].parent # 0
                                   /\ datasets[datasets'[n].parent].status \in NonBranchable
                       => WasBranchable(n)]_registryVars
    BY <1>1, StatusStepAlways DEF StatusStep
  <1>. QED
    BY <1>1, SightInit, PTL DEF RegistrySpec, RuledOutIsNotBranched

-----------------------------------------------------------------------------
(* Generation jobs *)

\* The row fails only with a reason, and only a swept one can have been written
Swept(row) == row.phase = "failed" /\ row.error = "interrupted"

\* What one job's row, its task and its record of writing say of each other
JobOK(row, task, target, mutes) ==
    /\ task.pc \in Registering \cup After => row.phase = "validating" \/ Swept(row)
    /\ target # 0 => /\ row.phase \in {"validating", "completed"} \/ Swept(row)
                     /\ task.pc \in {"none", "complete"}
    /\ row.error # "none" => row.phase = "failed"
    /\ task.pc = "complete" => task.name # 0 /\ target = task.name
    /\ task.pc \in {"created", "replace"} => task.name \in Name
    /\ row.phase = "completed" => row.result # 0 /\ row.result = target
    /\ row.phase = "absent" => ~row.stale
    /\ mutes = 0 /\ task.pc # "none" =>
          /\ row.phase \in Active => ~row.stale
          /\ row.error # "interrupted"

GenInv ==
    /\ GenTypeOK
    /\ RequestsAddressed
    /\ \A j \in Job : JobOK(jobs[j], tasks[j], written[j], faults.mutes)

\* The moves of a phase: what PhasesFollowDiagram says of one job
Follows(from, to) ==
    from # to =>
        <<from, to>> \in
            {"absent"} \X {"queued"} \cup {<<"queued", "generating">>,
             <<"generating", "validating">>, <<"validating", "completed">>}
            \cup {"queued", "generating"} \X {"cancelled"}
            \cup Active \X {"failed"}

\* What is proved of each action
StepOK == GenInv' /\ \A j \in Job : Follows(jobs[j].phase, jobs'[j].phase)

-----------------------------------------------------------------------------
(* Rows and tasks                                                              *)

\* A compare-and-set that finds another phase changes nothing.
LEMMA AdvancedRow ==
    ASSUME NEW row \in JobRow, NEW from, NEW to \in Phase
    PROVE  /\ Advance(row, from, to) \in JobRow
           /\ row.phase \notin from => Advance(row, from, to) = row
           /\ row.phase \in from => /\ Advance(row, from, to).phase = to
                                    /\ ~Advance(row, from, to).stale
                                    /\ Advance(row, from, to).error = row.error
                                    /\ Advance(row, from, to).result = row.result
  BY DEF Advance, JobRow

\* Nor does one that records a failure.
LEMMA FailedRow ==
    ASSUME NEW row \in JobRow, NEW from, NEW error \in {"own", "interrupted"}
    PROVE  /\ AdvanceFailed(row, from, error) \in JobRow
           /\ row.phase \notin from => AdvanceFailed(row, from, error) = row
           /\ row.phase \in from => /\ AdvanceFailed(row, from, error).phase = "failed"
                                    /\ ~AdvanceFailed(row, from, error).stale
                                    /\ AdvanceFailed(row, from, error).error = error
                                    /\ AdvanceFailed(row, from, error).result = row.result
  <1> DEFINE moved == Advance(row, from, "failed")
  <1>1. moved \in JobRow
    BY AdvancedRow DEF Phase
  <1>2. row.phase \in from => /\ moved.phase = "failed" /\ ~moved.stale
                              /\ moved.result = row.result
    BY AdvancedRow DEF Phase
  <1>3. AdvanceFailed(row, from, error) =
          IF row.phase \in from THEN [moved EXCEPT !.error = error] ELSE row
    BY DEF AdvanceFailed
  <1> HIDE DEF moved
  <1>4. [moved EXCEPT !.error = error] \in JobRow
    BY <1>1 DEF JobRow
  <1>5. /\ [moved EXCEPT !.error = error].phase = moved.phase
        /\ [moved EXCEPT !.error = error].stale = moved.stale
        /\ [moved EXCEPT !.error = error].result = moved.result
        /\ [moved EXCEPT !.error = error].error = error
    BY <1>1 DEF JobRow
  <1>. QED
    BY <1>2, <1>3, <1>4, <1>5

\* No task is one.
LEMMA NoTaskIsTask == NoTask \in Task /\ NoTask.pc = "none" /\ NoTask.name = 0
  BY GenerationAssumption, RegistryAssumption DEF NoTask, Task, Before, Registering, After

\* A step of one job keeps the invariant if what becomes of that job is right.
LEMMA OneJob ==
    ASSUME GenInv, RegistryInv', NEW j \in Job, NEW row \in JobRow, NEW task \in Task,
           NEW target \in 0..MaxName,
           jobs' = [jobs EXCEPT ![j] = row], tasks' = [tasks EXCEPT ![j] = task],
           written' = [written EXCEPT ![j] = target], UNCHANGED faults,
           JobOK(row, task, target, faults.mutes), Follows(jobs[j].phase, row.phase)
    PROVE  StepOK
  <1>1. \A i \in Job : /\ jobs'[i] = IF i = j THEN row ELSE jobs[i]
                       /\ tasks'[i] = IF i = j THEN task ELSE tasks[i]
                       /\ written'[i] = IF i = j THEN target ELSE written[i]
    BY DEF GenInv, GenTypeOK
  <1>2. GenTypeOK' /\ RequestsAddressed'
    BY DEF GenInv, GenTypeOK, RegistryInv
  <1>3. \A i \in Job : JobOK(jobs'[i], tasks'[i], written'[i], faults'.mutes)
    BY <1>1 DEF GenInv
  <1>4. \A i \in Job : Follows(jobs[i].phase, jobs'[i].phase)
    BY <1>1 DEF Follows
  <1>. QED
    BY <1>2, <1>3, <1>4 DEF StepOK, GenInv

\* What a step leaves alone it leaves alone for the job as well.
LEMMA Unchanged ==
    ASSUME GenInv, NEW j \in Job
    PROVE  /\ jobs = [jobs EXCEPT ![j] = jobs[j]] /\ jobs[j] \in JobRow
           /\ tasks = [tasks EXCEPT ![j] = tasks[j]] /\ tasks[j] \in Task
           /\ written = [written EXCEPT ![j] = written[j]] /\ written[j] \in 0..MaxName
           /\ JobOK(jobs[j], tasks[j], written[j], faults.mutes)
           /\ RegistryInv
           /\ UNCHANGED registryVars => RegistryInv'
  <1>1. RegistryInv
    BY DEF GenInv, GenTypeOK, RegistryInv
  <1>. QED
    BY <1>1, RegistryStepKeeps DEF GenInv, GenTypeOK

\* A step of a row and its task that writes no dataset.
LEMMA RowAndTask ==
    ASSUME GenInv, RegistryInv', NEW j \in Job, NEW row \in JobRow, NEW task \in Task,
           jobs' = [jobs EXCEPT ![j] = row], tasks' = [tasks EXCEPT ![j] = task],
           UNCHANGED <<written, faults>>,
           JobOK(row, task, written[j], faults.mutes), Follows(jobs[j].phase, row.phase)
    PROVE  StepOK
  <1>1. written' = [written EXCEPT ![j] = written[j]] /\ written[j] \in 0..MaxName
    BY Unchanged
  <1>. QED
    BY <1>1, OneJob

\* A step of a row alone.
LEMMA RowAlone ==
    ASSUME GenInv, NEW j \in Job, NEW row \in JobRow,
           jobs' = [jobs EXCEPT ![j] = row],
           UNCHANGED <<registryVars, tasks, written, faults>>,
           JobOK(row, tasks[j], written[j], faults.mutes), Follows(jobs[j].phase, row.phase)
    PROVE  StepOK
  <1>1. tasks' = [tasks EXCEPT ![j] = tasks[j]] /\ tasks[j] \in Task /\ RegistryInv'
    BY Unchanged
  <1>. QED
    BY <1>1, RowAndTask

\* A step of a task alone.
LEMMA TaskAlone ==
    ASSUME GenInv, RegistryInv', NEW j \in Job, NEW task \in Task,
           tasks' = [tasks EXCEPT ![j] = task], UNCHANGED <<jobs, written, faults>>,
           JobOK(jobs[j], task, written[j], faults.mutes)
    PROVE  StepOK
  <1>1. jobs' = [jobs EXCEPT ![j] = jobs[j]] /\ jobs[j] \in JobRow
    BY Unchanged
  <1>2. Follows(jobs[j].phase, jobs[j].phase)
    BY DEF Follows
  <1>. QED
    BY <1>1, <1>2, RowAndTask

\* No job has been asked for at first.
LEMMA GenInitInv == Init => GenInv
  <1> SUFFICES ASSUME Init PROVE GenInv
    OBVIOUS
  <1>1. RegistryInv
    BY RegistryInitInv DEF Init
  <1>2. GenTypeOK
    BY <1>1, NoTaskIsTask, GenerationAssumption, RegistryAssumption
       DEF Init, GenInit, GenTypeOK, RegistryInv, JobRow, Phase
  <1>3. \A j \in Job : JobOK(jobs[j], tasks[j], written[j], faults.mutes)
    BY NoTaskIsTask DEF Init, GenInit, JobOK, Registering, After, Active
  <1>. QED
    BY <1>1, <1>2, <1>3 DEF GenInv, RegistryInv

-----------------------------------------------------------------------------
(* The request, the semaphore and the compare-and-sets of the task             *)

\* A task that starts, starts with a row that nothing was written for.
LEMMA StartGenerationKeeps ==
    ASSUME GenInv, NEW j \in Job, StartGeneration(j) PROVE StepOK
  <1>1. PICK r \in Replica : tasks' = [tasks EXCEPT ![j].pc = "waiting", ![j].at = r]
    BY DEF StartGeneration
  <1> DEFINE row == [jobs[j] EXCEPT !.phase = "queued"]
             task == [tasks[j] EXCEPT !.pc = "waiting", !.at = r]
  <1>2. /\ row \in JobRow /\ row.phase = "queued" /\ row.error = jobs[j].error
        /\ row.stale = jobs[j].stale /\ row.result = jobs[j].result
    BY Unchanged DEF JobRow, Phase
  <1>3. /\ task \in Task /\ task.pc = "waiting"
    BY Unchanged DEF Task, Before
  <1>4. JobOK(row, task, written[j], faults.mutes) /\ Follows(jobs[j].phase, row.phase)
    <2>1. jobs[j].phase = "absent" /\ JobOK(jobs[j], tasks[j], written[j], faults.mutes)
      BY Unchanged DEF StartGeneration
    <2>. QED
      BY <1>2, <1>3, <2>1 DEF JobOK, Swept, Registering, After, Active, Follows
  <1>5. /\ jobs' = [jobs EXCEPT ![j] = row] /\ tasks' = [tasks EXCEPT ![j] = task]
        /\ UNCHANGED <<written, faults>> /\ RegistryInv'
    <2>1. jobs' = [jobs EXCEPT ![j] = row]
      BY DEF StartGeneration
    <2>2. tasks' = [tasks EXCEPT ![j] = task]
      BY <1>1
    <2>3. UNCHANGED registryVars /\ UNCHANGED <<written, faults>>
      BY DEF StartGeneration
    <2>4. RegistryInv'
      BY <2>3, Unchanged, Zenon
    <2>. QED
      BY <2>1, <2>2, <2>3, <2>4
  <1> HIDE DEF row, task
  <1>. QED
    BY <1>2, <1>3, <1>4, <1>5, RowAndTask

\* A task that goes to another await, with its row as it was.
LEMMA GotoKeeps ==
    ASSUME GenInv, RegistryInv', NEW j \in Job,
           NEW pc \in {"none"} \cup Before \cup Registering \cup After, Goto(j, pc),
           UNCHANGED <<jobs, written, faults>>,
           JobOK(jobs[j], [tasks[j] EXCEPT !.pc = pc], written[j], faults.mutes)
    PROVE  StepOK
  <1>1. [tasks[j] EXCEPT !.pc = pc] \in Task
    BY Unchanged DEF Task
  <1>2. tasks' = [tasks EXCEPT ![j] = [tasks[j] EXCEPT !.pc = pc]]
    BY DEF Goto
  <1>. QED
    BY <1>1, <1>2, TaskAlone

\* Where a task stands before it registers, nothing else is said of it.
LEMMA GotoBefore ==
    ASSUME GenInv, NEW j \in Job, NEW pc \in Before, Goto(j, pc), tasks[j].pc \in Before,
           UNCHANGED <<registryVars, jobs, written, faults>>
    PROVE  StepOK
  <1>1. [tasks[j] EXCEPT !.pc = pc].pc = pc /\ tasks[j].pc # "none"
    BY Unchanged DEF Task, Before
  <1>2. JobOK(jobs[j], [tasks[j] EXCEPT !.pc = pc], written[j], faults.mutes)
    BY <1>1, Unchanged DEF JobOK, Before, Registering, After
  <1>. QED
    BY <1>2, Unchanged, GotoKeeps

\* A task can always end: the row is as it was, or has moved as it may.
LEMMA EndKeeps ==
    ASSUME GenInv, RegistryInv', NEW j \in Job, NEW row \in JobRow,
           jobs' = [jobs EXCEPT ![j] = row], End(j), UNCHANGED <<written, faults>>,
           JobOK(row, NoTask, written[j], faults.mutes), Follows(jobs[j].phase, row.phase)
    PROVE  StepOK
  BY NoTaskIsTask, RowAndTask DEF End

\* Without its task, a row says the same.
LEMMA NoTaskOK ==
    ASSUME GenInv, NEW j \in Job
    PROVE  JobOK(jobs[j], NoTask, written[j], faults.mutes)
  BY NoTaskIsTask, Unchanged DEF JobOK, Registering, After

\* So an end that leaves the row alone keeps the invariant.
LEMMA EndAlone ==
    ASSUME GenInv, RegistryInv', NEW j \in Job, End(j), UNCHANGED <<jobs, written, faults>>
    PROVE  StepOK
  BY NoTaskOK, Unchanged, EndKeeps DEF Follows

\* The semaphore, the generator.
LEMMA WaitsKeep ==
    ASSUME GenInv, NEW j \in Job, AcquireSlot(j) \/ Synthesize(j) PROVE StepOK
  BY GotoBefore DEF AcquireSlot, Synthesize, Before

\* A claim that finds the row queued takes it.
LEMMA ClaimKeeps == ASSUME GenInv, NEW j \in Job, Claim(j) PROVE StepOK
  <1> DEFINE row == Advance(jobs[j], {"queued"}, "generating")
             task == [tasks[j] EXCEPT !.pc = "synthesize"]
  <1>1. tasks[j].pc = "claim" /\ jobs' = [jobs EXCEPT ![j] = row]
        /\ UNCHANGED <<registryVars, written, faults>>
    BY DEF Claim, Move
  <1>2. CASE jobs[j].phase # "queued"
    <2>1. row = jobs[j]
      BY <1>2, Unchanged, AdvancedRow DEF Phase
    <2>2. jobs' = jobs
      BY <1>1, <2>1, Unchanged
    <2>. QED
      BY <1>1, <1>2, <2>2, EndAlone, Unchanged DEF Claim, Move
  <1>3. CASE jobs[j].phase = "queued"
    <2>1. /\ row \in JobRow /\ row.phase = "generating" /\ ~row.stale
          /\ row.error = jobs[j].error
      BY <1>3, Unchanged, AdvancedRow DEF Phase
    <2>2. task \in Task /\ task.pc = "synthesize" /\ tasks' = [tasks EXCEPT ![j] = task]
      BY <1>3, Unchanged DEF Task, Before, Claim, Move, Goto
    <2>3. JobOK(row, task, written[j], faults.mutes) /\ Follows(jobs[j].phase, row.phase)
      BY <1>1, <1>3, <2>1, <2>2, Unchanged
         DEF JobOK, Swept, Registering, After, Active, Follows
    <2>4. RegistryInv'
      BY <1>1, Unchanged
    <2> HIDE DEF row, task
    <2>. QED
      BY <1>1, <2>1, <2>2, <2>3, <2>4, RowAndTask
  <1>. QED
    BY <1>2, <1>3

\* The commit of the phase that cancellation cannot take.
LEMMA OwnCommitKeeps == ASSUME GenInv, NEW j \in Job, OwnCommit(j) PROVE StepOK
  <1> DEFINE row == Advance(jobs[j], {"generating"}, "validating")
             task == [tasks[j] EXCEPT !.pc = "create"]
  <1>1. tasks[j].pc = "generated" /\ jobs' = [jobs EXCEPT ![j] = row]
        /\ UNCHANGED <<registryVars, written, faults>>
    BY DEF OwnCommit, Move
  <1>2. CASE jobs[j].phase # "generating"
    <2>1. row = jobs[j]
      BY <1>2, Unchanged, AdvancedRow DEF Phase
    <2>2. jobs' = jobs
      BY <1>1, <2>1, Unchanged
    <2>. QED
      BY <1>1, <1>2, <2>2, EndAlone, Unchanged DEF OwnCommit, Move
  <1>3. CASE jobs[j].phase = "generating"
    <2>1. /\ row \in JobRow /\ row.phase = "validating" /\ ~row.stale
          /\ row.error = jobs[j].error
      BY <1>3, Unchanged, AdvancedRow DEF Phase
    <2>2. task \in Task /\ task.pc = "create" /\ tasks' = [tasks EXCEPT ![j] = task]
      BY <1>3, Unchanged DEF Task, Registering, OwnCommit, Move, Goto
    <2>3. JobOK(row, task, written[j], faults.mutes) /\ Follows(jobs[j].phase, row.phase)
      BY <1>1, <1>3, <2>1, <2>2, Unchanged
         DEF JobOK, Swept, Registering, After, Active, Follows
    <2>4. RegistryInv'
      BY <1>1, Unchanged
    <2> HIDE DEF row, task
    <2>. QED
      BY <1>1, <2>1, <2>2, <2>3, <2>4, RowAndTask
  <1>. QED
    BY <1>2, <1>3

-----------------------------------------------------------------------------
(* Registration: the job is a client of the registry                           *)

\* Jobs are clients, and ask for names.
LEMMA JobsAreClients ==
    ASSUME NEW j \in Job PROVE j \in Client /\ Target[j] \in Name /\ 0 \notin Name
                               /\ Name \subseteq 0..MaxName
  BY GenerationAssumption, RegistryAssumption DEF Name

\* A request of the registry by a task that stays where it is.
LEMMA RequestAlone ==
    ASSUME GenInv, RegistryInv', UNCHANGED genVars PROVE StepOK
  BY DEF genVars, StepOK, GenInv, GenTypeOK, RegistryInv, Follows

\* A dataset is found, or created, and named by the task.
LEMMA DatasetNamed ==
    ASSUME GenInv, RegistryInv', NEW j \in Job, tasks[j].pc = "create", NEW n \in Name,
           tasks' = [tasks EXCEPT ![j].pc = "created", ![j].name = n],
           UNCHANGED <<jobs, written, faults>>
    PROVE  StepOK
  <1> DEFINE task == [tasks[j] EXCEPT !.pc = "created", !.name = n]
  <1>1. task \in Task /\ task.pc = "created" /\ task.name = n
    BY Unchanged, JobsAreClients DEF Task, Registering
  <1>2. JobOK(jobs[j], task, written[j], faults.mutes)
    BY <1>1, Unchanged DEF JobOK, Registering, After
  <1>3. tasks' = [tasks EXCEPT ![j] = task]
    OBVIOUS
  <1> HIDE DEF task
  <1>. QED
    BY <1>1, <1>2, <1>3, TaskAlone

\* The three ways in which a registration comes to its dataset.
LEMMA FindsKeep ==
    ASSUME GenInv, NEW j \in Job, ReuseDraft(j) \/ FindTarget(j) \/ CreateTarget(j)
    PROVE  StepOK
  <1>1. CASE ReuseDraft(j)
    BY <1>1, JobsAreClients, Unchanged, DatasetNamed DEF ReuseDraft
  <1>2. CASE FindTarget(j)
    <2>1. RegistryInv'
      BY <1>2, JobsAreClients, Unchanged, EditReads DEF FindTarget
    <2>. QED
      BY <1>2, <2>1, RequestAlone DEF FindTarget
  <1>3. CASE CreateTarget(j)
    <2>1. CreateDataset(j, "empty") /\ "empty" \in Records
      BY <1>3 DEF CreateTarget, Records
    <2>2. clients[j].new \in Name
      BY <2>1, JobsAreClients DEF CreateDataset, GenInv, RequestsAddressed
    <2>3. RegistryInv'
      BY <2>1, JobsAreClients, Unchanged, CreateKeeps
    <2>. QED
      BY <1>3, <2>2, <2>3, DatasetNamed DEF CreateTarget
  <1>. QED
    BY <1>1, <1>2, <1>3

\* What is replaced is the dataset that the task names, and only once.
LEMMA ReplaceKeeps ==
    ASSUME GenInv, NEW j \in Job, BeginReplace(j) \/ ReplaceRecords(j)
    PROVE  StepOK
  <1>1. CASE BeginReplace(j)
    <2>1. tasks[j].name \in Name /\ tasks[j].pc = "created" /\ Goto(j, "replace")
      BY <1>1, Unchanged DEF BeginReplace, JobOK
    <2>2. RegistryInv'
      BY <1>1, <2>1, JobsAreClients, Unchanged, EditReads DEF BeginReplace
    <2>3. /\ [tasks[j] EXCEPT !.pc = "replace"].pc = "replace"
          /\ [tasks[j] EXCEPT !.pc = "replace"].name = tasks[j].name
      BY Unchanged DEF Task
    <2>4. JobOK(jobs[j], [tasks[j] EXCEPT !.pc = "replace"], written[j], faults.mutes)
      BY <2>1, <2>3, Unchanged DEF JobOK, Registering, After
    <2>. QED
      BY <1>1, <2>1, <2>2, <2>4, GotoKeeps DEF BeginReplace, Registering
  <1>2. CASE ReplaceRecords(j)
    <2> DEFINE task == [tasks[j] EXCEPT !.pc = "complete"]
    <2>1. tasks[j].name \in Name /\ tasks[j].pc = "replace"
      BY <1>2, Unchanged DEF ReplaceRecords, JobOK
    <2>2. RegistryInv'
      BY <1>2, JobsAreClients, Unchanged, MergeKeeps DEF ReplaceRecords, Records
    <2>3. task \in Task /\ task.pc = "complete" /\ task.name = tasks[j].name
      BY Unchanged DEF Task, After
    <2>4. JobOK(jobs[j], task, tasks[j].name, faults.mutes)
      BY <2>1, <2>3, JobsAreClients, Unchanged DEF JobOK, Registering, After
    <2>5. tasks[j].name \in 0..MaxName
      BY Unchanged DEF Task
    <2>6. /\ tasks' = [tasks EXCEPT ![j] = task]
          /\ written' = [written EXCEPT ![j] = tasks[j].name] /\ UNCHANGED <<jobs, faults>>
      BY <1>2 DEF ReplaceRecords, Goto
    <2>7. jobs' = [jobs EXCEPT ![j] = jobs[j]] /\ jobs[j] \in JobRow
      BY <2>6, Unchanged
    <2>8. Follows(jobs[j].phase, jobs[j].phase)
      BY DEF Follows
    <2> HIDE DEF task
    <2>. QED
      BY <2>2, <2>3, <2>4, <2>5, <2>6, <2>7, <2>8, OneJob
  <1>. QED
    BY <1>1, <1>2

\* A registration that raises has written nothing.
LEMMA RaiseKeeps == ASSUME GenInv, NEW j \in Job, RegistrationRaises(j) PROVE StepOK
  <1>1. RegistryInv'
    BY JobsAreClients, IdleAddressed, Unchanged, RequestKeeps DEF RegistrationRaises
  <1>2. [tasks[j] EXCEPT !.pc = "fail"].pc = "fail"
    BY Unchanged DEF Task
  <1>3. JobOK(jobs[j], [tasks[j] EXCEPT !.pc = "fail"], written[j], faults.mutes)
    BY <1>2, Unchanged DEF RegistrationRaises, JobOK, Registering, After
  <1>. QED
    BY <1>1, <1>3, GotoKeeps DEF RegistrationRaises, After

\* Completion names what was written, unless the row was swept.
LEMMA CompleteKeeps == ASSUME GenInv, NEW j \in Job, Complete(j) PROVE StepOK
  <1> DEFINE moved == Advance(jobs[j], {"validating"}, "completed")
             row == [moved EXCEPT !.result = tasks[j].name]
  <1>1. tasks[j].pc = "complete" /\ End(j) /\ UNCHANGED <<registryVars, written, faults>>
        /\ RegistryInv'
    BY Unchanged DEF Complete
  <1>2. CASE jobs[j].phase # "validating"
    <2>1. jobs' = jobs
      BY <1>2, Unchanged DEF Complete
    <2>. QED
      BY <1>1, <2>1, EndAlone
  <1>3. CASE jobs[j].phase = "validating"
    <2>1. /\ moved \in JobRow /\ moved.phase = "completed" /\ ~moved.stale
          /\ moved.error = jobs[j].error
      BY <1>3, Unchanged, AdvancedRow DEF Phase
    <2>2. jobs' = [jobs EXCEPT ![j] = row]
      BY <1>3 DEF Complete
    <2> HIDE DEF moved
    <2>3. tasks[j].name \in 0..MaxName
      BY Unchanged DEF Task
    <2>4. /\ row \in JobRow /\ row.phase = "completed" /\ ~row.stale
          /\ row.error = jobs[j].error /\ row.result = tasks[j].name
      BY <2>1, <2>3 DEF JobRow
    <2> HIDE DEF row
    <2>5. JobOK(row, NoTask, written[j], faults.mutes) /\ Follows(jobs[j].phase, row.phase)
      BY <1>1, <1>3, <2>4, NoTaskIsTask, Unchanged
         DEF JobOK, Swept, Registering, After, Active, Follows
    <2>. QED
      BY <1>1, <2>2, <2>4, <2>5, EndKeeps
  <1>. QED
    BY <1>2, <1>3

-----------------------------------------------------------------------------
(* Failures, cancellation, the sweep                                           *)

\* A failure of the job's own is recorded where nothing was written.
LEMMA FailuresKeep ==
    ASSUME GenInv, NEW j \in Job, SynthesisFails(j) \/ RecordFailure(j) PROVE StepOK
  <1>1. PICK from \in {{"generating"}, {"validating"}} :
          /\ jobs' = [jobs EXCEPT ![j] = AdvanceFailed(jobs[j], from, "own")]
          /\ from = {"validating"} => tasks[j].pc = "fail"
          /\ tasks[j].pc \in {"synthesize", "fail"}
    BY DEF SynthesisFails, RecordFailure
  <1>2. End(j) /\ UNCHANGED <<registryVars, written, faults>> /\ RegistryInv'
    BY Unchanged DEF SynthesisFails, RecordFailure
  <1> DEFINE row == AdvanceFailed(jobs[j], from, "own")
  <1>3. CASE jobs[j].phase \notin from
    <2>1. row = jobs[j]
      BY <1>3, Unchanged, FailedRow
    <2>2. jobs' = jobs
      BY <1>1, <2>1, Unchanged
    <2>. QED
      BY <1>2, <2>2, EndAlone
  <1>4. CASE jobs[j].phase \in from
    <2>1. row \in JobRow /\ row.phase = "failed" /\ ~row.stale /\ row.error = "own"
      BY <1>4, Unchanged, FailedRow
    <2>2. written[j] = 0
      BY <1>1, <1>4, Unchanged DEF JobOK, Swept
    <2>3. JobOK(row, NoTask, written[j], faults.mutes)
      BY <2>1, <2>2, NoTaskIsTask DEF JobOK, Registering, After
    <2>4. Follows(jobs[j].phase, row.phase)
      BY <1>4, <2>1 DEF Follows, Active
    <2>. QED
      BY <1>1, <1>2, <2>1, <2>3, <2>4, EndKeeps
  <1>. QED
    BY <1>3, <1>4

\* A cancellation takes a phase before registration.
LEMMA CancelKeeps == ASSUME GenInv, NEW j \in Job, Cancel(j) PROVE StepOK
  <1> DEFINE row == Advance(jobs[j], {"queued", "generating"}, "cancelled")
  <1>1. /\ row \in JobRow /\ row.phase = "cancelled" /\ ~row.stale
        /\ row.error = jobs[j].error
    BY Unchanged, AdvancedRow DEF Cancel, Phase
  <1>2. JobOK(row, tasks[j], written[j], faults.mutes) /\ Follows(jobs[j].phase, row.phase)
    BY <1>1, Unchanged DEF Cancel, JobOK, Swept, Registering, After, Active, Follows
  <1>3. jobs' = [jobs EXCEPT ![j] = row] /\ UNCHANGED <<registryVars, tasks, written, faults>>
    BY DEF Cancel, Move
  <1> HIDE DEF row
  <1>. QED
    BY <1>1, <1>2, <1>3, RowAlone

\* Tasks that die or are interrupted leave their row.
LEMMA DeathsKeep ==
    ASSUME GenInv, NEW j \in Job, TaskDies(j) \/ InterruptTask(j) PROVE StepOK
  <1>1. CASE TaskDies(j)
    BY <1>1, Unchanged, EndAlone DEF TaskDies
  <1>2. CASE InterruptTask(j)
    <2>1. RegistryInv'
      BY <1>2, JobsAreClients, IdleAddressed, Unchanged, RequestKeeps DEF InterruptTask
    <2>. QED
      BY <1>2, <2>1, EndAlone DEF InterruptTask
  <1>. QED
    BY <1>1, <1>2

\* Faults are counted.
LEMMA FaultsTyped ==
    ASSUME GenInv
    PROVE  faults \in [stops: 0..MaxStops, mutes: 0..MaxMutes]
           /\ MaxStops \in Nat /\ MaxMutes \in Nat
  BY GenerationAssumption DEF GenInv, GenTypeOK

\* Time passes for a row; for that of a live task only with its heartbeat muted.
LEMMA GoStaleKeeps == ASSUME GenInv, NEW j \in Job, GoStale(j) PROVE StepOK
  <1> DEFINE row == [jobs[j] EXCEPT !.stale = TRUE]
  <1>1. /\ row \in JobRow /\ row.stale /\ row.phase = jobs[j].phase
        /\ row.error = jobs[j].error /\ row.result = jobs[j].result
    BY Unchanged DEF JobRow
  <1>2. jobs' = [jobs EXCEPT ![j] = row] /\ UNCHANGED <<registryVars, tasks, written>>
        /\ RegistryInv'
    BY Unchanged DEF GoStale
  <1>3. /\ faults' \in [stops: 0..MaxStops, mutes: 0..MaxMutes]
        /\ faults'.mutes = 0 => faults.mutes = 0 /\ ~Live(j)
    <2>1. CASE Beating(j)
      <3>1. faults.mutes < MaxMutes /\ faults' = [faults EXCEPT !.mutes = @ + 1]
        BY <2>1 DEF GoStale
      <3>2. faults.mutes + 1 \in 0..MaxMutes /\ faults.mutes + 1 # 0
        BY <3>1, FaultsTyped
      <3>. QED
        BY <3>1, <3>2, FaultsTyped
    <2>2. CASE ~Beating(j)
      BY <2>2, FaultsTyped DEF GoStale, Beating
    <2>. QED
      BY <2>1, <2>2
  <1> HIDE DEF row
  <1>4. \A i \in Job : jobs'[i] = IF i = j THEN row ELSE jobs[i]
    BY <1>2 DEF GenInv, GenTypeOK
  <1>5. GenTypeOK' /\ RequestsAddressed'
    BY <1>1, <1>2, <1>3 DEF GenInv, GenTypeOK, RegistryInv
  <1>6. ASSUME NEW i \in Job
        PROVE  JobOK(jobs'[i], tasks'[i], written'[i], faults'.mutes)
    <2>1. JobOK(jobs[i], tasks[i], written[i], faults.mutes)
      BY DEF GenInv
    <2>2. CASE i # j
      BY <1>2, <1>3, <1>4, <2>1, <2>2 DEF JobOK
    <2>3. CASE i = j
      <3>1. jobs[j].phase \in Active
        BY DEF GoStale
      <3>. QED
        BY <1>1, <1>2, <1>3, <1>4, <2>1, <2>3, <3>1 DEF JobOK, Swept, Live, Active
    <2>. QED
      BY <2>2, <2>3
  <1>7. \A i \in Job : Follows(jobs[i].phase, jobs'[i].phase)
    BY <1>1, <1>4 DEF Follows
  <1>. QED
    BY <1>5, <1>6, <1>7 DEF StepOK, GenInv

\* A touch renews a row.
LEMMA TouchKeeps == ASSUME GenInv, NEW j \in Job, Touch(j) PROVE StepOK
  <1> DEFINE row == [jobs[j] EXCEPT !.stale = FALSE]
  <1>1. /\ row \in JobRow /\ ~row.stale /\ row.phase = jobs[j].phase
        /\ row.error = jobs[j].error /\ row.result = jobs[j].result
    BY Unchanged DEF JobRow
  <1>2. jobs' = [jobs EXCEPT ![j] = row] /\ UNCHANGED <<registryVars, tasks, written, faults>>
    BY DEF Touch
  <1> HIDE DEF row
  <1>3. JobOK(row, tasks[j], written[j], faults.mutes) /\ Follows(jobs[j].phase, row.phase)
    BY <1>1, Unchanged DEF JobOK, Swept, Follows
  <1>. QED
    BY <1>1, <1>2, <1>3, RowAlone

\* A step that moves many rows or tasks, each as it may.
LEMMA ManyJobs ==
    ASSUME GenInv, RegistryInv', UNCHANGED written,
           jobs' \in [Job -> JobRow], tasks' \in [Job -> Task],
           faults' \in [stops: 0..MaxStops, mutes: 0..MaxMutes],
           \A j \in Job : /\ JobOK(jobs'[j], tasks'[j], written[j], faults'.mutes)
                          /\ Follows(jobs[j].phase, jobs'[j].phase)
    PROVE  StepOK
  BY DEF StepOK, GenInv, GenTypeOK, RegistryInv

\* The sweep fails rows that nobody has touched: no live task's, but for a mute.
LEMMA SweepKeeps == ASSUME GenInv, Sweep PROVE StepOK
  <1> DEFINE row(j) == IF Abandoned(jobs[j])
                       THEN AdvanceFailed(jobs[j], Active, "interrupted") ELSE jobs[j]
  <1>1. /\ jobs' = [j \in Job |-> row(j)] /\ UNCHANGED <<registryVars, tasks, written, faults>>
    BY DEF Sweep
  <1>2. RegistryInv' /\ tasks' \in [Job -> Task]
    BY <1>1, RegistryStepKeeps DEF GenInv, GenTypeOK, RegistryInv
  <1>3. ASSUME NEW j \in Job
        PROVE  /\ row(j) \in JobRow
               /\ JobOK(row(j), tasks[j], written[j], faults.mutes)
               /\ Follows(jobs[j].phase, row(j).phase)
    <2>1. CASE ~Abandoned(jobs[j])
      BY <2>1, Unchanged DEF Follows
    <2>2. CASE Abandoned(jobs[j])
      <3> DEFINE failed == AdvanceFailed(jobs[j], Active, "interrupted")
      <3>1. jobs[j].phase \in Active /\ jobs[j].stale
        BY <2>2 DEF Abandoned
      <3>2. /\ failed \in JobRow /\ failed.phase = "failed" /\ ~failed.stale
            /\ failed.error = "interrupted"
        BY <3>1, Unchanged, FailedRow
      <3> HIDE DEF failed
      <3>3. JobOK(failed, tasks[j], written[j], faults.mutes)
        BY <3>1, <3>2, Unchanged DEF JobOK, Swept
      <3>4. Follows(jobs[j].phase, failed.phase)
        BY <3>1, <3>2 DEF Follows
      <3>5. row(j) = failed
        BY <2>2 DEF failed
      <3>. QED
        BY <3>2, <3>3, <3>4, <3>5
    <2>. QED
      BY <2>1, <2>2
  <1> HIDE DEF row
  <1>4. \A j \in Job : jobs'[j] = row(j)
    BY <1>1
  <1>. QED
    BY <1>1, <1>2, <1>3, <1>4, FaultsTyped, ManyJobs

\* A stop ends the tasks of a process; a synthesis may be recorded as cancelled.
LEMMA StopKeeps == ASSUME GenInv, NEW r \in Replica, StopProcess(r) PROVE StepOK
  <1>1. PICK recorded \in SUBSET {j \in Job : tasks[j].at = r /\ tasks[j].pc = "synthesize"} :
          jobs' = [j \in Job |-> IF j \in recorded
                                 THEN Advance(jobs[j], {"generating"}, "cancelled")
                                 ELSE jobs[j]]
    BY DEF StopProcess
  <1> DEFINE row(j) == IF j \in recorded THEN Advance(jobs[j], {"generating"}, "cancelled")
                                         ELSE jobs[j]
             task(j) == IF tasks[j].at = r THEN NoTask ELSE tasks[j]
  <1>2. /\ jobs' = [j \in Job |-> row(j)] /\ tasks' = [j \in Job |-> task(j)]
        /\ UNCHANGED <<datasets, written>>
    BY <1>1 DEF StopProcess
  <1>3. RegistryInv'
    <2>1. \A c \in Client : Addressed(clients'[c])
      BY IdleAddressed DEF StopProcess, GenInv, GenTypeOK, RegistryTypeOK,
                           RequestsAddressed, Addressed
    <2>2. clients' = [c \in Client |-> clients'[c]]
      BY DEF StopProcess
    <2>. QED
      BY <1>2, <2>1, <2>2 DEF GenInv, GenTypeOK, RegistryInv, RegistryTypeOK,
                              RequestsAddressed, Addressed, Exists
  <1>4. /\ faults' \in [stops: 0..MaxStops, mutes: 0..MaxMutes]
        /\ faults'.mutes = faults.mutes
    <2>1. faults.stops < MaxStops /\ faults' = [faults EXCEPT !.stops = @ + 1]
      BY DEF StopProcess
    <2>2. faults.stops + 1 \in 0..MaxStops
      BY <2>1, FaultsTyped
    <2>. QED
      BY <2>1, <2>2, FaultsTyped
  <1>5. ASSUME NEW j \in Job
        PROVE  /\ row(j) \in JobRow /\ task(j) \in Task
               /\ JobOK(row(j), task(j), written[j], faults.mutes)
               /\ Follows(jobs[j].phase, row(j).phase)
    <2>1. task(j) \in Task
      BY NoTaskIsTask, Unchanged
    <2>2. CASE row(j) = jobs[j]
      BY <2>1, <2>2, NoTaskOK, Unchanged DEF Follows
    <2>3. CASE row(j) # jobs[j]
      <3> DEFINE moved == Advance(jobs[j], {"generating"}, "cancelled")
      <3>1. j \in recorded /\ row(j) = moved /\ task(j) = NoTask
        BY <2>3
      <3>2. jobs[j].phase = "generating"
        BY <2>3, <3>1, Unchanged, AdvancedRow DEF Phase
      <3>3. /\ moved \in JobRow /\ moved.phase = "cancelled" /\ ~moved.stale
            /\ moved.error = jobs[j].error
        BY <3>2, Unchanged, AdvancedRow DEF Phase
      <3> HIDE DEF moved
      <3>4. JobOK(moved, NoTask, written[j], faults.mutes)
        BY <3>2, <3>3, NoTaskIsTask, Unchanged DEF JobOK, Swept, Registering, After
      <3>5. Follows(jobs[j].phase, moved.phase)
        BY <3>2, <3>3 DEF Follows
      <3>. QED
        BY <2>1, <3>1, <3>3, <3>4, <3>5
    <2>. QED
      BY <2>2, <2>3
  <1> HIDE DEF row, task
  <1>6. \A j \in Job : jobs'[j] = row(j) /\ tasks'[j] = task(j)
    BY <1>2
  <1>. QED
    BY <1>2, <1>3, <1>4, <1>5, <1>6, ManyJobs

-----------------------------------------------------------------------------
(* The specification                                                           *)

\* Every step keeps the invariant and follows the diagram.
LEMMA GenStepKeeps == ASSUME GenInv, [Next]_vars PROVE StepOK
  <1>1. CASE UNCHANGED vars
    BY <1>1, Unchanged, RegistryStepKeeps, RequestAlone
       DEF vars, genVars, registryVars, GenInv, GenTypeOK, RegistryInv
  <1>2. CASE RegistryNext /\ UNCHANGED genVars
    BY <1>2, RegistryStepKeeps, RequestAlone DEF GenInv, GenTypeOK, RegistryInv
  <1>3. ASSUME NEW j \in Job, TaskStep(j) PROVE StepOK
    BY <1>3, WaitsKeep, ClaimKeeps, OwnCommitKeeps, FindsKeep, ReplaceKeeps, RaiseKeeps,
       CompleteKeeps, FailuresKeep DEF TaskStep
  <1>4. ASSUME NEW j \in Job,
               \/ StartGeneration(j) \/ TaskDies(j) \/ Cancel(j) \/ InterruptTask(j)
               \/ GoStale(j) \/ Touch(j)
        PROVE  StepOK
    BY <1>4, StartGenerationKeeps, DeathsKeep, CancelKeeps, GoStaleKeeps, TouchKeeps
  <1>. QED
    BY <1>1, <1>2, <1>3, <1>4, StopKeeps, SweepKeeps DEF Next

\* The invariant of the jobs, for any number of them.
LEMMA GenInvariant == Spec => []GenInv
  <1>1. GenInv /\ [Next]_vars => GenInv'
    BY GenStepKeeps DEF StepOK
  <1>. QED
    BY <1>1, GenInitInv, PTL DEF Spec, Safety

\* Rows, tasks and histories keep their types.
THEOREM GenTypesCorrect == Spec => []GenTypeOK
  <1>1. GenInv => GenTypeOK
    BY DEF GenInv
  <1>. QED
    BY <1>1, GenInvariant, PTL

\* What a job says became of its records is what became of them: a cancelled one
\* wrote none, a completed one names where they are, one that failed by itself none.
THEOREM OutcomesTellWhatWasWritten == Spec => []OutcomeTellsWhatWasWritten
  <1>1. ASSUME GenInv, NEW j \in Job, jobs[j].phase = "cancelled"
        PROVE  written[j] = 0 /\ tasks[j].pc \notin Registering \cup After
    BY <1>1 DEF GenInv, JobOK, Swept
  <1>2. ASSUME GenInv, NEW j \in Job, jobs[j].phase = "completed"
        PROVE  jobs[j].result # 0 /\ jobs[j].result = written[j]
    BY <1>2 DEF GenInv, JobOK
  <1>3. ASSUME GenInv, NEW j \in Job, jobs[j].error = "own"
        PROVE  written[j] = 0
    BY <1>3 DEF GenInv, JobOK, Swept
  <1>4. GenInv => OutcomeTellsWhatWasWritten
    BY <1>1, <1>2, <1>3 DEF OutcomeTellsWhatWasWritten
  <1>. QED
    BY <1>4, GenInvariant, PTL

\* No process fails the job of a task whose heartbeat gets through.
THEOREM LiveJobsAreNotSwept == Spec => []LiveJobIsNotSwept
  <1>1. GenInv => LiveJobIsNotSwept
    BY DEF GenInv, JobOK, LiveJobIsNotSwept, Live
  <1>. QED
    BY <1>1, GenInvariant, PTL

\* Phases only move along the diagram, whoever moves them.
THEOREM PhasesAreFollowed == Spec => PhasesFollowDiagram
  <1>1. ASSUME GenInv, [Next]_vars
        PROVE  [\A j \in Job : jobs'[j].phase # jobs[j].phase =>
                  <<jobs[j].phase, jobs'[j].phase>> \in
                      {"absent"} \X {"queued"} \cup {<<"queued", "generating">>,
                       <<"generating", "validating">>, <<"validating", "completed">>}
                      \cup {"queued", "generating"} \X {"cancelled"}
                      \cup Active \X {"failed"}]_vars
    BY <1>1, GenStepKeeps DEF StepOK, Follows
  <1>. QED
    BY <1>1, GenInvariant, PTL DEF Spec, Safety, PhasesFollowDiagram

-----------------------------------------------------------------------------
(* The page of a data set: sequences                                           *)

\* Where the elements of a sequence stood before one was removed.
StoodAt(i, j) == IF j < i THEN j ELSE j + 1
StandsAt(i, k) == IF k < i THEN k ELSE k - 1

\* RemoveAt takes out one element and keeps the others in their order.
LEMMA RemoveAtFacts ==
    ASSUME NEW S, NEW s \in Seq(S), NEW i \in DOMAIN s
    PROVE  /\ RemoveAt(s, i) \in Seq(S) /\ Len(RemoveAt(s, i)) = Len(s) - 1
           /\ \A j \in DOMAIN RemoveAt(s, i) :
                 StoodAt(i, j) \in DOMAIN s \ {i} /\ RemoveAt(s, i)[j] = s[StoodAt(i, j)]
           /\ \A k \in DOMAIN s \ {i} :
                 StandsAt(i, k) \in DOMAIN RemoveAt(s, i) /\ RemoveAt(s, i)[StandsAt(i, k)] = s[k]
<1> DEFINE a == SubSeq(s, 1, i - 1)
           b == SubSeq(s, i + 1, Len(s))
<1>1. DOMAIN s = 1 .. Len(s) /\ Len(s) \in Nat /\ i \in 1 .. Len(s)
  OBVIOUS
<1>2. /\ a \in Seq(S) /\ Len(a) = i - 1 /\ \A k \in 1 .. i - 1 : a[k] = s[k]
  BY <1>1, SubSeqProperties
<1>3. /\ b \in Seq(S) /\ Len(b) = Len(s) - i /\ \A k \in 1 .. Len(s) - i : b[k] = s[i + k]
  <2>1. \A k \in i + 1 .. Len(s) : s[k] \in S
    BY <1>1
  <2>2. /\ SubSeq(s, i + 1, Len(s)) \in Seq(S)
        /\ Len(SubSeq(s, i + 1, Len(s))) = IF i + 1 <= Len(s) THEN Len(s) - (i + 1) + 1 ELSE 0
        /\ \A k \in 1 .. Len(s) - (i + 1) + 1 : SubSeq(s, i + 1, Len(s))[k] = s[i + 1 + k - 1]
    BY <1>1, <2>1, SubSeqProperties
  <2> QED BY <1>1, <2>2
<1>4. RemoveAt(s, i) = a \o b
  BY DEF RemoveAt
<1> HIDE DEF a, b
<1>5. /\ a \o b \in Seq(S) /\ Len(a \o b) = Len(s) - 1
      /\ \A j \in 1 .. Len(s) - 1 : (a \o b)[j] = IF j <= i - 1 THEN a[j] ELSE b[j - (i - 1)]
  <2>1. a \in Seq(S) /\ b \in Seq(S)
    BY <1>2, <1>3
  <2>2. /\ a \o b \in Seq(S) /\ Len(a \o b) = Len(a) + Len(b)
        /\ \A j \in 1 .. Len(a) + Len(b) :
              (a \o b)[j] = IF j <= Len(a) THEN a[j] ELSE b[j - Len(a)]
    BY <2>1, ConcatProperties
  <2>3. Len(a) = i - 1 /\ Len(a) + Len(b) = Len(s) - 1
    BY <1>1, <1>2, <1>3
  <2> QED BY <2>2, <2>3
<1>6. \A j \in 1 .. Len(s) - 1 :
         StoodAt(i, j) \in 1 .. Len(s) /\ StoodAt(i, j) # i /\ (a \o b)[j] = s[StoodAt(i, j)]
  <2> SUFFICES ASSUME NEW j \in 1 .. Len(s) - 1
               PROVE  StoodAt(i, j) \in 1 .. Len(s) /\ StoodAt(i, j) # i
                      /\ (a \o b)[j] = s[StoodAt(i, j)]
    OBVIOUS
  <2>1. CASE j < i
    BY <2>1, <1>1, <1>2, <1>5 DEF StoodAt
  <2>2. CASE ~(j < i)
    <3>1. j - (i - 1) \in 1 .. Len(s) - i /\ i + (j - (i - 1)) = j + 1
      BY <2>2, <1>1
    <3>5. (a \o b)[j] = IF j <= i - 1 THEN a[j] ELSE b[j - (i - 1)]
      BY <1>5, Zenon
    <3>6. ~(j <= i - 1)
      BY <2>2, <1>1
    <3>2. (a \o b)[j] = b[j - (i - 1)]
      BY <3>5, <3>6, Zenon
    <3>3. b[j - (i - 1)] = s[j + 1]
      BY <3>1, <1>3
    <3>4. StoodAt(i, j) = j + 1 /\ j + 1 \in 1 .. Len(s) /\ j + 1 # i
      BY <2>2, <1>1 DEF StoodAt
    <3> QED BY <3>2, <3>3, <3>4
  <2> QED BY <2>1, <2>2
<1>7. \A k \in 1 .. Len(s) :
         k # i => StandsAt(i, k) \in 1 .. Len(s) - 1 /\ StoodAt(i, StandsAt(i, k)) = k
  BY <1>1 DEF StoodAt, StandsAt
<1>8. DOMAIN (a \o b) = 1 .. Len(s) - 1
  <2> DEFINE c == a \o b
  <2>1. c \in Seq(S) /\ Len(c) = Len(s) - 1
    BY <1>5
  <2> HIDE DEF c
  <2>2. DOMAIN c = 1 .. Len(s) - 1
    BY <2>1
  <2> QED BY <2>2 DEF c
<1> QED BY <1>1, <1>4, <1>5, <1>6, <1>7, <1>8

\* A sequence that got longer by one element.
LEMMA AppendFacts ==
    ASSUME NEW S, NEW s \in Seq(S), NEW x \in S
    PROVE  /\ Append(s, x) \in Seq(S) /\ Len(Append(s, x)) = Len(s) + 1
           /\ DOMAIN Append(s, x) = DOMAIN s \cup {Len(s) + 1} /\ Len(s) + 1 \notin DOMAIN s
           /\ Append(s, x)[Len(s) + 1] = x /\ \A i \in DOMAIN s : Append(s, x)[i] = s[i]
<1>1. DOMAIN s = 1 .. Len(s) /\ Len(s) \in Nat
  OBVIOUS
<1>2. /\ Append(s, x) \in Seq(S) /\ Len(Append(s, x)) = Len(s) + 1
      /\ \A i \in 1 .. Len(s) : Append(s, x)[i] = s[i]
      /\ Append(s, x)[Len(s) + 1] = x
  BY AppendProperties
<1>3. DOMAIN Append(s, x) = 1 .. Len(s) + 1
  BY <1>1, <1>2
<1> QED BY <1>1, <1>2, <1>3

-----------------------------------------------------------------------------
(* The page of a data set: the invariant                                       *)

LoadRecord ==
    [status : Statuses \cup {"unread", "gone"}, revision : 0 .. MaxActs,
     rows : Seq(1 .. MaxRows), total : -1 .. MaxRows, late : BOOLEAN, frees : BOOLEAN]
CallRecord == [action : Action, done : BOOLEAN, revision : 0 .. MaxActs]

\* What the types leave open: the sequences.
PageShape ==
    /\ records \in [shown : Seq(1 .. MaxRows), total : -1 .. MaxRows, failed : BOOLEAN,
                    crossed : BOOLEAN]
    /\ loads \in Seq(LoadRecord)
    /\ calls \in Seq(CallRecord)
    /\ more \in [asked : BOOLEAN, offset : 0 .. MaxRows, items : Seq(1 .. MaxRows),
                 total : -1 .. MaxRows, crossed : BOOLEAN]

\* A revision never outruns what was counted: each request that may still make
\* one was counted when it was sent.
Unserved(cs) == {i \in DOMAIN cs : ~cs[i].done}
RevisionsAreCounted == dataset.revision + Cardinality(Unserved(calls)) <= acts

\* What was read of the records starts where it was asked for.
ReadInOrder ==
    /\ \A i \in DOMAIN loads : \A k \in DOMAIN loads[i].rows : loads[i].rows[k] = k
    /\ \A k \in DOMAIN more.items : more.items[k] = more.offset + k
    /\ more.asked /\ ~more.crossed => more.offset = Len(records.shown)

\* The reload that was asked for last has yet to read, or read what this page
\* changed, unless a younger one has answered before it.
LastOf(ls) == ls[Len(ls)]
LastIsCurrent ==
    /\ answered <= dataset.revision
    /\ \A i \in DOMAIN calls : calls[i].done => calls[i].revision <= dataset.revision
    /\ loads # <<>> => \/ LastOf(loads).late
                       \/ LastOf(loads).status \notin Statuses
                       \/ LastOf(loads).revision >= answered

\* What will free the button: the request itself, then the reload after it.
Asks(cs) == {i \in DOMAIN cs : cs[i].action # "upload"}
Frees(ls) == {i \in DOMAIN ls : ls[i].frees}
FreedOnce ==
    ~overlap => /\ \A i, k \in Asks(calls) : i = k
                /\ \A i, k \in Frees(loads) : i = k
                /\ Asks(calls) = {} \/ Frees(loads) = {}
                /\ button = "none" => Asks(calls) = {} /\ Frees(loads) = {}

PageInv ==
    /\ DatasetPageTypeOK /\ PageShape /\ RevisionsAreCounted
    /\ ReadInOrder /\ RecordsAreAPrefix
    /\ LastIsCurrent /\ OwnChangeIsShown
    /\ FreedOnce

\* A page of records is that many records from its offset on.
LEMMA RowsFacts ==
    ASSUME DatasetPageAssumption, dataset.rows \in 0 .. MaxRows, NEW offset \in 0 .. MaxRows
    PROVE  Rows(offset) \in Seq(1 .. MaxRows)
           /\ \A k \in DOMAIN Rows(offset) : Rows(offset)[k] = offset + k
<1> DEFINE n == IF offset + PageSize < dataset.rows THEN PageSize
                ELSE IF offset < dataset.rows THEN dataset.rows - offset ELSE 0
<1>1. n \in Nat /\ offset + n <= MaxRows
  BY DEF DatasetPageAssumption
<1>2. Rows(offset) = [i \in 1 .. n |-> offset + i]
  BY DEF Rows
<1> HIDE DEF n
<1>3. \A i \in 1 .. n : offset + i \in 1 .. MaxRows
  BY <1>1 DEF DatasetPageAssumption
<1> QED BY <1>1, <1>2, <1>3

\* What a request leaves of the dataset.
LEMMA AfterFacts ==
    ASSUME DatasetPageAssumption, NEW a \in Action,
           NEW grade \in {"VALIDATED", "REJECTED", "DRAFT"},
           dataset.status \in Statuses \cup {"gone"}, dataset.rows \in 0 .. MaxRows,
           dataset.revision \in Nat
    PROVE  /\ AfterAction(a, grade).status \in Statuses \cup {"gone"}
           /\ AfterAction(a, grade).rows \in 0 .. MaxRows
           /\ AfterAction(a, grade).revision \in {dataset.revision, dataset.revision + 1}
           /\ AfterAction(a, grade) = [status |-> AfterAction(a, grade).status,
                                       rows |-> AfterAction(a, grade).rows,
                                       revision |-> AfterAction(a, grade).revision]
<1>1. a \in Transitions => TargetStatus[a] \in Statuses
  BY DEF Transitions, TargetStatus, Statuses
<1>2. grade \in Statuses
  BY DEF Statuses
<1>3. AfterAction(a, grade).status \in Statuses \cup {"gone"}
  <2>1. CASE a = "validate"
    BY <2>1, <1>2 DEF AfterAction, Transitions
  <2>2. CASE a = "delete"
    BY <2>2 DEF AfterAction, Transitions
  <2>3. CASE a \in Transitions /\ a # "validate" /\ a # "delete"
    BY <2>3, <1>1 DEF AfterAction
  <2>4. CASE a \notin Transitions /\ a # "validate" /\ a # "delete"
    BY <2>4 DEF AfterAction
  <2> QED BY <2>1, <2>2, <2>3, <2>4
<1>4. /\ AfterAction(a, grade).rows \in 0 .. MaxRows
      /\ AfterAction(a, grade).revision \in {dataset.revision, dataset.revision + 1}
  BY DEF AfterAction, DatasetPageAssumption
<1>5. AfterAction(a, grade) = [status |-> AfterAction(a, grade).status,
                               rows |-> AfterAction(a, grade).rows,
                               revision |-> AfterAction(a, grade).revision]
  BY DEF AfterAction
<1> QED BY <1>3, <1>4, <1>5

\* The requests that are not served yet are finitely many.
LEMMA UnservedIsFinite ==
    ASSUME NEW cs \in Seq(CallRecord)
    PROVE  IsFiniteSet(Unserved(cs)) /\ Cardinality(Unserved(cs)) \in Nat
<1>1. Unserved(cs) \subseteq 1 .. Len(cs) /\ Len(cs) \in Nat
  BY DEF Unserved
<1>2. IsFiniteSet(1 .. Len(cs))
  BY <1>1, FS_Interval
<1> QED BY <1>1, <1>2, FS_Subset, FS_CardinalityType

\* Sending a request adds one.
LEMMA UnservedAfterAsking ==
    ASSUME NEW cs \in Seq(CallRecord), NEW c \in CallRecord, c.done = FALSE
    PROVE  Cardinality(Unserved(Append(cs, c))) = Cardinality(Unserved(cs)) + 1
<1> DEFINE n == Len(cs) + 1
<1>1. /\ DOMAIN Append(cs, c) = DOMAIN cs \cup {n} /\ n \notin DOMAIN cs
      /\ Append(cs, c)[n] = c /\ \A i \in DOMAIN cs : Append(cs, c)[i] = cs[i]
  BY AppendFacts
<1> HIDE DEF n
<1>2. Unserved(Append(cs, c)) = Unserved(cs) \cup {n} /\ n \notin Unserved(cs)
  BY <1>1 DEF Unserved
<1> QED BY <1>2, UnservedIsFinite, FS_AddElement

\* Serving one takes it away.
LEMMA UnservedAfterServing ==
    ASSUME NEW cs \in Seq(CallRecord), NEW ds \in Seq(CallRecord), NEW i \in DOMAIN cs,
           ~cs[i].done, DOMAIN ds = DOMAIN cs, ds[i].done,
           \A k \in DOMAIN cs \ {i} : ds[k] = cs[k]
    PROVE  Cardinality(Unserved(ds)) = Cardinality(Unserved(cs)) - 1
<1>1. Unserved(ds) = Unserved(cs) \ {i} /\ i \in Unserved(cs)
  BY DEF Unserved
<1> QED BY <1>1, UnservedIsFinite, FS_RemoveElement

\* A request that ends leaves no more behind than there were.
LEMMA UnservedAfterEnding ==
    ASSUME NEW cs \in Seq(CallRecord), NEW i \in DOMAIN cs
    PROVE  Cardinality(Unserved(RemoveAt(cs, i))) <= Cardinality(Unserved(cs))
<1> DEFINE ds == RemoveAt(cs, i)
           f == [j \in Unserved(ds) |-> StoodAt(i, j)]
<1>1. /\ ds \in Seq(CallRecord)
      /\ \A j \in DOMAIN ds : StoodAt(i, j) \in DOMAIN cs \ {i} /\ ds[j] = cs[StoodAt(i, j)]
  BY RemoveAtFacts
<1>2. DOMAIN ds \subseteq Nat /\ i \in Nat
  BY <1>1
<1> HIDE DEF ds
<1>3. f \in Injection(Unserved(ds), Unserved(cs))
  <2>1. \A j \in Unserved(ds) : StoodAt(i, j) \in Unserved(cs)
    BY <1>1 DEF Unserved
  <2>2. \A j, k \in Unserved(ds) : StoodAt(i, j) = StoodAt(i, k) => j = k
    BY <1>2 DEF Unserved, StoodAt
  <2> QED BY <2>1, <2>2 DEF Injection, IsInjective
<1>4. /\ IsFiniteSet(Unserved(cs)) /\ IsFiniteSet(Unserved(ds))
  BY <1>1, UnservedIsFinite
<1> HIDE DEF f
<1>5. Cardinality(Unserved(ds)) <= Cardinality(Unserved(cs))
  BY <1>3, <1>4, FS_Injection
<1> QED BY <1>5 DEF ds

-----------------------------------------------------------------------------
(* The page of a data set: steps *)

\* What a sequence holds.
LEMMA SequenceElements ==
    ASSUME NEW S, NEW s \in Seq(S)
    PROVE  \A k \in DOMAIN s : s[k] \in S
  OBVIOUS

\* A sequence of one element, and of none.
LEMMA ShortSequences ==
    ASSUME NEW S, NEW x \in S
    PROVE  /\ <<x>> \in Seq(S) /\ Len(<<x>>) = 1 /\ DOMAIN <<x>> = {1} /\ <<x>>[1] = x
           /\ <<>> \in Seq(S) /\ DOMAIN <<>> = {}
  OBVIOUS

\* The page is loading, with one reload under way.
LEMMA DatasetPageInitInv == ASSUME DatasetPageAssumption, DatasetPageInit PROVE PageInv
<1>1. NewLoad(FALSE) \in LoadRecord /\ <<NewLoad(FALSE)>> \in Seq(LoadRecord)
  <2>1. <<>> \in Seq(1 .. MaxRows) /\ -1 \in -1 .. MaxRows /\ 0 \in 0 .. MaxActs
    BY DEF DatasetPageAssumption
  <2>2. NewLoad(FALSE) \in LoadRecord
    BY <2>1 DEF NewLoad, LoadRecord
  <2> QED BY <2>2, ShortSequences
<1>2. /\ Len(loads) = 1 /\ DOMAIN loads = {1} /\ loads[1] = NewLoad(FALSE)
      /\ calls = <<>> /\ DOMAIN calls = {}
  BY <1>1, ShortSequences DEF DatasetPageInit
<1>3. Unserved(calls) = {} /\ Asks(calls) = {} /\ Frees(loads) = {}
  BY <1>2 DEF Unserved, Asks, Frees, NewLoad
<1>4. PageShape
  <2>1. records \in [shown : Seq(1 .. MaxRows), total : -1 .. MaxRows, failed : BOOLEAN,
                     crossed : BOOLEAN]
    BY DEF DatasetPageInit, DatasetPageAssumption
  <2>2. more \in [asked : BOOLEAN, offset : 0 .. MaxRows, items : Seq(1 .. MaxRows),
                  total : -1 .. MaxRows, crossed : BOOLEAN]
    BY DEF DatasetPageInit, DatasetPageAssumption, NoMore
  <2>3. loads \in Seq(LoadRecord) /\ calls \in Seq(CallRecord)
    <3>1. loads = <<NewLoad(FALSE)>> /\ calls = <<>>
      BY DEF DatasetPageInit
    <3>2. <<>> \in Seq(CallRecord)
      OBVIOUS
    <3> QED BY <1>1, <3>1, <3>2
  <2> QED BY <2>1, <2>2, <2>3 DEF PageShape
<1>5. DatasetPageTypeOK
  <2>1. dataset \in [status : Statuses \cup {"gone"}, rows : 0 .. MaxRows, revision : 0 .. MaxActs]
    BY DEF DatasetPageInit, DatasetPageAssumption
  <2>2. page \in [status : Statuses, revision : 0 .. MaxActs, alert : BOOLEAN, loading : BOOLEAN,
                  stale : BOOLEAN]
    BY DEF DatasetPageInit, DatasetPageAssumption, Statuses
  <2>3. /\ records.total \in -1 .. MaxRows /\ {records.failed, records.crossed} \subseteq BOOLEAN
        /\ more.asked \in BOOLEAN /\ more.offset \in 0 .. MaxRows
    BY <1>4 DEF PageShape
  <2>4. DOMAIN records.shown = {}
    BY DEF DatasetPageInit
  <2>5. Len(loads) <= MaxLoads
    BY <1>2 DEF DatasetPageAssumption
  <2>6. button = "none" /\ decision = "none" /\ overlap = FALSE
    BY DEF DatasetPageInit
  <2>7. answered \in 0 .. MaxActs /\ acts \in 0 .. MaxActs
    BY DEF DatasetPageInit, DatasetPageAssumption
  <2> QED
    BY <1>2, <2>1, <2>2, <2>3, <2>4, <2>5, <2>6, <2>7 DEF DatasetPageTypeOK
<1>6. RevisionsAreCounted
  <2>1. dataset.revision = 0 /\ acts = 0
    BY DEF DatasetPageInit
  <2>2. Cardinality(Unserved(calls)) = 0
    BY <1>3, FS_EmptySet
  <2> QED BY <2>1, <2>2 DEF RevisionsAreCounted
<1>7. ReadInOrder /\ RecordsAreAPrefix
  BY <1>2 DEF ReadInOrder, RecordsAreAPrefix, NewLoad, DatasetPageInit, NoMore
<1>8. LastIsCurrent /\ OwnChangeIsShown
  BY <1>2 DEF LastIsCurrent, LastOf, NewLoad, DatasetPageInit, Statuses, OwnChangeIsShown
<1>9. FreedOnce
  BY <1>3 DEF FreedOnce
<1> QED BY <1>4, <1>5, <1>6, <1>7, <1>8, <1>9 DEF PageInv

\* What is known of the counters in a state of the invariant.
LEMMA CountFacts ==
    ASSUME DatasetPageAssumption, PageInv
    PROVE  /\ dataset.revision \in 0 .. MaxActs /\ dataset.rows \in 0 .. MaxRows
           /\ MaxActs \in Nat /\ MaxRows \in Nat /\ acts \in 0 .. MaxActs
           /\ Cardinality(Unserved(calls)) \in Nat
           /\ dataset.revision + Cardinality(Unserved(calls)) <= acts
           /\ answered \in 0 .. MaxActs /\ answered <= dataset.revision
<1>1. calls \in Seq(CallRecord)
  BY DEF PageInv, PageShape
<1> QED
  BY <1>1, UnservedIsFinite
  DEF PageInv, DatasetPageTypeOK, RevisionsAreCounted, LastIsCurrent, DatasetPageAssumption

\* Others change the dataset; what is counted covers its revision.
LEMMA OthersActStep ==
    ASSUME DatasetPageAssumption, PageInv, NEW a \in Action, OthersAct(a)
    PROVE  PageInv'
<1>1. /\ acts < MaxActs /\ acts' = acts + 1 /\ dataset' = AfterAction(a, "VALIDATED")
      /\ UNCHANGED <<page, records, loads, more, calls, button, decision, answered, overlap>>
  BY DEF OthersAct, Acting
<1>2. dataset.status \in Statuses \cup {"gone"}
  BY DEF PageInv, DatasetPageTypeOK
<1>3. /\ dataset'.status \in Statuses \cup {"gone"} /\ dataset'.rows \in 0 .. MaxRows
      /\ dataset'.revision \in {dataset.revision, dataset.revision + 1}
      /\ dataset' = [status |-> dataset'.status, rows |-> dataset'.rows,
                     revision |-> dataset'.revision]
  BY <1>1, <1>2, CountFacts, AfterFacts
<1>4. dataset'.revision \in 0 .. MaxActs /\ acts' \in 0 .. MaxActs /\ RevisionsAreCounted'
  BY <1>1, <1>3, CountFacts DEF RevisionsAreCounted
<1>5. dataset' \in [status : Statuses \cup {"gone"}, rows : 0 .. MaxRows, revision : 0 .. MaxActs]
  BY <1>3, <1>4
<1>6. DatasetPageTypeOK'
  BY <1>1, <1>4, <1>5 DEF PageInv, DatasetPageTypeOK
<1>7. LastIsCurrent'
  <2>1. answered <= dataset'.revision
    BY <1>3, CountFacts
  <2>2. \A i \in DOMAIN calls : calls[i].done => calls[i].revision <= dataset'.revision
    <3>1. ASSUME NEW i \in DOMAIN calls, calls[i].done
          PROVE  calls[i].revision \in 0 .. MaxActs /\ calls[i].revision <= dataset.revision
      <4>1. calls \in Seq(CallRecord)
        BY DEF PageInv, PageShape
      <4>2. calls[i] \in CallRecord
        BY <4>1
      <4> QED BY <3>1, <4>2 DEF PageInv, LastIsCurrent, CallRecord
    <3> QED BY <3>1, <1>3, CountFacts
  <2> QED BY <1>1, <2>1, <2>2 DEF PageInv, LastIsCurrent
<1> QED
  BY <1>1, <1>4, <1>6, <1>7
  DEF PageInv, PageShape, ReadInOrder, RecordsAreAPrefix, OwnChangeIsShown, FreedOnce

\* One of the two requests of a reload reads.
LEMMA ReadingKeeps ==
    ASSUME DatasetPageAssumption, PageInv, NEW i \in DOMAIN loads, NEW l \in LoadRecord,
           loads' = [loads EXCEPT ![i] = l],
           l.frees = loads[i].frees, l.late = loads[i].late,
           \A k \in DOMAIN l.rows : l.rows[k] = k,
           \/ l.status = loads[i].status /\ l.revision = loads[i].revision
           \/ l.revision = dataset.revision,
           UNCHANGED <<dataset, page, records, more, calls,
                       button, decision, answered, overlap, acts>>
    PROVE  PageInv'
<1>1. loads \in Seq(LoadRecord)
  BY DEF PageInv, PageShape
<1>2. /\ loads' \in Seq(LoadRecord) /\ DOMAIN loads' = DOMAIN loads /\ Len(loads') = Len(loads)
      /\ loads'[i] = l /\ \A k \in DOMAIN loads \ {i} : loads'[k] = loads[k]
  BY <1>1
<1>3. PageShape'
  BY <1>2 DEF PageInv, PageShape
<1>4. DatasetPageTypeOK'
  BY <1>2 DEF PageInv, DatasetPageTypeOK
<1>5. ReadInOrder'
  BY <1>2 DEF PageInv, ReadInOrder
<1>6. LastIsCurrent'
  <2>1. loads # <<>> /\ loads' # <<>> /\ Len(loads) \in DOMAIN loads
    BY <1>1, <1>2
  <2>2. CASE Len(loads) = i /\ l.revision = dataset.revision
    <3>1. LastOf(loads)' = l
      BY <1>2, <2>2 DEF LastOf
    <3> QED BY <2>2, <3>1, CountFacts DEF PageInv, LastIsCurrent
  <2>3. CASE Len(loads) = i /\ l.status = loads[i].status /\ l.revision = loads[i].revision
    <3>1. LastOf(loads)' = l /\ LastOf(loads) = loads[i]
      BY <1>2, <2>3 DEF LastOf
    <3> QED BY <2>1, <2>3, <3>1 DEF PageInv, LastIsCurrent
  <2>4. CASE Len(loads) # i
    <3>1. LastOf(loads)' = LastOf(loads)
      BY <1>2, <2>1, <2>4 DEF LastOf
    <3> QED BY <2>1, <3>1 DEF PageInv, LastIsCurrent
  <2> QED BY <2>2, <2>3, <2>4
<1>7. Frees(loads)' = Frees(loads)
  BY <1>2 DEF Frees
<1>8. OwnChangeIsShown'
  <2>1. loads' # <<>>
    BY <1>2
  <2> QED BY <2>1 DEF OwnChangeIsShown
<1> QED
  BY <1>3, <1>4, <1>5, <1>6, <1>7, <1>8
  DEF PageInv, RevisionsAreCounted, RecordsAreAPrefix, FreedOnce

\* The dataset is read as it is, the records from the first on.
LEMMA ReadsSteps ==
    ASSUME DatasetPageAssumption, PageInv, NEW i \in DOMAIN loads,
           ReadsDataset(i) \/ ReadsRecords(i)
    PROVE  PageInv'
<1>1. loads[i] \in LoadRecord
  BY DEF PageInv, PageShape
<1>2. \A k \in DOMAIN loads[i].rows : loads[i].rows[k] = k
  BY DEF PageInv, ReadInOrder
<1>3. CASE ReadsDataset(i)
  <2> DEFINE l == [loads[i] EXCEPT !.status = dataset.status, !.revision = dataset.revision]
  <2>1. dataset.status \in Statuses \cup {"unread", "gone"} /\ dataset.revision \in 0 .. MaxActs
    BY DEF PageInv, DatasetPageTypeOK
  <2>2. /\ l \in LoadRecord /\ l.frees = loads[i].frees /\ l.late = loads[i].late
        /\ l.rows = loads[i].rows /\ l.revision = dataset.revision
    BY <1>1, <2>1 DEF LoadRecord
  <2>3. loads' = [loads EXCEPT ![i] = l]
    BY <1>3 DEF ReadsDataset
  <2>4. UNCHANGED <<dataset, page, records, more, calls, button, decision, answered, overlap, acts>>
    BY <1>3 DEF ReadsDataset
  <2> HIDE DEF l
  <2> QED BY <1>2, <2>2, <2>3, <2>4, ReadingKeeps
<1>4. CASE ReadsRecords(i)
  <2> DEFINE l == [loads[i] EXCEPT !.rows = Rows(0), !.total = dataset.rows]
  <2>1. Rows(0) \in Seq(1 .. MaxRows) /\ \A k \in DOMAIN Rows(0) : Rows(0)[k] = k
    <3>1. 0 \in 0 .. MaxRows
      BY CountFacts
    <3>2. Rows(0) \in Seq(1 .. MaxRows) /\ \A k \in DOMAIN Rows(0) : Rows(0)[k] = 0 + k
      BY <3>1, CountFacts, RowsFacts
    <3>3. DOMAIN Rows(0) \subseteq Nat
      BY <3>2
    <3> QED BY <3>2, <3>3
  <2>2. /\ l \in LoadRecord /\ l.frees = loads[i].frees /\ l.late = loads[i].late
        /\ l.rows = Rows(0) /\ l.status = loads[i].status /\ l.revision = loads[i].revision
    <3>1. dataset.rows \in -1 .. MaxRows
      BY CountFacts
    <3> QED BY <1>1, <2>1, <3>1 DEF LoadRecord
  <2>3. loads' = [loads EXCEPT ![i] = l]
    BY <1>4 DEF ReadsRecords
  <2>4. UNCHANGED <<dataset, page, records, more, calls, button, decision, answered, overlap, acts>>
    BY <1>4 DEF ReadsRecords
  <2>5. \A k \in DOMAIN l.rows : l.rows[k] = k
    BY <2>1, <2>2
  <2> HIDE DEF l
  <2> QED BY <2>2, <2>3, <2>4, <2>5, ReadingKeeps
<1> QED BY <1>3, <1>4

\* A reload that is overtaken is late, and else what it was.
LEMMA MadeLate ==
    ASSUME NEW l \in LoadRecord
    PROVE  LET m == [l EXCEPT !.late = TRUE] IN
           /\ m \in LoadRecord /\ m.late /\ m.status = l.status /\ m.revision = l.revision
           /\ m.rows = l.rows /\ m.frees = l.frees
  BY DEF LoadRecord

\* A reload that ends leaves the others, and the older of them late.
LEMMA TakenFacts ==
    ASSUME loads \in Seq(LoadRecord), NEW i \in DOMAIN loads, Taken(i)
    PROVE  /\ loads' \in Seq(LoadRecord) /\ Len(loads') = Len(loads) - 1
           /\ \A j \in DOMAIN loads' :
                 /\ StoodAt(i, j) \in DOMAIN loads \ {i}
                 /\ loads'[j].status = loads[StoodAt(i, j)].status
                 /\ loads'[j].revision = loads[StoodAt(i, j)].revision
                 /\ loads'[j].rows = loads[StoodAt(i, j)].rows
                 /\ loads'[j].frees = loads[StoodAt(i, j)].frees
                 /\ j < i => loads'[j].late
                 /\ j >= i => loads'[j].late = loads[StoodAt(i, j)].late
<1> DEFINE n == Len(loads) - 1
           L(k) == IF k < i THEN [loads[k] EXCEPT !.late = TRUE] ELSE loads[k + 1]
<1>1. DOMAIN loads = 1 .. Len(loads) /\ Len(loads) \in Nat /\ i \in 1 .. Len(loads) /\ n \in Nat
  OBVIOUS
<1>2. loads' = [k \in 1 .. n |-> L(k)]
  BY DEF Taken
<1>3. ASSUME NEW j \in 1 .. n
      PROVE  /\ L(j) \in LoadRecord /\ StoodAt(i, j) \in DOMAIN loads \ {i}
             /\ L(j).status = loads[StoodAt(i, j)].status
             /\ L(j).revision = loads[StoodAt(i, j)].revision
             /\ L(j).rows = loads[StoodAt(i, j)].rows
             /\ L(j).frees = loads[StoodAt(i, j)].frees
             /\ j < i => L(j).late
             /\ j >= i => L(j).late = loads[StoodAt(i, j)].late
  <2>1. CASE j < i
    <3>1. j \in DOMAIN loads \ {i} /\ loads[j] \in LoadRecord /\ StoodAt(i, j) = j
      BY <1>1, <2>1 DEF StoodAt
    <3>2. L(j) = [loads[j] EXCEPT !.late = TRUE]
      BY <2>1
    <3>3. /\ L(j) \in LoadRecord /\ L(j).late /\ L(j).status = loads[j].status
          /\ L(j).revision = loads[j].revision /\ L(j).rows = loads[j].rows
          /\ L(j).frees = loads[j].frees
      BY <3>1, <3>2, MadeLate
    <3> HIDE DEF L
    <3>4. ~(j >= i)
      BY <1>1, <2>1
    <3> QED BY <2>1, <3>1, <3>3, <3>4
  <2>2. CASE ~(j < i)
    <3>1. j + 1 \in DOMAIN loads \ {i} /\ loads[j + 1] \in LoadRecord /\ StoodAt(i, j) = j + 1
      BY <1>1, <2>2 DEF StoodAt
    <3>2. L(j) = loads[j + 1]
      BY <2>2
    <3> HIDE DEF L
    <3> QED BY <1>1, <2>2, <3>1, <3>2
  <2> QED BY <2>1, <2>2
<1> HIDE DEF L, n
<1>4. loads' \in Seq(LoadRecord) /\ Len(loads') = n /\ DOMAIN loads' = 1 .. n
  <2>1. \A k \in 1 .. n : L(k) \in LoadRecord
    BY <1>3
  <2>2. [k \in 1 .. n |-> L(k)] \in [1 .. n -> LoadRecord]
    BY <2>1
  <2>3. loads' \in [1 .. n -> LoadRecord] /\ n \in Nat
    BY <1>1, <1>2, <2>2
  <2> QED BY <2>3
<1>5. \A j \in 1 .. n : loads'[j] = L(j)
  BY <1>2
<1> QED BY <1>3, <1>4, <1>5 DEF n

\* A reload ends: the younger ones stay as they are, and so does what is read of them.
LEMMA EndingKeeps ==
    ASSUME DatasetPageAssumption, PageInv, NEW i \in DOMAIN loads, Taken(i), Free(i),
           UNCHANGED <<dataset, calls, answered, overlap>>
    PROVE  /\ loads' \in Seq(LoadRecord) /\ Len(loads') <= MaxLoads
           /\ \A j \in DOMAIN loads' : \A k \in DOMAIN loads'[j].rows : loads'[j].rows[k] = k
           /\ button' \in Action \cup {"none"}
           /\ LastIsCurrent' /\ FreedOnce'
           /\ loads' = <<>> => \/ loads[i].late \/ loads[i].status \notin Statuses
                               \/ loads[i].revision >= answered
<1>1. loads \in Seq(LoadRecord) /\ Len(loads) <= MaxLoads /\ MaxLoads \in Nat
  BY DEF PageInv, PageShape, DatasetPageTypeOK, DatasetPageAssumption
<1>2. /\ loads' \in Seq(LoadRecord) /\ Len(loads') = Len(loads) - 1
      /\ \A j \in DOMAIN loads' :
            /\ StoodAt(i, j) \in DOMAIN loads \ {i}
            /\ loads'[j].status = loads[StoodAt(i, j)].status
            /\ loads'[j].revision = loads[StoodAt(i, j)].revision
            /\ loads'[j].rows = loads[StoodAt(i, j)].rows
            /\ loads'[j].frees = loads[StoodAt(i, j)].frees
            /\ j < i => loads'[j].late
            /\ j >= i => loads'[j].late = loads[StoodAt(i, j)].late
  BY <1>1, TakenFacts
<1>3. /\ DOMAIN loads = 1 .. Len(loads) /\ DOMAIN loads' = 1 .. Len(loads')
      /\ Len(loads) \in Nat /\ Len(loads') \in Nat /\ i \in 1 .. Len(loads)
  BY <1>1, <1>2
<1>4. \A j \in DOMAIN loads' : \A k \in DOMAIN loads'[j].rows : loads'[j].rows[k] = k
  BY <1>2 DEF PageInv, ReadInOrder
<1>5. button' \in Action \cup {"none"}
  BY DEF Free, PageInv, DatasetPageTypeOK
<1>6. ASSUME loads' # <<>>
      PROVE  \/ LastOf(loads)'.late \/ LastOf(loads)'.status \notin Statuses
             \/ LastOf(loads)'.revision >= answered
  <2> DEFINE n == Len(loads')
  <2>1. n \in DOMAIN loads' /\ LastOf(loads)' = loads'[n]
    BY <1>2, <1>3, <1>6 DEF LastOf
  <2>2. CASE n < i
    BY <1>2, <2>1, <2>2
  <2>3. CASE ~(n < i)
    <3>1. StoodAt(i, n) = Len(loads) /\ loads # <<>>
      BY <1>2, <1>3, <2>3 DEF StoodAt
    <3>2. LastOf(loads) = loads[StoodAt(i, n)]
      BY <3>1 DEF LastOf
    <3>3. n >= i
      BY <1>3, <2>3
    <3> HIDE DEF n
    <3>4. /\ loads'[n].late = LastOf(loads).late /\ loads'[n].status = LastOf(loads).status
          /\ loads'[n].revision = LastOf(loads).revision
      BY <1>2, <2>1, <3>2, <3>3
    <3> QED BY <2>1, <3>1, <3>4 DEF PageInv, LastIsCurrent
  <2> QED BY <2>2, <2>3
<1>7. LastIsCurrent'
  BY <1>6 DEF PageInv, LastIsCurrent
<1>8. FreedOnce'
  <2>1. \A j \in Frees(loads)' : StoodAt(i, j) \in Frees(loads) \ {i}
    BY <1>2 DEF Frees
  <2>2. DOMAIN loads' \subseteq Nat /\ i \in Nat
    BY <1>3
  <2>3. \A j, k \in Frees(loads)' : StoodAt(i, j) = StoodAt(i, k) => j = k
    BY <2>2 DEF Frees, StoodAt
  <2>4. CASE loads[i].frees
    <3>1. i \in Frees(loads)
      BY <2>4 DEF Frees
    <3>2. ~overlap => Frees(loads)' = {} /\ Asks(calls) = {}
      BY <2>1, <3>1 DEF PageInv, FreedOnce
    <3> QED BY <3>2 DEF FreedOnce
  <2>5. CASE ~loads[i].frees
    <3>1. button' = button
      BY <2>5 DEF Free
    <3>2. Frees(loads) = {} => Frees(loads)' = {}
      BY <2>1
    <3>3. ~overlap => \A j, k \in Frees(loads)' : j = k
      BY <2>1, <2>3 DEF PageInv, FreedOnce
    <3> QED BY <3>1, <3>2, <3>3 DEF PageInv, FreedOnce
  <2> QED BY <2>4, <2>5
<1>9. loads' = <<>> => \/ loads[i].late \/ loads[i].status \notin Statuses
                       \/ loads[i].revision >= answered
  <2>1. SUFFICES ASSUME loads' = <<>>
                 PROVE  \/ loads[i].late \/ loads[i].status \notin Statuses
                        \/ loads[i].revision >= answered
    OBVIOUS
  <2>2. i = Len(loads) /\ loads # <<>>
    <3>1. Len(loads') = 0
      BY <2>1
    <3> QED BY <1>2, <1>3, <3>1
  <2> QED BY <2>2 DEF PageInv, LastIsCurrent, LastOf
<1> QED BY <1>1, <1>2, <1>3, <1>4, <1>5, <1>7, <1>8, <1>9

\* A reload shows what it has read.
LEMMA LoadedStep ==
    ASSUME DatasetPageAssumption, PageInv, NEW i \in DOMAIN loads, Loaded(i)
    PROVE  PageInv'
<1> DEFINE l == loads[i]
<1>1. loads \in Seq(LoadRecord) /\ l \in LoadRecord
  BY DEF PageInv, PageShape
<1>2. /\ l.status \in Statuses /\ Taken(i) /\ Free(i)
      /\ UNCHANGED <<dataset, calls, decision, answered, overlap>>
      /\ page' = [status |-> l.status, revision |-> l.revision, alert |-> FALSE,
                  loading |-> FALSE, stale |-> l.late]
      /\ records' = [shown |-> l.rows, total |-> l.total, failed |-> l.total = -1,
                     crossed |-> FALSE]
      /\ more' = [more EXCEPT !.crossed = more.asked]
      /\ acts' = acts \/ (acts < MaxActs /\ acts' = acts + 1)
  BY DEF Loaded, Acting
<1>3. /\ loads' \in Seq(LoadRecord) /\ Len(loads') <= MaxLoads
      /\ \A j \in DOMAIN loads' : \A k \in DOMAIN loads'[j].rows : loads'[j].rows[k] = k
      /\ button' \in Action \cup {"none"}
      /\ LastIsCurrent' /\ FreedOnce'
      /\ loads' = <<>> => l.late \/ l.status \notin Statuses \/ l.revision >= answered
  BY <1>2, EndingKeeps
<1>4. \A k \in DOMAIN l.rows : l.rows[k] = k
  BY DEF PageInv, ReadInOrder
<1> HIDE DEF l
<1>5. records' \in [shown : Seq(1 .. MaxRows), total : -1 .. MaxRows, failed : BOOLEAN,
                    crossed : BOOLEAN]
  BY <1>1, <1>2 DEF LoadRecord
<1>6. more' \in [asked : BOOLEAN, offset : 0 .. MaxRows, items : Seq(1 .. MaxRows),
                 total : -1 .. MaxRows, crossed : BOOLEAN]
      /\ more'.items = more.items /\ more'.offset = more.offset /\ more'.asked = more.asked
      /\ more'.crossed = more.asked
  BY <1>2 DEF PageInv, PageShape
<1>7. page' \in [status : Statuses, revision : 0 .. MaxActs, alert : BOOLEAN, loading : BOOLEAN,
                 stale : BOOLEAN]
  BY <1>1, <1>2 DEF LoadRecord
<1>8. acts' \in 0 .. MaxActs /\ acts' >= acts
  BY <1>2, CountFacts
<1>9. PageShape'
  BY <1>2, <1>3, <1>5, <1>6 DEF PageInv, PageShape
<1>10. DatasetPageTypeOK'
  <2>1. \A k \in DOMAIN records'.shown : records'.shown[k] \in 1 .. MaxRows
    <3>1. records'.shown \in Seq(1 .. MaxRows)
      BY <1>5
    <3> QED BY <3>1, SequenceElements
  <2> QED BY <1>2, <1>3, <1>5, <1>6, <1>7, <1>8, <2>1 DEF PageInv, DatasetPageTypeOK
<1>11. RevisionsAreCounted'
  BY <1>2, <1>8, CountFacts DEF RevisionsAreCounted
<1>12. ReadInOrder' /\ RecordsAreAPrefix'
  BY <1>2, <1>3, <1>4, <1>6 DEF PageInv, ReadInOrder, RecordsAreAPrefix
<1>13. OwnChangeIsShown'
  BY <1>2, <1>3 DEF OwnChangeIsShown
<1> QED BY <1>3, <1>9, <1>10, <1>11, <1>12, <1>13 DEF PageInv

\* A reload that fails replaces the page by an alert.
LEMMA LoadFailsStep ==
    ASSUME DatasetPageAssumption, PageInv, NEW i \in DOMAIN loads, LoadFails(i)
    PROVE  PageInv'
<1>1. /\ Taken(i) /\ Free(i)
      /\ UNCHANGED <<dataset, records, more, calls, decision, answered, overlap>>
      /\ page' = [page EXCEPT !.alert = TRUE, !.loading = FALSE, !.stale = loads[i].late]
      /\ acts' = acts \/ (acts < MaxActs /\ acts' = acts + 1)
  BY DEF LoadFails, Acting
<1>2. /\ loads' \in Seq(LoadRecord) /\ Len(loads') <= MaxLoads
      /\ \A j \in DOMAIN loads' : \A k \in DOMAIN loads'[j].rows : loads'[j].rows[k] = k
      /\ button' \in Action \cup {"none"}
      /\ LastIsCurrent' /\ FreedOnce'
  BY <1>1, EndingKeeps
<1>3. loads[i].late \in BOOLEAN
  <2>1. loads[i] \in LoadRecord
    BY DEF PageInv, PageShape
  <2> QED BY <2>1 DEF LoadRecord
<1>4. /\ page' \in [status : Statuses, revision : 0 .. MaxActs, alert : BOOLEAN,
                    loading : BOOLEAN, stale : BOOLEAN]
      /\ page'.alert
  BY <1>1, <1>3 DEF PageInv, DatasetPageTypeOK
<1>5. acts' \in 0 .. MaxActs /\ acts' >= acts
  BY <1>1, CountFacts
<1>6. PageShape' /\ DatasetPageTypeOK'
  BY <1>1, <1>2, <1>4, <1>5 DEF PageInv, PageShape, DatasetPageTypeOK
<1>7. RevisionsAreCounted'
  BY <1>1, <1>5, CountFacts DEF RevisionsAreCounted
<1>8. ReadInOrder' /\ RecordsAreAPrefix' /\ OwnChangeIsShown'
  BY <1>1, <1>2, <1>4 DEF PageInv, ReadInOrder, RecordsAreAPrefix, OwnChangeIsShown
<1> QED BY <1>2, <1>6, <1>7, <1>8 DEF PageInv

\* A reload begins: it is the last one and has yet to read.
LEMMA BeginningKeeps ==
    ASSUME DatasetPageAssumption, PageInv, MayLoad, NEW f \in BOOLEAN, Load(f)
    PROVE  /\ loads' \in Seq(LoadRecord) /\ Len(loads') <= MaxLoads /\ loads' # <<>>
           /\ \A j \in DOMAIN loads' : \A k \in DOMAIN loads'[j].rows : loads'[j].rows[k] = k
           /\ LastOf(loads)'.status \notin Statuses
           /\ Len(loads) + 1 \notin Frees(loads)
           /\ Frees(loads)' = IF f THEN Frees(loads) \cup {Len(loads) + 1} ELSE Frees(loads)
<1>1. loads \in Seq(LoadRecord) /\ Len(loads) < MaxLoads /\ MaxLoads \in Nat
  BY DEF PageInv, PageShape, MayLoad, DatasetPageAssumption
<1>2. NewLoad(f) \in LoadRecord
  <2>1. <<>> \in Seq(1 .. MaxRows) /\ -1 \in -1 .. MaxRows /\ 0 \in 0 .. MaxActs
    BY DEF DatasetPageAssumption
  <2> QED BY <2>1 DEF NewLoad, LoadRecord
<1>3. /\ NewLoad(f).status = "unread" /\ NewLoad(f).frees = f /\ DOMAIN NewLoad(f).rows = {}
  BY DEF NewLoad
<1>4. loads' = Append(loads, NewLoad(f))
  BY DEF Load
<1> DEFINE n == Len(loads) + 1
<1>5. /\ loads' \in Seq(LoadRecord) /\ Len(loads') = n
      /\ DOMAIN loads' = DOMAIN loads \cup {n} /\ n \notin DOMAIN loads
      /\ loads'[n] = NewLoad(f) /\ \A i \in DOMAIN loads : loads'[i] = loads[i]
  BY <1>1, <1>2, <1>4, AppendFacts
<1>6. n \in Nat /\ n <= MaxLoads
  BY <1>1
<1> HIDE DEF n
<1>7. loads' # <<>>
  BY <1>5
<1>8. \A j \in DOMAIN loads' : \A k \in DOMAIN loads'[j].rows : loads'[j].rows[k] = k
  BY <1>3, <1>5 DEF PageInv, ReadInOrder
<1>9. LastOf(loads)'.status \notin Statuses
  BY <1>3, <1>5 DEF LastOf, Statuses
<1>10. n \notin Frees(loads) /\ Frees(loads)' = IF f THEN Frees(loads) \cup {n} ELSE Frees(loads)
  BY <1>3, <1>5 DEF Frees
<1> QED BY <1>5, <1>6, <1>7, <1>8, <1>9, <1>10 DEF n

\* Reading again after a failure.
LEMMA RetryStep ==
    ASSUME DatasetPageAssumption, PageInv, Retry
    PROVE  PageInv'
<1>1. /\ MayLoad /\ Load(FALSE) /\ acts < MaxActs /\ acts' = acts + 1
      /\ page' = [page EXCEPT !.alert = FALSE]
      /\ UNCHANGED <<dataset, records, more, calls, button, decision, answered, overlap>>
  BY DEF Retry, Acting
<1>2. /\ loads' \in Seq(LoadRecord) /\ Len(loads') <= MaxLoads /\ loads' # <<>>
      /\ \A j \in DOMAIN loads' : \A k \in DOMAIN loads'[j].rows : loads'[j].rows[k] = k
      /\ LastOf(loads)'.status \notin Statuses
      /\ Frees(loads)' = Frees(loads)
  BY <1>1, BeginningKeeps
<1>3. page' \in [status : Statuses, revision : 0 .. MaxActs, alert : BOOLEAN, loading : BOOLEAN,
                 stale : BOOLEAN]
  BY <1>1 DEF PageInv, DatasetPageTypeOK
<1>4. acts' \in 0 .. MaxActs /\ RevisionsAreCounted'
  BY <1>1, CountFacts DEF RevisionsAreCounted
<1>5. PageShape' /\ DatasetPageTypeOK'
  BY <1>1, <1>2, <1>3, <1>4 DEF PageInv, PageShape, DatasetPageTypeOK
<1>6. ReadInOrder' /\ RecordsAreAPrefix' /\ OwnChangeIsShown' /\ LastIsCurrent'
  BY <1>1, <1>2
  DEF PageInv, ReadInOrder, RecordsAreAPrefix, OwnChangeIsShown, LastIsCurrent
<1>7. FreedOnce'
  BY <1>1, <1>2 DEF PageInv, FreedOnce
<1> QED BY <1>4, <1>5, <1>6, <1>7 DEF PageInv

\* A further page of records is asked for, read, shown or given up.
LEMMA MoreKeeps ==
    ASSUME DatasetPageAssumption, PageInv,
           UNCHANGED <<dataset, page, loads, calls, button, decision, answered, overlap>>,
           acts' = acts \/ (acts < MaxActs /\ acts' = acts + 1),
           records' \in [shown : Seq(1 .. MaxRows), total : -1 .. MaxRows, failed : BOOLEAN,
                         crossed : BOOLEAN],
           more' \in [asked : BOOLEAN, offset : 0 .. MaxRows, items : Seq(1 .. MaxRows),
                      total : -1 .. MaxRows, crossed : BOOLEAN],
           \A k \in DOMAIN more'.items : more'.items[k] = more'.offset + k,
           more'.asked /\ ~more'.crossed => more'.offset = Len(records'.shown),
           RecordsAreAPrefix'
    PROVE  PageInv'
<1>1. acts' \in 0 .. MaxActs /\ RevisionsAreCounted'
  BY CountFacts, SMTT(30) DEF RevisionsAreCounted
<1>2. \A k \in DOMAIN records'.shown : records'.shown[k] \in 1 .. MaxRows
  <2>1. records'.shown \in Seq(1 .. MaxRows)
    OBVIOUS
  <2> QED BY <2>1, SequenceElements
<1>3. PageShape' /\ DatasetPageTypeOK'
  BY <1>1, <1>2 DEF PageInv, PageShape, DatasetPageTypeOK
<1> QED
  BY <1>1, <1>3 DEF PageInv, ReadInOrder, LastIsCurrent, OwnChangeIsShown, FreedOnce

\* The four steps of a further page.
LEMMA MoreSteps ==
    ASSUME DatasetPageAssumption, PageInv,
           LoadMoreRecords \/ MoreRead \/ MoreArrives \/ MoreFails
    PROVE  PageInv'
<1> DEFINE MoreShape == [asked : BOOLEAN, offset : 0 .. MaxRows, items : Seq(1 .. MaxRows),
                         total : -1 .. MaxRows, crossed : BOOLEAN]
           RecordsShape == [shown : Seq(1 .. MaxRows), total : -1 .. MaxRows, failed : BOOLEAN,
                            crossed : BOOLEAN]
<1>1. /\ records \in RecordsShape /\ more \in MoreShape
      /\ records.shown \in Seq(1 .. MaxRows) /\ more.items \in Seq(1 .. MaxRows)
      /\ records.total \in -1 .. MaxRows /\ more.offset \in 0 .. MaxRows /\ MaxRows \in Nat
      /\ \A k \in DOMAIN more.items : more.items[k] = more.offset + k
      /\ more.asked /\ ~more.crossed => more.offset = Len(records.shown)
      /\ RecordsAreAPrefix
  BY CountFacts DEF PageInv, PageShape, ReadInOrder
<1>2. NoMore \in MoreShape /\ DOMAIN NoMore.items = {} /\ ~NoMore.asked
  <2>1. 0 \in 0 .. MaxRows /\ -1 \in -1 .. MaxRows /\ <<>> \in Seq(1 .. MaxRows)
    BY <1>1
  <2> QED BY <2>1 DEF NoMore
<1>3. CASE LoadMoreRecords
  <2>1. /\ UNCHANGED <<dataset, page, records, loads, calls, button, decision, answered,
                     overlap, acts>>
        /\ Len(records.shown) < records.total
        /\ more' = [asked |-> TRUE, offset |-> Len(records.shown), items |-> <<>>, total |-> -1,
                    crossed |-> FALSE]
    BY <1>3 DEF LoadMoreRecords
  <2>2. Len(records.shown) \in 0 .. MaxRows /\ -1 \in -1 .. MaxRows /\ <<>> \in Seq(1 .. MaxRows)
    BY <1>1, <2>1
  <2>3. /\ more' \in MoreShape /\ DOMAIN more'.items = {} /\ more'.offset = Len(records.shown)
    BY <2>1, <2>2
  <2>4. RecordsAreAPrefix'
    BY <1>1, <2>1 DEF RecordsAreAPrefix
  <2> QED BY <1>1, <2>1, <2>3, <2>4, MoreKeeps
<1>4. CASE MoreRead
  <2>1. /\ UNCHANGED <<dataset, page, records, loads, calls, button, decision, answered,
                     overlap, acts>>
        /\ more' = [more EXCEPT !.items = Rows(more.offset), !.total = dataset.rows]
    BY <1>4 DEF MoreRead
  <2>2. /\ Rows(more.offset) \in Seq(1 .. MaxRows)
        /\ \A k \in DOMAIN Rows(more.offset) : Rows(more.offset)[k] = more.offset + k
    BY <1>1, CountFacts, RowsFacts
  <2>3. dataset.rows \in -1 .. MaxRows
    BY CountFacts
  <2>4. /\ more' \in MoreShape /\ more'.items = Rows(more.offset) /\ more'.offset = more.offset
        /\ more'.asked = more.asked /\ more'.crossed = more.crossed
    BY <1>1, <2>1, <2>2, <2>3
  <2>5. RecordsAreAPrefix'
    BY <1>1, <2>1 DEF RecordsAreAPrefix
  <2> QED BY <1>1, <2>1, <2>2, <2>4, <2>5, MoreKeeps
<1>5. CASE MoreArrives
  <2>1. /\ UNCHANGED <<dataset, page, loads, calls, button, decision, answered, overlap, acts>>
        /\ more.asked /\ more' = NoMore
        /\ records' = [records EXCEPT !.shown = records.shown \o more.items, !.total = more.total,
                                      !.crossed = records.crossed \/ more.crossed]
    BY <1>5 DEF MoreArrives
  <2> DEFINE s == records.shown \o more.items
  <2>2. /\ s \in Seq(1 .. MaxRows) /\ DOMAIN s = 1 .. Len(records.shown) + Len(more.items)
        /\ \A k \in 1 .. Len(records.shown) + Len(more.items) :
              s[k] = IF k <= Len(records.shown) THEN records.shown[k]
                     ELSE more.items[k - Len(records.shown)]
    <3>1. /\ s \in Seq(1 .. MaxRows) /\ Len(s) = Len(records.shown) + Len(more.items)
          /\ \A k \in 1 .. Len(records.shown) + Len(more.items) :
                s[k] = IF k <= Len(records.shown) THEN records.shown[k]
                       ELSE more.items[k - Len(records.shown)]
      BY <1>1, ConcatProperties
    <3> HIDE DEF s
    <3>2. DOMAIN s = 1 .. Len(s)
      BY <3>1
    <3> QED BY <3>1, <3>2
  <2> HIDE DEF s
  <2>3. more.total \in -1 .. MaxRows /\ records.crossed \in BOOLEAN /\ more.crossed \in BOOLEAN
    BY <1>1
  <2>4. /\ records' \in RecordsShape /\ records'.shown = s
        /\ records'.crossed = (records.crossed \/ more.crossed)
    BY <1>1, <2>1, <2>2, <2>3 DEF s
  <2>5. ASSUME ~records'.crossed, NEW k \in DOMAIN records'.shown
        PROVE  records'.shown[k] = k
    <3>1. ~records.crossed /\ more.offset = Len(records.shown)
      BY <1>1, <2>1, <2>4, <2>5
    <3>2. k \in 1 .. Len(records.shown) + Len(more.items)
      BY <2>2, <2>4, <2>5
    <3>3. /\ DOMAIN records.shown = 1 .. Len(records.shown) /\ Len(records.shown) \in Nat
          /\ DOMAIN more.items = 1 .. Len(more.items) /\ Len(more.items) \in Nat
      BY <1>1
    <3>4. CASE k <= Len(records.shown)
      <4>1. k \in DOMAIN records.shown
        BY <3>2, <3>3, <3>4
      <4>2. s[k] = records.shown[k]
        BY <2>2, <3>2, <3>4
      <4> QED BY <1>1, <2>4, <3>1, <4>1, <4>2 DEF RecordsAreAPrefix
    <3>5. CASE ~(k <= Len(records.shown))
      <4> DEFINE j == k - Len(records.shown)
      <4>1. j \in DOMAIN more.items /\ Len(records.shown) + j = k
        <5>1. \A m, q \in Nat : \A x \in 1 .. m + q :
                 ~(x <= m) => x - m \in 1 .. q /\ m + (x - m) = x
          OBVIOUS
        <5>2. Len(records.shown) \in Nat /\ Len(more.items) \in Nat
          BY <3>3
        <5> QED BY <3>2, <3>3, <3>5, <5>1, <5>2
      <4>2. s[k] = more.items[j]
        BY <2>2, <3>2, <3>5
      <4> HIDE DEF j
      <4> QED BY <1>1, <2>4, <3>1, <4>1, <4>2
    <3> QED BY <3>4, <3>5
  <2>6. RecordsAreAPrefix'
    BY <2>5 DEF RecordsAreAPrefix
  <2>7. acts' = acts
    BY <2>1
  <2> QED BY <1>2, <2>1, <2>4, <2>6, <2>7, MoreKeeps
<1>6. CASE MoreFails
  <2>1. /\ UNCHANGED <<dataset, page, records, loads, calls, button, decision, answered, overlap>>
        /\ acts < MaxActs /\ acts' = acts + 1 /\ more' = NoMore
    BY <1>6 DEF MoreFails, Acting
  <2>2. RecordsAreAPrefix'
    BY <1>1, <2>1 DEF RecordsAreAPrefix
  <2> QED BY <1>1, <1>2, <2>1, <2>2, MoreKeeps
<1> QED BY <1>3, <1>4, <1>5, <1>6

\* A request is sent: a deletion beside another action is the only one that shares
\* the button.
LEMMA AskKeeps ==
    ASSUME DatasetPageAssumption, PageInv, NEW a \in Action, Ask(a),
           acts < MaxActs, acts' = acts + 1,
           UNCHANGED <<dataset, page, records, loads, more, answered>>,
           button' \in Action \cup {"none"}, decision' \in Decisions \cup {"none"},
           overlap' \in BOOLEAN,
           ~overlap' => ~overlap /\ IF a = "upload" THEN button' = button
                                    ELSE button = "none" /\ button' # "none"
    PROVE  PageInv'
<1> DEFINE c == [action |-> a, done |-> FALSE, revision |-> 0]
           n == Len(calls) + 1
<1>1. calls \in Seq(CallRecord)
  BY DEF PageInv, PageShape
<1>2. c \in CallRecord /\ c.action = a /\ c.done = FALSE
  <2>1. 0 \in 0 .. MaxActs
    BY DEF DatasetPageAssumption
  <2> QED BY <2>1 DEF CallRecord
<1>3. calls' = Append(calls, c)
  BY DEF Ask
<1> HIDE DEF c
<1>4. /\ calls' \in Seq(CallRecord)
      /\ DOMAIN calls' = DOMAIN calls \cup {n} /\ n \notin DOMAIN calls
      /\ calls'[n] = c /\ \A i \in DOMAIN calls : calls'[i] = calls[i]
  BY <1>1, <1>2, <1>3, AppendFacts
<1>5. Cardinality(Unserved(calls')) = Cardinality(Unserved(calls)) + 1
  BY <1>1, <1>2, <1>3, UnservedAfterAsking
<1> HIDE DEF n
<1>6. acts' \in 0 .. MaxActs /\ RevisionsAreCounted'
  BY <1>5, CountFacts DEF RevisionsAreCounted
<1>7. PageShape'
  BY <1>4 DEF PageInv, PageShape
<1>8. DatasetPageTypeOK'
  <2>1. \A i \in DOMAIN calls' : calls'[i].action \in Action
    BY <1>2, <1>4 DEF PageInv, DatasetPageTypeOK
  <2> QED BY <1>6, <2>1 DEF PageInv, DatasetPageTypeOK
<1>9. ReadInOrder' /\ RecordsAreAPrefix' /\ OwnChangeIsShown'
  BY DEF PageInv, ReadInOrder, RecordsAreAPrefix, OwnChangeIsShown
<1>10. LastIsCurrent'
  BY <1>2, <1>4 DEF PageInv, LastIsCurrent
<1>11. FreedOnce'
  <2>1. CASE a = "upload"
    <3>1. Asks(calls)' = Asks(calls)
      BY <1>2, <1>4, <2>1 DEF Asks
    <3> QED BY <2>1, <3>1 DEF PageInv, FreedOnce, Frees
  <2>2. CASE a # "upload"
    <3>1. Asks(calls)' = Asks(calls) \cup {n} /\ Frees(loads)' = Frees(loads)
      BY <1>2, <1>4, <2>2 DEF Asks, Frees
    <3>2. ~overlap' => Asks(calls) = {} /\ Frees(loads) = {} /\ button' # "none"
      BY <2>2 DEF PageInv, FreedOnce
    <3> QED BY <3>1, <3>2 DEF FreedOnce
  <2> QED BY <2>1, <2>2
<1> QED BY <1>6, <1>7, <1>8, <1>9, <1>10, <1>11 DEF PageInv

\* A dialog opens or closes.
LEMMA DialogKeeps ==
    ASSUME DatasetPageAssumption, PageInv,
           UNCHANGED <<dataset, page, records, loads, more, calls, button, answered, overlap>>,
           decision' \in Decisions \cup {"none"},
           acts' = acts \/ (acts < MaxActs /\ acts' = acts + 1)
    PROVE  PageInv'
<1>1. acts' \in 0 .. MaxActs /\ RevisionsAreCounted'
  BY CountFacts DEF RevisionsAreCounted
<1>2. DatasetPageTypeOK'
  BY <1>1 DEF PageInv, DatasetPageTypeOK
<1> QED
  BY <1>1, <1>2
  DEF PageInv, PageShape, ReadInOrder, RecordsAreAPrefix, LastIsCurrent, OwnChangeIsShown,
      FreedOnce

\* The buttons of the page and of its dialogs.
LEMMA ButtonSteps ==
    ASSUME DatasetPageAssumption, PageInv,
           \/ \E a \in Action : RunAction(a)
           \/ AskDelete \/ CancelDecision \/ ConfirmDecision \/ Upload
    PROVE  PageInv'
<1>1. button \in Action \cup {"none"} /\ decision \in Decisions \cup {"none"} /\ overlap \in BOOLEAN
  BY DEF PageInv, DatasetPageTypeOK
<1>2. /\ "none" \notin Action
      /\ Action = Decisions \cup {"validate", "upload"} /\ "upload" \notin Decisions
  BY DEF Action, Decisions, Transitions, Copies
<1>3. ASSUME NEW a \in Action, RunAction(a)
      PROVE  PageInv'
  <2>1. /\ UNCHANGED <<dataset, page, records, loads, more, answered, overlap>>
        /\ button = "none" /\ acts < MaxActs /\ acts' = acts + 1 /\ a \in Offered[page.status]
    BY <1>3 DEF RunAction, Acting
  <2>2. CASE a = "validate"
    <3>1. Ask(a) /\ button' = a /\ decision' = decision
      BY <1>3, <2>2 DEF RunAction
    <3> QED BY <1>1, <1>2, <2>1, <2>2, <3>1, AskKeeps
  <2>3. CASE a # "validate"
    <3>1. decision' = a /\ UNCHANGED <<calls, button>>
      BY <1>3, <2>3 DEF RunAction
    <3>2. a # "upload"
      <4>1. page.status \in Statuses
        BY DEF PageInv, DatasetPageTypeOK
      <4> QED BY <2>1, <4>1 DEF Offered, Statuses
    <3> QED BY <1>2, <2>1, <2>3, <3>1, <3>2, DialogKeeps
  <2> QED BY <2>2, <2>3
<1>4. CASE AskDelete
  <2>1. /\ UNCHANGED <<dataset, page, records, loads, more, calls, button, answered, overlap>>
        /\ decision' = "delete" /\ acts < MaxActs /\ acts' = acts + 1
    BY <1>4 DEF AskDelete, Acting
  <2> QED BY <2>1, DialogKeeps DEF Decisions
<1>5. CASE CancelDecision
  BY <1>5, DialogKeeps DEF CancelDecision
<1>6. CASE ConfirmDecision
  <2>1. /\ UNCHANGED <<dataset, page, records, loads, more, decision, answered>>
        /\ decision # "none" /\ button # decision /\ acts < MaxActs /\ acts' = acts + 1
        /\ Ask(decision) /\ button' = decision /\ overlap' = (overlap \/ button # "none")
    BY <1>6 DEF ConfirmDecision, MayConfirm, Acting
  <2> QED BY <1>1, <1>2, <2>1, AskKeeps
<1>7. CASE Upload
  <2>1. /\ UNCHANGED <<dataset, page, records, loads, more, button, decision, answered, overlap>>
        /\ acts < MaxActs /\ acts' = acts + 1 /\ Ask("upload")
    BY <1>7 DEF Upload, Acting
  <2> QED BY <1>1, <1>2, <2>1, AskKeeps
<1> QED BY <1>3, <1>4, <1>5, <1>6, <1>7

\* A request is served: the revision it makes was counted when it was sent.
LEMMA ServedStep ==
    ASSUME DatasetPageAssumption, PageInv, NEW i \in DOMAIN calls,
           NEW g \in {"VALIDATED", "REJECTED", "DRAFT"}, Served(i, g)
    PROVE  PageInv'
<1>1. /\ ~calls[i].done /\ dataset' = AfterAction(calls[i].action, g)
      /\ calls' = [calls EXCEPT ![i].done = TRUE, ![i].revision = dataset'.revision]
      /\ UNCHANGED <<page, records, loads, more, button, decision, answered, overlap, acts>>
  BY DEF Served
<1>2. calls \in Seq(CallRecord) /\ calls[i] \in CallRecord /\ calls[i].action \in Action
  <2>1. calls \in Seq(CallRecord)
    BY DEF PageInv, PageShape
  <2>2. calls[i] \in CallRecord
    BY <2>1
  <2> QED BY <2>1, <2>2 DEF CallRecord
<1>3. dataset.status \in Statuses \cup {"gone"}
  BY DEF PageInv, DatasetPageTypeOK
<1>4. /\ dataset'.status \in Statuses \cup {"gone"} /\ dataset'.rows \in 0 .. MaxRows
      /\ dataset'.revision \in {dataset.revision, dataset.revision + 1}
      /\ dataset' = [status |-> dataset'.status, rows |-> dataset'.rows,
                     revision |-> dataset'.revision]
  BY <1>1, <1>2, <1>3, CountFacts, AfterFacts, SMTT(30)
<1>5. i \in Unserved(calls) /\ Cardinality(Unserved(calls)) >= 1
  <2>1. i \in Unserved(calls)
    BY <1>1 DEF Unserved
  <2>2. Cardinality(Unserved(calls)) # 0
    BY <1>2, <2>1, UnservedIsFinite, FS_EmptySet
  <2> QED BY <2>1, <2>2, CountFacts
<1>6. dataset'.revision \in 0 .. MaxActs
  BY <1>4, <1>5, CountFacts
<1>7. dataset' \in [status : Statuses \cup {"gone"}, rows : 0 .. MaxRows, revision : 0 .. MaxActs]
  BY <1>4, <1>6
<1> DEFINE c == [calls[i] EXCEPT !.done = TRUE, !.revision = dataset'.revision]
<1>8. c \in CallRecord /\ c.done /\ c.revision = dataset'.revision /\ c.action = calls[i].action
  BY <1>2, <1>6 DEF CallRecord
<1>9. calls' = [calls EXCEPT ![i] = c]
  BY <1>1
<1> HIDE DEF c
<1>10. /\ calls' \in Seq(CallRecord) /\ DOMAIN calls' = DOMAIN calls /\ calls'[i] = c
       /\ \A k \in DOMAIN calls \ {i} : calls'[k] = calls[k]
  BY <1>2, <1>8, <1>9
<1>11. Cardinality(Unserved(calls')) = Cardinality(Unserved(calls)) - 1
  BY <1>1, <1>2, <1>8, <1>10, UnservedAfterServing
<1>12. RevisionsAreCounted'
  BY <1>1, <1>4, <1>11, CountFacts DEF RevisionsAreCounted
<1>13. PageShape'
  BY <1>1, <1>10 DEF PageInv, PageShape
<1>14. DatasetPageTypeOK'
  <2>1. \A k \in DOMAIN calls' : calls'[k].action \in Action
    BY <1>2, <1>8, <1>10 DEF PageInv, DatasetPageTypeOK
  <2> QED BY <1>1, <1>7, <2>1 DEF PageInv, DatasetPageTypeOK
<1>15. LastIsCurrent'
  <2>1. answered <= dataset'.revision
    BY <1>4, CountFacts
  <2>2. ASSUME NEW k \in DOMAIN calls, calls'[k].done
        PROVE  calls'[k].revision <= dataset'.revision
    <3>1. CASE k = i
      BY <1>6, <1>8, <1>10, <3>1
    <3>2. CASE k # i
      <4>1. calls[k] \in CallRecord /\ calls[k].done /\ calls'[k] = calls[k]
        BY <1>2, <1>10, <2>2, <3>2
      <4>2. calls[k].revision \in 0 .. MaxActs /\ calls[k].revision <= dataset.revision
        BY <4>1 DEF PageInv, LastIsCurrent, CallRecord
      <4> QED BY <1>4, <4>1, <4>2, CountFacts
    <3> QED BY <3>1, <3>2
  <2> QED BY <1>1, <1>10, <2>1, <2>2 DEF PageInv, LastIsCurrent
<1>16. FreedOnce'
  <2>1. Asks(calls)' = Asks(calls)
    BY <1>8, <1>10 DEF Asks
  <2> QED BY <1>1, <2>1 DEF PageInv, FreedOnce, Frees
<1> QED
  BY <1>1, <1>12, <1>13, <1>14, <1>15, <1>16
  DEF PageInv, ReadInOrder, RecordsAreAPrefix, OwnChangeIsShown

\* A request leaves the list; those behind it move up.
LEMMA CallLeaves ==
    ASSUME DatasetPageAssumption, PageInv, NEW i \in DOMAIN calls, calls' = RemoveAt(calls, i)
    PROVE  /\ calls' \in Seq(CallRecord)
           /\ \A k \in DOMAIN calls' : calls'[k].action \in Action
           /\ \A k \in DOMAIN calls' : calls'[k].done => calls'[k].revision <= dataset.revision
           /\ Cardinality(Unserved(calls')) <= Cardinality(Unserved(calls))
           /\ Cardinality(Unserved(calls')) \in Nat
           /\ Asks(calls) \subseteq {i} => Asks(calls)' = {}
           /\ Asks(calls) = {} => Asks(calls)' = {}
           /\ (\A j, k \in Asks(calls) : j = k) => \A j, k \in Asks(calls)' : j = k
<1>1. calls \in Seq(CallRecord)
  BY DEF PageInv, PageShape
<1>2. /\ calls' \in Seq(CallRecord)
      /\ \A j \in DOMAIN calls' :
            StoodAt(i, j) \in DOMAIN calls \ {i} /\ calls'[j] = calls[StoodAt(i, j)]
  BY <1>1, RemoveAtFacts
<1>3. /\ \A k \in DOMAIN calls' : calls'[k].action \in Action
      /\ \A k \in DOMAIN calls' : calls'[k].done => calls'[k].revision <= dataset.revision
  BY <1>2 DEF PageInv, DatasetPageTypeOK, LastIsCurrent
<1>4. /\ Cardinality(Unserved(calls')) <= Cardinality(Unserved(calls))
      /\ Cardinality(Unserved(calls')) \in Nat
  BY <1>1, <1>2, UnservedAfterEnding, UnservedIsFinite
<1>5. \A j \in Asks(calls)' : StoodAt(i, j) \in Asks(calls) \ {i}
  BY <1>2 DEF Asks
<1>6. \A j, k \in Asks(calls)' : StoodAt(i, j) = StoodAt(i, k) => j = k
  <2>1. DOMAIN calls' \subseteq Nat /\ i \in Nat
    BY <1>1, <1>2
  <2> QED BY <2>1 DEF Asks, StoodAt
<1> QED BY <1>2, <1>3, <1>4, <1>5, <1>6

\* A request fails: nothing is read again, and the button is free.
LEMMA CallFailsStep ==
    ASSUME DatasetPageAssumption, PageInv, NEW i \in DOMAIN calls, CallFails(i)
    PROVE  PageInv'
<1>1. /\ calls' = RemoveAt(calls, i)
      /\ acts' = acts \/ (acts < MaxActs /\ acts' = acts + 1)
      /\ button' = IF calls[i].action = "upload" THEN button ELSE "none"
      /\ UNCHANGED <<dataset, page, records, loads, more, decision, answered, overlap>>
  BY DEF CallFails, Acting
<1>2. /\ calls' \in Seq(CallRecord)
      /\ \A k \in DOMAIN calls' : calls'[k].action \in Action
      /\ \A k \in DOMAIN calls' : calls'[k].done => calls'[k].revision <= dataset.revision
      /\ Cardinality(Unserved(calls')) <= Cardinality(Unserved(calls))
      /\ Cardinality(Unserved(calls')) \in Nat
      /\ Asks(calls) \subseteq {i} => Asks(calls)' = {}
      /\ Asks(calls) = {} => Asks(calls)' = {}
      /\ (\A j, k \in Asks(calls) : j = k) => \A j, k \in Asks(calls)' : j = k
  BY <1>1, CallLeaves
<1>3. acts' \in 0 .. MaxActs /\ RevisionsAreCounted'
  BY <1>1, <1>2, CountFacts, SMTT(30) DEF RevisionsAreCounted
<1>4. button' \in Action \cup {"none"}
  BY <1>1 DEF PageInv, DatasetPageTypeOK
<1>5. PageShape' /\ DatasetPageTypeOK'
  BY <1>1, <1>2, <1>3, <1>4, SMTT(30) DEF PageInv, PageShape, DatasetPageTypeOK
<1>6. LastIsCurrent'
  BY <1>1, <1>2 DEF PageInv, LastIsCurrent
<1>7. FreedOnce'
  <2>1. Frees(loads)' = Frees(loads)
    BY <1>1 DEF Frees
  <2>2. CASE calls[i].action = "upload"
    BY <1>1, <1>2, <2>1, <2>2 DEF PageInv, FreedOnce
  <2>3. CASE calls[i].action # "upload"
    <3>1. i \in Asks(calls)
      BY <2>3 DEF Asks
    <3>2. ~overlap => Asks(calls)' = {} /\ Frees(loads) = {}
      BY <1>2, <3>1 DEF PageInv, FreedOnce
    <3> QED BY <1>1, <2>1, <3>2 DEF FreedOnce
  <2> QED BY <2>2, <2>3
<1> QED
  BY <1>1, <1>3, <1>5, <1>6, <1>7
  DEF PageInv, ReadInOrder, RecordsAreAPrefix, OwnChangeIsShown

\* A request is answered: what it changed is read again, or the page is left.
LEMMA AnsweredStep ==
    ASSUME DatasetPageAssumption, PageInv, NEW i \in DOMAIN calls, Answered(i)
    PROVE  PageInv'
<1> DEFINE c == calls[i]
<1>1. /\ c.done /\ calls' = RemoveAt(calls, i)
      /\ decision' = IF c.action \in {"validate", "upload", "delete"} THEN decision ELSE "none"
      /\ UNCHANGED <<dataset, page, records, more, overlap, acts>>
      /\ IF Leaves(c.action) THEN button' = "none" /\ UNCHANGED <<loads, answered>>
         ELSE /\ Reloads(c.action) /\ UNCHANGED button
              /\ answered' = IF c.revision < answered THEN answered ELSE c.revision
  BY DEF Answered
<1>2. /\ calls' \in Seq(CallRecord)
      /\ \A k \in DOMAIN calls' : calls'[k].action \in Action
      /\ \A k \in DOMAIN calls' : calls'[k].done => calls'[k].revision <= dataset.revision
      /\ Cardinality(Unserved(calls')) <= Cardinality(Unserved(calls))
      /\ Cardinality(Unserved(calls')) \in Nat
      /\ Asks(calls) \subseteq {i} => Asks(calls)' = {}
      /\ Asks(calls) = {} => Asks(calls)' = {}
      /\ (\A j, k \in Asks(calls) : j = k) => \A j, k \in Asks(calls)' : j = k
  BY <1>1, CallLeaves
<1>3. c \in CallRecord /\ c.revision \in 0 .. MaxActs /\ c.revision <= dataset.revision
  <2>1. calls \in Seq(CallRecord) /\ c \in CallRecord
    BY DEF PageInv, PageShape
  <2> QED BY <1>1, <2>1 DEF PageInv, LastIsCurrent, CallRecord
<1>4. c.action = "upload" \/ i \in Asks(calls)
  BY DEF Asks
<1> HIDE DEF c
<1>5. decision' \in Decisions \cup {"none"}
  BY <1>1 DEF PageInv, DatasetPageTypeOK
<1>6. RevisionsAreCounted'
  BY <1>1, <1>2, CountFacts DEF RevisionsAreCounted
<1>7. CASE Leaves(c.action)
  <2>1. button' = "none" /\ UNCHANGED <<loads, answered>> /\ c.action # "upload"
    BY <1>1, <1>7 DEF Leaves, Copies
  <2>2. PageShape' /\ DatasetPageTypeOK'
    BY <1>1, <1>2, <1>5, <2>1 DEF PageInv, PageShape, DatasetPageTypeOK
  <2>3. LastIsCurrent'
    BY <1>1, <1>2, <2>1 DEF PageInv, LastIsCurrent
  <2>4. FreedOnce'
    <3>1. i \in Asks(calls) /\ Frees(loads)' = Frees(loads)
      BY <1>4, <2>1 DEF Frees
    <3>2. ~overlap => Asks(calls)' = {} /\ Frees(loads) = {}
      BY <1>2, <3>1 DEF PageInv, FreedOnce
    <3> QED BY <1>1, <3>1, <3>2 DEF FreedOnce
  <2> QED
    BY <1>1, <1>6, <2>1, <2>2, <2>3, <2>4
    DEF PageInv, ReadInOrder, RecordsAreAPrefix, OwnChangeIsShown
<1>8. CASE ~Leaves(c.action)
  <2> DEFINE f == c.action # "upload"
  <2>1. /\ MayLoad /\ Load(f) /\ button' = button
        /\ answered' = IF c.revision < answered THEN answered ELSE c.revision
    BY <1>1, <1>8 DEF Reloads
  <2>2. f \in BOOLEAN
    OBVIOUS
  <2> HIDE DEF f
  <2>3. /\ loads' \in Seq(LoadRecord) /\ Len(loads') <= MaxLoads /\ loads' # <<>>
        /\ \A j \in DOMAIN loads' : \A k \in DOMAIN loads'[j].rows : loads'[j].rows[k] = k
        /\ LastOf(loads)'.status \notin Statuses
        /\ Frees(loads)' = IF f THEN Frees(loads) \cup {Len(loads) + 1} ELSE Frees(loads)
    BY <2>1, <2>2, BeginningKeeps
  <2>4. answered' \in 0 .. MaxActs /\ answered' <= dataset.revision
    BY <1>3, <2>1, CountFacts
  <2>5. PageShape' /\ DatasetPageTypeOK'
    BY <1>1, <1>2, <1>5, <2>1, <2>3, <2>4, SMTT(30) DEF PageInv, PageShape, DatasetPageTypeOK
  <2>6. LastIsCurrent' /\ OwnChangeIsShown'
    BY <1>1, <1>2, <2>3, <2>4 DEF LastIsCurrent, OwnChangeIsShown
  <2>7. ReadInOrder' /\ RecordsAreAPrefix'
    BY <1>1, <2>3 DEF PageInv, ReadInOrder, RecordsAreAPrefix
  <2>8. FreedOnce'
    <3>1. CASE c.action = "upload"
      <4>1. Frees(loads)' = Frees(loads)
        BY <2>3, <3>1 DEF f
      <4> QED BY <1>1, <1>2, <2>1, <4>1 DEF PageInv, FreedOnce
    <3>2. CASE c.action # "upload"
      <4>1. i \in Asks(calls) /\ Frees(loads)' = Frees(loads) \cup {Len(loads) + 1}
        BY <1>4, <2>3, <3>2 DEF f
      <4>2. ~overlap => Asks(calls)' = {} /\ Frees(loads) = {} /\ button # "none"
        BY <1>2, <4>1 DEF PageInv, FreedOnce
      <4> QED BY <1>1, <2>1, <4>1, <4>2 DEF FreedOnce
    <3> QED BY <3>1, <3>2
  <2> QED BY <1>6, <2>5, <2>6, <2>7, <2>8 DEF PageInv
<1> QED BY <1>7, <1>8

\* Every step of the page keeps the invariant.
LEMMA DatasetPageStepInv ==
    ASSUME DatasetPageAssumption, PageInv, [DatasetPageNext]_datasetPageVars
    PROVE  PageInv'
<1>1. CASE UNCHANGED datasetPageVars
  BY <1>1
  DEF datasetPageVars, PageInv, DatasetPageTypeOK, PageShape, RevisionsAreCounted, ReadInOrder,
      RecordsAreAPrefix, LastIsCurrent, OwnChangeIsShown, FreedOnce
<1>2. CASE \E a \in Action : OthersAct(a) \/ RunAction(a)
  BY <1>2, OthersActStep, ButtonSteps
<1>3. CASE \E i \in DOMAIN loads : ReadsDataset(i) \/ ReadsRecords(i) \/ Loaded(i) \/ LoadFails(i)
  BY <1>3, ReadsSteps, LoadedStep, LoadFailsStep
<1>4. CASE Retry \/ LoadMoreRecords \/ MoreRead \/ MoreArrives \/ MoreFails
  BY <1>4, RetryStep, MoreSteps
<1>5. CASE AskDelete \/ CancelDecision \/ ConfirmDecision \/ Upload
  BY <1>5, ButtonSteps
<1>6. CASE \E i \in DOMAIN calls : \/ \E g \in {"VALIDATED", "REJECTED", "DRAFT"} : Served(i, g)
                                   \/ Answered(i) \/ CallFails(i)
  BY <1>6, ServedStep, AnsweredStep, CallFailsStep
<1> QED BY <1>1, <1>2, <1>3, <1>4, <1>5, <1>6 DEF DatasetPageNext

\* The invariant of the page, for any number of records, reloads and requests.
LEMMA DatasetPageInvariant ==
    ASSUME DatasetPageAssumption
    PROVE  DatasetPageSpec => []PageInv
<1>1. DatasetPageInit => PageInv
  BY DatasetPageInitInv
<1>2. PageInv /\ [DatasetPageNext]_datasetPageVars => PageInv'
  BY DatasetPageStepInv
<1> QED BY <1>1, <1>2, PTL DEF DatasetPageSpec

\* The page of a data set, its records and its requests keep their types, and a
\* revision never outruns what was counted.
THEOREM DatasetPageTypesCorrect ==
    ASSUME DatasetPageAssumption
    PROVE  DatasetPageSpec => []DatasetPageTypeOK
<1>1. PageInv => DatasetPageTypeOK
  BY DEF PageInv
<1> QED BY <1>1, DatasetPageInvariant, PTL

\* The page of a data set shows the first records, in order; a change that it asked
\* for is in the status it shows once no reload is on its way; and no decision is
\* under way twice while none is confirmed beside another action: for any number of
\* reloads and requests, in whatever order they are read, answered and lost.
THEOREM DatasetPageStaysTrue ==
    ASSUME DatasetPageAssumption
    PROVE  DatasetPageSpec => []DatasetPageIsTrue
<1>1. ASSUME PageInv, ~overlap, NEW i \in DOMAIN calls, NEW k \in DOMAIN calls,
             calls[i].action = calls[k].action, calls[i].action \in Transitions
      PROVE  i = k
  <2>1. i \in Asks(calls) /\ k \in Asks(calls)
    BY <1>1 DEF Asks, Transitions
  <2> QED BY <1>1, <2>1 DEF PageInv, FreedOnce
<1>2. PageInv => DatasetPageIsTrue
  BY <1>1 DEF PageInv, DatasetPageIsTrue, DecisionAskedOnce
<1> QED BY <1>2, DatasetPageInvariant, PTL

-----------------------------------------------------------------------------
(* The list of datasets and its dialog: the inductive invariant               *)

MovingServer == [jobs : [JobId -> JobPhase \cup {"none"}], datasets : SUBSET AnyDataset]
WatchLoop ==
    [job : MaybeJob, step : {"off", "asking", "answered", "waiting", "over", "gaveUp"},
     errors : 0 .. MaxErrors + 1, seen : JobPhase]
DialogForm ==
    [open : BOOLEAN, mode : {"none", "generate", "import"}, method : {"none", "llms", "tools"},
     named : BOOLEAN, file : BOOLEAN, busy : BOOLEAN, error : {"none", "request", "watch"},
     offline : BOOLEAN, checking : BOOLEAN, models : {"none", "loading", "ready", "failed"}]
FormCall ==
    [kind : {"none", "generate", "import"}, done : BOOLEAN, of : AnyDataset \cup {Nothing}]
CancelRequest == [job : JobId, answer : {"none", "cancelled", "refused"}]
ListRead == [read : BOOLEAN, seen : SUBSET AnyDataset, late : BOOLEAN]
ShownList ==
    [shown : SUBSET AnyDataset, loading : BOOLEAN, refreshing : BOOLEAN, error : BOOLEAN,
     stale : BOOLEAN]

WatchShape ==
    /\ server \in MovingServer /\ url \in MaybeJob /\ going \in MaybeJob \cup {Still}
    /\ genJob \in GenerationJob \cup {Nothing}
    /\ watch \in WatchLoop /\ form \in DialogForm /\ call \in FormCall
    /\ cancels \subseteq CancelRequest
    /\ reads \in Seq(ListRead) /\ Len(reads) <= MaxReads /\ list \in ShownList
    /\ uses \in 0 .. MaxUses

Begun(j) == server.jobs[j] # "none"
IsOver(j) == server.jobs[j] \in TERMINAL_PHASES

\* What the page names has been started.
JobsAreKnown ==
    /\ \A j \in JobId : j = url \/ j = going => Begun(j)
    /\ genJob # Nothing => Begun(genJob.job)

\* A request that starts a job is under way with one nobody has seen.
CallIsOpen ==
    /\ call.kind = "generate" => call.of \in JobId /\ (~call.done => ~Begun(call.of))
    /\ call.kind = "generate" /\ call.done => Begun(call.of)
    /\ call.kind = "import" => call.of \in Imported
    /\ call.kind = "none" => ~call.done

\* The watched job is the one of the URL, and a phase that ends a job is read once
\* the job has ended in it.
WatchFollows ==
    /\ watch.job = url
    /\ watch.step = "off" <=> url = Nothing
    /\ watch.step \in {"asking", "answered", "waiting"} => watch.errors <= MaxErrors
    /\ watch.step = "over" => IsOver(watch.job)
    /\ watch.step = "answered" => Begun(watch.job)
    /\ watch.step = "answered" /\ watch.seen \in TERMINAL_PHASES =>
          server.jobs[watch.job] = watch.seen

CancelsAreTrue ==
    \A c \in cancels : /\ Begun(c.job)
                       /\ c.answer = "cancelled" => server.jobs[c.job] = "cancelled"

DoneIsStored == \A j \in JobId : server.jobs[j] = "completed" => j \in server.datasets

\* The URL is cleared of jobs that are over only.
LeavesWhatIsOver == going = Nothing /\ url # Nothing => IsOver(url)

\* A running job that is shown is the one the URL is on its way to, or the URL
\* names a job and is not being cleared.
ActiveIsAddressed ==
    genJob # Nothing /\ server.jobs[genJob.job] = "active" =>
        going = genJob.job \/ (url # Nothing /\ going # Nothing)

Newest == reads[Len(reads)]
CompletedIsRead ==
    genJob # Nothing /\ genJob.phase = "completed" /\ reads # <<>> =>
        ~Newest.read \/ genJob.job \in Newest.seen \/ Newest.late

JobInv ==
    /\ JobsAreKnown /\ CallIsOpen /\ WatchFollows /\ DoneIsStored
    /\ LeavesWhatIsOver /\ ActiveIsAddressed /\ OverIsOver
ListInv == CompletedIsRead /\ CompletedIsListed
WatchInv == WatchShape /\ JobInv /\ CancelsAreTrue /\ ListInv

-----------------------------------------------------------------------------
(* The list of datasets and its dialog: steps *)

\* The records have the types that the page's type invariant names.
LEMMA WatchShapeTypes == ASSUME WatchShape PROVE WatchTypeOK
<1>1. \A i \in DOMAIN reads : reads[i] \in ListRead
  BY SequenceElements DEF WatchShape
<1> QED
  BY <1>1 DEF WatchShape, WatchTypeOK, MovingServer, WatchLoop, DialogForm, FormCall, CancelRequest,
              ListRead, ShownList

\* A counted step stays within the bound.
LEMMA UsesCount ==
    ASSUME GenerationWatchAssumption, WatchShape, Use
    PROVE  uses' \in 0 .. MaxUses
  BY DEF GenerationWatchAssumption, WatchShape, Use

\* A page that has just been loaded: what it starts with has its type.
LEMMA FreshFacts ==
    ASSUME GenerationWatchAssumption, NEW j \in MaybeJob
    PROVE  /\ WatchOf(j) \in WatchLoop /\ WatchOf(j).job = j
           /\ WatchOf(j).step = "off" <=> j = Nothing
           /\ WatchOf(j).step \in {"off", "asking"} /\ WatchOf(j).errors = 0
           /\ FreshForm(j) \in DialogForm /\ NoCall \in FormCall /\ NewRead \in ListRead
<1>1. MaxErrors \in Nat /\ 0 \in 0 .. MaxErrors + 1
  BY DEF GenerationWatchAssumption
<1>2. Off \in WatchLoop /\ Off.job = Nothing /\ Off.step = "off" /\ Off.errors = 0
  BY <1>1 DEF Off, WatchLoop, MaybeJob, JobPhase
<1>3. ASSUME j # Nothing
      PROVE  LET w == [Off EXCEPT !.job = j, !.step = "asking"] IN
             w \in WatchLoop /\ w.job = j /\ w.step = "asking" /\ w.errors = 0
  BY <1>1 DEF Off, WatchLoop, JobPhase
<1>4. /\ WatchOf(j) \in WatchLoop /\ WatchOf(j).job = j
      /\ WatchOf(j).step = "off" <=> j = Nothing
      /\ WatchOf(j).step \in {"off", "asking"} /\ WatchOf(j).errors = 0
  BY <1>2, <1>3 DEF WatchOf
<1>5. FreshForm(j) \in DialogForm
  BY DEF FreshForm, DialogForm
<1>6. NoCall \in FormCall /\ NewRead \in ListRead
  BY DEF NoCall, FormCall, NewRead, ListRead
<1> QED BY <1>4, <1>5, <1>6

\* The jobs are as they were if nothing of them changes.
LEMMA JobsStay ==
    ASSUME JobInv, UNCHANGED <<server, url, going, genJob, watch, call>>
    PROVE  JobInv'
  BY DEF JobInv, JobsAreKnown, CallIsOpen, WatchFollows, DoneIsStored, LeavesWhatIsOver,
         ActiveIsAddressed, OverIsOver, Begun, IsOver, IsTerminal

\* Nor do the cancel requests change by themselves.
LEMMA CancelsStay ==
    ASSUME CancelsAreTrue, UNCHANGED <<server, cancels>>
    PROVE  CancelsAreTrue'
  BY DEF CancelsAreTrue, Begun

\* Nor does the list.
LEMMA ListStays ==
    ASSUME ListInv, UNCHANGED <<genJob, reads, list>>
    PROVE  ListInv'
  BY DEF ListInv, CompletedIsRead, CompletedIsListed, Newest

\* The page is loaded for the first time.
LEMMA WatchInitInv == ASSUME GenerationWatchAssumption, WatchInit PROVE WatchInv
<1>1. Nothing \in MaybeJob /\ Nothing \notin JobId /\ Still \notin JobId /\ Nothing # Still
  BY DEF MaybeJob, GenerationWatchAssumption
<1>2. FreshForm(Nothing) \in DialogForm /\ NoCall \in FormCall /\ NewRead \in ListRead
      /\ Off \in WatchLoop /\ Off.job = Nothing /\ Off.step = "off"
  BY <1>1, FreshFacts DEF WatchOf
<1>3. reads \in Seq(ListRead) /\ Len(reads) = 1
  BY <1>2, ShortSequences DEF WatchInit
<1>4. WatchShape
  <2>1. server \in MovingServer /\ list \in ShownList
    BY DEF WatchInit, MovingServer, ShownList
  <2>2. Len(reads) <= MaxReads /\ uses \in 0 .. MaxUses
    BY <1>3 DEF WatchInit, GenerationWatchAssumption
  <2> QED BY <1>1, <1>2, <1>3, <2>1, <2>2 DEF WatchShape, WatchInit
<1>5. JobInv
  BY <1>1, <1>2
  DEF JobInv, WatchInit, JobsAreKnown, CallIsOpen, WatchFollows, DoneIsStored, LeavesWhatIsOver,
      ActiveIsAddressed, OverIsOver, NoCall
<1>6. CancelsAreTrue /\ ListInv
  BY DEF WatchInit, CancelsAreTrue, ListInv, CompletedIsRead, CompletedIsListed
<1> QED BY <1>4, <1>5, <1>6 DEF WatchInv

\* A step of the form alone.
LEMMA FormKeeps ==
    ASSUME WatchInv, NEW f \in DialogForm, SetForm(f), uses' \in 0 .. MaxUses
    PROVE  WatchInv'
<1>1. form' \in DialogForm
      /\ UNCHANGED <<server, url, going, genJob, watch, call, cancels, reads, list>>
  BY DEF SetForm
<1>2. WatchShape'
  BY <1>1 DEF WatchInv, WatchShape
<1> QED BY <1>1, <1>2, JobsStay, CancelsStay, ListStays DEF WatchInv

\* The dialog is opened, closed and filled in.
LEMMA FormSteps ==
    ASSUME GenerationWatchAssumption, WatchInv,
           \/ OpenDialog \/ CloseDialog \/ FillInGeneration \/ FillInImport
           \/ ResetGenerateForm \/ RetryResources \/ CheckConnection
           \/ \E m \in {"generate", "import"} : SetMode(m)
           \/ \E m \in {"llms", "tools"} : SetGenerationMethod(m)
           \/ \E o \in {"ready", "failed"} : LoadGenerationResources(o)
           \/ \E b \in BOOLEAN : CheckReturns(b)
    PROVE  WatchInv'
<1>1. form \in DialogForm /\ uses \in 0 .. MaxUses /\ (Use => uses' \in 0 .. MaxUses)
  BY UsesCount DEF WatchInv, WatchShape
<1>2. CASE OpenDialog \/ CloseDialog
  <2>1. \A b \in BOOLEAN : [form EXCEPT !.open = b] \in DialogForm
    BY <1>1 DEF DialogForm
  <2> QED BY <1>1, <1>2, <2>1, FormKeeps DEF OpenDialog, CloseDialog
<1>3. CASE FillInGeneration \/ FillInImport
  <2>1. /\ [form EXCEPT !.named = TRUE] \in DialogForm
        /\ [form EXCEPT !.named = TRUE, !.file = TRUE] \in DialogForm
    BY <1>1 DEF DialogForm
  <2> QED BY <1>1, <1>3, <2>1, FormKeeps DEF FillInGeneration, FillInImport
<1>4. CASE ResetGenerateForm \/ RetryResources
  <2>1. /\ [form EXCEPT !.method = "none", !.named = FALSE, !.error = "none"] \in DialogForm
        /\ [form EXCEPT !.models = "loading"] \in DialogForm
    BY <1>1 DEF DialogForm
  <2> QED BY <1>1, <1>4, <2>1, FormKeeps DEF ResetGenerateForm, RetryResources
<1>5. ASSUME NEW m \in {"generate", "import"}, SetMode(m) PROVE WatchInv'
  <2>1. [form EXCEPT !.mode = m, !.offline = FALSE, !.method = "none", !.error = "none",
                     !.models = IF m = "generate" THEN "loading" ELSE @] \in DialogForm
    BY <1>1 DEF DialogForm
  <2> QED BY <1>1, <1>5, <2>1, FormKeeps DEF SetMode
<1>6. ASSUME NEW m \in {"llms", "tools"}, SetGenerationMethod(m) PROVE WatchInv'
  <2>1. [form EXCEPT !.method = m] \in DialogForm
    BY <1>1 DEF DialogForm
  <2> QED BY <1>1, <1>6, <2>1, FormKeeps DEF SetGenerationMethod
<1>7. ASSUME NEW o \in {"ready", "failed"}, LoadGenerationResources(o) PROVE WatchInv'
  <2>1. [form EXCEPT !.models = o] \in DialogForm
    BY <1>1 DEF DialogForm
  <2>2. uses' \in 0 .. MaxUses /\ SetForm([form EXCEPT !.models = o])
    BY <1>1, <1>7 DEF LoadGenerationResources
  <2> QED BY <2>1, <2>2, FormKeeps
<1>8. CASE CheckConnection
  <2>1. [form EXCEPT !.checking = TRUE] \in DialogForm
    BY <1>1 DEF DialogForm
  <2> QED BY <1>1, <1>8, <2>1, FormKeeps DEF CheckConnection
<1>9. ASSUME NEW b \in BOOLEAN, CheckReturns(b) PROVE WatchInv'
  <2>1. [form EXCEPT !.checking = FALSE, !.offline = ~b,
                     !.error = IF b THEN "none" ELSE "request"] \in DialogForm
    BY <1>1 DEF DialogForm
  <2> QED BY <1>1, <1>9, <2>1, FormKeeps DEF CheckReturns
<1> QED BY <1>2, <1>3, <1>4, <1>5, <1>6, <1>7, <1>8, <1>9

\* The jobs of the server after one of them has moved.
LEMMA JobMoves ==
    ASSUME WatchShape, NEW j \in JobId, NEW phase \in JobPhase,
           server'.jobs = [server.jobs EXCEPT ![j] = phase],
           server.jobs[j] = "active" \/ (server.jobs[j] = "none" /\ phase = "active")
    PROVE  /\ server'.jobs[j] = phase
           /\ \A k \in JobId : k # j => server'.jobs[k] = server.jobs[k]
           /\ \A k \in JobId : /\ Begun(k) => Begun(k)'
                               /\ IsOver(k) => IsOver(k)' /\ server'.jobs[k] = server.jobs[k]
                               /\ ~Begun(k)' => ~Begun(k) /\ k # j
                               /\ server'.jobs[k] = "active" =>
                                     server.jobs[k] = "active" \/ (k = j /\ ~Begun(k))
<1>1. /\ server.jobs \in [JobId -> JobPhase \cup {"none"}]
      /\ "active" \notin TERMINAL_PHASES /\ "none" \notin TERMINAL_PHASES /\ "none" \notin JobPhase
  BY DEF WatchShape, MovingServer, TERMINAL_PHASES, JobPhase
<1>2. server'.jobs[j] = phase /\ \A k \in JobId : k # j => server'.jobs[k] = server.jobs[k]
  BY <1>1
<1>3. ASSUME NEW k \in JobId
      PROVE  /\ Begun(k) => Begun(k)'
             /\ IsOver(k) => IsOver(k)' /\ server'.jobs[k] = server.jobs[k]
             /\ ~Begun(k)' => ~Begun(k) /\ k # j
             /\ server'.jobs[k] = "active" => server.jobs[k] = "active" \/ (k = j /\ ~Begun(k))
  <2>1. CASE k # j
    BY <1>2, <2>1 DEF Begun, IsOver
  <2>2. CASE k = j
    BY <1>1, <1>2, <2>2 DEF Begun, IsOver
  <2> QED BY <2>1, <2>2
<1> QED BY <1>2, <1>3

\* A job starts or ends, and what is shown of the jobs stays true.
LEMMA ServerMoves ==
    ASSUME GenerationWatchAssumption, WatchShape, JobInv, NEW j \in JobId, NEW phase \in JobPhase,
           server'.jobs = [server.jobs EXCEPT ![j] = phase],
           server.jobs[j] = "active" \/ (server.jobs[j] = "none" /\ phase = "active"),
           server.datasets \subseteq server'.datasets,
           phase = "completed" => j \in server'.datasets,
           CallIsOpen', UNCHANGED <<url, going, genJob, watch>>
    PROVE  JobInv'
<1>1. /\ server'.jobs[j] = phase
      /\ \A k \in JobId : k # j => server'.jobs[k] = server.jobs[k]
      /\ \A k \in JobId : /\ Begun(k) => Begun(k)'
                          /\ IsOver(k) => IsOver(k)' /\ server'.jobs[k] = server.jobs[k]
                          /\ server'.jobs[k] = "active" =>
                                server.jobs[k] = "active" \/ (k = j /\ ~Begun(k))
  BY JobMoves
<1>2. /\ Nothing \notin JobId /\ Still \notin JobId /\ url \in MaybeJob
      /\ watch.job = url /\ genJob # Nothing => genJob.job \in JobId /\ genJob.phase \in JobPhase
      /\ url # Nothing => url \in JobId
      /\ watch.step # "off" => watch.job \in JobId
  BY DEF GenerationWatchAssumption, WatchShape, JobInv, WatchFollows, MaybeJob, GenerationJob
<1>3. JobsAreKnown'
  BY <1>1, <1>2 DEF JobInv, JobsAreKnown, Begun, GenerationJob
<1>4. WatchFollows'
  <2>1. watch.step = "over" => IsOver(watch.job)'
    BY <1>1, <1>2 DEF JobInv, WatchFollows
  <2>2. watch.step = "answered" => Begun(watch.job)'
    BY <1>1, <1>2 DEF JobInv, WatchFollows
  <2>3. watch.step = "answered" /\ watch.seen \in TERMINAL_PHASES =>
            server'.jobs[watch.job] = watch.seen
    BY <1>1, <1>2 DEF JobInv, WatchFollows, IsOver
  <2> QED BY <2>1, <2>2, <2>3 DEF JobInv, WatchFollows
<1>5. DoneIsStored'
  BY <1>1 DEF JobInv, DoneIsStored
<1>6. LeavesWhatIsOver'
  BY <1>1, <1>2 DEF JobInv, LeavesWhatIsOver
<1>7. ActiveIsAddressed'
  BY <1>1, <1>2 DEF JobInv, ActiveIsAddressed, JobsAreKnown
<1>8. OverIsOver'
  BY <1>1, <1>2 DEF JobInv, OverIsOver, IsTerminal, IsOver
<1> QED BY <1>3, <1>4, <1>5, <1>6, <1>7, <1>8 DEF JobInv

\* A job ends on the server.
LEMMA JobEndsStep ==
    ASSUME GenerationWatchAssumption, WatchInv, NEW j \in JobId,
           NEW phase \in {"completed", "failed"}, JobEnds(j, phase)
    PROVE  WatchInv'
<1>1. /\ server.jobs[j] = "active" /\ phase \in JobPhase
      /\ server'.jobs = [server.jobs EXCEPT ![j] = phase]
      /\ server'.datasets = IF phase = "completed" THEN server.datasets \cup {j}
                            ELSE server.datasets
      /\ UNCHANGED <<url, going, genJob, watch, form, call, cancels, reads, list, uses>>
  BY DEF JobEnds, JobPhase
<1>2. server' \in MovingServer
  BY <1>1 DEF WatchInv, WatchShape, MovingServer, JobEnds, AnyDataset
<1>3. WatchShape'
  BY <1>1, <1>2 DEF WatchInv, WatchShape
<1>4. /\ server'.jobs[j] = phase
      /\ \A k \in JobId : /\ Begun(k) => Begun(k)'
                          /\ ~Begun(k)' => ~Begun(k) /\ k # j
                          /\ IsOver(k) => server'.jobs[k] = server.jobs[k]
  BY <1>1, JobMoves DEF WatchInv
<1>5. CallIsOpen'
  <2>1. call.kind = "generate" => call.of \in JobId
    BY DEF WatchInv, JobInv, CallIsOpen
  <2>2. server.jobs[j] # "none"
    BY <1>1
  <2>3. \A k \in JobId : ~Begun(k) => ~Begun(k)'
    BY <1>1, <2>2 DEF Begun, WatchInv, WatchShape, MovingServer
  <2> QED BY <1>1, <1>4, <2>1, <2>3 DEF WatchInv, JobInv, CallIsOpen
<1>6. JobInv'
  <2>1. /\ server.datasets \subseteq server'.datasets
        /\ phase = "completed" => j \in server'.datasets
    BY <1>1
  <2> QED BY <1>1, <1>5, <2>1, ServerMoves DEF WatchInv
<1>7. CancelsAreTrue'
  <2>1. \A c \in cancels : c.job \in JobId
    BY DEF WatchInv, WatchShape, CancelRequest
  <2> QED BY <1>1, <1>4, <2>1 DEF WatchInv, CancelsAreTrue, IsOver, TERMINAL_PHASES
<1>8. ListInv'
  BY <1>1, ListStays DEF WatchInv
<1> QED BY <1>3, <1>6, <1>7, <1>8 DEF WatchInv

-----------------------------------------------------------------------------
(* The list of datasets and its dialog: the reads of the list *)

\* A read that begins is the newest one, and nothing is lost while it is unread.
LEMMA ReadBegins ==
    ASSUME GenerationWatchAssumption, WatchInv, MayRead, ReadAgain
    PROVE  reads' \in Seq(ListRead) /\ Len(reads') <= MaxReads /\ ListInv'
<1>1. NewRead \in ListRead /\ ~NewRead.read
  BY DEF NewRead, ListRead
<1>2. /\ reads \in Seq(ListRead) /\ Len(reads) \in Nat /\ reads' = Append(reads, NewRead)
      /\ Len(reads) < MaxReads
  BY DEF WatchInv, WatchShape, ReadAgain, MayRead
<1>3. /\ reads' \in Seq(ListRead) /\ Len(reads') = Len(reads) + 1
      /\ reads'[Len(reads')] = NewRead
  BY <1>1, <1>2
<1>4. reads' # <<>>
  BY <1>2, <1>3
<1>5. Len(reads') <= MaxReads
  BY <1>2, <1>3 DEF GenerationWatchAssumption
<1> QED BY <1>1, <1>3, <1>4, <1>5 DEF ListInv, CompletedIsRead, CompletedIsListed, Newest

\* The list is read again by hand.
LEMMA RefreshStep ==
    ASSUME GenerationWatchAssumption, WatchInv, Refresh
    PROVE  WatchInv'
<1>1. reads' \in Seq(ListRead) /\ Len(reads') <= MaxReads /\ ListInv'
  BY ReadBegins DEF Refresh
<1>2. list' \in ShownList
  BY DEF Refresh, WatchInv, WatchShape, ShownList
<1>3. uses' \in 0 .. MaxUses
  BY UsesCount DEF Refresh, WatchInv
<1>4. UNCHANGED <<server, url, going, genJob, watch, form, call, cancels>>
  BY DEF Refresh
<1>5. WatchShape'
  BY <1>1, <1>2, <1>3, <1>4 DEF WatchInv, WatchShape
<1> QED BY <1>1, <1>4, <1>5, JobsStay, CancelsStay DEF WatchInv

\* The server answers a read of the list: a dataset that is complete is stored.
LEMMA ListReadsStep ==
    ASSUME GenerationWatchAssumption, WatchInv, NEW i \in DOMAIN reads, ListReads(i)
    PROVE  WatchInv'
<1> DEFINE r == [reads[i] EXCEPT !.read = TRUE, !.seen = server.datasets]
<1>1. reads[i] \in ListRead /\ reads \in Seq(ListRead) /\ reads' = [reads EXCEPT ![i] = r]
  <2>1. reads' = [reads EXCEPT ![i] = r]
    BY DEF ListReads
  <2> QED BY <2>1, SequenceElements DEF WatchInv, WatchShape
<1>2. r \in ListRead /\ r.seen = server.datasets /\ r.late = reads[i].late
  BY <1>1 DEF WatchInv, WatchShape, MovingServer, ListRead
<1> HIDE DEF r
<1>3. /\ reads' \in Seq(ListRead) /\ Len(reads') = Len(reads) /\ reads' # <<>> /\ reads # <<>>
      /\ reads'[i] = r /\ \A k \in DOMAIN reads : k # i => reads'[k] = reads[k]
      /\ Len(reads) \in DOMAIN reads
  BY <1>1, <1>2
<1>4. UNCHANGED <<server, url, going, genJob, watch, form, call, cancels, list, uses>>
  BY DEF ListReads
<1>5. WatchShape'
  BY <1>3, <1>4 DEF WatchInv, WatchShape
<1>6. ListInv'
  <2>1. genJob # Nothing /\ genJob.phase = "completed" => genJob.job \in server.datasets
    BY DEF WatchInv, WatchShape, JobInv, OverIsOver, IsTerminal, TERMINAL_PHASES, DoneIsStored,
           GenerationJob
  <2>2. CASE i = Len(reads)
    BY <1>2, <1>3, <1>4, <2>1, <2>2 DEF ListInv, CompletedIsRead, CompletedIsListed, Newest
  <2>3. CASE i # Len(reads)
    BY <1>3, <1>4, <2>3 DEF WatchInv, ListInv, CompletedIsRead, CompletedIsListed, Newest
  <2> QED BY <2>2, <2>3
<1> QED BY <1>4, <1>5, <1>6, JobsStay, CancelsStay DEF WatchInv

\* A read that ends is gone, and those that began before it are late.
LEMMA ReadEndsFacts ==
    ASSUME reads \in Seq(ListRead), NEW i \in DOMAIN reads, ReadEnds(i)
    PROVE  /\ reads' \in Seq(ListRead) /\ Len(reads') = Len(reads) - 1
           /\ reads' = <<>> <=> Len(reads) = 1
           /\ reads' # <<>> => IF i = Len(reads) THEN reads'[Len(reads')].late
                               ELSE reads'[Len(reads')] = reads[Len(reads)]
<1> DEFINE n == Len(reads) - 1
           E(k) == IF k < i THEN [reads[k] EXCEPT !.late = TRUE] ELSE reads[k + 1]
<1>1. /\ DOMAIN reads = 1 .. Len(reads) /\ Len(reads) \in Nat /\ i \in 1 .. Len(reads)
      /\ n \in Nat /\ \A k \in DOMAIN reads : reads[k] \in ListRead
  BY SequenceElements
<1>2. reads' = [k \in 1 .. n |-> E(k)]
  BY DEF ReadEnds
<1>3. \A k \in 1 .. n : /\ E(k) \in ListRead /\ (k < i => E(k).late)
                        /\ ~(k < i) => E(k) = reads[k + 1]
  <2>1. TAKE k \in 1 .. n
  <2>2. k \in DOMAIN reads /\ k + 1 \in DOMAIN reads
    BY <1>1
  <2>3. reads[k] \in ListRead /\ reads[k + 1] \in ListRead
    BY <1>1, <2>2
  <2>4. [reads[k] EXCEPT !.late = TRUE] \in ListRead /\ [reads[k] EXCEPT !.late = TRUE].late
    BY <2>3 DEF ListRead
  <2> QED BY <2>3, <2>4
<1> HIDE DEF E, n
<1>4. reads' \in [1 .. n -> ListRead] /\ \A k \in 1 .. n : reads'[k] = E(k)
  BY <1>2, <1>3
<1>5. reads' \in Seq(ListRead) /\ Len(reads') = n
  BY <1>1, <1>4
<1>6. reads' = <<>> <=> n = 0
  BY <1>1, <1>5
<1>7. ASSUME n # 0
      PROVE IF i = Len(reads) THEN reads'[n].late ELSE reads'[n] = reads[Len(reads)]
  <2>1. n \in 1 .. n /\ n + 1 = Len(reads) /\ (i = Len(reads) <=> n < i)
    BY <1>1, <1>7 DEF n
  <2> QED BY <1>3, <1>4, <2>1
<1> QED BY <1>1, <1>5, <1>6, <1>7 DEF n

\* The list is shown, or its read has failed.
LEMMA ListArrivesSteps ==
    ASSUME GenerationWatchAssumption, WatchInv, NEW i \in DOMAIN reads,
           ListArrives(i) \/ ListFails(i)
    PROVE  WatchInv'
<1>1. /\ reads \in Seq(ListRead) /\ reads[i] \in ListRead /\ Len(reads) \in Nat
      /\ DOMAIN reads = 1 .. Len(reads) /\ list \in ShownList /\ Len(reads) <= MaxReads
      /\ MaxReads \in Nat
  BY SequenceElements DEF WatchInv, WatchShape, GenerationWatchAssumption
<1>2. /\ reads' \in Seq(ListRead) /\ Len(reads') = Len(reads) - 1
      /\ reads' = <<>> <=> Len(reads) = 1
      /\ reads' # <<>> => IF i = Len(reads) THEN reads'[Len(reads')].late
                          ELSE reads'[Len(reads')] = reads[Len(reads)]
  <2>1. ReadEnds(i)
    BY DEF ListArrives, ListFails
  <2> QED BY <1>1, <2>1, ReadEndsFacts
<1>3. UNCHANGED <<server, url, going, genJob, watch, form, call, cancels>>
  BY DEF ListArrives, ListFails
<1>4. uses' \in 0 .. MaxUses
  BY UsesCount DEF ListArrives, ListFails, WatchInv, WatchShape
<1>5. /\ list' \in ShownList
      /\ \/ list'.error
         \/ reads[i].read /\ list'.shown = reads[i].seen /\ list'.stale = reads[i].late
  BY <1>1 DEF ListArrives, ListFails, ListRead, ShownList
<1>6. WatchShape'
  <2>1. Len(reads') <= MaxReads
    BY <1>1, <1>2
  <2> QED BY <1>2, <1>3, <1>4, <1>5, <2>1 DEF WatchInv, WatchShape
<1>7. ListInv'
  <2>1. CASE reads' = <<>>
    <3>1. Len(reads) = 1 /\ i = 1
      <4>1. Len(reads) = 1
        BY <1>2, <2>1
      <4> QED BY <1>1, <4>1
    <3>2. reads # <<>>
      OBVIOUS
    <3>3. reads[i] = Newest
      BY <3>1 DEF Newest
    <3> QED BY <1>3, <1>5, <2>1, <3>2, <3>3
            DEF WatchInv, ListInv, CompletedIsRead, CompletedIsListed
  <2>2. CASE reads' # <<>>
    <3>1. reads # <<>>
      BY <1>1
    <3> QED BY <1>2, <1>3, <2>2, <3>1
            DEF WatchInv, ListInv, CompletedIsRead, CompletedIsListed, Newest
  <2> QED BY <2>1, <2>2
<1> QED BY <1>3, <1>6, <1>7, JobsStay, CancelsStay DEF WatchInv

-----------------------------------------------------------------------------
(* The list of datasets and its dialog: what the form asks for                 *)

\* A job is started or a file is imported: the request is sent.
LEMMA SubmitSteps ==
    ASSUME GenerationWatchAssumption, WatchInv,
           \/ \E j \in JobId : GenerateDataset(j)
           \/ \E d \in Imported : ImportDataset(d)
    PROVE  WatchInv'
<1>1. PICK kind \in {"generate", "import"}, of \in AnyDataset :
         /\ Submit(kind, of)
         /\ kind = "generate" => of \in JobId /\ ~Begun(of)
         /\ kind = "import" => of \in Imported
  BY DEF GenerateDataset, ImportDataset, AnyDataset, Begun
<1>2. /\ UNCHANGED <<server, url, going, genJob, watch, cancels, reads, list>>
      /\ call' \in FormCall /\ call'.kind = kind /\ call'.of = of /\ call'.done = FALSE
      /\ form' \in DialogForm
  BY <1>1 DEF Submit, FormCall, WatchInv, WatchShape, DialogForm
<1>3. uses' \in 0 .. MaxUses
  BY <1>1, UsesCount DEF Submit, WatchInv
<1>4. WatchShape'
  BY <1>2, <1>3 DEF WatchInv, WatchShape
<1>5. CallIsOpen'
  BY <1>1, <1>2 DEF CallIsOpen, Begun
<1>6. JobInv'
  BY <1>2, <1>5 DEF WatchInv, JobInv, JobsAreKnown, WatchFollows, DoneIsStored, LeavesWhatIsOver,
                    ActiveIsAddressed, OverIsOver, Begun, IsOver, IsTerminal
<1> QED BY <1>2, <1>4, <1>6, CancelsStay, ListStays DEF WatchInv

\* The server does what the form asked for.
LEMMA SubmitCommitsStep ==
    ASSUME GenerationWatchAssumption, WatchInv, SubmitCommits
    PROVE  WatchInv'
<1>1. /\ UNCHANGED <<url, going, genJob, watch, form, cancels, reads, list, uses>>
      /\ call \in FormCall /\ call.kind # "none" /\ ~call.done
      /\ call' \in FormCall /\ call'.kind = call.kind /\ call'.of = call.of /\ call'.done
  BY DEF SubmitCommits, WatchInv, WatchShape, FormCall
<1>2. server \in MovingServer
  BY DEF WatchInv, WatchShape
<1>3. CASE call.kind = "generate"
  <2>1. call.of \in JobId /\ server.jobs[call.of] = "none"
    BY <1>1, <1>3 DEF WatchInv, JobInv, CallIsOpen, Begun
  <2>2. /\ server' \in MovingServer /\ server'.jobs = [server.jobs EXCEPT ![call.of] = "active"]
        /\ server'.datasets = server.datasets
    BY <1>2, <1>3, <2>1 DEF SubmitCommits, MovingServer, JobPhase
  <2>3. /\ server'.jobs[call.of] = "active" /\ "active" \in JobPhase
        /\ \A k \in JobId : Begun(k) => Begun(k)'
        /\ \A k \in JobId : k # call.of => server'.jobs[k] = server.jobs[k]
    BY <2>1, <2>2, JobMoves DEF WatchInv, JobPhase
  <2>4. CallIsOpen'
    BY <1>1, <1>3, <2>1, <2>3 DEF CallIsOpen, Begun
  <2>5. JobInv'
    BY <1>1, <2>1, <2>2, <2>3, <2>4, ServerMoves DEF WatchInv
  <2>6. WatchShape'
    BY <1>1, <2>2 DEF WatchInv, WatchShape
  <2>7. CancelsAreTrue'
    <3>1. \A c \in cancels : c.job \in JobId /\ c.job # call.of
      BY <2>1 DEF WatchInv, WatchShape, CancelRequest, CancelsAreTrue, Begun
    <3> QED BY <1>1, <2>3, <3>1 DEF WatchInv, CancelsAreTrue, Begun
  <2> QED BY <1>1, <2>5, <2>6, <2>7, ListStays DEF WatchInv
<1>4. CASE call.kind # "generate"
  <2>1. call.kind = "import" /\ call.of \in Imported
    BY <1>1, <1>4 DEF FormCall, WatchInv, JobInv, CallIsOpen
  <2>2. /\ server' \in MovingServer /\ server'.jobs = server.jobs
        /\ server.datasets \subseteq server'.datasets
    BY <1>2, <1>4, <2>1 DEF SubmitCommits, MovingServer, AnyDataset
  <2>3. JobInv'
    <3>1. CallIsOpen' /\ DoneIsStored'
      BY <1>1, <2>1, <2>2 DEF WatchInv, JobInv, CallIsOpen, DoneIsStored
    <3> QED
      BY <1>1, <2>2, <3>1 DEF WatchInv, JobInv, JobsAreKnown, WatchFollows, LeavesWhatIsOver,
                              ActiveIsAddressed, OverIsOver, Begun, IsOver, IsTerminal
  <2>4. WatchShape'
    BY <1>1, <2>2 DEF WatchInv, WatchShape
  <2>5. CancelsAreTrue'
    BY <1>1, <2>2 DEF WatchInv, CancelsAreTrue, Begun
  <2> QED BY <1>1, <2>3, <2>4, <2>5, ListStays DEF WatchInv
<1> QED BY <1>3, <1>4

\* The form is told, the list read again, and the URL sent to the job.
LEMMA SubmitReturnsStep ==
    ASSUME GenerationWatchAssumption, WatchInv, SubmitReturns
    PROVE  WatchInv'
<1>1. /\ call.done /\ call' = NoCall /\ UNCHANGED <<server, url, watch, cancels, uses>>
      /\ list' = Reloading
      /\ IF call.kind = "generate"
         THEN genJob' = [job |-> call.of, phase |-> "active"] /\ going' = call.of
         ELSE UNCHANGED <<genJob, going>>
  BY DEF SubmitReturns
<1>2. reads' \in Seq(ListRead) /\ Len(reads') <= MaxReads /\ ListInv'
  BY ReadBegins DEF SubmitReturns
<1>3. form' \in DialogForm /\ list' \in ShownList
  BY DEF SubmitReturns, Reloading, WatchInv, WatchShape, DialogForm, ShownList
<1>4. NoCall \in FormCall /\ NoCall.kind = "none" /\ ~NoCall.done
  BY DEF NoCall, FormCall
<1>5. call.kind = "generate" => call.of \in JobId /\ Begun(call.of)
  BY <1>1 DEF WatchInv, JobInv, CallIsOpen
<1>6. WatchShape'
  <2>1. genJob' \in GenerationJob \cup {Nothing} /\ going' \in MaybeJob \cup {Still}
    BY <1>1, <1>5 DEF WatchInv, WatchShape, GenerationJob, MaybeJob, JobPhase
  <2> QED BY <1>1, <1>2, <1>3, <1>4, <2>1 DEF WatchInv, WatchShape
<1>7. JobInv'
  <2>1. CallIsOpen' /\ WatchFollows' /\ DoneIsStored'
    BY <1>1, <1>4 DEF WatchInv, JobInv, CallIsOpen, WatchFollows, DoneIsStored, Begun, IsOver
  <2>2. CASE call.kind = "generate"
    <3>1. /\ going' = call.of /\ genJob'.job = call.of /\ genJob'.phase = "active"
          /\ call.of \in JobId /\ Begun(call.of) /\ Nothing \notin JobId
      BY <1>1, <1>5, <2>2 DEF GenerationWatchAssumption
    <3> QED BY <1>1, <2>1, <3>1
            DEF WatchInv, JobInv, JobsAreKnown, LeavesWhatIsOver, ActiveIsAddressed, OverIsOver,
                Begun, IsTerminal, TERMINAL_PHASES
  <2>3. CASE call.kind # "generate"
    BY <1>1, <2>1, <2>3 DEF WatchInv, JobInv, JobsAreKnown, LeavesWhatIsOver, ActiveIsAddressed,
                            OverIsOver, Begun, IsOver, IsTerminal
  <2> QED BY <2>2, <2>3
<1> QED BY <1>1, <1>2, <1>6, <1>7, CancelsStay DEF WatchInv

\* The form is told of an error: the request may have been carried out.
LEMMA SubmitFailsStep ==
    ASSUME GenerationWatchAssumption, WatchInv, NEW b \in BOOLEAN, SubmitFails(b)
    PROVE  WatchInv'
<1>1. /\ call' = NoCall /\ UNCHANGED <<server, url, going, genJob, watch, cancels, reads, list>>
      /\ form' \in DialogForm
  BY DEF SubmitFails, WatchInv, WatchShape, DialogForm
<1>2. NoCall \in FormCall /\ NoCall.kind = "none" /\ ~NoCall.done
  BY DEF NoCall, FormCall
<1>3. uses' \in 0 .. MaxUses
  BY UsesCount DEF SubmitFails, WatchInv
<1>4. WatchShape'
  BY <1>1, <1>2, <1>3 DEF WatchInv, WatchShape
<1>5. JobInv'
  BY <1>1, <1>2 DEF WatchInv, JobInv, JobsAreKnown, CallIsOpen, WatchFollows, DoneIsStored,
                    LeavesWhatIsOver, ActiveIsAddressed, OverIsOver, Begun, IsOver, IsTerminal
<1> QED BY <1>1, <1>4, <1>5, CancelsStay, ListStays DEF WatchInv

-----------------------------------------------------------------------------
(* The list of datasets and its dialog: the job of the URL                     *)

\* The URL takes effect: the job that it names is watched from the start.
LEMMA UrlArrivesStep ==
    ASSUME GenerationWatchAssumption, WatchInv, UrlArrives
    PROVE  WatchInv'
<1>1. /\ going # Still /\ url' = going /\ going' = Still
      /\ watch' = IF going = url THEN watch ELSE WatchOf(going)
      /\ UNCHANGED <<server, genJob, call, cancels, reads, list, uses>>
      /\ going \in MaybeJob /\ form' \in DialogForm
  BY DEF UrlArrives, WatchInv, WatchShape, DialogForm
<1>2. /\ WatchOf(going) \in WatchLoop /\ WatchOf(going).job = going
      /\ WatchOf(going).step = "off" <=> going = Nothing
      /\ WatchOf(going).step \in {"off", "asking"} /\ WatchOf(going).errors = 0
  BY <1>1, FreshFacts
<1>3. Still # Nothing /\ Still \notin JobId /\ Nothing \notin JobId /\ MaxErrors \in Nat
  BY DEF GenerationWatchAssumption
<1>4. WatchShape'
  BY <1>1, <1>2 DEF WatchInv, WatchShape
<1>5. JobsAreKnown' /\ CallIsOpen' /\ DoneIsStored' /\ OverIsOver' /\ LeavesWhatIsOver'
  BY <1>1, <1>3 DEF WatchInv, JobInv, JobsAreKnown, CallIsOpen, DoneIsStored, OverIsOver,
                    LeavesWhatIsOver, Begun, IsTerminal
<1>6. WatchFollows'
  BY <1>1, <1>2, <1>3 DEF WatchInv, JobInv, WatchFollows, Begun, IsOver
<1>7. ActiveIsAddressed'
  BY <1>1, <1>3 DEF WatchInv, WatchShape, JobInv, ActiveIsAddressed, GenerationJob
<1>8. JobInv'
  BY <1>5, <1>6, <1>7 DEF JobInv
<1> QED BY <1>1, <1>4, <1>8, CancelsStay, ListStays DEF WatchInv

\* The watch alone moves.
LEMMA WatchMoves ==
    ASSUME WatchInv, watch' \in WatchLoop, watch'.job = watch.job, WatchFollows',
           UNCHANGED <<server, url, going, genJob, call, cancels, reads, list>>,
           form' \in DialogForm, uses' \in 0 .. MaxUses
    PROVE  WatchInv'
<1>1. WatchShape'
  BY DEF WatchInv, WatchShape
<1>2. JobInv'
  BY DEF WatchInv, JobInv, JobsAreKnown, CallIsOpen, DoneIsStored,
         LeavesWhatIsOver, ActiveIsAddressed, OverIsOver, Begun, IsOver, IsTerminal
<1> QED BY <1>1, <1>2, CancelsStay, ListStays DEF WatchInv

\* The watch asks, is answered, waits, and gives up after too many errors.
LEMMA PollSteps ==
    ASSUME GenerationWatchAssumption, WatchInv, PollReads \/ PollFails \/ PollAgain
    PROVE  WatchInv'
<1>1. /\ watch \in WatchLoop /\ watch.errors \in Nat /\ MaxErrors \in Nat /\ form \in DialogForm
      /\ uses \in 0 .. MaxUses /\ (Use => uses' \in 0 .. MaxUses) /\ watch.job = url
      /\ watch.step = "off" <=> url = Nothing
  BY UsesCount
  DEF WatchInv, WatchShape, WatchLoop, GenerationWatchAssumption, JobInv, WatchFollows
<1>2. CASE PollReads
  <2>1. url \in JobId /\ Begun(url) /\ watch.errors <= MaxErrors /\ watch.step = "asking"
    BY <1>1, <1>2 DEF PollReads, WatchInv, WatchShape, JobInv, WatchFollows, JobsAreKnown, MaybeJob
  <2>2. server.jobs[watch.job] \in JobPhase
    BY <1>1, <2>1 DEF WatchInv, WatchShape, MovingServer, Begun
  <2>3. /\ watch' \in WatchLoop /\ watch'.job = watch.job /\ watch'.errors = watch.errors
        /\ watch'.step = "answered" /\ watch'.seen = server.jobs[watch.job]
        /\ UNCHANGED <<server, url, going, genJob, form, call, cancels, reads, list, uses>>
    BY <1>1, <1>2, <2>2 DEF PollReads, WatchLoop
  <2>4. WatchFollows'
    BY <1>1, <2>1, <2>3 DEF WatchFollows, Begun
  <2> QED BY <1>1, <2>3, <2>4, WatchMoves
<1>3. CASE PollFails
  <2>1. /\ watch.step \in {"asking", "answered"} /\ watch.errors <= MaxErrors
        /\ GivesUp \/ watch.errors + 1 <= MaxErrors
        /\ watch.errors + 1 \in 0 .. MaxErrors + 1
    BY <1>1, <1>3 DEF PollFails, WatchInv, JobInv, WatchFollows, GivesUp
  <2>2. /\ watch' \in WatchLoop /\ watch'.job = watch.job /\ watch'.errors = watch.errors + 1
        /\ watch'.step = IF GivesUp THEN "gaveUp" ELSE "waiting"
        /\ UNCHANGED <<server, url, going, genJob, call, cancels, reads, list>>
    BY <1>1, <1>3, <2>1 DEF PollFails, WatchLoop
  <2>3. form' \in DialogForm /\ uses' \in 0 .. MaxUses
    BY <1>1, <1>3 DEF PollFails, DialogForm
  <2>4. WatchFollows'
    BY <1>1, <2>1, <2>2 DEF WatchFollows
  <2> QED BY <2>2, <2>3, <2>4, WatchMoves
<1>4. CASE PollAgain
  <2>1. /\ watch' \in WatchLoop /\ watch'.job = watch.job /\ watch'.errors = watch.errors
        /\ watch'.step = "asking" /\ watch.step = "waiting"
        /\ UNCHANGED <<server, url, going, genJob, form, call, cancels, reads, list, uses>>
    BY <1>1, <1>4 DEF PollAgain, WatchLoop
  <2>2. WatchFollows'
    BY <1>1, <2>1 DEF WatchInv, JobInv, WatchFollows
  <2> QED BY <1>1, <2>1, <2>2, WatchMoves
<1> QED BY <1>2, <1>3, <1>4

\* The page is told of the watched job: a phase that ends it is the one it ended in.
LEMMA PollArrivesStep ==
    ASSUME GenerationWatchAssumption, WatchInv, PollArrives
    PROVE  WatchInv'
<1> DEFINE job == [job |-> watch.job, phase |-> watch.seen]
<1>1. /\ watch.step = "answered" /\ genJob' = job /\ Completed(job)
      /\ watch' = [watch EXCEPT !.errors = 0,
                                !.step = IF IsTerminal(job) THEN "over" ELSE "waiting"]
      /\ UNCHANGED <<server, url, going, form, call, cancels, uses>>
  BY DEF PollArrives
<1>2. /\ watch \in WatchLoop /\ watch.job = url /\ url \in JobId /\ Nothing \notin JobId
      /\ MaxErrors \in Nat /\ Begun(watch.job) /\ url # Nothing
      /\ watch.seen \in TERMINAL_PHASES => server.jobs[watch.job] = watch.seen
  BY <1>1 DEF WatchInv, WatchShape, JobInv, WatchFollows, MaybeJob, GenerationWatchAssumption
<1>3. job \in GenerationJob /\ job.job = url /\ job.phase = watch.seen
  BY <1>2 DEF GenerationJob, WatchLoop
<1>4. IsTerminal(job) <=> watch.seen \in TERMINAL_PHASES
  BY <1>3 DEF IsTerminal
<1> HIDE DEF job
<1>5. /\ watch' \in WatchLoop /\ watch'.job = watch.job /\ watch'.errors = 0
      /\ watch'.step = IF IsTerminal(job) THEN "over" ELSE "waiting"
  <2>1. 0 \in 0 .. MaxErrors + 1
    BY <1>2
  <2> QED BY <1>1, <1>2, <2>1 DEF WatchLoop
<1>6. reads' \in Seq(ListRead) /\ Len(reads') <= MaxReads /\ list' \in ShownList /\ ListInv'
  <2>1. CASE job.phase = "completed"
    <3>1. reads' \in Seq(ListRead) /\ Len(reads') <= MaxReads /\ ListInv'
      BY <1>1, <2>1, ReadBegins DEF Completed, OnCompleted
    <3>2. list' \in ShownList
      BY <1>1, <2>1 DEF Completed, OnCompleted, Reloading, WatchInv, WatchShape, ShownList
    <3> QED BY <3>1, <3>2
  <2>2. CASE job.phase # "completed"
    <3>1. UNCHANGED <<reads, list>>
      BY <1>1, <2>2 DEF Completed, OnCompleted
    <3>2. ListInv'
      BY <1>1, <2>2 DEF ListInv, CompletedIsRead, CompletedIsListed
    <3> QED BY <3>1, <3>2 DEF WatchInv, WatchShape
  <2> QED BY <2>1, <2>2
<1>7. WatchShape'
  BY <1>1, <1>3, <1>5, <1>6 DEF WatchInv, WatchShape
<1>8. JobInv'
  <2>1. JobsAreKnown' /\ CallIsOpen' /\ DoneIsStored' /\ LeavesWhatIsOver'
    BY <1>1, <1>2, <1>3 DEF WatchInv, JobInv, JobsAreKnown, CallIsOpen, DoneIsStored,
                            LeavesWhatIsOver, Begun, IsOver
  <2>2. WatchFollows'
    BY <1>1, <1>2, <1>4, <1>5 DEF WatchFollows, IsOver
  <2>3. ActiveIsAddressed'
    <3>1. going = Nothing => IsOver(url)
      BY <1>2 DEF WatchInv, JobInv, LeavesWhatIsOver
    <3> QED BY <1>1, <1>2, <1>3, <3>1 DEF ActiveIsAddressed, IsOver, TERMINAL_PHASES
  <2>4. OverIsOver'
    BY <1>1, <1>2, <1>3, <1>5 DEF OverIsOver, IsTerminal
  <2> QED BY <2>1, <2>2, <2>3, <2>4 DEF JobInv
<1> QED BY <1>1, <1>6, <1>7, <1>8, CancelsStay DEF WatchInv

\* A job that is shown and not over is asked to stop.
LEMMA CancelGenerationStep ==
    ASSUME GenerationWatchAssumption, WatchInv, CancelGeneration
    PROVE  WatchInv'
<1>1. /\ genJob # Nothing /\ cancels' = {[job |-> genJob.job, answer |-> "none"]}
      /\ UNCHANGED <<server, url, going, genJob, watch, form, call, reads, list>>
  BY DEF CancelGeneration, VisibleGenJob
<1>2. genJob.job \in JobId /\ Begun(genJob.job)
  BY <1>1 DEF WatchInv, WatchShape, GenerationJob, JobInv, JobsAreKnown
<1>3. uses' \in 0 .. MaxUses
  BY UsesCount DEF CancelGeneration, WatchInv
<1>4. WatchShape'
  BY <1>1, <1>2, <1>3 DEF WatchInv, WatchShape, CancelRequest
<1>5. CancelsAreTrue'
  BY <1>1, <1>2 DEF CancelsAreTrue, Begun
<1> QED BY <1>1, <1>4, <1>5, JobsStay, ListStays DEF WatchInv

\* The server stops a job that is running, and refuses to stop one that is over.
LEMMA CancelCommitsStep ==
    ASSUME GenerationWatchAssumption, WatchInv, NEW c \in cancels, CancelCommits(c)
    PROVE  WatchInv'
<1>1. /\ c.job \in JobId /\ Begun(c.job) /\ server \in MovingServer /\ c \in CancelRequest
      /\ UNCHANGED <<url, going, genJob, watch, form, call, reads, list, uses>>
  BY DEF CancelCommits, WatchInv, WatchShape, CancelRequest, CancelsAreTrue
<1>2. /\ server' \in MovingServer /\ JobInv'
      /\ \A k \in JobId : /\ Begun(k) => Begun(k)'
                          /\ server.jobs[k] = "cancelled" => server'.jobs[k] = "cancelled"
  <2>1. CASE server.jobs[c.job] = "active"
    <3>1. /\ server' \in MovingServer /\ server'.jobs = [server.jobs EXCEPT ![c.job] = "cancelled"]
          /\ server'.datasets = server.datasets
      BY <1>1, <2>1 DEF CancelCommits, MovingServer, JobPhase
    <3>2. "cancelled" \in JobPhase /\ "cancelled" # "completed"
      BY DEF JobPhase
    <3>3. \A k \in JobId : /\ Begun(k) => Begun(k)'
                           /\ IsOver(k) => server'.jobs[k] = server.jobs[k]
      BY <1>1, <2>1, <3>1, <3>2, JobMoves DEF WatchInv
    <3>4. CallIsOpen'
      <4>1. call.kind = "generate" => call.of \in JobId
        BY DEF WatchInv, JobInv, CallIsOpen
      <4>2. \A k \in JobId : ~Begun(k) => ~Begun(k)'
        BY <1>1, <2>1, <3>1 DEF Begun, MovingServer
      <4> QED BY <1>1, <3>3, <4>1, <4>2 DEF WatchInv, JobInv, CallIsOpen, Begun
    <3>5. JobInv'
      BY <1>1, <2>1, <3>1, <3>2, <3>4, ServerMoves DEF WatchInv
    <3> QED BY <3>1, <3>3, <3>5 DEF IsOver, TERMINAL_PHASES
  <2>2. CASE server.jobs[c.job] # "active"
    <3>1. server' = server
      BY <2>2 DEF CancelCommits
    <3> QED BY <1>1, <3>1, JobsStay DEF WatchInv, Begun
  <2> QED BY <2>1, <2>2
<1> DEFINE d == [c EXCEPT !.answer =
                   IF server'.jobs[c.job] = "cancelled" THEN "cancelled" ELSE "refused"]
<1>3. /\ cancels' = (cancels \ {c}) \cup {d} /\ d \in CancelRequest /\ d.job = c.job
      /\ d.answer = "cancelled" => server'.jobs[c.job] = "cancelled"
  BY <1>1 DEF CancelCommits, CancelRequest
<1> HIDE DEF d
<1>4. WatchShape'
  BY <1>1, <1>2, <1>3 DEF WatchInv, WatchShape
<1>5. CancelsAreTrue'
  <2>1. \A e \in cancels : e.job \in JobId
    BY DEF WatchInv, WatchShape, CancelRequest
  <2> QED BY <1>1, <1>2, <1>3, <2>1 DEF WatchInv, CancelsAreTrue, Begun
<1> QED BY <1>1, <1>2, <1>4, <1>5, ListStays DEF WatchInv

\* The page is told that the job has stopped, or that it could not be stopped.
LEMMA CancelReturnsStep ==
    ASSUME GenerationWatchAssumption, WatchInv, NEW c \in cancels, CancelReturns(c)
    PROVE  WatchInv'
<1>1. /\ cancels' = cancels \ {c} /\ c.job \in JobId /\ Begun(c.job)
      /\ c.answer = "cancelled" => server.jobs[c.job] = "cancelled"
      /\ genJob' = IF c.answer = "cancelled" THEN [job |-> c.job, phase |-> "cancelled"] ELSE genJob
      /\ UNCHANGED <<server, url, going, watch, call, reads, list, uses>>
  BY DEF CancelReturns, WatchInv, WatchShape, CancelRequest, CancelsAreTrue
<1>2. form' \in DialogForm
  BY DEF CancelReturns, WatchInv, WatchShape, DialogForm
<1>3. CASE c.answer = "cancelled"
  <2>1. /\ genJob' \in GenerationJob /\ genJob'.job = c.job /\ genJob'.phase = "cancelled"
        /\ server.jobs[c.job] = "cancelled"
    BY <1>1, <1>3 DEF GenerationJob, JobPhase
  <2>2. WatchShape' /\ CancelsAreTrue'
    BY <1>1, <1>2, <2>1 DEF WatchInv, WatchShape, CancelsAreTrue, Begun
  <2>3. JobInv'
    BY <1>1, <2>1 DEF WatchInv, JobInv, JobsAreKnown, CallIsOpen, WatchFollows, DoneIsStored,
                      LeavesWhatIsOver, ActiveIsAddressed, OverIsOver, Begun, IsOver
  <2>4. ListInv'
    BY <1>1, <2>1 DEF ListInv, CompletedIsRead, CompletedIsListed
  <2> QED BY <2>2, <2>3, <2>4 DEF WatchInv
<1>4. CASE c.answer # "cancelled"
  <2>1. genJob' = genJob
    BY <1>1, <1>4
  <2>2. WatchShape' /\ CancelsAreTrue'
    BY <1>1, <1>2, <2>1 DEF WatchInv, WatchShape, CancelsAreTrue, Begun
  <2> QED BY <1>1, <2>1, <2>2, JobsStay, ListStays DEF WatchInv
<1> QED BY <1>3, <1>4

\* What is shown of a job that is over is put away, and the URL cleared.
LEMMA DismissStep ==
    ASSUME GenerationWatchAssumption, WatchInv, Dismiss
    PROVE  WatchInv'
<1>1. /\ genJob' = Nothing /\ going' = Nothing
      /\ UNCHANGED <<server, url, watch, form, call, cancels, reads, list>>
      /\ genJob # Nothing /\ IsTerminal(genJob) /\ (url = Nothing \/ genJob.job = url)
  BY DEF Dismiss, VisibleGenJob
<1>2. uses' \in 0 .. MaxUses
  BY UsesCount DEF Dismiss, WatchInv
<1>3. WatchShape'
  BY <1>1, <1>2 DEF WatchInv, WatchShape, MaybeJob
<1>4. LeavesWhatIsOver'
  BY <1>1 DEF WatchInv, JobInv, OverIsOver, IsTerminal, LeavesWhatIsOver, IsOver
<1>5. Nothing \notin JobId
  BY DEF GenerationWatchAssumption
<1>6. JobInv'
  BY <1>1, <1>4, <1>5 DEF WatchInv, JobInv, JobsAreKnown, CallIsOpen, WatchFollows, DoneIsStored,
                          ActiveIsAddressed, OverIsOver, Begun, IsOver
<1>7. ListInv'
  BY <1>1 DEF ListInv, CompletedIsRead, CompletedIsListed
<1> QED BY <1>1, <1>3, <1>6, <1>7, CancelsStay DEF WatchInv

\* The page is loaded again, with the job of its URL.
LEMMA ReloadStep ==
    ASSUME GenerationWatchAssumption, WatchInv, Reload
    PROVE  WatchInv'
<1>1. /\ going' = Still /\ genJob' = Nothing /\ watch' = WatchOf(url) /\ form' = FreshForm(url)
      /\ server' = server /\ call' = NoCall /\ cancels' = {} /\ reads' = <<NewRead>>
      /\ UNCHANGED url /\ url \in MaybeJob
  BY DEF Reload, WatchInv, WatchShape
<1>2. /\ WatchOf(url) \in WatchLoop /\ WatchOf(url).job = url
      /\ WatchOf(url).step = "off" <=> url = Nothing
      /\ WatchOf(url).step \in {"off", "asking"} /\ WatchOf(url).errors = 0
      /\ FreshForm(url) \in DialogForm /\ NoCall \in FormCall /\ NewRead \in ListRead
  BY <1>1, FreshFacts
<1>3. reads' \in Seq(ListRead) /\ Len(reads') = 1
  BY <1>1, <1>2, ShortSequences
<1>4. list' \in ShownList
  BY DEF Reload, ShownList
<1>5. Len(reads') <= MaxReads /\ uses' \in 0 .. MaxUses /\ Still # Nothing /\ Still \notin JobId
      /\ MaxErrors \in Nat
  BY <1>3, UsesCount DEF Reload, WatchInv, GenerationWatchAssumption
<1>6. WatchShape'
  BY <1>1, <1>2, <1>3, <1>4, <1>5 DEF WatchInv, WatchShape
<1>7. JobInv'
  BY <1>1, <1>2, <1>5 DEF WatchInv, JobInv, JobsAreKnown, CallIsOpen, WatchFollows, DoneIsStored,
                          LeavesWhatIsOver, ActiveIsAddressed, OverIsOver, NoCall, Begun, IsOver
<1>8. CancelsAreTrue' /\ ListInv'
  BY <1>1 DEF CancelsAreTrue, ListInv, CompletedIsRead, CompletedIsListed
<1> QED BY <1>6, <1>7, <1>8 DEF WatchInv

\* Every step of the list and its dialog keeps the invariant.
LEMMA WatchStepInv ==
    ASSUME GenerationWatchAssumption, WatchInv, [WatchNext]_watchVars
    PROVE  WatchInv'
<1>1. CASE UNCHANGED watchVars
  BY <1>1, JobsStay, CancelsStay, ListStays DEF watchVars, WatchInv, WatchShape
<1>2. CASE \E j \in JobId, phase \in {"completed", "failed"} : JobEnds(j, phase)
  BY <1>2, JobEndsStep
<1>3. CASE Refresh \/ \E i \in DOMAIN reads : ListReads(i) \/ ListArrives(i) \/ ListFails(i)
  BY <1>3, RefreshStep, ListReadsStep, ListArrivesSteps
<1>4. CASE \/ OpenDialog \/ CloseDialog \/ FillInGeneration \/ FillInImport
           \/ ResetGenerateForm \/ RetryResources \/ CheckConnection
           \/ \E m \in {"generate", "import"} : SetMode(m)
           \/ \E m \in {"llms", "tools"} : SetGenerationMethod(m)
           \/ \E o \in {"ready", "failed"} : LoadGenerationResources(o)
           \/ \E b \in BOOLEAN : CheckReturns(b)
  BY <1>4, FormSteps
<1>5. CASE (\E j \in JobId : GenerateDataset(j)) \/ (\E d \in Imported : ImportDataset(d))
  BY <1>5, SubmitSteps
<1>6. CASE SubmitCommits \/ SubmitReturns \/ \E b \in BOOLEAN : SubmitFails(b)
  BY <1>6, SubmitCommitsStep, SubmitReturnsStep, SubmitFailsStep
<1>7. CASE UrlArrives \/ PollReads \/ PollArrives \/ PollFails \/ PollAgain
  BY <1>7, UrlArrivesStep, PollSteps, PollArrivesStep
<1>8. CASE CancelGeneration \/ \E c \in cancels : CancelCommits(c) \/ CancelReturns(c)
  BY <1>8, CancelGenerationStep, CancelCommitsStep, CancelReturnsStep
<1>9. CASE Dismiss \/ Reload
  BY <1>9, DismissStep, ReloadStep
<1> QED BY <1>1, <1>2, <1>3, <1>4, <1>5, <1>6, <1>7, <1>8, <1>9 DEF WatchNext

\* The invariant holds of every behaviour of the list and its dialog.
LEMMA WatchInvariant == ASSUME GenerationWatchAssumption PROVE WatchSpec => []WatchInv
<1>1. WatchInit => WatchInv
  BY WatchInitInv
<1>2. WatchInv /\ [WatchNext]_watchVars => WatchInv'
  BY WatchStepInv
<1> QED BY <1>1, <1>2, PTL DEF WatchSpec

\* The state of the list of datasets and of its dialog keeps its type, for any
\* jobs, imports, reads and errors of the polling.
THEOREM WatchTypesCorrect ==
    ASSUME GenerationWatchAssumption PROVE WatchSpec => []WatchTypeOK
<1>1. WatchInv => WatchTypeOK
  BY WatchShapeTypes DEF WatchInv
<1> QED BY <1>1, WatchInvariant, PTL

\* A generation that the dialog calls over is over in that way on the server; one
\* that runs and is shown is watched, unless the polling has given up; and the
\* dataset of one shown as completed is in the list, once the reads have ended
\* and unless one failed or was overtaken.
THEOREM WatchStaysTrue ==
    ASSUME GenerationWatchAssumption PROVE WatchSpec => []WatchIsTrue
<1>1. ASSUME WatchInv PROVE RunningIsWatched
  <2>1. SUFFICES ASSUME VisibleGenJob # Nothing, server.jobs[VisibleGenJob.job] = "active"
                 PROVE  WaitingIsWatched
    BY DEF RunningIsWatched
  <2>2. /\ genJob # Nothing /\ VisibleGenJob = genJob /\ (url = Nothing \/ genJob.job = url)
        /\ server.jobs[genJob.job] = "active" /\ genJob.job \in JobId
    BY <1>1, <2>1 DEF VisibleGenJob, WatchInv, WatchShape, GenerationJob
  <2>3. CASE url = Nothing
    BY <1>1, <2>2, <2>3 DEF WatchInv, JobInv, ActiveIsAddressed, WaitingIsWatched
  <2>4. CASE url # Nothing
    <3>1. watch.job = genJob.job /\ watch.step # "off" /\ watch.step # "over"
      BY <1>1, <2>2, <2>4 DEF WatchInv, JobInv, WatchFollows, IsOver, TERMINAL_PHASES
    <3>2. watch.step \in {"asking", "answered", "waiting", "gaveUp"}
      BY <1>1, <3>1 DEF WatchInv, WatchShape, WatchLoop
    <3> QED BY <2>2, <3>1, <3>2 DEF WaitingIsWatched
  <2> QED BY <2>3, <2>4
<1>2. WatchInv => WatchIsTrue
  BY <1>1 DEF WatchInv, JobInv, ListInv, WatchIsTrue
<1> QED BY <1>2, WatchInvariant, PTL
================================================================================
