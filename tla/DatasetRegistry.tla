------------------------- MODULE DatasetRegistry -------------------------
(* Golden datasets: rows, lifecycle and the requests that change them        *)
(* (datasets/registry.py over datasets/postgres_store.py).  A request reads  *)
(* the row in one transaction and writes in another; some writes check the   *)
(* row again under its lock, others do not.                                  *)
EXTENDS Naturals

CONSTANTS
    Client,         \* requests that can be under way at the same time
    Reviewer,       \* the clients that validate and decide
    Editor,         \* the clients that write records, branch and delete
    Content,        \* record sets of at least one record
    Grade,          \* [Content -> status], what the quality gate says of them
    MaxName,        \* bound: the names a lineage can take
    MaxVersion      \* bound: the version numbers of a row

ASSUME RegistryAssumption ==
    /\ Reviewer \subseteq Client
    /\ Editor \subseteq Client
    /\ Grade \in [Content -> {"VALIDATED", "DRAFT", "REJECTED"}]
    /\ "empty" \notin Content
    /\ MaxName \in Nat \ {0}
    /\ MaxVersion \in Nat \ {0}

VARIABLES
    datasets,   \* the rows, by name
    clients     \* what each request has read and is about to write

registryVars == <<datasets, clients>>

(* Data.  A name is a number: which `{root}_v{n}` it is spelled matters to    *)
(* nobody.  Records are one of the record sets, or none.                      *)

Name == 1..MaxName
Records == Content \cup {"empty"}

Status == {"DRAFT", "VALIDATED", "APPROVED", "PUBLISHED", "DEPRECATED",
           "RETIRED", "REJECTED"}

Dataset == [status: Status \cup {"absent"}, version: 0..MaxVersion,
            parent: 0..MaxName, records: Records]

NoDataset == [status |-> "absent", version |-> 0, parent |-> 0,
              records |-> "empty"]

Request == [op: {"idle", "validate", "status", "write", "edit", "create",
                 "branch", "restore"},
            name: 0..MaxName, seen: Status \cup {"none"},
            target: Status \cup {"none"}, new: 0..MaxName, version: 0..MaxVersion]

Idle == [op |-> "idle", name |-> 0, seen |-> "none", target |-> "none", new |-> 0,
         version |-> 0]

(* The lifecycle: what `validate_transition` allows from each status.         *)
AllowedTransitions ==
    [DRAFT |-> {"VALIDATED", "REJECTED"}, VALIDATED |-> {"APPROVED", "REJECTED"},
     APPROVED |-> {"PUBLISHED"}, PUBLISHED |-> {"DEPRECATED"},
     DEPRECATED |-> {"RETIRED"}, RETIRED |-> {}, REJECTED |-> {"DRAFT"}]

NonBranchable == {"REJECTED", "RETIRED"}

(* The quality gate: no record is a blocker, otherwise the score decides.     *)
Gate(records) == IF records = "empty" THEN "REJECTED" ELSE Grade[records]

Exists(n) == datasets[n].status # "absent"
Mutable(n) == datasets[n].status = "DRAFT"

Answer(c) == clients' = [clients EXCEPT ![c] = Idle]

Store(n, row) == datasets' = [datasets EXCEPT ![n] = row]

RegistryInit ==
    /\ datasets = [n \in Name |-> NoDataset]
    /\ clients = [c \in Client |-> Idle]

(* Any request can end without a write: refused, not found, failed or cut     *)
(* off.                                                                        *)
Fails(c) ==
    /\ clients[c].op # "idle"
    /\ Answer(c)
    /\ UNCHANGED datasets

----------------------------------------------------------------------------
(* Lifecycle                                                                   *)

(* validate: the status is read, then the records are read and graded.        *)
BeginValidate(c, n) ==
    /\ clients[c].op = "idle"
    /\ Mutable(n)
    /\ clients' = [clients EXCEPT ![c] =
                      [Idle EXCEPT !.op = "validate", !.name = n, !.seen = "DRAFT"]]
    /\ UNCHANGED datasets

GradeRecords(c) ==
    /\ clients[c].op = "validate"
    /\ clients' = [clients EXCEPT ![c].op = "status",
                       ![c].target = Gate(datasets[clients[c].name].records)]
    /\ UNCHANGED datasets

(* approve, reject, reopen, publish, deprecate, retire.                       *)
BeginTransition(c, n, target) ==
    /\ clients[c].op = "idle"
    /\ Exists(n)
    /\ target \in AllowedTransitions[datasets[n].status] \ {"VALIDATED"}
    /\ clients' = [clients EXCEPT ![c] =
                      [Idle EXCEPT !.op = "status", !.name = n,
                                   !.seen = datasets[n].status, !.target = target]]
    /\ UNCHANGED datasets

(* update_status: by name, whatever the status has become since.              *)
UpdateStatus(c) ==
    LET n == clients[c].name IN
    /\ clients[c].op = "status"
    /\ Exists(n)
    /\ Store(n, [datasets[n] EXCEPT !.status = clients[c].target])
    /\ Answer(c)

----------------------------------------------------------------------------
(* Records                                                                     *)

(* Every request that writes a draft in place begins by reading its status.   *)
BeginWrite(c, n) ==
    /\ clients[c].op = "idle"
    /\ Mutable(n)
    /\ clients' = [clients EXCEPT ![c] = [Idle EXCEPT !.op = "write", !.name = n]]
    /\ UNCHANGED datasets

(* merge and replace, promote and delete check it again under the row's lock. *)

(* Mutant: `first_write` is computed after a replace has emptied the dataset. *)
MergeVersionOfReplaced(row) == IF row.version = 1 THEN 1 ELSE row.version + 1

(* The first records of version 1 do not make a version 2.                    *)
MergeVersion(row) ==
    IF row.records = "empty" /\ row.version = 1 THEN 1 ELSE row.version + 1

(* Mutant: merge_records relies on the status that the registry has read.     *)
MergeUnchecked(c, records) ==
    LET n == clients[c].name IN
    /\ clients[c].op = "write"
    /\ Exists(n)
    /\ MergeVersion(datasets[n]) <= MaxVersion
    /\ Store(n, [datasets[n] EXCEPT !.records = records,
                                    !.version = MergeVersion(datasets[n])])
    /\ Answer(c)

MergeRecords(c, records) ==
    LET n == clients[c].name IN
    /\ clients[c].op = "write"
    /\ Mutable(n)
    /\ MergeVersion(datasets[n]) <= MaxVersion
    /\ Store(n, [datasets[n] EXCEPT !.records = records,
                                    !.version = MergeVersion(datasets[n])])
    /\ Answer(c)

UpsertRecord(c, records) ==
    LET n == clients[c].name IN
    /\ clients[c].op = "write"
    /\ Mutable(n)
    /\ datasets[n].version < MaxVersion
    /\ Store(n, [datasets[n] EXCEPT !.records = records, !.version = @ + 1])
    /\ Answer(c)

(* Mutant: delete_dataset does not check the row it has locked.                *)
DeleteUnchecked(c) ==
    LET n == clients[c].name IN
    /\ clients[c].op = "write"
    /\ Exists(n)
    /\ Store(n, NoDataset)
    /\ Answer(c)

(* Mutant: deletion does not cascade to the records.                           *)
DeleteRowOnly(c) ==
    LET n == clients[c].name IN
    /\ clients[c].op = "write"
    /\ Mutable(n)
    /\ Store(n, [NoDataset EXCEPT !.records = datasets[n].records])
    /\ Answer(c)

DeleteDataset(c) ==
    LET n == clients[c].name IN
    /\ clients[c].op = "write"
    /\ Mutable(n)
    /\ Store(n, NoDataset)
    /\ Answer(c)

(* delete_records and annotate_expected_tools take no lock and do not look at *)
(* the status again: the row is selected, then the records are written and    *)
(* the version is set to the one selected, plus one.  Neither adds a record.  *)
SelectForEdit(c) ==
    LET n == clients[c].name IN
    /\ clients[c].op = "write"
    /\ Exists(n)
    /\ clients' = [clients EXCEPT ![c].op = "edit",
                                  ![c].version = datasets[n].version]
    /\ UNCHANGED datasets

EditRecords(c, records) ==
    LET n == clients[c].name IN
    /\ clients[c].op = "edit"
    /\ Exists(n)
    /\ clients[c].version < MaxVersion
    /\ datasets[n].records \notin {"empty", records}
    /\ Store(n, [datasets[n] EXCEPT !.records = records,
                                    !.version = clients[c].version + 1])
    /\ Answer(c)

----------------------------------------------------------------------------
(* Creation and branches                                                       *)

(* A name nobody has: a root, with the records of an import or none.          *)
BeginCreate(c, n) ==
    /\ clients[c].op = "idle"
    /\ ~Exists(n)
    /\ clients' = [clients EXCEPT ![c] =
                      [Idle EXCEPT !.op = "create", !.new = n, !.version = 1]]
    /\ UNCHANGED datasets

(* create_new_version, and create_dataset of a name that is past DRAFT: an    *)
(* empty child of the source or of the tip of its lineage.                    *)
BeginVersion(c, source, n) ==
    /\ clients[c].op = "idle"
    /\ Exists(source)
    /\ ~Exists(n)
    /\ datasets[source].version < MaxVersion
    /\ clients' = [clients EXCEPT ![c] =
                      [Idle EXCEPT !.op = "create", !.name = source, !.new = n,
                                   !.version = datasets[source].version + 1]]
    /\ UNCHANGED datasets

(* The composite key lets one of two racing creates in.                       *)
CreateDataset(c, records) ==
    LET request == clients[c] IN
    /\ request.op = "create"
    /\ ~Exists(request.new)
    /\ request.name # 0 => records = "empty"
    /\ Store(request.new, [status |-> "DRAFT", version |-> request.version,
                           parent |-> request.name, records |-> records])
    /\ Answer(c)

(* restore copies a RETIRED dataset; annotating or promoting into a dataset   *)
(* past DRAFT branches any that the lifecycle has not ruled out.  The new     *)
(* number is above the tip of the lineage, so above the source.               *)
BeginClone(c, op, source, n, version) ==
    /\ clients[c].op = "idle"
    /\ \/ op = "restore" /\ datasets[source].status = "RETIRED"
       \/ /\ op = "branch"
          /\ datasets[source].status \in Status \ (NonBranchable \cup {"DRAFT"})
    /\ ~Exists(n)
    /\ datasets[source].version < version
    /\ clients' = [clients EXCEPT ![c] =
                      [Idle EXCEPT !.op = op, !.name = source, !.new = n,
                                   !.version = version]]
    /\ UNCHANGED datasets

(* Mutant: restore_for_annotation does not pass require_branchable.           *)
MayAlwaysCopy(request, source) == TRUE

(* Only a branch asserts the status of the source again.                      *)
MayCopy(request, source) ==
    request.op = "branch" => source.status \notin NonBranchable

(* clone_dataset selects the source without a lock and asserts its status.    *)
SelectSource(c) ==
    LET request == clients[c] IN
    /\ request.op \in {"branch", "restore"} /\ request.seen = "none"
    /\ Exists(request.name)
    /\ ~Exists(request.new)
    /\ MayCopy(request, datasets[request.name])
    /\ clients' = [clients EXCEPT ![c].seen = datasets[request.name].status]
    /\ UNCHANGED datasets

(* The records are read later in that transaction, and the copy commits.  A   *)
(* branch may change and add to them.  The source is not looked at again: it  *)
(* may have another status by then, or be gone, with its records.             *)
CloneDataset(c, records) ==
    LET request == clients[c] IN
    /\ request.op \in {"branch", "restore"} /\ request.seen # "none"
    /\ ~Exists(request.new)
    /\ request.op = "restore" => records = datasets[request.name].records
    /\ Store(request.new, [status |-> "DRAFT", version |-> request.version,
                           parent |-> request.name, records |-> records])
    /\ Answer(c)

----------------------------------------------------------------------------
ReviewerStep(c) ==
    \/ \E n \in Name : BeginValidate(c, n)
    \/ \E n \in Name, target \in Status : BeginTransition(c, n, target)
    \/ GradeRecords(c)
    \/ UpdateStatus(c)

EditorStep(c) ==
    \/ \E n \in Name : BeginWrite(c, n)
    \/ \E records \in Records : MergeRecords(c, records)
    \/ \E records \in Content : UpsertRecord(c, records)
    \/ SelectForEdit(c)
    \/ \E records \in Records : EditRecords(c, records)
    \/ \E n \in Name : BeginCreate(c, n)
    \/ \E source, n \in Name : BeginVersion(c, source, n)
    \/ \E records \in Records : CreateDataset(c, records)
    \/ \E source, n \in Name, version \in 1..MaxVersion :
          \E op \in {"branch", "restore"} : BeginClone(c, op, source, n, version)
    \/ SelectSource(c)
    \/ \E records \in Records : CloneDataset(c, records)
    \/ DeleteDataset(c)

RegistryNext ==
    \/ \E c \in Reviewer : ReviewerStep(c)
    \/ \E c \in Editor : EditorStep(c)
    \/ \E c \in Reviewer \cup Editor : Fails(c)

RegistrySpec == RegistryInit /\ [][RegistryNext]_registryVars

----------------------------------------------------------------------------
(* Properties                                                                  *)

(* Rows and requests have their types, and nothing is left of a row that is   *)
(* not there: its deletion takes the records along.                           *)
RegistryTypeOK ==
    /\ datasets \in [Name -> Dataset]
    /\ clients \in [Client -> Request]
    /\ \A n \in Name : ~Exists(n) => datasets[n] = NoDataset

(* The decision being written was made on a status that is there no more.     *)
DecidedOnAnother(n) ==
    \E c \in Reviewer : /\ clients[c].op = "status" /\ clients[c].name = n
                        /\ clients'[c] = Idle
                        /\ clients[c].seen # datasets[n].status
                        /\ datasets'[n].status \in AllowedTransitions[clients[c].seen]
                                                   \cup {clients[c].seen}

(* A status is left for one that the lifecycle allows next (versioning.py),   *)
(* although it is read in one transaction and written in another without a    *)
(* condition.  What can break this is another decision in between, by one of  *)
(* any number of reviewers, and nothing else: what is written was allowed     *)
(* from the status that its author saw, and no request but a reviewer's moves *)
(* a status, a locked deletion or the unique key being in the way.            *)
LifecycleRespected ==
    [][\A n \in Name : Exists(n) /\ datasets'[n].status # datasets[n].status =>
          \/ datasets'[n].status \in AllowedTransitions[datasets[n].status]
          \/ Mutable(n) /\ datasets'[n] = NoDataset
          \/ DecidedOnAnother(n)]_registryVars

(* The two writes that take no lock.                                           *)
EditedWithoutLock(n) ==
    \E c \in Client : clients[c].op = "edit" /\ clients[c].name = n
                      /\ clients'[c] = Idle

(* Records change, and rows go, only in DRAFT: a merge, a promotion or a      *)
(* deletion that read DRAFT and was overtaken by a decision does not write    *)
(* (merge_records: "may predate a concurrent validation").  The edits that    *)
(* take no lock are the exception that PublishedIsFrozen shows.               *)
OnlyDraftsChange ==
    [][\A n \in Name : datasets'[n].records # datasets[n].records =>
          Mutable(n) \/ ~Exists(n) \/ EditedWithoutLock(n)]_registryVars

(* A version number stands for one set of records: two locked writers that    *)
(* overtake one another never store different records under one number,       *)
(* except the first records of an empty version 1.                            *)
VersionNamesRecords ==
    [][\A n \in Name : Exists(n) /\ datasets'[n] # NoDataset =>
          \/ /\ datasets[n].version <= datasets'[n].version
             /\ datasets[n].records \notin {"empty", datasets'[n].records} =>
                   datasets[n].version < datasets'[n].version
          \/ EditedWithoutLock(n)]_registryVars

(* The copy being committed restores a dataset, or branches one that was       *)
(* still branchable when the transaction of the copy selected it.              *)
WasBranchable(n) ==
    \E c \in Editor : /\ clients[c].new = n /\ clients'[c] = Idle
                      /\ \/ clients[c].op = "restore"
                         \/ clients[c].op = "branch"
                            /\ clients[c].seen \in Status \ NonBranchable

(* A dataset that is rejected or retired is not branched, not even by a       *)
(* request that saw it before (clone_dataset's require_branchable).  Only a    *)
(* copy whose transaction had selected it by then still commits.              *)
RuledOutIsNotBranched ==
    [][\A n \in Name : ~Exists(n) /\ datasets'[n].records # "empty"
                       /\ datasets'[n].parent # 0
                       /\ datasets[datasets'[n].parent].status \in NonBranchable =>
          WasBranchable(n)]_registryVars

(* What a validated dataset holds is what the gate has passed                  *)
(* (versioning.py: "VALIDATED requires DQS >= 0.85").                          *)
ValidatedPassesGate ==
    \A n \in Name :
        datasets[n].status \in Status \ {"DRAFT", "REJECTED"} =>
            Gate(datasets[n].records) = "VALIDATED"

(* A published dataset is frozen: it is deprecated, and nothing else happens  *)
(* to it (versioning.py: "PUBLISHED versions are immutable (frozen)").        *)
PublishedIsFrozen ==
    [][\A n \in Name : datasets[n].status = "PUBLISHED" =>
          /\ datasets'[n].status \in {"PUBLISHED", "DEPRECATED"}
          /\ datasets'[n].records = datasets[n].records]_registryVars
=============================================================================
