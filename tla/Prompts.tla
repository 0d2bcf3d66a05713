------------------------------ MODULE Prompts ------------------------------
(***************************************************************************)
(* Saved prompts: their versions and the label "production" in the store   *)
(* (EvaluationStore.save_prompt_version, move_prompt_label,                *)
(* archive_prompt_version, the listings), the page of one prompt           *)
(* (app/catalog/prompts/[id]/page.tsx) and the catalogue                   *)
(* (app/catalog/prompts/page.tsx).  Requests of the page and of other      *)
(* users run in transactions that read committed rows, so a write may      *)
(* stand on a read that is no longer true.                                 *)
(*                                                                         *)
(* A prompt is its place in the order of ids; text, name and note are left *)
(* out.  The two pages are two ways this browser may be used (view).       *)
(***************************************************************************)
EXTENDS Naturals, Sequences, SequencesExt, FiniteSetsExt

CONSTANTS
    Prompts,       \* how many prompts there may be
    Opened,        \* the prompt whose page is open
    PageSize,      \* PROMPT_PAGE_SIZE
    MaxAttempts,   \* _PROMPT_SAVE_ATTEMPTS, 8
    MaxVersions, MaxLoads, MaxActs \* bounds

PromptsAssumption ==
    /\ Prompts \in Nat \ {0} /\ Opened \in 1 .. Prompts /\ PageSize \in Nat \ {0}
    /\ MaxAttempts \in Nat \ {0} /\ MaxLoads \in Nat \ {0} /\ {MaxVersions, MaxActs} \subseteq Nat

VARIABLES
    catalog,  \* prompt -> its versions, in the order of their numbers
    label,    \* prompt -> the row of "production": version 0 when there is none
    ops,      \* the writes under way: the page's two, and the other users' one
    view,     \* the page on screen: "prompt" or "list"
    page,     \* the page of one prompt
    loads,    \* its reads under way
    list,     \* the catalogue
    pages,    \* its reads under way
    acts

promptVars == <<catalog, label, ops, view, page, loads, list, pages, acts>>

Prompt == 1 .. Prompts
Caller == {"change", "save", "other"}
NoOp == [kind |-> "none", prompt |-> Opened, version |-> 0, step |-> "none", row |-> 0, tries |-> 0]
Op == [kind: {"none", "save", "move", "archive"}, prompt: Prompt, version: Nat,
       step: {"none", "asked", "chosen", "read", "done", "failed"}, row: Nat, tries: 0 .. MaxAttempts]

Usable(p) == {v \in DOMAIN catalog[p] : ~catalog[p][v].archived}
\* list_prompt_ids: the prompts with a version that is not archived.
Ids == SelectSeq([p \in Prompt |-> p], LAMBDA p : Usable(p) # {})

Act == acts < MaxActs /\ acts' = acts + 1
Idle(c) == ops[c].kind = "none"
Ask(c, kind, p, v) ==
    ops' = [ops EXCEPT ![c] = [NoOp EXCEPT !.kind = kind, !.prompt = p, !.version = v, !.step = "asked"]]

-----------------------------------------------------------------------------
(* The store *)

At(c, kind, step) == ops[c].kind = kind /\ ops[c].step = step
Unread == UNCHANGED <<view, page, loads, list, pages, acts>>

\* save_prompt_version reads the highest number, archived versions included.
ReadHighest(c) ==
    /\ At(c, "save", "asked")
    /\ ops' = [ops EXCEPT ![c].version = Len(catalog[ops[c].prompt]) + 1, ![c].step = "chosen"]
    /\ UNCHANGED <<catalog, label>> /\ Unread

\* The primary key refuses a number that was taken meanwhile; the save reads again.
Taken(p, v) == v \in DOMAIN catalog[p]
InsertVersion(c) ==
    /\ At(c, "save", "chosen")
    /\ LET p == ops[c].prompt v == ops[c].version tries == ops[c].tries + 1 IN
       IF Taken(p, v)
       THEN /\ ops' = [ops EXCEPT ![c].tries = tries,
                                  ![c].step = IF tries = MaxAttempts THEN "failed" ELSE "asked"]
            /\ UNCHANGED catalog
       ELSE /\ ops' = [ops EXCEPT ![c].step = "done"]
            /\ catalog' = [catalog EXCEPT ![p] =
                  [w \in DOMAIN @ \cup {v} |-> IF w = v THEN [archived |-> FALSE, by |-> c] ELSE @[w]]]
    /\ UNCHANGED label /\ Unread

\* move_prompt_label: the version is read and must not be archived, then the
\* label's row is read, then one or the other is written.
ReadTarget(c) ==
    /\ At(c, "move", "asked")
    /\ ops' = [ops EXCEPT ![c].step =
                  IF ops[c].version \in Usable(ops[c].prompt) THEN "chosen" ELSE "failed"]
    /\ UNCHANGED <<catalog, label>> /\ Unread
ReadLabel(c) ==
    /\ At(c, "move", "chosen")
    /\ LET row == label[ops[c].prompt] IN
       ops' = [ops EXCEPT ![c].row = IF row.version = 0 THEN 0 ELSE row.id, ![c].step = "read"]
    /\ UNCHANGED <<catalog, label>> /\ Unread
\* An update of a row deleted meanwhile, or a second row for the label, fails.
PointLabel(c) ==
    /\ At(c, "move", "read")
    /\ LET p == ops[c].prompt
           now == IF label[p].version = 0 THEN 0 ELSE label[p].id IN
       IF ops[c].row # now
       THEN ops' = [ops EXCEPT ![c].step = "failed"] /\ UNCHANGED label
       ELSE /\ ops' = [ops EXCEPT ![c].step = "done"]
            /\ label' = [label EXCEPT ![p] =
                  [version |-> ops[c].version, id |-> IF now = 0 THEN @.id + 1 ELSE @.id]]
    /\ UNCHANGED catalog /\ Unread

\* archive_prompt_version: idempotent, with the label's row if it points here.
ArchiveVersion(c) ==
    /\ At(c, "archive", "asked")
    /\ LET p == ops[c].prompt v == ops[c].version IN
       /\ catalog' = [catalog EXCEPT ![p][v].archived = TRUE]
       /\ label' = IF label[p].version = v THEN [label EXCEPT ![p].version = 0] ELSE label
    /\ ops' = [ops EXCEPT ![c].step = "done"]
    /\ Unread

-----------------------------------------------------------------------------
(* Another user, one request at a time *)

OtherAsks ==
    /\ Idle("other") /\ Act
    /\ \E p \in Prompt :
         \/ Len(catalog[p]) < MaxVersions /\ Ask("other", "save", p, 0)
         \/ \E v \in Usable(p), kind \in {"move", "archive"} : Ask("other", kind, p, v)
    /\ UNCHANGED <<catalog, label, view, page, loads, list, pages>>
Answered(c) == ops[c].step \in {"done", "failed"}
OtherIsAnswered ==
    /\ Answered("other")
    /\ ops' = [ops EXCEPT !["other"] = NoOp]
    /\ UNCHANGED <<catalog, label>> /\ Unread

-----------------------------------------------------------------------------
(* The page of one prompt *)

\* leadVersion: production if it is listed, else the newest.
Rows == page.rows
Live == IF page.live \in DOMAIN Rows THEN page.live ELSE 0
Shown == IF page.open \in DOMAIN Rows THEN page.open ELSE IF Live # 0 THEN Live ELSE Len(Rows)
OnPrompt == view = "prompt"
NoDialog == page.confirm = 0 /\ ~page.form
\* While a load is under way a skeleton stands for the article.
Readable == OnPrompt /\ ~page.loading /\ Rows # <<>>
Load(owner) == loads' = Append(loads, [owner |-> owner, step |-> "asked", rows |-> <<>>, live |-> 0])
Kept == UNCHANGED <<catalog, label, view, list, pages>>

\* Refresh, or Retry.
Refresh ==
    /\ OnPrompt /\ Act /\ NoDialog /\ ~page.loading /\ Len(loads) < MaxLoads
    /\ page' = [page EXCEPT !.loading = TRUE, !.error = FALSE]
    /\ Load("none") /\ Kept /\ UNCHANGED ops

\* list_prompt_versions reads the rows, and then the labels.
ReadRows(i) ==
    /\ loads[i].step = "asked"
    /\ loads' = [loads EXCEPT ![i].rows = [v \in DOMAIN catalog[Opened] |-> catalog[Opened][v].archived],
                              ![i].step = "rows"]
    /\ Kept /\ UNCHANGED <<ops, page, acts>>
ReadLabels(i) ==
    /\ loads[i].step = "rows"
    /\ loads' = [loads EXCEPT ![i].live = label[Opened].version, ![i].step = "answered"]
    /\ Kept /\ UNCHANGED <<ops, page, acts>>

\* finally: the lock of the action that awaited this load is let go with it.
LetGo(owner) == [page EXCEPT !.busy = IF owner = "change" THEN FALSE ELSE @,
                             !.saving = IF owner = "save" THEN FALSE ELSE @]
LoadReturns(i) ==
    /\ loads[i].step = "answered"
    /\ page' = [LetGo(loads[i].owner) EXCEPT !.loading = FALSE,
                   !.rows = loads[i].rows, !.live = loads[i].live]
    /\ loads' = RemoveAt(loads, i) /\ Kept /\ UNCHANGED <<ops, acts>>
LoadFails(i) ==
    /\ page' = [LetGo(loads[i].owner) EXCEPT !.loading = FALSE, !.error = TRUE]
    /\ loads' = RemoveAt(loads, i) /\ Kept /\ UNCHANGED <<ops, acts>>

OpenVersion(v) ==
    /\ Readable /\ NoDialog /\ Act
    /\ v \in DOMAIN Rows \ {Shown}
    /\ page' = [page EXCEPT !.open = v]
    /\ Kept /\ UNCHANGED <<ops, loads>>

\* Make production, and Archive behind its dialog: one of them at a time.
MayChange == ~page.busy
Manageable == Readable /\ ~Rows[Shown]
Promote ==
    /\ Manageable /\ NoDialog /\ Act /\ MayChange
    /\ Live # Shown
    /\ page' = [page EXCEPT !.busy = TRUE, !.error = FALSE]
    /\ Ask("change", "move", Opened, Shown) /\ Kept /\ UNCHANGED loads
AskToArchive ==
    /\ Manageable /\ NoDialog /\ Act /\ MayChange
    /\ page' = [page EXCEPT !.confirm = Shown]
    /\ Kept /\ UNCHANGED <<ops, loads>>
ConfirmArchive ==
    /\ OnPrompt /\ page.confirm # 0 /\ MayChange
    /\ page' = [page EXCEPT !.busy = TRUE, !.error = FALSE]
    /\ Ask("change", "archive", Opened, page.confirm) /\ Kept /\ UNCHANGED <<loads, acts>>
CancelArchive ==
    /\ OnPrompt /\ page.confirm # 0 /\ ~page.busy
    /\ page' = [page EXCEPT !.confirm = 0]
    /\ Kept /\ UNCHANGED <<ops, loads, acts>>
ChangeIsAnswered ==
    /\ OnPrompt /\ Answered("change")
    /\ IF ops["change"].step = "done"
       THEN /\ Len(loads) < MaxLoads
            /\ page' = IF ops["change"].kind = "archive"
                       THEN [page EXCEPT !.confirm = 0, !.open = 0, !.loading = TRUE, !.error = FALSE]
                       ELSE [page EXCEPT !.loading = TRUE, !.error = FALSE]
            /\ Load("change")
       ELSE page' = [page EXCEPT !.error = TRUE, !.busy = FALSE] /\ UNCHANGED loads
    /\ ops' = [ops EXCEPT !["change"] = NoOp] /\ Kept /\ UNCHANGED acts

\* New version stays within reach during a load, Edit does not.
OpenForm ==
    /\ OnPrompt /\ Rows # <<>> /\ NoDialog /\ Act
    /\ page' = [page EXCEPT !.form = TRUE]
    /\ Kept /\ UNCHANGED <<ops, loads>>
CloseForm ==
    /\ OnPrompt /\ page.form
    /\ page' = [page EXCEPT !.form = FALSE]
    /\ Kept /\ UNCHANGED <<ops, loads, acts>>
SaveVersion ==
    /\ OnPrompt /\ page.form /\ ~page.saving /\ Len(catalog[Opened]) < MaxVersions
    /\ page' = [page EXCEPT !.saving = TRUE]
    /\ Ask("save", "save", Opened, 0) /\ Kept /\ UNCHANGED <<loads, acts>>
SaveIsAnswered ==
    /\ OnPrompt /\ Answered("save")
    /\ IF ops["save"].step = "done"
       THEN /\ Len(loads) < MaxLoads
            /\ page' = [page EXCEPT !.form = FALSE, !.open = 0, !.loading = TRUE, !.error = FALSE]
            /\ Load("save")
       ELSE page' = [page EXCEPT !.saving = FALSE] /\ UNCHANGED loads
    /\ ops' = [ops EXCEPT !["save"] = NoOp] /\ Kept /\ UNCHANGED acts

-----------------------------------------------------------------------------
(* The catalogue: whole prompts, a page at a time *)

OnList == view = "list"
ListKept == UNCHANGED <<catalog, label, view, page, loads>>
\* early is history: the cursor is of a list that a load under way will replace.
IsCurrent(read) == read.generation = list.generation
Replacing == \E i \in DOMAIN pages : ~pages[i].more /\ IsCurrent(pages[i])
AskPage(more, save) ==
    pages' = Append(pages, [more |-> more, save |-> save, generation |-> list'.generation,
                            early |-> more /\ Replacing, answered |-> FALSE,
                            offset |-> IF more THEN list.cursor ELSE 0, ids |-> <<>>])

\* Every fresh load is a generation of its own.
FreshList == [list EXCEPT !.loading = TRUE, !.generation = @ + 1]
RefreshList ==
    /\ OnList /\ Act /\ ~list.loading /\ Len(pages) < MaxLoads
    /\ list' = FreshList /\ AskPage(FALSE, FALSE)
    /\ ListKept /\ UNCHANGED ops
LoadMore ==
    /\ OnList /\ Act /\ ~list.loading /\ ~list.more /\ list.cursor # 0 /\ Len(pages) < MaxLoads
    /\ list' = [list EXCEPT !.more = TRUE] /\ AskPage(TRUE, FALSE)
    /\ ListKept /\ UNCHANGED ops
PageIsRead(i) ==
    /\ ~pages[i].answered
    /\ pages' = [pages EXCEPT ![i].ids = Ids, ![i].answered = TRUE]
    /\ ListKept /\ UNCHANGED <<list, ops, acts>>

\* An answer that was overtaken is dropped, and yet its finally lets go: a fresh
\* load ends "loading" though the one that overtook it is still under way.
Window(read) == SubSeq(read.ids, read.offset + 1, Min({read.offset + PageSize, Len(read.ids)}))
NextCursor(read) == IF read.offset + PageSize < Len(read.ids) THEN read.offset + PageSize ELSE 0
Items(read) == [k \in DOMAIN Window(read) |-> [prompt |-> Window(read)[k], ids |-> read.ids]]
Settled(read) ==
    IF read.more THEN [list EXCEPT !.more = FALSE]
    ELSE [list EXCEPT !.loading = FALSE, !.saving = @ /\ ~read.save]
PageReturns(i) ==
    /\ pages[i].answered
    /\ list' = IF IsCurrent(pages[i])
               THEN [Settled(pages[i]) EXCEPT
                       !.items = IF pages[i].more THEN @ \o Items(pages[i]) ELSE Items(pages[i]),
                       !.cursor = NextCursor(pages[i]),
                       !.early = pages[i].more /\ (@ \/ pages[i].early)]
               ELSE Settled(pages[i])
    /\ pages' = RemoveAt(pages, i) /\ ListKept /\ UNCHANGED <<ops, acts>>
PageFails(i) ==
    /\ list' = Settled(pages[i])
    /\ pages' = RemoveAt(pages, i) /\ ListKept /\ UNCHANGED <<ops, acts>>

SavePrompt(p) ==
    /\ OnList /\ Act /\ ~list.saving /\ Len(catalog[p]) < MaxVersions
    /\ list' = [list EXCEPT !.saving = TRUE]
    /\ Ask("save", "save", p, 0) /\ ListKept /\ UNCHANGED pages
SavePromptIsAnswered ==
    /\ OnList /\ Answered("save")
    /\ IF ops["save"].step = "done"
       THEN /\ Len(pages) < MaxLoads
            /\ list' = FreshList /\ AskPage(FALSE, TRUE)
       ELSE list' = [list EXCEPT !.saving = FALSE] /\ UNCHANGED pages
    /\ ops' = [ops EXCEPT !["save"] = NoOp] /\ ListKept /\ UNCHANGED acts

-----------------------------------------------------------------------------
PromptsInit ==
    /\ catalog = [p \in Prompt |-> <<[archived |-> FALSE, by |-> "other"]>>]
    /\ label = [p \in Prompt |-> [version |-> 0, id |-> 0]]
    /\ ops = [c \in Caller |-> NoOp]
    /\ view \in {"prompt", "list"}
    /\ page = [loading |-> TRUE, rows |-> <<>>, live |-> 0, error |-> FALSE, open |-> 0,
               confirm |-> 0, form |-> FALSE, busy |-> FALSE, saving |-> FALSE]
    /\ loads = IF OnPrompt THEN <<[owner |-> "none", step |-> "asked", rows |-> <<>>, live |-> 0]>>
               ELSE <<>>
    /\ list = [loading |-> TRUE, items |-> <<>>, cursor |-> 0, generation |-> 1, more |-> FALSE,
               saving |-> FALSE, early |-> FALSE]
    /\ pages = IF OnList THEN <<[more |-> FALSE, save |-> FALSE, generation |-> 1, early |-> FALSE,
                                 answered |-> FALSE, offset |-> 0, ids |-> <<>>]>>
               ELSE <<>>
    /\ acts = 0

PromptsNext ==
    \/ \E c \in Caller : \/ ReadHighest(c) \/ InsertVersion(c)
                         \/ ReadTarget(c) \/ ReadLabel(c) \/ PointLabel(c) \/ ArchiveVersion(c)
    \/ OtherAsks \/ OtherIsAnswered
    \/ \E i \in DOMAIN loads : ReadRows(i) \/ ReadLabels(i) \/ LoadReturns(i) \/ LoadFails(i)
    \/ Refresh \/ Promote \/ AskToArchive \/ ConfirmArchive \/ CancelArchive \/ ChangeIsAnswered
    \/ \E v \in DOMAIN Rows : OpenVersion(v)
    \/ OpenForm \/ CloseForm \/ SaveVersion \/ SaveIsAnswered
    \/ RefreshList \/ LoadMore \/ SavePromptIsAnswered
    \/ \E i \in DOMAIN pages : PageIsRead(i) \/ PageReturns(i) \/ PageFails(i)
    \/ \E p \in Prompt : SavePrompt(p)

PromptsSpec == PromptsInit /\ [][PromptsNext]_promptVars

-----------------------------------------------------------------------------
\* The state stays in its types.
PromptsTypeOK ==
    /\ \A p \in Prompt : /\ DOMAIN catalog[p] = 1 .. Len(catalog[p])
                         /\ ToSet(catalog[p]) \subseteq [archived: BOOLEAN, by: Caller]
                         /\ label[p].version \in 0 .. Len(catalog[p])
    /\ \A c \in Caller : ops[c] \in Op
    /\ view \in {"prompt", "list"} /\ Shown \in {0} \cup DOMAIN catalog[Opened]
    /\ Len(loads) <= MaxLoads /\ Len(pages) <= MaxLoads

\* A save that is answered as saved has a version of its own, though others saved
\* the same prompt between its read of the highest number and its insert
\* (save_prompt_version, "N contenders serialise into N versions").
SavesKeepTheirNumber ==
    \A c \in Caller : At(c, "save", "done") => catalog[ops[c].prompt][ops[c].version].by = c

\* A button is only blocked while what it waits for is under way: the write, or
\* the load after it (the finally of promote, archiveVersion, saveVersion, savePrompt).
LocksHaveAReason ==
    /\ page.busy => ~Idle("change") \/ \E i \in DOMAIN loads : loads[i].owner = "change"
    /\ page.saving => ~Idle("save") \/ \E i \in DOMAIN loads : loads[i].owner = "save"
    /\ list.saving => ~Idle("save") \/ \E i \in DOMAIN pages : pages[i].save
    /\ OnPrompt /\ page.loading => loads # <<>>
    /\ OnList /\ list.loading => \E i \in DOMAIN pages : ~pages[i].more
    /\ list.more => \E i \in DOMAIN pages : pages[i].more

\* Read while nobody changed the catalogue, its pages follow each other without a
\* gap and without a prompt twice, whatever Refresh overtook (loadGeneration).
\* Except that a page asked for while a newer load is under way goes on from the
\* old cursor and carries the new generation: it may leave a gap.
ListIsWhole ==
    (~list.early /\ \A k \in DOMAIN list.items : list.items[k].ids = list.items[1].ids) =>
       \A k \in DOMAIN list.items : list.items[k].prompt = list.items[1].ids[k]

PromptsAreTrue == SavesKeepTheirNumber /\ LocksHaveAReason /\ ListIsWhole

\* The page sends one change at a time: a write under way is never replaced by
\* another (the promoting and archiving locks).
OneChangeAtATime ==
    \A c \in {"change", "save"} : (ops[c].kind # "none" /\ ~Answered(c)) =>
        ops'[c].kind = ops[c].kind /\ ops'[c].prompt = ops[c].prompt

\* "a retired version must not still be somebody's `production`"
\* (EvaluationStore.archive_prompt_version).
RetiredIsNotProduction ==
    \A p \in Prompt : label[p].version # 0 => label[p].version \in Usable(p)
=============================================================================
