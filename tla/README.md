# firebin-api in TLA+

FireBin is an inventory server for electronic parts: a Go HTTP API over Postgres,
with a background job processor, a label printer, a KiCad parts library and an
assistant that calls language models. This directory models the parts of it whose
correctness depends on the order things happen in, checks the models with TLC on
small instances and proves the main invariants with TLAPS for all instances.

Paths below are relative to the repository; `MC*.tla` and `*.cfg` instantiate a
module for TLC, `*Proofs.tla` holds its theorems.

## The system

| Component | Where | State | Operations | What is hard |
|---|---|---|---|---|
| Job processor | `internal/jobs`, `handlers/tasks.go`, `handlers/*jobs*.go`, `docs/JOB_PROCESSOR.md` | `tasks` rows, River's `river_job` rows, worker contexts, the cancel registry, the sweep's list | enqueue, retry, run, progress, cancel, reconcile, prune | two stores of one fact; crash between two writes; cancel against fetch; stale sweep; ignored errors |
| Stock | `repository/stock.go`, `handlers/stock*.go`, `handlers/bulk.go` | `stock_items`, `stock_transactions`, `parts.reference_only` | adjust, move, consolidate, split, merge, relocate, clear | READ COMMITTED with row locks; lock order; the log must agree with the quantity |
| Parts and catalogue | `repository/part*.go`, `catalog.go`, `category.go`, `location.go`, `handlers/parts.go` | `parts`, parameters, manufacturer and supplier parts, categories, locations | CRUD, PATCH as read-modify-write, delete with cascades, search | lost updates; the count before a delete; lists that must agree |
| Tags | `repository/tag.go`, `internal/tags` | `tags`, `part_tags` | create, set, rename, merge, suggest | merge against set, in several statements |
| Datasheets | `internal/datasheets`, `repository/datasheet.go`, `handlers/datasheets*.go` | content-addressed files, `datasheets`, links, extracted text | upload, mirror, link, delete, extract | file and row in two stores |
| Projects and BOMs | `repository/project.go`, `handlers/projects.go`, `internal/picklist` | projects, boards, lines, match rules, assets | import, edit, match, rematch, pick | matched, then written; requests of many statements |
| KiCad files | `internal/kicad/*.go` | none | parse archives, schematics, boards, tables; render | one project found by five functions; sheets and panels counted |
| KiCad library | `repository/kicad_library*.go`, `handlers/kicad_*.go`, `internal/kicad/httplib` | stored sources and drawings, the served snapshot, workstation tokens | upload, scan, draw, rename, serve, suggest | rebuild and drawing against edits |
| Accounts | `handlers/auth.go`, `users.go`, `tokens.go`, `repository/user.go`, `token.go`, `middleware/*auth.go` | `users`, refresh tokens, API tokens | register, sign in, refresh, log out, role and status changes | rotation races, last administrator |
| Assistant | `internal/assistant`, `repository/assistant.go`, `handlers/conversations.go`, `assistant*.go` | conversations, messages, runs | turn, tool rounds, stream, trim | turns side by side, a turn cut off half way, damaged calls |
| AI providers | `internal/ai`, `handlers/ai_settings.go` | registry, stored configuration | complete, stream, record, configure | three dialects of one reply; configuration in pieces |
| Enrichment | `handlers/enrich.go`, `internal/providers` | `enrichment_cache`, supplier parts and prices | look up, merge, apply | precedence of sources, units, prices |
| Events | `internal/events`, `handlers/events.go` | subscriber channels | subscribe, publish | full channels, signals before the first load |
| Backup | `repository/backup.go`, `handlers/backup.go` | none of its own | export, import | export is not one snapshot |
| Labels | `internal/labels`, `repository/label_*.go`, `handlers/*labels.go` | media, templates | lay out, place, print, search sheets | used cells, several sheets, small labels |
| Units, barcodes, tag dictionary | `internal/units`, `internal/barcode`, `internal/tags` | none | parse, match, suggest | many spellings of one thing |
| Settings, statistics | `repository/settings.go`, `stats.go`, their handlers | `instance_settings` | save, load, count | saves that overlap; numbers against lists |
| Process | `cmd/api/main.go`, `internal/db`, `config`, `api/router.go`, `middleware` | connection pool | start, drain, stop | shutdown order |

Handlers run in goroutines of one process and share nothing but Postgres, the file
store, the event broker, the cancel registry, the provider registry and the KiCad
snapshot. Handlers start jobs (`jobs.Service.Enqueue`), jobs write parts and datasheets
through the same repositories, and both publish events after they commit.

What makes each component correct:

- Jobs. What a client sees as finished is over; every task gets finished; a cancel that got
  through is final; no job runs more often than its cap, through crashes and rescues.
- Stock. A lot's quantity is the sum of its log; nothing but a receipt or a removal makes or
  loses stock; a lot that holds something is not cleared away; locks taken in opposite orders
  end in an answer.
- Accounts. An instance that has accounts has somebody who can administer it; a sign-in has one
  refresh token, and what was revoked opens nothing.
- Datasheets. A row has its file; a file under its hash is complete; the same bytes have one
  row; a document that waits for extraction has somebody working on it; what a person typed is
  not replaced.
- Catalogue and tags. A part keeps the category it was filed under and exactly the tags it was
  given, a merged tag's under the surviving name.
- Projects. A rule reaches every line of its identity, and only those; a file replaces the one
  before it.
- KiCad. A bill has what the files draw; KiCad sees the parts there are, under their categories,
  and drawings of the sources there are.
- Assistant. A conversation is whole turns in one order; what a provider is sent it can accept;
  a turn's cost is recorded; a call is made as what it was meant to be.
- Enrichment, units, labels, lists. What one piece of code writes another reads as the same.
- Settings. What is stored is what is used.
- Backup. What an export wrote, an import accepts.
- Events. A view that shows what is no more so is told.

## Modules

### Jobs

`Jobs.tla` follows one task from `Enqueue` to its end. A task is a row
(`status`, `finished`, `attempt`, `maxAttempts`, `origin`, `stale`) and a River job
(`river`, `tries`, `cancelAsked`); both survive a crash. The worker (`pc`,
`verdict`, `ctxDone`), the cancel handler (`cancelPc`) and the sweep (`todo`,
`doomed`) do not.

| Action | Code |
|---|---|
| `Enqueue`, `RetryTask` | `Service.Enqueue`, one transaction; `RetryTask` reads no status |
| `Fetch`, `RiverFinish`, `Rescue`, `JobCancel`, `RiverNotify` | River, from how it is used |
| `StartRun`, `Register` | `MarkRunning`, then `cancels.add` |
| `Progress`, `BodyReturnsNil`, `BodyReturnsError` | the worker's body |
| `Judge`, `WriteVerdict` | the `switch` of `Deps.Run`; the terminal write |
| `RequestCancel`, `SignalWorker`, `CancelInRiver` | the three steps of `Service.Cancel` |
| `FindStuck`, `RiverJobLive`, `FailStuck` | the three steps of `reconcileOnce` |
| `ClearFinished` | `DELETE /tasks` and the hourly prune |
| `Crash` | the process dies: everything in memory is gone |

A database call whose error the code drops takes an `ok` argument: with `ok` false
it does not happen, and the fault budget shrinks. `past` records what happened to a
task, so that properties can name the exceptions they make.

Abstracted: log lines, results, progress counts and events; the four queues (tasks of
one queue are modelled, with its number of workers); time, except that a row that
nobody writes may become older than the sweep's two minutes (`Age`).

### StockLots

`StockLots.tla` runs the operations of `StockRepo` as READ COMMITTED transactions.
`Begin` takes the snapshot of a `SELECT ... FOR UPDATE`, `LockRow` locks the next row
of it - waiting while another transaction holds it and looking at it again afterwards,
as Postgres does - and `SelectSecond` starts the second SELECT of the operations that
have one. The `Commit*` actions write and commit: a transaction's own writes are seen by
nobody else before that, and every row it writes it has locked. The search for a
destination after the source was written is the one place where a transaction reads its
own write (`DestQty`). `Abandon` and `BreakDeadlock` roll back.

Nothing keeps a quantity from going below zero: `adjust` takes a signed number, `add` and `count` a
negative one, unchecked (handlers/stock.go:94-113, stock_lots.go:220-226), and no constraint of the table
forbids it. `BelowZeroAsAsked` says that it takes such a request, or a merge of a lot that is there already:
removals, moves and splits never overdraw.

Row ids are numbers in the order of `added_at`. A new lot takes the next one. The PATCH
of a part (`ReadPart`, `UpdatePart`) is here for its effect on `reference_only`.

Abstracted: batch, serial, price and status; barcode and name, except whether there is
one; notes and users. Quantities are whole numbers (the column has four decimals).
Deleting a part or a location is not modelled.

Each writing operation of `StockRepo` has its action: `Adjust` (`CommitAdjust`), `AdjustLot`,
`Move`, `MovePartToLocation` (`CommitMovePart`, `NothingToMove`), `SplitLot`, `MergeLot`,
`Relocate`, `DeleteEmptyLots`; the errors of each are `Refuse`. `Total` is what the lots of a part hold
together: sums over lots are recursive functions of how many lots one has looked at (`Sums`), so that
there are theorems about them.

### Accounts

`Accounts.tla` runs the requests of `handlers/auth.go` and `users.go` that write the `users`
table. There is no transaction in them: a request is the sequence of its statements, and
others may run between any two.

| Action | Code |
|---|---|
| `Register`, `Insert` | `Register`: `Count`, then the `INSERT`; `CreateUser` ends in the same `Insert` |
| `Admit` | `middleware.Auth` and `RequireAdmin`: the caller's row is read once, before the handler |
| `Load`, `Guard` | `GetByID` of the target and, if the request takes an active administrator away, `CountAdmins` |
| `Update`, `Delete` | the write, which looks at nothing again |
| `Confirm`, `SetPassword` | `ChangeMyPassword` and `ResetUserPassword` |

`crossed` records the requests whose reading another one's write has overtaken. A password
is the number of times it was set. Names and hashes are left out, except that a name may be
taken. Sessions and tokens are in `Sessions`.

### Datasheets

`Datasheets.tla` has two stores: files (`file`, `text`, by the hash of the PDF) and rows
(`row`). A request (`proc`) stores or deletes a document, a worker extracts text. Every
statement and every file operation is a step; the process may die between any two.

| Action | Code |
|---|---|
| `Stat`, `WriteTemp`, `Rename` | `Store.Put` |
| `Create`, `Link`, `EnqueueExtraction` | the rest of `UploadDatasheet` and of the mirror job's `Work` |
| `DeleteRow`, `RemoveSidecar`, `RemovePDF` | `DeleteDatasheet`, `Store.Delete` |
| `SetTitle` | the PATCH of a title; `null` and spaces clear it |
| `ExtractDatasheetText` | the request to extract one document, or all pending ones |
| `Take`, `Get`, `Read`, `Truncate`, `Fill`, `FillTitle`, `Record` | `datasheetExtractWorker.Work` |
| `Crash` | the process dies; River may run an extraction again |

`overlapped` records the contents that were stored and deleted at the same time, `lost` the
rows whose extraction a dropped error or a crash took away. What extraction finds in a
document is a constant (`Content`). Extraction is taken to be turned on
(`datasheets.extract_text`); links to parts matter only where a failed one ends a request.

### Inventory

What stock promises without transactions or locks: one variable (`stock`, the lots there are) and
eight operations, each on the lots as they are at that moment. `StockLots` implements it
(`KeepsInventory`) with `stock` the rows that exist; an operation happens at the commit of its
transaction. What Postgres does not promise is left open: READ COMMITTED hides a lot that another
transaction is about to insert, so what arrives may go into a lot of its own although there is one
at the place, and what is moved or cleared may miss the latest lot.

### TaskLifecycle

What a client may rely on, in seven small actions: a task is open until it settles once; it is
attempted only while it is open, at most `cap` times and never once it was stopped; only what has
settled is cleared. A task the process lost hold of (`loose`: it died between two writes, or asked
River in vain) is the one exception. `Jobs` implements it (`KeepsPromise`), with
`phase` read off the row, `cap` and `runs` off River's job, `stopped` and `loose` off `past`.

### Transcripts

What those who talk to the assistant may rely on, without providers, tools or rows: a turn is asked in a
conversation, and then told once, whole, at one moment and on the end of what the conversation says, or
lost; what was said stays as it was said, and a conversation goes as a whole. `Assistant` implements it
(`KeepsTranscripts`), with `log` the stored rows of each conversation in their order and `fate` read off
where a turn is: it is told at the commit of `AppendMessages`, and lost with whatever fails before.

### Projects

`Projects.tla` runs requests about the boards of one project. No transaction spans a
request, except that a board's lines are replaced in one; every statement is a step.

| Action | Code |
|---|---|
| `BeginImport`, `CreateBoard`, `MatchLine`, `ReplaceBOMLines`, `ExtractAssets`, `CreateBlankBoard` | `CreateBoard`: the board, the match of each line, the lines, the attachments |
| `BeginLine`, `ApplyMatch`, `ResolveLine`, `WriteLine` | `AddBOMLine`, `UpdateBOMLine` |
| `BeginSetProjectMatch`, `SetProjectMatch` | a rule set or removed by itself |
| `ListBoards`, `ListLines`, `Rematch`, `SetLineMatch` | `rematchProject` |
| `DeleteBOMLine`, `DeleteBoard`, `DeletePart`, `DeleteAsset` | one statement and its cascades |
| `BeginUploadBoardAsset`, `DeleteBoardAssetsOfKind`, `AttachAsset` | `UploadBoardAsset` |
| `BeginCover`, `CreateCover`, `SetProjectCover`, `ClearCover`, `DropOldCover` | `UploadProjectCover`, `RemoveProjectCover` |

Which part a line gets is `resolveMatch` of `Matching.tla`, over a catalogue the instance gives. Its lookups
may fail, the first few of them (`Failing`); their errors are dropped, so one that failed found nothing. All
the interactive BOMs of an imported zip are attached (`iboms`). `missed` records the identities of
which a line may have missed the rule, since two requests met or a statement failed, and `torn` the
boards whose attachments two requests replaced at once.

### Matching, KicadFiles, Sorting

Operators. `Matching.tla` has the ladder from a BOM line to a part (own number, rule, manufacturer's
number, supplier's number, value and footprint, tag) and the pick list. Where a query takes one of
several rows without an order, an operator gives the set of rows it may take. `KicadFiles.tla` has
the way from an uploaded file to lines: s-expressions, components, grouping, spreadsheets,
archives, sheet hierarchies, panels, attachments. `Sorting.tla` is Go's stable insertion sort.

### Catalogue

`Catalogue.tla` has four tables (`part`, `tag`, `cat`, `links`) under concurrent requests. Merging tags
and replacing a part's tags are transactions; what they have inserted and deleted (`ins`, `del`) is seen
when they commit, and `Waits` says for whom a statement waits: key conflicts and foreign keys, as
Postgres does. `Deadlock` ends one of a circle.

| Action | Code |
|---|---|
| `CreateTag`, `UpdateTag`, `DeleteTag` | one statement each; links go by cascade |
| `BeginMerge`, `CopyLinks`, `DropMerged`, `CommitMerge` | `MergeTag`, `TagRepo.Merge` |
| `BeginPartTags`, `Resolve`, `ReplaceTags`, `InsertTags`, `CommitTags`, `RemovePartTags` | `SetPartTags`, `AddPartTags` and taking off: names to ids in one transaction, links in another |
| `CreateCategory`, `UpdateCategory`, `CountParts`, `DeleteCategory` | the count and the delete are two statements |
| `CreatePart`, `ReadPart`, `WritePart`, `DeletePart` | a PATCH and an enrichment read the whole part and write it whole |
| `BeginExport`, `ExportTable`, `FinishExport`, `ImportAll` | table after table; the import is one transaction |

`owed` and `home` are what requests asked for, `crossed` in which respect two have met.

### Library and Snapshot

`Library.tla` has the uploaded KiCad sources (`items`): `UploadBatch`, `FinishScan`,
`RenameLibrary`, `DeleteItems`, and a reader's `GetDrawing`, `ReadSource`, `ReadBase` (one ancestor of a
symbol per statement), `MissBase` (an ancestor that cannot be read is taken for one that is not there),
`SaveDrawing`, which saves by name, and `GiveUp`. `raced` are the items that were changed, or an ancestor of
theirs, while they were drawn or since, `cut` those that were drawn without an ancestor that could not be
read. `Snapshot.tla` builds what KiCad is
served (`snap`) from the tables of `Catalogue`: `ReadCategories`, `ReadIdentities`, then part by part
`ReadDetail` or `SkipDetail`, then `Swap`; `FailRefresh` keeps the old one.

### Sessions

`Sessions.tla` has the tokens of sign-ins (rotating refresh tokens), of the API and of KiCad
workstations. `Login`, `BeginRefresh`, `Rotate`, `LoadUser`, `IssueTokens`, `Logout` are `handlers/auth.go`
statement by statement, `Create`, `Revoke`, `Purge` the tokens made by hand, `Arrive`,
`Authenticate`, `RequireUser`, `RequireKicad` the middleware. `SetActive`, `DeleteUser`,
`SwitchLibrary` and `Expire` happen meanwhile. Access tokens are stateless and appear only as what
opens a route.

### Settings

`Settings.tla` has the stored rows (`store`) and what the process uses (`live`). `UpdateAISettings`
loads, merges, saves and applies in steps (`LoadConfig`, `SaveConfig`, `ConfigureSecret`,
`ConfigurePlain`, `SaveActive`, `SetActive`); the pages whose errors are dropped are `UpdateRow`, `SaveRow`
and `AnswerRow`; `ImportData`, `Replace`, `Reload` and `Restart` load everything again; `Talk` is a turn
that reads its provider's fields one by one.

### Assistant

`Assistant.tla` runs questions: `SendMessage` (streamed or not), then per round `CallsTools`, `RunTools`,
`StrayCall`, `Unparsed`, `UselessReply`, `ProviderFails` or `Answers`, then `RecordRun`, and
`AppendMessages` as its statements (`ReadNext`, `InsertMessages`, `Commit`). `Leave` is the client that
goes away, `DeleteConversation` another request. `trimHistory` is what is cut from a transcript
before it is sent: old results become stubs, then old messages go.

### Events

`Events.tla` has the broker's channels (`chan`), handlers that change several resources and publish
afterwards (`Handle`, `Publish`), streams (`Subscribe`, `Deliver`, `Unsubscribe`) and, external, a view that
loads what it is told of (`Load`). `unsaid` records the changes nobody told a view.

### The other operators

| Module | What it is of |
|---|---|
| `ToolCalls` | the tools there are, which tool a damaged call means (`stray.go`), pages and snippets of a datasheet |
| `Chat` | requests to, and whole and streamed replies of, the three dialects; errors; prices |
| `Labels` | which label goes where, what an element says, the built-in layout, the catalogue of sheets |
| `Quantities` | a value with a unit normalised, compared, printed, split, found |
| `Enrichment` | tokens, offers, prices, the merge of several distributors' answers, supplier parts |
| `Chooser` | a part as KiCad's chooser sees it, symbols and tags proposed |
| `Barcodes` | the codes on distributors' bags |
| `Listing` | list, parametric search, low stock, the dashboard's numbers, how complete a board is |

A text is a sequence of tokens, or a model value where nothing looks inside it.

### How they are put together for TLC

`MCServices` has six services side by side: `Catalogue` with `Snapshot` (which share `part` and `cat`: a
snapshot is built while requests edit), `Library`, `Sessions`, `Settings`, `Assistant` and `Events`. They share no state, so a behaviour is of one of them (`running`) and the others stay
as they begin: one run, and no product of state spaces.

`Cases` asks a pure operator a question: a state is the name of the question and one input, and the
property compares the operator with a reference definition. `MCAlgorithms` asks about the
assistant's tools and joins the questions of `MCFiles`, `MCChat`, `MCLabels` and `MCParts`.

## Runs

| Run | Instance | Shows |
|---|---|---|
| `jobs_safety` | one task, 1 to 3 attempts, 2 crashes, 2 lost calls; or two calm tasks | the safety properties of `Jobs` |
| `jobs_settle` | one task, 2 attempts, 1 crash, 1 lost call | every task is eventually finished; `Jobs` implements `TaskLifecycle` |
| `stock_ledger` | 4 lots, 20 kinds of request, 4 of them, 2 at a time | quantity and log, conservation, what takes a lot below zero, clearing; `StockLots` implements `Inventory` |
| `stock_end` | 3 transactions at once that lock in opposite orders | `RequestsEnd` |
| `accounts` | 3 users in every mix of roles, 3 requests | losing the last administrator takes two overlapping requests |
| `accounts_lockout` | 2 users, 2 requests | (violated) two removals at once leave nobody |
| `datasheets` | 1 content, 2 rows; 3 requests, or 2 and a worker; a crash, a failing call | files, rows, titles and the cause of a pending document (types are proved only) |
| `datasheets_read` | 1 content that is a scan, 2 rows, 2 requests, 1 worker, a failing call | `GetsRead`: pending documents get read |
| `datasheets_row_file` | 3 requests, nothing fails | (violated) a row without its file |
| `projects` | 2 boards, 2 lines, 2 parts; 3 requests about lines, or 2 of any kind and a failure | rules reach their lines; what replaces an attachment leaves none of what it replaced |
| `services` | six services, one at a time | tags and categories as asked, exports that restore, drawings and snapshots, sessions, settings, conversations, signals; `Assistant` implements `Transcripts` |
| `algorithms` | 39 questions about pure operators, 174,914 inputs | bills, calls, replies, labels, values, bags and lists against reference definitions |

What the properties of the last three mean:

- `RulesReachLines`: when nothing is running, a matched line of an identity with a rule has the rule's
  part, unless a change of that rule raced with something or gave up half way, or the rule could not be
  looked up (`missed`).
- `AttachmentsReplaced`: the interactive BOMs of a board came with one request, an upload's one or the
  several of one zip, and there is one image per cover.
- `KeptAsAsked`, `ExportRestores`: links and categories are what was asked last, and every row of a finished
  export refers to rows in it, except after meetings that `crossed` names.
- `LibraryServed`: a snapshot lists each part under its category, no part that is gone and no empty
  category; a kept drawing is the one the stored sources give, except of items in `raced` or `cut`.
- `SessionsEnd`: a sign-in has one working refresh token at a time and none after logout; what was revoked
  before a request came does not serve it; each kind of token opens its own routes.
- `SettingsLive`: outside a save, the process uses what is stored; an answer that says saved is true; and
  a field that a save does not have, or a secret it sends back as its mask, is after it as it was before
  it: unless two requests met.
- `TranscriptsWhole`, `RequestsPaired`, `SpendAndScreen`: a stored conversation is whole turns, in order,
  without gaps; every call a provider is sent is answered by the next message; a finished turn is on record
  and shows its own words.
- `SignalsArrive`: a view that is out of date has a signal ahead, unless the change was not published or
  its signal was dropped with no other of its resource in the channel.
- `BillsMatched`, `ToolsUnderstood`, `ModelsHeard`, `LabelsPrinted`, `PartsUnderstood`: conjunctions of the
  answers to the questions of `MCFiles`, `MCAlgorithms`, `MCChat`, `MCLabels` and `MCParts`, of which
  each is stated and explained there; `PROJECT.json` has a mutant for most of them.

### Bounds, and why they are enough

Jobs. One task shows every interleaving of its worker, a cancel and the sweep: tasks touch each
other only through the number of workers, the sweep's list and `RetryTask`. `jobs_safety` therefore
looks at two families of states (the constraint `OneOrCalm`): one task to which everything may
happen, and two tasks of at most two attempts of which nothing fails and one may be cancelled.
Two crashes allow a crash during the recovery from one; two faults allow the loss of a write and of
the look that would have repaired it. `AskedAttempts` has 0, which the code turns into 1.

Stock. Four requests let one meet the results of two others while a third is under way. The lots
are two in one place, one of them empty, one with a name, and one of another part, so that a
destination may be the source, several lots may match, and a merge may be refused. Three
transactions can wait in a circle.

Accounts. Two requests are enough to lose the last administrator; the third is there so that a
chain of three would be seen, and the third user so that an account may exist that neither request
is about. Initial states are all mixes of roles with an active administrator, and the empty table.

Datasheets. Rows are related only by their content, so one content suffices; two rows let a content
be deleted and stored again. `StoringOrReading` keeps three requests and a worker apart, which
together would be too many states: either three requests, or two and the worker. One crash and one
failing call suffice for every error path by itself.

Projects. Two lines are one that a request is about and one that a rule has to reach; the contents are a
line the catalogue matches, one whose own number wins, and one without an identity. `CalmOrTwo`: three
requests that meet on one board without failures, or two of any kind, one of whose statements may fail.

Services. Three requests of which two at a time: the hazards are meetings of two, and the third sees what
they left, unless they crossed, which is recorded and excuses what a third would see (`Few`). One part and
one category, but two tags with two slugs: a merge needs two tags, and its victim's links one part. While a
snapshot is built there are two requests, one after the other: the meeting is of the build with each of
them. Two libraries with two names and a symbol that extends another, two changes. Three tokens are a
sign-in, its successor and one that opened otherwise (`FewTokens` takes them in order). Three saves of
which two at a time, and no third once two have met or an error was dropped (`FewSaves`). Two turns in one
conversation, one call a reply, two rounds, one retry, and a budget that the one result in the history
exceeds; that a turn streams, is asked again or loses its client is its own affair until it writes, and so
happens to one of the two (`FewTurns`). A channel of two (the code has 16), so that it is full while a
handler of two signals is at work, one view and two handlers. Ids are taken in their order, which is a
symmetry. Each bound is of the service that runs.

Algorithms. Sequences of up to two to four elements from sets chosen so that every branch of an operator
is taken; the comment of each question says from which.

### Fairness

Jobs: River's workers poll and every attempt has a timeout, so a fetched job makes progress; River
finishes its own bookkeeping and rescues; a handler runs to its end; the sweep ticks every minute;
time passes. StockLots: a begun request is executed, free locks are granted, Postgres looks for
deadlocks. Datasheets: a request or a worker that runs goes on; River hands out the jobs of a queue
in order, so that each gets a free worker in turn (strong fairness of `Take`, per document: one
worker is now and then busy with another job). Nothing ever obliges a client to do anything, and no
crash or failure is fair. The other modules state safety only: their requests are finite sequences of
statements, and what waits in `Catalogue` waits as in `StockLots`.

### Where code and comments differ

The violated runs are findings; `PROJECT.json` quotes the lines. Further statements of comments,
documents, tests or names are written down in the modules, each after a comment that says where it comes
from. The code does not satisfy them either. To see one fail, put it in the place of the properties
of the configuration named here (in `MCServices` as a definition of its own, `X == Talk!X`).

| Property | Configuration | What happens |
|---|---|---|
| `ReconcilerOnlyAfterCrash` | `MCJobs` | a task cancelled before it starts is failed by the reconciler, which is said to be for "a hard crash the worker could not write itself" (service.go) |
| `ReconcilerOnlyCorrects` | `MCJobs` | the reconciler, which "only ever corrects, never leads" (service.go), overwrites `completed`: what it listed was finished before it looked |
| `CancelledWorkerSaysCancelled` | `MCJobs` | a cancel between fetch and `MarkRunning` is overwritten with `running`; the cancelled attempt then ends as `retrying` or `failed` |
| `FinishedAtOnlyWhenFinal` | `MCJobs` | a task whose worker died after its last write runs again, with `finished_at` set |
| `RetriesFinishedTask` | `MCJobs` | `RetryTask` reads no status: a running task is retried |
| `ReferenceHoldsNothing` | `MCStockLots`, `Start <- EmptyStart`, `StartCount = 2`, `StartRef = {p1}`, `Requests <- LotReceipts` | a receipt into one lot, as scanning makes it, leaves `reference_only` set on a part that has stock (stock.go:303-306) |
| `UnmentionedSurvives` | the same with `Requests <- PatchRequests` | a PATCH that does not mention `reference_only` writes back the value from before a receipt |
| `RefusalIsAboutLastAdmin` | `MCAccountsLockout` | with one active administrator left, a disabled administrator cannot be removed |
| `RegistrationClosed` | `MCAccountsLockout` | two founders register at once, registration being disabled |
| `ChangeReplacesConfirmed` | `MCAccountsLockout` | a password reset is overwritten by a change confirmed before it |
| `OkMeansReadable` | `MCDatasheetsRead` with `AllText` | extracting again truncates the text of a document whose status is `ok` |
| `TextGoesWithDocument` | `MCDatasheetsRead` | a worker writes the text of a document that was deleted meanwhile |
| `PendingIsProcessed` | `MCDatasheetsRead` | a link that fails leaves a pending document that nobody will read |
| `ManualPinStays` | `MCProjects` | a rematch caused by one line takes the pin of another away |
| `RuleComesFirst` | `MCProjects` | a lookup of the rule that fails is one that found none: the line is matched by its MPN (projects.go:759) |
| `OnlyMissingCutsShort` | `MCServices` (`Books`) | "A missing ancestor is not an error" (handlers/kicad_library.go:195-197), and any error of the read is taken for a missing one: the symbol is drawn without what it extends, and that drawing is kept |
| `LiveIsStored` | `MCServices` (`Knobs`) | of two saves at once, the one stored last is not the one applied |
| `TurnsUseOneConfig` | `MCServices` (`Knobs`) | a turn uses a new key with an old address |
| `SpendIsAlwaysRecorded` | `MCServices` (`Talk`) | a client that leaves takes the record of its turn along |
| `ImportsShowWhenFinished` | `MCServices` (`Books`) | an import's first batch takes a library off the list |
| `DropsAreHarmless` | `MCServices` (`Feed`) | a signal dropped while only others are queued is never made up for; operations on single lots publish nothing |
| `OnlyIfAllErrored` | `MCAlgorithms` | an error is to be returned "only if every provider that ran errored" (handlers/enrich.go:376-379), and one that does not know the number does not take back another's error |
| `OnlyPassivesByCategory` | `MCAlgorithms` | "Category alone never suggests a semiconductor symbol" (repository/kicad_suggest.go:29, 146-148), and the table has LEDs and three kinds of diodes |
| `CallsInIndexOrder` | `MCAlgorithms` | a streamed call that begins later but has the lower index comes second |
| `ErrorLineFails` | `MCAlgorithms` | a line of OpenAI's stream that says what went wrong has no choices and is passed over: the turn ends with what there is |
| `SnippetShowsEveryMatch` | `MCAlgorithms` | the place of a match is found in the page in lower case and used in the page itself: where the two differ in length, the snippet misses the match |
| `BareIsMPN` | `MCAlgorithms` | a bare part number that begins with a data identifier loses it (`1PS76SB40`) |
| `LoopClosesForAll` | `MCAlgorithms` | parts with numbers of their own that share value, footprint and part number become one line, of the first of them |

Some more were met while reading and are not properties. They follow from the definitions mapped:

- Projects. A zip that holds several interactive BOMs leaves its board with all of them (kicad/assets.go:64,
  projects.go:282-293), an upload leaves one. A line pinned by hand changes on the next rematch when its own number names another part.
- Events. `BulkMoveParts` publishes no `parts`; an import publishes nothing.
- Backup. Tables made after migration 000023 have foreign keys that cannot be deferred unless they say
  so; migration 000037 knows of one. `backup.go` counts on all of them.
- Sessions. Nothing calls `RevokeAccessToken`. The error of revoking a used refresh token is dropped.
- Settings. The AI page takes what is active from the registry and which provider it is from the store,
  and "cannot contradict itself"; the datasheet page stores its rows before it refuses `max_bytes`.
- Replies. Thoughts inlined in a stream are shown while they come. An id made up for a call may be one
  that another has. What could not be decoded is not in the record of the call, and a stream that breaks
  leaves the lines before the break there, but not that it broke (ai/stream.go:62-83).
- Labels. A saved template without elements prints nothing, while its preview shows the built-in layout.
  The built-in layout overlaps on 28.3 pt labels and leaves the sheet on spines. The catalogue drops
  the other names of sheets whose labels are not rectangles.
- Quantities. A negative query matches every part. `10` finds `100` because a number without a unit is
  compared as text. Enrichment splits off units that the search does not know (mm, %, °C, mAh). The search
  reads the parameter's unit only, the part's page falls back to the template's. A bare `100` is drawn
  for 100 kΩ written as `kR`.
- Enrichment. `0,007 €` is read as 7, and `1.234 €` as 1.234. A token is kept for its client id when the
  secret changes. The first result is taken when none has the number asked for. A supplier part that is
  there keeps its manufacturer part. A blank or over-long value of one distributor hides another's.
- Chooser. The words of a category are looked for anywhere in its name: "controlled" has `led`. Proposals are not in the order of their confidence. The path of a category is always empty.
- Lists. The low-stock number counts more than the list can show. `ListParts` stops at 500,
  `SearchParametric` at 200, without a word.

## Proofs

Every safety property that a run checks on a small instance of a module with state is a theorem
about that module's specification, for every value of the constants that the assumptions allow.
So are the three refinements, and there are theorems about operators, for every input.

| Module | Of | Theorems |
|---|---|---|
| `JobsProofs` | `Jobs` | `TypeOK`, `FinishedMeansDone`, `StuckHasCause`, `CancelSticks`, `AttemptsCapped`, `FinalIsFinal`; `ImplementsPromise`: `Jobs` implements `TaskLifecycle` |
| `StockLotsProofs` | `StockLots` | `TypeOK`, `LedgerAgrees`, `BelowZeroAsAsked`, `StockConserved`, `OnlyEmptyLotsCleared`; `ImplementsInventory`: `StockLots` implements `Inventory` |
| `AccountsProofs` | `Accounts` | `TypeOK`, `LockoutTakesOverlap` |
| `DatasheetsProofs` | `Datasheets` | `TypeOK`, `NoTornFile`, `OneRowPerContent`, `FilePresent`, `PersonsTitleStays`, `PendingHasCause` |
| `ProjectsProofs` | `Projects`, `Matching` | `TypeOK`, `AttachmentsReplaced`, `RulesReachLines` |
| `CatalogueProofs` | `Catalogue`, `Snapshot`, `Library` | `KeptAsAsked`, `ExportRestores`, `LibraryServed` |
| `ServicesProofs` | `Sessions`, `Settings`, `Events`, `Assistant` | `SessionsEnd`, `SettingsLive`, `SignalsArrive`, `TranscriptsWhole`, `RequestsPaired`, `SpendAndScreen`; `ImplementsTranscripts`: `Assistant` implements `Transcripts` |
| `AlgorithmsProofs` | `Labels`, `Matching`, `ToolCalls`, `Chat` | what operators do for every input, below |

The theorems of `CatalogueProofs` and `ServicesProofs` are about the specification of `MCServices`, which says which
service runs; they are proved with no use of how many requests, rows, turns, tokens or views there are.

What is assumed of the constants, each in the module that declares them: bounds, sizes and numbers are
natural numbers; a placeholder (`NoTask`, `None`, `NoPart`, `NoToken`, ...) is not in the set it stands
beside; a saved value is not one of the two words that the settings page reads as "leave it" (`"***"`,
`"keep"`); the marks of rows that are not there are no slugs, names or categories; files are sequences of
contents; `Start` has a lot for each number up to `StartCount`, and requests are of the kinds the
handlers make. Nothing is assumed of how many of a thing there are, and `Matching` is over any
catalogue. TLC evaluates each assumption on the run of its module. No quantity of a request is
taken to be positive: the handlers refuse only a move or a split of nothing or less.

Types are proved first. The properties are not inductive; what is added to make them so says why the
code is right.

- `Jobs`. `TaskInv(t)` is about one task at a time. What a client sees agrees with River because the
  verdict of the worker agrees with the count of attempts (`Counted`): `Run` says `retrying` exactly
  when River will make a retry. `DoneKept` and `CauseKept` carry that through the moment between the
  two writes, `CancelKept` says that a cancel River knows of leaves nothing to start, `OneWorker`
  that a running job without a worker lost it to a crash.
- `ImplementsPromise`. Every action that leaves status, attempts and history alone is a stutter
  (`Stutter`); `Enqueue` and `RetryTask` submit, `Fetch` attempts, the terminal writes settle, an attempt
  after a lost one reopens. The invariant above gives the guards: a job River may fetch is not stopped,
  is under its cap, and its task is open or loose.
- `StockLots`. `Holds`: a row that a transaction has selected is locked by it, exists, and has the
  quantity that was read. Hence the arithmetic of a commit is that of the rows as they are
  (`SoundWrite`), whatever happened while the lock was awaited, and a delta that takes a lot below zero is
  one that was asked for. `TxInv` says which rows the
  transaction of each kind has in which phase, `IdsInOrder` that a new lot is new. For conservation
  the rows must also still be of the part and in the place that was asked for, and the running sum of a
  move of everything must be what the rows in hand hold (`Pinned`); then the changes a commit makes lot by
  lot (`Flow`) add up, part by part, to what it receives or removes (`BalancedCommit`). Sums over lots
  have lemmas of their own: one lot more, two sums added, all but one lot zero.
- `ImplementsInventory`. Each kind of commit is one operation of `Inventory` (`AdjustAtOnce` and seven
  more lemmas), every other step a stutter. `Holds` gives the quantities and `Pinned` the guards: the
  lots that were found are still of that part and in that place when the transaction commits, and a
  lot it makes has an id no other has. A move within one lot comes out as a stutter.
- `Accounts`. As long as no reading is overtaken, what a request read of its target is so
  (`ReadingsHold`), a removal that passed the guard leaves somebody (`RemovalsLeaveAdmin`), and
  nobody becomes a member of an empty table (`InsertsKnowFounder`).
- `Datasheets`. `Apart(s)`: as long as storing and deleting the same content do not overlap, a store
  that found or renamed the file may rely on it, and a delete that removed the row may remove the
  file. `Cause(i)` is `PendingHasCause` for one document.
- `Projects`. `Staged` is what a request has in hand at each of its statements. Attachments: of the
  requests about a board that is not torn at most one will attach an interactive BOM, and then the
  board has none but that request's (`BoardsAttached`); one request at a time changes the cover, and an image that is not the
  cover is in its hands (`Covered`). Rules: a match in hand is right, or of an identity that is noted
  in `missed`, or of a part that is gone (`Held`); a matched line is right or excused, or a request that
  changed the rule has yet to go over it (`Reached`): it has not listed the boards, or has the board
  to do, or has a copy of the line, as it is, to do (`Comes`). What a step leaves alone of this
  is said once each for lines, boards and the cover (`LinesMove`, `BoardsMove`, `CoverMove`). About
  `resolveMatch` one needs that its result is right for the rule it read, or it is noted that it could
  not be read (`LookedUp`).
- `Catalogue`. `ShelfInv`: rows refer to rows that are there, in the tables and in what a
  transaction holds; a tag a merge has deleted gets no links any more (`Dooming`) - the foreign keys of
  `Waits` are what makes it true. On it rest the properties, each with what a request knows that nobody
  has changed since: `Asked` (an open transaction will store what it was asked), `Filed` (a PATCH
  carries the category the part has; a category whose parts were counted as none has none), `Exported`
  (tables copied earlier have what the rows of later ones refer to), and `Building` (of parts that did not
  change a build has what it read).
- `Library`. Where a chain of symbols ends is a recursive function of the steps allowed; it is shown to
  exist, and a request on its way up to be on the way of the stored source (`Resolving`), unless an
  ancestor could not be read.
- `Assistant`. What a turn has said so far is its question, calls and results in pairs, and its answer
  (`Spoken`); what is stored is the numbering of a sequence of whole turns (`Stored`); a transaction
  that has inserted its messages is the only one in its conversation, and its numbers are free
  (`Storing`): the unique key on conversation and number does that. `trimHistory` keeps pairs together
  for every transcript and every budget.
- `Sessions`. A token that works goes with refreshes that have yet to revoke it, and with no other
  refresh of the same sign-in (`OneEach`), unless two have used one token at once (`doubled`). `Passed` is
  what a request was let through for.
- `Settings`. How far each save has come (`SoFar`), and that what it leaves alone has not changed since it
  began, in the row it is about to write as in the one there is (`Spares`); while no two saves overlap at
  most one is between its row and the process.
- `Events`. `TypeOK /\ SignalsArrive` is inductive. A change owes a signal for each resource it does
  not excuse; publishing moves it into every channel with room, and a full one either has the resource
  already or is excused; taking from a channel puts it on the list of what to load.

- `ImplementsTranscripts`. Every step of a turn before its transaction commits is a stutter, or loses it
  (`TalkingStutters`, `RecordLoses`, `InsertLoses`); `SendMessage` asks, `DeleteConversation` deletes. A commit
  tells the turn (`CommitTells`): the rows it makes visible have the numbers after all the rows there are,
  by `Storing`, so that the transcript is what it was with what the turn has said behind it
  (`CommitAdds`), and that is a whole turn by `Spoken` (`SaidIsWhole`). What others insert meanwhile changes
  no transcript before their own commit.

TLC checked each of these invariants on the instance of its run before it was proved.

`AlgorithmsProofs` has theorems about operators, for every input:

| Theorem | What it says | For |
|---|---|---|
| `LabelsFillSheets` | every label asked for is printed, in order, each in the next free place: none on a used cell or on another label, and none left out (`Filled`) | sheets of at least one label |
| `BuiltInLabelsFit` | what the built-in layouts draw is on the label and apart (`FitsOn`) | labels of at least 46 by 36 points |
| `TextStaysInBox` | a text stays in its box if one line of it fits there | any number of lines |
| `CatalogueListsOnce` | of the rectangular sheets of one part number the last is in the catalogue, once, and the code of every equivalent, once, in whatever order the files have them; every entry is such a sheet or an equivalent with its sheet's geometry | any files |
| `PartsArePulled` | pulls are from a part's lots in their order, each emptied before the next is touched; as much as is needed, or all there is | any lots, need |
| `WalkTakesThePulls` | the pick list has every pull of every part once and nothing else, in the order of the walk | any lines, lots, copies |
| `RulesDecideTheirLines` | a rule taken in decides the lines of its identity, but those with a number of the house, and no others | any catalogue, rules; every lookup answered |
| `TagsAnswerAlone` | a match by tag is the only one, of the one tag the words name and the one part that has it, and no rung before answered | finitely many tags; every lookup answered |
| `ArgumentsNameTheirTool` | arguments that fit a tool never run another | any toolbox |
| `NoToolOnAGuess` | an answer is taken for a call only of a tool that it names or that alone fits it, with all it requires | any toolbox |
| `WindowHasTheMatch` | a snippet has the whole match in it and is as long as it may be; of the place in the page that is shown, which is not always that of the match (`SnippetShowsEveryMatch`) | `SnippetRunes` a natural number |
| `PiecesMakeTheirCalls` | however the pieces of calls alternate in a stream, each index has one call, whose arguments are its own pieces in order | any pieces, any calls before them |

Most of these operators are folds (`FoldLeft`). The fold of the community modules is a recursive function
on sets of positions; `FoldDefined` shows that the function exists and `FoldRuns` that its value on the
first k positions is the accumulator after k steps. What holds of it after each step is a predicate
(`Reached`, `Pulled`, `Sorted`, ...), and the least step after which it does not hold is a contradiction.
The sizes of labels are exact: TLC finds the layout to fail on labels 35 points high, and on high
labels 45 points wide.

Where an induction was needed elsewhere (sums, chains of symbols, transcripts) it is over the natural
numbers too, as the least counterexample of a well-founded order, and over functions that are recursive in
a number.

Only model-checked:

- `Settles`, `RequestsEnd` and `GetsRead`, because liveness under fairness is out of the prover's reach.
- `BillsMatched`, `ToolsUnderstood`, `ModelsHeard`, `LabelsPrinted` and `PartsUnderstood` as they stand: each
  asks many operators about inputs that a state chooses. The parts of them that `AlgorithmsProofs` is about
  hold for every input; the others stay with TLC, because what they are about recurses over trees and
  texts (parsing, splitting, units, drawings, prices), filters with `SelectSeq` (shortfalls, lists), or
  sorts by a given order (`SearchRanks`), and an induction over data takes a theorem with an operator as
  parameter, which the provers cannot instantiate.

## Not modelled

Of the modelled components: quantities with decimals and the deletion of parts and locations
(`StockLots`); the trees of categories and locations; a project's own fields and previews; the
catalogue of AI models; the cache of enrichment, the requests to distributors and the repair of their text;
saved templates; movement of stock over time. `PROJECT.json` says so of each. The two
renderers (`pcbrender.go`, `libraryrender.go`) draw without state: what could be wrong there is
geometry. Field-by-field decoding, SQL column lists, routing and configuration have no order that could
be wrong, and `docs/docs.go`, a quarter of the lines there are, is generated.

## Plan

What is left, the most important first.

1. Stock with four decimals: the two roundings of `stock.go:294` against each other.
2. Deleting parts and locations in `StockLots`, with the cascades they take, and the trees of
   `Catalogue`.
3. `Accounts` with `Sessions`: a request of an account that goes.
4. Liveness of `Snapshot` (what was changed is served in the end) and of `Events` (a view that stays
   shows what is).
