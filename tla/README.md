# Verification of Jivatax

This directory holds formal models of Jivatax (`src/apps/api`, the server, and the parts of
`src/apps/web` that decide anything), the model-checking runs that exercise them, and
machine-checked proofs of the main safety properties of the server and of its pages. Jivatax
imports the accounting of Chilean companies (trial balances, ledgers and journals), maps their internal accounts to the
accounts of the SII, and fills in the tax work papers of a period. The server is a NestJS
application over MySQL (TypeORM); several API processes may serve the same database, and every
process also runs a poller for background jobs. The web client is a Next.js application that
caches what the server answers.

Everything here is read from the code. Where a doc comment or a test claims something that the
code does not do, section 4 says so.

## 1. The system and its parts

| Part | State it keeps | Operations | Modelled in |
| --- | --- | --- | --- |
| Accounting documents (`accounting/services/tax-documents.service.ts`) | `tax_documents`, three tables of imports, `company_accounts`, `tax_period_company_accounts` | upload, process, classify, discard | `TaxDocuments` |
| Work-paper calculation (`tax-work-papers/`) | executions, inputs and adjustments, `tax_work_paper_jobs` | draft, enqueue, claim, calculate, end | `WorkPaperJobs`, `JobQueue` |
| Period account mappings (`accounting/services/period-account-mappings.service.ts`) | mappings, history of decisions, suggestions | decide, approve in batch | `AccountMappings` |
| Generation of suggestions (`sii-account-matching/services/account-suggestion.service.ts`) | suggestions, diagnostics | generate with either engine | `SuggestionEngine` (what it reads and writes), `AccountMappings` (its races) |
| Suggestion pipeline v2 (`sii-account-matching/pipeline/`) | none | observe, filter, resolve by layers, decide | `MatchingPipeline` |
| Suggestion ranking v7 (`account-suggestion-ranking.service.ts`, rules) | none | filter, score, decide, audit | `SuggestionRanking` |
| Learning from confirmations (`learning-aggregator.service.ts` and others) | confirmations, aggregated projection | record, rebuild | `AccountMappings` (what a rebuild sees) |
| Knowledge synchronization (terms, concepts) | terms and concepts of the catalogue | synchronize | terms as an action of `SuggestionEngine` |
| Company account plan (`company-account-plan/`) | plan versions, accounts, mappings | import, match, assign, confirm, reject, unmap | `AccountPlans` |
| SII account plan (`sii-account-plan/`) | versions of the SII catalogue | import, activate | `AccountPlans` |
| Sessions (`auth/`, updates of users in `admin/users/`) | refresh sessions, failed logins, users | login, refresh, logout, revoke, lock, update | `Sessions` |
| Web authentication client (`web/src/lib/api.ts`) | cookies, the refresh in progress | retry after refresh | `Sessions` |
| Stored files (`files/`, page of files) | `stored_files`, the object store, the dialog | presign, put, complete, list | `StoredFiles` |
| Web documents page (`documents-page.tsx`) | form, uploads in progress, cached lists | upload, discard, show | `DocumentsPage` |
| Web mapping page (`account-mapping-page.tsx`) | filters, selection, dialogs, cached lists | decide, approve, generate | `MappingPage` |
| Accounting explorer (service and page) | cached answers | list, summarize, reconcile, control the opening | `AccountingExplorer` |
| Database schema (`database/`) | the schema and its recorded migrations | run, revert | `Migrations`, `SchemaEntities` |
| Balance and movement parsers, A.17 calculator | none | pure functions over spreadsheets and decimals | not modelled; enter as their result |
| Summaries, evaluation, shadow comparison, applicability | none, or one load | queries, reports, commands run alone | not modelled |
| Companies, organizations, periods, rest of administration | one row per thing | create, read, update, delete | not modelled (one row, one statement) |
| Authorization guards, configuration, rest of the web client | none | pass or refuse; show one query | not modelled |

The parts meet in the database. A document that is processed publishes rows in
`tax_period_company_accounts`; generation of suggestions reads the accounts of the current
closing balance; a discard retires suggestions; a decision on a mapping accepts or rejects
suggestions and feeds the learning projection; a calculation reads the current closing balance;
importing a catalogue changes what every reference to it means. No part calls another across
processes, and nothing but the database coordinates them. That is where the difficulty is:
handlers read, await, and write, and what they read may be stale by then; and the pages of the
web client work on lists that were true when they were fetched.

### How the database is modelled

- MySQL InnoDB under REPEATABLE READ: plain reads of a transaction see the snapshot of its first
  read; `FOR UPDATE`, `UPDATE` and unique keys see the current rows.
- Inserting a row locks the parent row of each foreign key in share mode; updates of that parent
  wait. The models keep the locks that make requests wait for one another (`Locked`).
- TypeORM's `save(entity)` writes the columns in which the entity differs from the row as loaded
  by `save` itself; the models write the entity as read.
- A transaction that decides with its snapshot and writes later is two steps; a handler without
  a transaction is one step per `await` that touches shared state.

- A statement that changes the schema commits what came before it, and itself.

## 2. What is hard

`PROJECT.json` lists every hazard with its line. In short: several versions of a document may be
processed in any order and at once; `process` saves a whole entity that it read before parsing a
file; a failed attempt must not disturb what is in force; discards and publications share
accounts; background jobs are claimed by several processes, looked for and saved in two
statements, and may commit and fail afterwards; sessions are saved twice around the signing of
their tokens, and a lost answer of a refresh is a reuse for the server; two imports may activate a
catalogue at once; a revert of a migration may be refused halfway; uploads overlap on a page whose
form goes on changing; an approval confirms the suggestion of now and not the one on the screen; the
list and the counts of the explorer are different statements; suggestions depend on the order of
ties, on the import a decision was made in, and on filters that are written twice.

## 3. Modules

### TaxDocuments

The documents of one company and period. `docs` is the table of documents (`slot` is type and
balance role, `historical` being the role NULL), `imports` the import rows, `periodRows` the
rows that the explorer reads, `req` the local variables of every HTTP request in progress.

| Action | Code |
| --- | --- |
| `ReadLatestVersion`, `InsertDocument`, `InsertRejected` | `create`: version read, insert, unique key |
| `Load`, `MarkProcessing`, `ReadFile`, `ReadFileFails` | `process` up to the transaction |
| `OpenPersist`, `DuplicateImport`, `CommitPersist`, `RollbackPersist` | `persist` and `persistBalance` |
| `MarkError` | the catch block of `process` |
| `MarkProcessingFails`, `MarkErrorFails` | the update of the status before the `try`, or the one in the catch block, fails, and the request ends |
| `BeginClassify`, `CommitClassify`, `AbortClassify` | `classifyHistoricalBalance` |
| `BeginDiscard`, `CommitDiscard`, `AbortDiscard` | `discard` |
| `Suggest` | what generation of suggestions reads and writes of this state |
| `Crash` | the process of a request dies |

A file is what it parses to: a set of account codes and whether its report has errors. Ledgers
and journals are slots like the others which publish no period rows. The two updates of the status stand
outside of what `process` catches: when one of them fails (a lock that is waited for too long, a lost
connection) the document may stay PROCESSING with its process alive, as after a crash.

### WorkPaperJobs and JobQueue

`WorkPaperJobs` has the executions (`drafts`, `snapshot`), the rows of inputs, the job table, the
requests that enqueue and the processes that poll. `JobQueue` is what the jobs promise: started
once and in order of arrival, taking effect at most once and only while running, completed only
after the effect. `WorkPaperJobs` is shown to implement it with `phase` the statuses of the rows
and `applied` the jobs that have input rows.

| Action | Code |
| --- | --- |
| `CreateDraft` | `createDraft` |
| `FindNoActive`, `CountAttempts`, `SaveJob` | `enqueueCalculation`, `enqueueCalculatorRun` |
| `ClaimNextPending` | `processNext`, `claimNextPending` (locking read of every pending row) |
| `BeginCalculation`, `CommitCalculation`, `RollbackCalculation` | `executeA17Calculation` |
| `MarkCompleted`, `MarkCompletedFails`, `MarkFailed` | the end of `processCalculatorRunJob` |
| `Abandon` | the catch block fails, or the process dies and restarts |

Nothing in the code finalizes an execution, so a paper has at most one draft and it stays one.

### AccountMappings

The mappings of the accounts of one company (`mapping`), their suggestions, the history of
decisions, the confirmations in the learning projection (`learned`), the requests in progress and
a count of commits (`clock`) that dates what they write. A decision takes its snapshot in one
step and commits in another; a generation reads its contexts in one step and commits in another.

| Action | Code |
| --- | --- |
| `BeginUpdate`, `BeginBatch` | `update`, `approveBatch` up to the first write: the snapshot and the checks made on it |
| `CommitDecision` | the writes of `applyMappingDecision` for every account of the request, and `rebuildWithManager` |
| `ReadContexts`, `CommitGeneration` | `createBatch`, and the transaction of `generateWithV2` |
| `Rollback` | account out of the catalogue, deadlock, lost connection |
| `Discard` | what `TaxDocumentsService.discard` does to suggestions |
| `PlanReview` | assign, confirm, reject and unmap of the account plan, as any decision on one mapping |

What the pipeline resolves an account to is any member of the constant `Outcomes`. `save` writes
the columns that differ from the row as read (`Saved`), and the update that closes the other
suggestions sees the rows of the moment, not those of the snapshot (`ReviewedStatus`).
`PlanReview` allows more than the code does: the plan loads the relation with the column, and
which of both `save` writes is left open.

### Sessions

The rows of `users` and `auth_sessions`, the cookies of one browser, the tabs that share them, the
calls of the pages and the requests that log in, refresh and log out. A refresh token is named by
its session. A handler is one step per statement; `save` writes what the entity says, also the
`revokedAt` it was created with.

| Action | Code |
| --- | --- |
| `SendCall`, `AnswerCall`, `ReceiveCall`, `AwaitRefresh` | a call of the pages, the guard, the interceptor of `api.ts` and the refresh its tab shares |
| `Login`, `Logout`, `Receive`, `LoseResponse` | the requests of the client and what it does with their answers |
| `ReadUser`, `AcceptPassword`, `RefusePassword`, `LockPasses`, `SetPassword` | `validateCredentials`, the lock, and the command that sets a password |
| `InsertSession`, `InsertFails`, `StoreHash` | the two saves of `login` and `refresh` |
| `ReadSession`, `RevokeSessions`, `ReplaceSession`, `RevokeOwn` | `refresh`, its detection of reuse, `logout` |
| `BeginUpdate`, `CommitUpdate` | `AdminUsersService.update` |
| `AccessExpires`, `SessionExpires` | the clock |

### AccountPlans

The versions of the catalogue of the SII, which a command imports and activates, the plan versions
of one company, and the accounts and correspondences they create. `SiiCheck`, `SiiInsert`,
`SiiActivate` and `SiiAbort` are the import command; `PlanCheck`, `PlanSave`, `PlanMatch`,
`PlanCommit`, `PlanCommitUnanswered` (the COMMIT is applied and its answer lost), `PlanError` (it is rolled
back), `PlanFail` and `Die` the import of a plan; `ConfirmMapping`,
`RejectMapping`, `Unmap` and `AssignRead`/`AssignMapping` read a correspondence, and
`SaveLoad`/`SaveWrite` are the two statements of `save`, which writes the columns that differ;
`BalanceAccount` is an account created by a balance. `RelationWins` leaves open which of a column
and its loaded relation `save` writes.

### Migrations and SchemaEntities

`Migrations` has every migration as the statements of its `up` and its `down` over a schema that is
a set of facts, and the commands that run and revert them. MySQL commits around a change of the
schema: `Execute` commits with it, `Fail` and `Kill` roll back to the last commit only what was
written since (`Lose`), and `Record`/`Erase` write the table of migrations. `Store` is the
application storing data that a later statement minds. `SchemaEntities` has what the entities expect.

### StoredFiles and DocumentsPage

One visit to the page of files or to the page of documents. `StoredFiles` has the three calls of an
upload (`CreateUploadUrl`, `UploadToStorage`, `CompleteUpload`, `Fail`), the storage, the registered
files, and the page of files with its dialog. `DocumentsPage` extends it with the form, the uploads
in progress (`order`), the lists cached per kind with their fetches, and the dialog of discards. A
call may fail for the browser, served or not.

A fetch is read by the API in one step (`ReadList`) and arrives in another. An invalidation
(`Invalidated`) marks every list and fetches the one on the screen again, in place of a fetch under
way, but for the first fetch of a list: TanStack Query lets that one go on, and what it brings counts as fresh.
`late` marks a list that was read before the lists were marked and not fetched again since. `MappingPage` treats its
lists the same way.

### MappingPage

The page that maps accounts: the list by filter as the browser caches it, the selection, both
dialogs with the rows they were opened with, and the tables as the API leaves them. `Approve`,
`BatchReads` and `ApprovalDone` are the batch, which reads mappings and suggestions on its snapshot and saves
what it decided from them later, without a lock; `SaveMapping`, `Reject` and `Saved` are one decision, `Generate` and
`GenerationDone` a generation, `ReadList`, `ListArrives` and `ListFails` the fetches; `OtherDecides` and
`OtherGenerates` are other users. The other requests are one step here; `AccountMappings` has their inside.

### AccountingExplorer

What the explorer answers and what its page shows. `Publish` and `Discard` are the effects of
`TaxDocuments` on what it reads. A request for a balance is `ResolveSources`, `ReadItems` and
`ReadSummary`, statements without a transaction; an answer during which something changed is marked
`torn`. Reconciliation, running balances, the page of the list and the control of the opening are
operators over sets of movements and rows. The movements, the opening balance and the closing of the
year before are any of their instances and stay the same during a behaviour: what is said of the
reconciliation and of the opening is about the answer, and not about one that has become stale.

### MatchingPipeline, SuggestionRanking, SuggestionEngine

`MatchingPipeline` is the pipeline v2 as functions: `Observation` of a name and the row of its
balance, `Compatible` accounts, the layers in their order (`Layers`), the likeness ranking
(`Ranked`), and `Decide`. `SuggestionRanking` is the engine v7: `Reasons` and their points, the filters
`Kept` and their audit `Discarded`, the accounts that are left (`Ranks`), `Confidence`, `Rank`. What patterns find in a name (`About`) and how alike
two names are (`Likeness`) are constants. `SuggestionEngine` runs both over one account whose
decisions (`Confirm`, `Reject`), row (`Publish`), catalogue (`Reimport`) and terms (`SyncTerms`)
change between generations.

## 4. Runs

| Run | Instance | What it shows |
| --- | --- | --- |
| `documents_races` | 2 closing versions, 2 requests, 2 accounts, files of which some are refused | every pair of handlers interleaved on the same or on different versions, sharing accounts |
| `documents_historical` | 1 historical balance, 2 requests, 1 fault, fairness | classification racing processing and discards; processing ends unless its process died or an update of its status failed |
| `documents_one_active` | 2 documents, 1 request | disagreement, below |
| `jobs_queue` | 2 papers, 2 requests, 2 processes, 3 jobs, 1 fault, fairness | claims, overlapping calculations, a fault anywhere; the refinement of `JobQueue`; every pending job starts, every job ends unless a fault orphaned it |
| `mappings_decisions` | 1 account, 2 SII accounts, 2 requests, 3 commits, weak and strong outcomes | decisions, batches and generations racing on one mapping; overlapping rebuilds |
| `sessions_tab` | 1 visitor and 1 metauser, 1 tab, 3 sessions, 2 calls, 2 requests, 1 update, 2 events | rotation, reuse, revocation and lost answers |
| `plans` | 2 catalogues, 1 plan of 2 rows, 2 commands, 2 requests | imports at once, answers to a COMMIT that are lost, reviews at once, an account of a balance |
| `schema` | every migration, 1 event | runs, reverts, refusals and kills at any statement |
| `documents_page` | 2 uploads, 6 gestures, 1 failed call | overlapping uploads, late lists, failed and lost calls |
| `mapping_page` | 2 accounts, 2 filters, a strong and a weak suggestion, 4 gestures, 1 event of others | batches and decisions on lists that changed meanwhile, lists that arrive late, a decision between the two steps of a batch |
| `explorer` | 3 accounts, 2 versions, 2 ledgers, pages of 2, 3 changes, 2 choices | publications and discards between the statements of a request |
| `engine` | 11 names, two imports of a catalogue, rows of a balance, 2 confirmations, the catalogue read in two orders | both engines over histories, imports and terms that change; accounts with strong evidence that the filters leave out, an account that only the filter on generic words leaves out, ties and leads of the ranking |

Two requests and two versions are enough for each hazard because every hazard is a conflict of
two handlers on one row, or of one handler with a row that changed once since it was read; and three
jobs have an older and a newer overlap. Bounds: `Docs`, `MaxJobs`, `MaxFaults`,
`MaxEvents`, `MaxGestures`, `MaxChanges`, `MaxChoices`, `MaxConfirms`, `MaxAttempts` and the other
sets in the `.cfg` files. Identifiers are model values; symmetry is used in runs without liveness only.
`MaxCommits` bounds the transactions of a behaviour of `AccountMappings`: three are enough for a
generation, a second one or a decision that overtakes a request, and the commit of that request.
Three sessions are a login and two rotations. Six gestures on the page of documents start two
uploads and change the form or the tab between them; four on the page of mappings select, open a
dialog, send it and change the filter. The instance of `engine` has what tells the layers apart: a
code that disappears, a name that moves to another code, two accounts with one name, an alias
of two accounts, words that contradict the column of the balance.

The mutants of `PROJECT.json` are plausible bugs of the code, one per property of a run, each kept
in its module above the definition it replaces; under each the run finds its property violated.

### Fairness

`FairSpec` of `TaxDocuments` asks strong fairness of `Continue(r)`: an accepted request runs to
its end, and a request waiting for a row lock is queued by MySQL, so a lock that is released
again and again is obtained. A request whose process died, or whose update of the status failed (a wait
that took too long is one), is gone. Clients owe nothing. `FairSpec` of `WorkPaperJobs` asks strong
fairness of `Work(w)`: every process polls for ever with `setInterval` and finishes what it
claims, with the same argument for the lock of the execution. Crashes and faults are never fair.

### Disagreements

`documents_one_active` shows one: the main README says that only one version of a document can be
active. Processing version 2 first and version 1 afterwards leaves both PROCESSED, as `persist`
only looks for lower versions to replace. What other parts read as the current closing is the
highest usable version, so it stays well defined (`OneClosingInForce`).

Others appeared while modelling; the models have the behaviour, and the properties that are checked
say what does hold:

- A test says that enqueuing reuses the active job of an execution (`work-paper-jobs.spec.ts:46`).
  Two requests at the same time both find none and enqueue two jobs; `LiveIsLatest` and the
  refinement of `JobQueue` say that the results stay consistent.
- A test says that a confirmed mapping is never regenerated (`account-suggestion.v2.spec.ts:217`).
  The contexts are read before the transaction that writes suggestions, so a mapping confirmed in
  between gets open suggestions. `OpenIsNewest` and `ClosedStaysClosed` hold all the same.
- The dialog of approval promises that mappings already confirmed will not be replaced
  (`account-mapping-page.tsx:902`), and a batch skips mappings that are not pending. It checks the status of its
  snapshot and saves later without a lock: what another user decides in between is replaced. `ApprovalIsExplicit`
  says that this is the only way, and that a mapping decided before the batch read the tables stays.
- The page of documents and the page of mappings invalidate their lists after every change. The first
  list of a filter or of a tab, read before the change and arriving after it, is kept as fresh until it is older than the stale
  time; `HistoryIsCurrent` and `ShownIsCurrent` say that every other list ends current.
- When the answer to the COMMIT of an import is lost the catch block overwrites what was committed. A plan of a
  company is then marked FAILED with all its accounts and correspondences in place, and its file is refused
  from then on; a document is marked PROCESSING_ERROR with its rows in force.
- A document whose last update of the status fails stays PROCESSING while its process lives, and nothing
  tries it again. `ProcessingSettles` says that only this and a process that dies leave it there.
- `sii-account-plan/README.md:40` says that a version is imported as a draft and activated by a later
  operation; the import activates it in its own transaction (`SiiActivate`).
- The audit of the ranking is meant to explain what was left out. Accounts that share only generic words
  with the name are dropped by a filter of their own (`account-suggestion-ranking.service.ts:484`) and no list of the
  audit has them; `AuditExplains` names them as its one exception.
- A rebuild of the learning projection uses the confirmations of its own snapshot and drops the ones
  that commit meanwhile, until the next rebuild; `LatestIsLearned` is what does hold.
- "There must be one active metauser": two who demote each other at once both find two active ones.
- A plan is refused when it repeats a code that the company has, from an older plan or a balance,
  although every import is described as a version of its own.
- The dialog of a mapping asks again before it replaces a confirmed mapping, by the row it was
  opened with: right after a batch the row still shows as pending, and nothing is asked.
- The explorer offers superseded versions of a balance and shows them with the accounts that were
  not taken over by a later publication.
- A comment says that every layer returns one candidate per destination
  (`sii-account-matching-pipeline.service.ts:100`): an account confirmed twice is two candidates of
  its history, which makes the suggestion ambiguous with itself.

## 5. Proofs

The proof modules prove for all values of the constants what the runs check on small ones, and a
few properties that no run lists: `VersionsUnique`, `ImportsImmutable`, `SupersededByPublication`
and `DiscardRetiresSuggestions` of `TaxDocuments`, `CalculatedOnce` and `HistoryIsKept` of
`WorkPaperJobs`, `AcceptClosesAll` of `AccountMappings`, `ItemsArePending` and `ReviewAsked` of the
mapping page, `OneDocument` of the documents page, `RecordedInOrder` of the migrations, and most of the
type invariants. They rest on the named assumptions about
the constants in the modules they extend, which TLC evaluates on every run, and on nothing else; one
theorem has a hypothesis of its own (`OneTab`, below). Most of the assumptions give the bounds and the
sets their types; those called `NoneAssumption`, `NullAssumption` and `SentAssumption` say that the
model value for null or for a call on its way is none of the values it stands beside.

**`TaxDocumentsProofs`**. The inductive invariant joins the type invariant with what every request
holds: a request past `create` owns an existing document whose entity has the document's
version; inside the persist transaction no import of the document exists and the
document's row is locked, so nobody else moves it; published rows come from
published imports with their entries; the rows closings published have one source. Without the locks
the last two are not inductive: two commits from stale snapshots could each publish. Theorems:
`TypeCorrect`, `VersionsCorrect`, `UsableCorrect`, `ReplacementCorrect`, `TraceabilityCorrect`,
`ClosingCorrect`, `OpeningCorrect`, and the action properties `ImmutabilityCorrect`,
`RevivalCorrect`, `SupersessionCorrect`, `DiscardCorrect` and `FailureCorrect`. The last one
(a failed import never takes the place of what is usable) rests on `CurrentStays`: a
step that only adds failures leaves the choice of the current import as it was.

**`WorkPaperJobsProofs`**. The inductive invariant is `TypeInv` (types, jobs have papers, held jobs
run and are held once), `Attended` (a running job without a process is due to a fault) and
`RowInv` (rows belong to jobs, a job being calculated has no row yet, the last revision read under the
lock is still the last, live rows are the latest). `LiveIsLatest` is not inductive by itself: it
needs that the revision a calculation read when it took the lock is still the last one. Theorems:
`TypeCorrect`, `ClaimCorrect`, `OnceCorrect`, `LiveCorrect`, `HistoryCorrect` and `QueueCorrect`,
the refinement of `JobQueue`.

The module also extends `Migrations` (`SchemaInit`, `SchemaNext`, `SchemaSpec`), whose commands are jobs of
another kind: a sequence of steps that may be killed or refused at any of them. `LogInv` says of the
log of the transaction and of the last committed one that names come once each and in the order of the
timestamps (`InOrder`); a rollback goes from one to the other, so both are needed. What is pending
belongs to the first timestamp that is not complete (`PendingIsNext`), hence an appended name keeps
the order (`AppendedInOrder`), and so does the loss of the last one (`FrontInOrder`).
`RefusedRevertsAreWhole` is about two scripts whose `down` begins with a check that changes nothing, and
whose other statements mind only the data that it looked for (`GuardedScripts`): data stops them
at the check or not at all, and at the check nothing is changed or lost yet (`RevertInv`). Theorems: `TypesOfMigrations`, `RecordsAreInOrder`,
`RefusalsChangeNothing`, for any number of events.

**`AccountMappingsProofs`**. Every transaction rewrites the status of existing suggestions
(`RetiredRows`, `ReviewedRows`) or adds rows of a generation (`GeneratedRows`). The inductive
invariant adds to the checked ones that suggestions have a key (`Keyed`), that nothing is newer
than the last commit (`Dated`), and that the rows a request saw are still in their tables
(`Seen`); `AcceptClosesAll` needs the last one to know that the suggestion being accepted is the one
the user saw. Theorems: `TypeCorrect`, `NewestCorrect`, `AcceptedCorrect`, `LearningCorrect`, and the
action properties `ClosedCorrect` and `AcceptCorrect`.

The same module extends `SuggestionEngine`, whose names therefore differ from those of
`AccountMappings` (`EngineInit`, `EngineNext`, `EngineSpec`), and holds the proofs about the engines: what a
decision leaves of an account is what they read. The catalogue, the knowledge, what names say and how
alike they are can be any that `PipelineAssumption`, `RankingAssumption` and `EngineAssumption` allow. The lemmas follow a generation:
sorting and selecting keep the elements of a sequence and keep them distinct (`SortedChain`,
`SelectedElements`, `SortedByScore`); a candidate wins exactly when it is ahead of all others by the
margin (`WinnerIsAhead`), so two layers with the same candidates in another order have the same winner
(`SameWinner`), and the order of the catalogue reaches only layers whose candidates come once each
(`SameLayers`). The inductive invariant is `EngineInv`: the tables are readable, what was written from
the history has a confirmed code, and the leader of an active generation was found compatible with the
row it was generated for (`LeadersFit`, which says nothing of names and is inductive, unlike
`ActiveFitsBalance`). From it, a row with an ordinary name and one column is observed in that column, and
an account of a chapter of the balance is classified in its chapter (`ObservedByColumn`,
`ObservedByChapter`). Theorems: `EngineInvariant`, `OrderIsIgnored`, `HistoryIsKept`, `ActiveFits`.

The last part of the module is about the ranking v7, whose points decide what is left approvable. The points
are sums over a sequence of reasons, with quotients in it: every reason has a known
signal and a whole number of points (`ReasonsTyped`, over a dozen lemmas on its parts), and their sum is a
number (`TotalIsInteger`, by the least index at which it would not be, `Descent`). So the accounts that
compete are finitely many and comparable (`RanksTyped`), the list of those with evidence is sorted
(`EligibleAre`), its first five are the five that are shown (`TopIs`), and whoever is not the first is as
far behind it as the second, or more (`LeadOverRivals`): the code only ever looks at the second.
`RankedAreKept` is not inductive without the types of the engines, as a decision rewrites the
suggestions and a generation of the other engine replaces them (`RankInv`). Theorems: `RankInvariant`,
`TypesOfEngines`, `RankedCorrect`, `LeadCorrect`, and `AuditIsTrue`,
which compares the accounts left by every filter (`Ranks`), the one on generic words included, with the audit.

**`SessionsProofs`**. A session is created in three statements (insert, store the hash, mark the
old one replaced) and no transaction holds them together. `ReplacedIsRevoked` needs that the
session a request is creating is known to nobody else (`PrivateNext`): no other request, token or
cookie names it, so nothing replaces or revokes it before its answer arrives. `Handled` follows what a request
has read down its steps: the session it replaces and the one it creates are of one
user. `FreeRows` and `TokensExist` (what was never inserted is empty; what is sent or held was
inserted) give `RevocationIsFinal`: only the insertion writes a whole row, and it never hits an
issued one. `RotationIsNotReuse` is proved for one tab (`OneTab`): the client shares the promise of a
refresh within a tab, and nothing keeps two tabs from sending the same token. Its invariant says that
a refresh in progress is the one its tab waits for (`TabWaits`) and that no token sent or held is
spent, but for the one whose answer is on its way (`Unspent`), unless a response was lost. Theorems:
`SessionsInvariant`, `TypesOfSessions`, `ReplacedSessionsAreRevoked`,
`RevocationsAreFinal`, `RotationsAreNoReuse`.

**`AccountPlansProofs`**. `OneCurrent` holds because every command locks the catalogue's rows
before it activates one. `ReadyIsWhole` says that the accounts of a version are there exactly when its import
was committed, be it ready or overwritten as failed since (`overwritten`). It needs that a version at work belongs to one
request, which is past its COMMIT when the version is ready already (`OwnFile`), that the codes of an uncommitted import are free and nobody else's (`OwnCodes`,
where the unique key of the company bites), and that an account and its correspondence are created
together (`Together`). `MappingCoherent` relates five columns of a row, and a review saves only those
that differ from the row it loaded. Two overlapping reviews therefore merge columns of two
decisions: the invariant holds because each of them leaves the row decided (`Decides`), and because a row only
ever has the method it was born with or `manual`, with or without a score to match (`OneMethod`).
Theorems: `PlansInvariant`, `TypesOfPlans`, `OneCatalogue`, `CatalogueIsReplaced`,
`ReadyPlansAreWhole`, `ReviewsStayCoherent`.

**`MappingPageProofs`**. With nobody else at work and no call lost, the invariant of the cache is:
a list that was read and is still on its way is what the API would answer or is known to be late (`OnTheWay`); a
list that arrived, is not marked and was not late is what the API would answer (`Current`); and the list on the screen is
fetched for as long as it is marked (`OnScreen`). Every mutation has to mark exactly the lists it may have
changed for the first two to survive it. `ApprovalIsExplicit` needs `ItemsArePending`, as the selection outlives the
list it was made in, and that without other users nothing a batch has read is decided before it commits (`ReadIsCurrent`). Theorems: `MappingPageInvariant`, `TypesOfMappingPage`, `PageShowsTheTables`,
`ApprovalsAreExplicit`, `ApprovalsHoldPendingRows`, `ReviewsAreAsked`.

**`DocumentsPageProofs`**. `FormsAreKept` relates the API's tables to a form that changes under
the upload; the invariant follows the file: its upload keeps the category of its form
(`Ordered`), is registered only with its object (`Registration`), its calls are about its own document
(`Called`), which has the form of the upload (`Formed`). `HistoryIsCurrent` rests on
conjuncts like those of the mapping page, late lists excepted as there, with one more exception that makes them
inductive: a list may be out of date while some call is still to mark it (`Working`). Theorems: `DocumentsPageInvariant`, `TypesOfDocumentsPage`,
`FormsStay`, `FilesHaveOneDocument`, `HistoriesAreCurrent`.

**`AccountingExplorerProofs`**. The explorer reads in three statements without a transaction. A step
between two of them sets `doubt`; without it, what was read last agrees with the tables
(`ReadTogether`) and the answer is put together from them (`AnswersAgree`). `Controlled` says that
"ready" is only about to be said of an opening balance that is there and is the closing of the year before. What is
proved about the answers is mostly about data: sums, counts, the order of a page, and the last
movement of an account. A sum over a finite set is a fold, and the prover has no induction over a
predicate; here the predicate is replaced by the set of the subsets it fails for, which has a smallest
member (`SmallestSet`), and from it follow that sums exist and add (`SumExists`, `SumIsNatural`), that a set has
a last member (`LastExists`), and that it can be sorted (`SortExists`). `ReconciledRunsToBalance` takes from
them that the running balance after the last movement is the sum of all, for any finite ledger.
Theorems: `ExplorerInvariant`, `TypesOfExplorer`, `ReadyPeriodsOpenAsClosed`,
`ListsAgreeWithSummaries`, `ReconciledAccountsRunToBalance`.

**Only model-checked.**

- Liveness (`ProcessingSettles`, `JobsSettle`, `PendingIsStarted`): fairness and ENABLED are outside
  the prover.
- The confidence of the engine v7 as a number: the proofs know the order of the points and the margins, and
  leave the confidence open.
- `EntitiesFit` of `Migrations`. With the records in order (`RecordsAreInOrder`) it is a statement about
  four sequences of fixed scripts, one for each order of the migrations that share a timestamp. TLC runs every
  statement of them, and nothing is left to generalise but the bound on events, which it does
  not mention; a proof would repeat the computation fact by fact.
- With several processes the calculations of one execution may commit in another order
  than they were enqueued; nothing in the code orders them, and no property claims it.

## 6. Plan

The modules of section 3 are written, and every safety property of the runs but `EntitiesFit` is proved. What
is left:

1. The counts and confidences of the learning projection, and the A.17 calculator with its decimals,
   as functions against reference definitions.
2. What a second plan of a company should be allowed to repeat, and in which order overlapping
   calculations should commit: the code and its documents leave both open (section 4), and
   a property needs the answer.

## 7. Not modelled

- Spreadsheet parsing (balances, journals, ledgers, templates): a file enters as what it parses to.
- The arithmetic of the A.17 calculator: a calculation enters as the revision it writes.
- What patterns find in a name and how alike two names are: constants of the engines.
- Evaluation, shadow comparison, the loads of expert data, and the curated matrix of applicability:
  commands run alone, and reports that change nothing.
- Companies, organizations, industries, periods and the rest of the administration: one row and one
  statement per request, guarded by a unique key.
- Switching the organization of a session, download URLs, the journal of the explorer.
- Authorization guards in front of the handlers, configuration, logging, and the pages of the web
  client that show one query or send one request.
