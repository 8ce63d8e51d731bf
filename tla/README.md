# Verification project for the Pantheon MVP vertical

The repository implements a small governed system around a Hermes agent
runtime: humans and agents work on *Work Issues*, hand bounded work to Hermes,
receive result candidates, preserve and admit project documents, edit knowledge
and record decisions.  Python handlers (`mvp_vertical/*.py`, served by FastAPI)
run short PostgreSQL transactions and a few multi-step flows that cross several
transactions, the file system and HTTP.  Nothing in it is a long-lived
in-memory state: what can go wrong happens **between** transactions, between a
read and a lock, between an effect and the answer that reports it, and when a
process stops half-way.  This directory models those interleavings in TLA+,
checks them with TLC and proves the central facts with TLAPS.

## Inventory

State lives in PostgreSQL unless said otherwise; "route" means a FastAPI handler
with a connection of its own (`cockpit_shell.with_connection`).

| component | state it keeps | operations | hard behaviour | what makes it correct | module |
|---|---|---|---|---|---|
| Work Issue aggregate | `work_issues`, `hermes_runs`, `issue_comments`, `issue_events` | create, comment, start, return, close, transition | retries and races on one version; long status sequences | no lost update, ledger = rows, Hermes never ends an issue, answers are true | `WorkIssues` |
| Handoff, execution admission | handoffs, Context Packs, admissions and their events | submit, admit, revoke, register | expiry, revocation while a start is under way | an admission is used once or withdrawn | `HermesLaunch` |
| Launch reservation and run binding | `hermes_launch_reservations`, receipt file of the binding process | reserve, `POST /v1/runs`, register, reconcile | lost requests and answers, crash between reservation and registration, snapshot older than the lock | at most one POST, after a durable reservation; exact run registered | `HermesLaunch`, refines `RunDispatch` |
| Runtime return, result candidate, Work Card | run row, candidates, `agency_cards` projection | report, reconcile, replay | two unlocked reads before a commit; late replay rewrites the card | one whole, final return; card shows what is stored | `HermesReturn` |
| Human revision upload, retention, technical store | files, lock files, contract file, `agency_sources`, `source_documents`, `extraction_runs`, Storage Objects | upload and its repetition | eight stages without a common transaction; crash at each; orphaned locks | stages truthful, answers true, repetition ends | `RevisionUpload` |
| Professional documents, currentness | `doc_documents`, `doc_document_versions`, their ledger, effect events, issuer references | create, link, admit, record a posture, record a reference; resolve | concurrent admissions and postures; a reader who is told which revision is current | one history without forks; a Source admitted once; nothing said that the records do not say | `RevisionUpload` (link, admit), `DocumentCurrentness` |
| Human access and discussion | principals, OIDC bindings, grants, comments | provision, bind, grant, revoke, comment, list | look-up and insertion apart, grants revoked between the statements of a request, lapsing rows | nothing in force taken over; rights come from the operator | `HumanAccess`, `RevisionUpload` (grants) |
| Source intake | `agency_sources`, relations, events | create, metadata, suggest, link, unlink, exclude, restore, contain | transaction opened by a read; keys reused | ledger explains rows; answered is durable | `SourceIntake` |
| Knowledge | `knowledge_items`, `knowledge_events`, edit requests, variants, review events | publish, update, request, complete, project, select, reject, apply | requests read without the lock that decides | edit applied once, into its version, with its audit | `KnowledgeEditing` |
| Mobile editor | page state; drafts, lists and a queue in local storage | load, open, type, preview, confirm, request, synchronize, clear | every operation awaits an answer and then uses what others have changed | what is written was shown and confirmed; nothing read leaves the queue unanswered | `MobileEditor` |
| Decision Requests | requests, options, decision records, events | create, resolve, cancel | one pending blocker per issue; a request looked for before it is created | one gate at a time, decided once | `HumanAttention` |
| Work Issue scopes | scope links, scope events | add, retire, replace primary | two ledgers share the issue's version | exactly one active primary; versions explained by both ledgers | `HumanAttention` |
| Execution results | append-only results with items, dispositions | store, dispose | inputs of the next two | unique keys, items known once | `ExecutionReview` |
| Agency projects, change candidates, variants | `agency_projects`, candidates and both ledgers | create, update, propose, select, apply, reject, ask for revision | a candidate merged into a Project read without a lock; variants of one request in two executions | applied once, onto the revision it says, and nothing else changed | `ProjectChanges` |
| Claims | `agency_project_claims`, caches in the Project row | record, claim an accepted item | a review during the claim; a trigger that refreshes a cache from what it sees | a claim follows the last word of the reviewers | `ProjectClaims` |
| Information | cards in series, projection metadata, links and their ledger | create, derive, edit, act; update, link, unlink | two first changes, no row to lock | one working and one effective version; true history | `Information` |
| APU owner and write preparation | mapping reviews, commands, authorizations, owner state and its ledger | dispose, convert, review, prepare, authorize, import, apply | a chain of human acts read without locks by its last step | what is applied is what the chain describes | `ProjectAnatomy` |
| Entity relations | relations and their ledger | propose, canonize, reject, retire | proposals of one edge race | decided by humans, one open relation per edge | `EntityRelations` |
| Categories | tree, assignments | create, move, change, archive, assign, retire | moves that are valid alone and a cycle together; an advisory lock behind a row lock | a forest without orphans | `Classification` |
| Policy gate and Paperless adapter | consumed decisions; documents of another system; cards, versions, bindings | capture, preflight, consume, perform, patch, ingest, bind | nothing locked between judgement and effect | an effect is the one that was decided, once | `GovernedEffects` |
| Governed loop of the command line | chunks, stream and decision files, register | ingest, run, decide, register | two readings of a table that changes; files that anybody may write | an answer of a run that is retained is in its perimeter, cites its evidence and mixes no ingestions beyond what its two readings allow | `GovernedLoop` |
| Read models, observers, projections, user interface, OpenWebUI adapters, tools | none | | | | not modelled |

How they interact: a handoff creates a Work Issue and its Card; admission and
launch decide on the issue's status and version; a return moves the issue and
rewrites the Card; humans review the candidate through Work Issues and Decision
Requests.  An upload calls Source intake, the technical store, retention and the
professional documents in this order.  Execution results are what variants,
change candidates, claims and mappings are made from.  The editor drives the
Knowledge routes from a browser.  All components share
one idiom: an idempotency key looked up (sometimes before, sometimes under the
lock), an optimistic revision compared under a row lock, and an append-only
event written with the row.  The inventory in `PROJECT.json` lists every
component with its files, including those that are not modelled, and every
hazard at its line.

**Not modelled, and why.**  Read models, projections, observers and the browser
cockpit change nothing.  Conversion of files, chunking, structure, drafting and
formatting transform data and keep no protocol state.  `contradictory_review_store`
appends one self-contained record per call, which nothing reads to decide;
`agency_directory` and the canonical projections only read.  The capability
manager, the effect guard and the scripts are operator tools for one person at a
time.  Of the editor, the migration of old revisions, the buttons that review a
proposal (each is one call that `KnowledgeEditing` models) and the service worker,
which caches the page and not its data, are left out.

## Contents

| file | what it is |
|---|---|
| `WorkIssueRules.tla` | status tables and the human/Hermes ceiling, shared |
| `WorkIssues.tla`, `MCWorkIssues.*` | the Work Issue aggregate under concurrent clients |
| `RunDispatch.tla` | abstract: what launching one admitted run promises |
| `HermesLaunch.tla`, `MCHermesLaunch.*` | admission, launch reservation, external binding, Hermes |
| `HermesReturn.tla`, `MCHermesReturn.*` | the return of a run and its candidate |
| `RevisionUpload.tla`, `MCRevisionUpload.*`, `MCRevisionUploadRetry.cfg` | the contextual upload of a document revision |
| `SourceIntake.tla`, `MCSourceIntake.*`, `MCSourceIntakeLost.cfg` | Sources, their ledger, and the connection of a request |
| `KnowledgeEditing.tla`, `MCKnowledgeEditing.*` | Knowledge items, edit requests and variants |
| `HumanAttention.tla`, `MCHumanAttention.*` | Work Issue scopes and Decision Requests |
| `Requests.tla` | calls, connections and answers, shared by the modules that follow |
| `ExecutionReview.tla`, `ProjectChanges.tla`, `ProjectClaims.tla` | execution results and what is made from them |
| `Information.tla`, `ProjectAnatomy.tla`, `EntityRelations.tla`, `Classification.tla` | the other records of a Project |
| `MCProjectChanges.tla`, `MCProjectGraph.tla`, `MCAgencyRecords.*` | instances of the records of a Project, composed |
| `HumanAccess.tla`, `DocumentCurrentness.tla`, `MCCollaboration.*` | people from outside, and the Documents they may see |
| `GovernedEffects.tla`, `GovernedLoop.tla`, `MobileEditor.tla`, `MCGovernedEffects.*` | effects behind a human decision: of the gateway, of the command line, of the editor |
| `M_proofs.tla` for M = `WorkIssues`, `RevisionUpload`, `KnowledgeEditing`, `HumanAttention` | theorems about M, checked by TLAPS |
| `HermesRuns_proofs.tla` | theorems about `HermesLaunch` and `HermesReturn` |
| `ProjectRecords_proofs.tla` | theorems about `SourceIntake`, `EntityRelations`, `Classification`, `DocumentCurrentness`, `HumanAccess` |
| `ProjectContents_proofs.tla` | theorems about `ExecutionReview` with `ProjectClaims` and `ProjectChanges`, `Information`, `ProjectAnatomy` |
| `GovernedEffects_proofs.tla` | theorems about `GovernedEffects`, `GovernedLoop`, `MobileEditor` |
| `PROJECT.json` | components, runs, seeded faults, code map, hazards, findings, theorems |

## Conventions

* **One action per database-visible step.**  Under PostgreSQL's READ COMMITTED
  default, a handler that locks a row (`SELECT ... FOR UPDATE`) and then decides
  is one atomic step *from the lock to the commit*.  A `SELECT` made before the
  lock is a separate step, because other transactions commit in between.  A
  handler under REPEATABLE READ carries the snapshot it took.  A handler with
  several transactions, file operations or HTTP calls has one action for each.
* **Refusals and losses.**  A refused request rolls back, so it changes nothing
  but the request itself; `Drop` stands for it, for a lost request and for a
  lost answer.  Clients are free to send the command again.
* **Seeded faults.**  Definitions whose comment starts with *Seeded fault* are
  not part of a specification: each is the mapped definition after it with one
  plausible mistake.  `PROJECT.json` ("mutants") names which property must fail
  when the mistake is made, which shows that the property depends on the code.
* **Bounds** are named constants (`MaxVersion`, ...) and sit in guards.
* **Properties of a run** are named after what the run asks.  Where several parts
  answer one question, the definition is their conjunction and its comment names
  them: `ReturnIsSound` is `ReturnIsWhole`, `ReturnIsRecordedOnce` and
  `CardShowsStoredCandidate`.  It stands in the component's module, where a theorem
  states it.
* **Shared runs.**  Modules that share no state share an instance: a variable
  `subject` says which of them a behaviour is about, so that the run explores
  each in full and their product never.
* **`Requests`** gives the later modules one shape: `call[c]` is what the handler
  of request `c` has read so far, `answer` what was last answered with success,
  and `Keeps` is the write of an operation that read before its
  `with conn.transaction()`: it stays only if the connection is in autocommit mode
  (`Autocommit`), as the owners' own tests open it.

## What is modelled

### Work Issues (`work_issues.py`, `sql/001_work_issues.sql`)

`issue`, `run`, `comments` and `events` are the tables `work_issues`,
`hermes_runs`, `issue_comments` and `issue_events`; `call` holds the requests in
flight and `intent` the command each client bound to an idempotency key.  A
request is `Send`, then `CheckReplay` (the unlocked `SELECT` of
`_event_replayed`), then one of `Create`, `Comment`, `Start`, `Return`, `Close`,
`Transition` (everything from the row lock to the commit), then `Answer`; `Drop`
loses it anywhere.  The status tables are in `WorkIssueRules`.

Properties: `OneCommandPerVersion` (no lost update: the versions an issue went
through and the recorded commands are in bijection); `LedgerIsTrue`, which is
`LedgerTellsStatus` and `LedgerTellsRuns` (the append-only ledger and the mutable
rows tell the same story) and `OnlyHumansEndAnIssue` (however long the sequence,
Hermes never brings an issue to an end); `AnsweredIsApplied` (a client told "yes"
finds its own command applied, whichever copy of it won); `EndsAreFinal`.

### Launching a run (`hermes_execution.py`, `hermes_launch_context.py`, `hermes_run_binding.py`, `hermes_handoff_store.py`)

A handoff makes one issue and at most one admission, so one name stands for the
three.  `SubmitHandoff`, `AdmitHandoff`, `RevokeAdmission`, `CommentIssue` and
`MoveIssue` are human operations; `AdmissionExpires` and `LaunchExpires` are the
clocks.  `AdmissionState` is `_state`, the case analysis every operation decides
by.  `reserve_launch` runs under REPEATABLE READ and its first `SELECT` comes
before its row lock: `ReserveBegin` takes the snapshot, `ReserveCommit` decides
on it, and only the UNIQUE columns are of the present.  `PostRun` sends
`POST /v1/runs`; `HermesAccepts`, `PostLost` and `SubmissionUnknown` are the
network; `RegisterReserved`, `RegisterReplay` and `RegistrationUnknown` report
the start back; `RunDirect`/`RegisterDirect` are the older start without a
reservation; `BindingStops` is a crash of the binding process.

Properties: at most one `POST` per admission (`OneSubmission`);
`RegistrationIsExact`: never before the durable reservation
(`ReservedBeforeSubmission`), and the registered run is the very run Hermes started
for the reservation (`RegisteredRunIsExact`, `ReceiptIsRegistered`); a revoked
admission is never consumed (`RevokedNeverConsumed`); and the whole refines
`RunDispatch` (`ImplementsRunDispatch`).

### The return of a run (`hermes_runtime_return.py`, `hermes_result_candidate.py`, `reconcile_once`)

`Receive` (through `Reconcile` or `Report`), `ReadRun`, `ReadIssue` (two reads without
locks), then `CommitReturn` or `CommitReplay` (candidate, run, issue, ledger and Work
Card in one commit).  Humans comment on and move the issue meanwhile (`HumanComments`,
`HumanMoves`).  Properties: `ReturnIsSound`: the return and its candidate are stored
together and say the same (`ReturnIsWhole`), once (`ReturnIsRecordedOnce`), and the
card never asks a human to decide on something that is not stored
(`CardShowsStoredCandidate`); `ReturnIsKept`: it is there for good (`ReturnIsFinal`),
never ends an issue and never overrides a human who spoke after it was made
(`ReturnNeverEndsIssue`).

### The contextual revision upload (`human_revision_upload.py`, `storage_retention.py`, `store.py`, `project_document_admission.py`, `project_documents.py`)

One upload of a human passes eight durable stages, in files and tables that share no
transaction.  `request[h]` is the handler in a server slot and its `pc` the stage; the
other variables are what is durable: `publishing`/`retaining` (lock files),
`published`/`retained` (content-addressed files), `source`, `contract`, `run`,
`captured`, `bound`, `revisions`, `admission`, `granted`. `Begin` is the access check;
`AcquireUploadLock`, `UploadLockBusy`, `PublishFile`, `ReleaseUploadLock` are
`_publish_stream`; `ReadReceivedAt` and `RecordSource` the Source; `LookAtContract`,
`OpenContract`, `WriteContract`, `LoadContract` the contract file, truncated before it
is written; `LookUpConversion`, `ReuseConversion`, `RecordConversion`, `RunExists` are
`store.ingest`; `LookAtRetained` to `BindRetained` the retained copy; `CheckAccess`
the second look at the grants; `LookUpAdmission` (or `AdmitReplay`) the look for an
earlier admission, which takes no lock, and `Admit` the transaction from the lock of
the Source on, where another request may have admitted it since: then the primary key
refuses the insertion; `Answer` the 201.  `Reconciles` compares the capture with the
checksum of the Source or, if staff took that away, with the reference to the file
that was received.  `Refuse` answers with an error where the code finds one, `Fail` is
an exception (its `finally` clauses run), `Crash` a dead process (they do not).
`UnlinkSource`, `CorrectChecksum`, `AdmitByRoute`, `RevokeAccess`, `GrantAccess` are
other people between any two stages; the direct route looks and inserts in one step,
the upload in two.  Left out: the revision label and file name, which are compared
where the digest is; why a Source is not linked (unassigned or excluded); chunking and
structure of the text.

Properties: `AnsweredIsPreserved` (every claim of the answer holds, for the very
bytes that were sent); `UploadsAreTruthful`, which adds `StagesAreTruthful` (no
stage is on record without the one it builds on); `UploadsAreSound`, which is the
shape of the tables and `OneHistoryPerDocument` (numbered without gaps, no content
twice, no fork); `AdmissionIsFinal` (a Source that two requests found free is admitted
once, and never otherwise afterwards; to which of several documents is a matter of
the theorem); and `RepeatedUploadIsAnswered` (a client that
repeats is answered in the end, unless one of the obstacles that `Blocked` names
stands in its way infinitely often).

### Source intake (`source_intake.py`, `source_intake_api.py`, `cockpit_shell.with_connection`)

`sourceRow`, `contains` and `sourceEvents` are the tables, `request[h]` a request with its
connection.  The routes' connection is not in autocommit mode and is closed
without a commit, so a function whose first statement is a read (`ReadFirst`)
turns its own `with conn.transaction()` into a savepoint (`Stage`) that `Close`
rolls back after the answer was computed; the others `CommitMutation`.  Locks of an open
transaction hold off the others (`SourceLockedFor`).  `UploadSource` is the intake that
an upload makes in a transaction it owns.

Properties: `SourceIsExplained`, which is the shape of the tables and
`LedgerExplainsSource` (one event per revision, none on a replaced revision, and
the status is what the last event left behind); `DirectAnswerIsDurable`.

### Knowledge (`knowledge.py`, `knowledge_update.py`, `knowledge_edit_variants.py`)

`item`, `events`, `edit`, `projected` and `review` are the tables; `call[c]` a
call and what it has read so far.  Most operations are one locked transaction
(`Publish`, `Update`, `RequestEdit`, `RequestVariants`, `Complete`, `Project`,
`Select`, `Reject`).  An application is not: `ReadSelection` reads the request
and its selection without a lock, `SetReplacement` copies the text of the
variant, `ReadProposal` reads status and replacement without a lock, `ApplyEdit`
decides under the lock of the item and commits revision, status and audit
together, or `DiscoverStale` unwinds and `MarkConflict` records the conflict in a
transaction of its own.  A text is the whole Markdown after a replacement; since
a version determines its Markdown, the digest of a selection is compared with
the version.  `Finish` ends a call anywhere: refused, replayed, lost, or rolled
back with the connection of its route (see Source intake).

Properties: `LedgerExplainsItem`, `EditsApplyOnce`, and `ProposalsAreWhole`, which is
`AuditCommitsWithRevision` and `ProposalIsComplete`.

### Human attention (`work_issue_scopes.py`, `decision_requests.py`, `apu_cross_family.create_decision_request`)

`version` and `issueEvents` are the part of the Work Issue aggregate that scope
effects share with it, `link` and `scopeEvents` the scope tables; `request`,
`record` and `decisionEvents` those of Decision Requests.  Each write compares a
version or a revision under the lock of its row and writes a unique key, so a
replay check made before that lock can at worst turn a success into a refusal:
check and locked section are one action (`ChangeScope`, `Comment`, `CreatePlain`,
`CreateScoped`, `Resolve`, `Cancel`, and `ReplayScope`, `ReplayCreate`,
`ReplayDecision` for repetitions).  `ReplayCreate` is not a mere replay: a
repetition that names more scopes adds them.  Creating a request locks nothing
others wait for and is several actions: `Look` (is it there already?),
`CheckLinks` (the trigger that wants the project among the active scopes),
`InsertRequest` or `ReplayAsk`.  Options, texts and digests of a request are one
value; projects, people and the other linked entities exist throughout.

Properties: `AttentionIsSound` with `EffectsMoveVersionOnce` (the two ledgers
together have one row for every version below the present one); `GatesAreKept`,
which is `PrimaryIsKept` and `GatesAreSingle` (one pending blocker per issue; one
record per resolved request and none for a cancelled one, as the ledger tells);
`AnswersAreRecorded`.

### Projects, candidates and claims (`execution_results.py`, `agency_data.py`, `agency_change_candidates.py`, `project_change_variants.py`, `agency_claims.py`, `project_claim_candidates.py`)

`ExecutionReview` holds what was returned (`stored`) and what humans said of it
(`dispositions`); both operations rest on unique keys or one row lock and are one
step each.  In `ProjectChanges`, `project` and `candidate` are rows, `projectEvents`
and `candidateEvents` their ledgers.  A proposal is `Read`, then `Propose`; the
selection of a variant `CheckVariant` (which holds the execution and looks for
siblings in executions that it does not hold), then `SelectVariant`; an application
`LockCandidate`, which holds the candidate and reads the Project without a lock,
then `Apply` under the lock of the Project, or `MarkStale`.  `Dismiss` is a
rejection or a request for a revision.  In `ProjectClaims`, a claim is inserted
(`InsertDirect`, or `InsertFromCandidate` under the lock of the reviewed item) in
one step, when its trigger reads the claims it sees, and committed in another, when
its update of the cache has passed the row of the Project (`Commit`).

Properties: `ChangesAreSound`, which is `LedgerExplainsProject` (the ledger has one
row per revision; an applied candidate changed, on the revision that follows its own,
what it proposed and nothing else), `OneVariantPerScope`, `DecisionsAreFinal` and, on
a connection in autocommit mode, `AnswerIsOnRecord`; `ClaimsAreKept`, which is
`ClaimsFollowAcceptance` (an item becomes a claim while acceptance is the last word
about it, up to the commit, once) and `LoneClaimRefreshes` (the cache is true after a
claim that overlapped no other).

### Information, anatomy, relations, categories (`agency_information.py`, `information_projection.py`, `apu_*.py`, `entity_relations.py`, `agency_classification.py`)

`Information`: the operations on `card` hold their rows and are one step; a change
of the projection is `ReadMetadata`, which locks a row that is only there after the
first change, then `WriteProjection`.  `ProjectAnatomy`: of the chain `Dispose`,
`Convert`, `ReviewMapping`, `Prepare`, `Authorize`, `ApplyMatch` each reads what it
depends on without a lock (`ReadQualification`, `ReadReview` and `ReadOwner`,
`ReadCommand`, `ReadChain` and `ReadAuthorization`); `ImportDossier` makes the owner
state.  `EntityRelations`: `LookUpRelation`, then `ProposeRelation` or
`DecideRelation` under the row lock.  `Classification`: a move is `LockCategory`
(its row), `LockHierarchy` (the trigger's advisory lock), `CheckParent` (the row of
the new parent), `MoveCategory`; `LockedFor` says who waits for whom.

Properties: `CardsAreSound`, which is `SeriesAreSingle` (at most one version of a
series is worked on, one is effective), `LinkHistoryIsTrue` and `ActedIsImmutable`;
`AnatomyIsAuthorized`, which is `AppliedAsAuthorized` (the ledger of the owner has one
row per revision, and what was applied is what a selection, a preparation and an
authorization described, on the revision that the preparer saw) and, on a connection
in autocommit mode, `ActsAreOnRecord`; `RelationsAreSound` with `RelationsAreDecided`
(status and revision follow from a history of human decisions, and an edge is open in
one relation); `CategoriesAreSound` with `HierarchyIsSound` (a forest, nothing active
below or filed under what is archived, filed once).

### People and Documents (`human_access.py`, `human_access_api.py`, `document_revision_discussion.py`, `project_documents.py`, `project_document_currentness.py`)

`HumanAccess`: operators bind and grant in two steps (`LookUpBinding`,
`InsertBinding`; `LookUpGrant`, `InsertGrant`), and the insertion retires what had
lapsed when the transaction began; what the look-up finds as it was asked for is the
answer (`ReplayBinding`, `ReplayOperatorGrant`).  A grant is in force from its
insertion (`valid_from`) until it is revoked or lapses, compared with the time at
which the reading transaction began: `since` is what had lapsed by then, `upto` the
last grant made by then.  A remote request is `Resolve` (identity, on its own
connection), then one step for each right that it looks for (`RequireProjectRead`,
`RequireManager`, `RequireComment`), then `GrantRemotely`, `RevokeRemotely`,
`CreateComment`, `ListDocuments` or a replay; others revoke, and rows lapse, between
any two of these steps.  `DocumentCurrentness`: a key is looked up in one step and the
link made under the lock of the Document (`LinkRevision`) in another; a posture takes
the lock of its revision (`LockRevision`), reads the last posture and is written after
it (`RecordPosture`), and `Holders` are the calls that have the lock.
`ResolveCurrentness` and `ResolveReference` are what a reader is told.

Properties: `NothingIsTakenOver` (a binding or a grant in force is never displaced);
`OnlyGrantedActs` with `RightsComeFromTheOperator` (who grants was given management
and reading, and no remote request gives management), `CommentsAreGranted` and
`AccessOnRecord`; `RecordsAreOneLine` with `PostureIsOneLine` and
`HistoryIsOneLine`; `NothingIsGuessed` (a revision that is named current has a human
posture as its last, and every other one is retired, reclassified or not judged).

### Effects behind a decision (`policy_gate.py`, `paperless_gateway.py`, `paperless_ingestion.py`)

`shown` is the Paperless server, whose documents `Move` at any point; `signed` the
decisions of humans; `consumed` those the one-shot consumer has taken.  A request is
`Capture`, `Preflight` (the policy service judges), `Validate`, `Consume`, and then
for metadata `RecheckVersion`, `RecheckLatest` and `Patch`, for an intake `Ingest`
(card, versions and chunks, committed), `ReadCard` and `Bind`, for the other callers
of the gate `Perform`.  Each step may be the last of its process.  `effects` records,
with each effect, the stretch of the server's history from the judgement to the write.

Properties, in `EffectsAreGoverned`: `EffectsAreDecided` (an effect is the one that a
human signed, to the byte; metadata is written to a document that had these bytes
after the judgement), `OneShotOnce` (whatever fails between consumption and effect,
and whoever else holds the decision), `IntakesAreDecided` (what an intake bound and
answered is what was decided, beside other intakes of the same source).

### The governed loop (`cli.py`, `runner.py`, `retrieval.py`, `drafting.py`, `register.py`)

Each command is a process; they share `chunks`, `stream`, `records` and `retained`. A
run is `Ask`, `Semantic`, `Lexical` (two statements, between which a source may be
ingested again), `Draft`, `WriteStream`; a human `Decide`s on the file that is there,
anybody may `Craft` a record, and `Register` asks for an approval in the name of a
human.  Rankings are sequences of chunks, cut as the code cuts them; their fusion is
the set of the first `TopK` hits of the order `Before`, and scores are sums of `1/(K +
rank)`, kept as fractions and compared without rounding.

The files belong to nobody.  `RewriteStream` puts into the stream what somebody writes
(`Handmade`, whatever it says) or what some run once wrote (`answered`); `Craft` writes a
decision record with any decision, in any name, over the digests of any of these, or
without digests.  `GateProduced` looks at the shape of a record and not at its origin, so
that a record that is forged in full is retained, as `register.py:67-69` discloses.

Properties: `RetentionIsGrounded`, which promises what is left then (what is retained
carries an approval and an authorization in the names of humans and is bound to one
content; if a run wrote that content, whoever put it back and whoever made the record,
its evidence is in the perimeter of its contract, its draft cites nothing else, and
chunks of one source are of two ingestions only if the second was committed between
the run's two readings); of a content that no run wrote it promises nothing.
`FusionIsFair` (a chunk that one ranking puts before another, and none puts
after it, comes first; none twice, none left out for a worse one).

### The mobile editor (`mobile_editor/app.js`, `variant_review.js`)

`tab` is the page (what is current, what is shown, what awaits a confirmation),
`stored`, `listed` and `queue` the local storage, `waits[s]` an operation that awaits
an answer with what it had read; `history`, `updates` and `requests` are the service,
whose connections are taken to commit (on those of its routes an application reads
before its block: see Findings).  `OpenItem` makes an item current at once,
`ShowItem` or `ShowKept` shows its text later; `PreviewRevision`,
`RenderConfirmation`, `ApplyPendingUpdate`, `ShowApplied` are the signed update;
`RequestVariantEdit` queues, `SyncVariantQueue` and `SyncGoesOn` post a copy of the
queue one by one and then replace the queue; `Answer...` and `Lose` are the network,
`OthersRevise` other editors and Hermes; `SetNetwork`, `Reload`, `ClearLocalData` the
browser and its human.

Properties, in `EditorIsFaithful`: `UpdatesAreAsShown` (whatever is current when an
answer arrives, an update writes what the dialog showed, into the item and over the
text it was compared with), `RequestsFitTheirBase` (a stored request is about the
text of the version it names), `LosesOnlyUnread` (a synchronization removes only what
is on record or what it had not read).

## Runs

Every passing run is exhaustive; deadlock is checked where the system cannot
stop; it is switched off where the bound on versions, admissions or commands lets
everything be said at some point.

| run | question | bounds | distinct states |
|---|---|---|---|
| `work_issues` | do two clients that retry and race keep issue, run and ledger consistent? | 1 issue, 1 run, 2 clients, 4 keys, 4 versions, 8 commands | 1.04 M |
| `launch_race` | is one admission dispatched once, whatever races, is lost or restarts? | 1 admission, 2 bindings, 2 keys, 2 Hermes runs, 4 versions | 235 k |
| `return_race` | is one return recorded, whole and final? | 1 run, 2 callers, 3 keys, 5 versions | 698 k |
| `upload_race` | do overlapping uploads of one document keep one history? | 3 clients, 2 slots, 3 contents, no faults | 919 k |
| `upload_retry` | do all stages survive faults and other people, is a Source admitted once, and is the client answered? | 1 upload, 2 slots, 2 digests, 1 document, 2 faults | 636 k |
| `source_intake` | does the ledger explain every Source? | 2 Sources, 2 requests, 2 keys, 3 revisions | 315 k |
| `source_answer_lost` | is what was answered on record? (violated) | as above | |
| `knowledge_editing` | is an edit applied once, audited, and proposed only when complete? | 1 item, 2 requests, 2 variants, 2 calls, 15 commands, 3 versions | 1.58 M |
| `human_attention` | do scopes and gates of an issue stay single, explained by their ledgers, whatever is repeated? | 2 issues, 4 links, 2 requests, 2 decisions, 2 calls, 16 commands, 6 versions | 434 k |
| `agency_records` | do the records of a Project say what humans decided, whatever two requests read before they write? | 1 Project, 2 executions, 3 items, 2 claims of its own, 3 cards, 2 mappings, 2 relations, 4 categories, 2 calls; 3 revisions of each row | 168 k |
| `collaboration` | does nobody act without a grant, and is nobody told of a revision more than is recorded? | 2 people, 2 identities, 5 grants, 1 Document, 2 revisions, 2 calls | 374 k |
| `governed_effects` | is each effect the one that a human decided, at the gateway, on the command line and in the editor? | 1 Paperless document of 2 versions, 2 decisions, 2 calls; 2 contracts, 2 sources of 2 chunks, 2 ingestions; 2 items of 2 versions, 2 keys, 2 pending operations; 1 stream written by hand | 531 k |

**Why these bounds are enough to be interesting.**  Two actors are what a race
on one row needs; the third client of `upload_race` makes a fork possible (two
successors of one revision).  The versions see an issue through its life
(created, started, returned, closed) and let an item move on twice after a
request was made for it.  There are fewer keys than commands in `work_issues`,
`source_intake`, `human_attention` and `agency_records`, so keys meet other
commands.  `MaxFaults = 2` kills a request and its repetition.  `Handled` names the
uploads whose Source and access other people touch: all of them in `upload_retry`,
none in `upload_race`, where three clients already interleave.  Four categories are
what two opposite moves below each other's root need; two mappings of one
representation let the second application meet what the first made; a grant has
two rights under it and a revocation; the second ingestion and the second version
are the ones that arrive in the middle.  The theorems below remove the bounds for
the facts they state.  Symmetry is used over keys, clients, slots, run ids, calls
and contents, which no definition distinguishes, and in no run with a liveness
property.

**Orders.**  The three shared runs keep their size by fixing the order of acts that do
not race (action constraint `InOrder`, whose parts and comments in the MC module say
which): the dossier of an anatomy is imported before its chain begins; people are
bound before they are granted anything, one grant is made while a request reads
(`OneGrantMeanwhile`), and what the operator repeats is asked again between two
requests (`RepeatsApart`); links precede postures; hands write files after a run, or
where nothing was ingested; a decision is signed before its request is sent; the
editor is either about one update or about two requests.  What overlaps in the code
still overlaps: requests of different kinds on one row, others' writes, lapses,
revocations, ingestions and moved documents. `FewEffects` ends a behaviour of the
gateway after two effects.

**Fairness.**  Only `upload_retry` needs it.  `WF` on the handler's own steps:
a handler is a thread that runs on unless it fails or its process dies, which
`MaxFaults` bounds.  `SF` on `Resend`: the client repeats its upload until it is
answered, and the server, whose slots are taken now and then by others, does not
refuse it for ever.  Nothing is assumed of other people: giving access back or
linking a Source again is never fair, which is why `Blocked` appears in the
property.

## What is proved

Every invariant and every action property of a passing run is stated by a theorem,
except the liveness property.  A theorem holds for every value of the constants that
satisfies its module's assumption (`ConstantsAssumption`, or a named one such as
`ReturnAssumption`, `IntakeAssumption`, `AnatomyAssumption` where one module of proofs
extends several components): any number of clients, keys, calls, versions, documents,
faults.  The assumptions say of which kind a constant is and what the code checks of
its inputs; TLC evaluates each in a run.  All proofs have one shape: an inductive
invariant, one step per action, and lemmas that say once what *any* step may do to a
table (`StepKinds`, `StepLedger`, `Grows`, ...), so that an invariant about two tables
need not look at every action.

* **Work Issues** (`WorkIssues_proofs`).  `TypeCorrect`.
  * `NoLostUpdate` (`OneCommandPerVersion`): `VersionInv` adds that an absent issue
    has version 0 and nothing on record; the lemma `StepKinds` reduces every step to
    "records one command on the current version" or "leaves issues and ledger alone".
  * `AnswersAreTrue` (`AnsweredIsApplied`): `AnswerInv` relates the command a client
    bound to its key, the call in flight and the row of the ledger; without the
    first two a replay could be taken for another command.
  * `EndsStay` (`EndsAreFinal`).
  * `LedgerIsTruthful` (`LedgerIsTrue`): what the ledger says last is what the row
    says only because every row of the ledger stands at a version the issue has left
    (`RowsArePast`); and a return is explained only if the run was started in the
    same issue, which the `run` row knows and the ledger does not, hence
    `StartedAsBound`.
* **Launching** (`HermesRuns_proofs`).  `TypeCorrect`, with `LaunchFields` (what a
  binding at each program point must know).
  * `SubmittedOnce` (`OneSubmission`): `SubmitInv` says that between the durable
    reservation and the POST exactly one binding stands, and that nothing was sent
    before it.
  * `RevokedStaysUnused` (`RevokedNeverConsumed`).
  * `RegistrationStaysExact` (`RegistrationIsExact`): a registration writes down what
    its process remembers, so `RegisterInv` says that this is what Hermes started on
    the request of a binding, for as long as a process may still register it.
  * `Implementation` (`ImplementsRunDispatch`): every step of the launch protocol is
    a step of `RunDispatch` or leaves it alone.
* **The return** (same module), of `ReturnSpec`.
  * `ReturnsAreSound` (`ReturnIsSound`): a commit decides on what it read before its
    locks.  It may do so because the key of a recorded return tells what is stored
    (`KeyTellsReturn`), which makes a late replay write what is already there.
  * `ReturnsAreKept` (`ReturnIsKept`): recorded is final, and never over a human who
    spoke meanwhile.  The theorem's hypothesis `OnePayloadPerKey` is what callers
    owe: without it a second payload under the key of a return that races with it
    adds a candidate to it (finding `RecordedIsWhatWasSent`).
* **The upload** (`RevisionUpload_proofs`).
  * `OneHistory` (`UploadsAreSound`): `HistoryInv`.  That a document's revisions are
    numbered 1..n without forks is a fact about one set, and every way to link a
    revision (`Admit`, `AdmitByRoute`, with or without a predecessor) adds to it the
    next number and the one revision that nothing supersedes yet.
  * `AdmissionsStay` (`AdmissionIsFinal`): nothing is known of an admission that was not
    found; only the key at the insertion keeps it the first.
  * `StagesStayTruthful` (`UploadsAreTruthful`) and `AnswersStayPreserved`
    (`AnsweredIsPreserved`): files, rows and admissions are only added (`Grows`), so
    `StageInv` can say what each program point of a handler has behind it
    (`RequestFits`) and no other handler, person, fault or crash takes it away.  An
    answer given by a repetition needs in addition that an admission made by an
    upload is of what its Source holds (`AdmissionFits`).
* **Source intake** (`ProjectRecords_proofs`), of `IntakeSpec`.
  * `SourcesAreExplained` (`SourceIsExplained`): `LedgerInv` restates the property
    for one row and its events (`Tells`); a mutation adds one event on the present
    revision (`OneMore`), and a containment has a row of its own and none here.
  * `DirectAnswersAreDurable` (`DirectAnswerIsDurable`): an operation that does not
    read before its block is committed before it is answered.  For the others this is
    false (`source_answer_lost`).
* **Relations** (same module), of `RelationSpec`.
  * `RelationsStaySound` (`RelationsAreSound`): `RelationInv` restates the property for
    one row and its own lines of the ledger (`IsOfHumans`), because a step adds one
    line to one relation and leaves every other history, and what preceded each line,
    as it was.  What was looked up before the row lock decides nothing: the unique
    keys do (`RelationsAreOpenOnce`, `RelationKeysOnce`).
* **Documents** (same module), of `DocumentSpec`.
  * `DocumentRecordsAreOneLine` (`RecordsAreOneLine`): `DocumentInv`.  A revision is
    only linked under the lock of its Document, a posture under that of its revision,
    and both are appended.  `HoldersInv` says that one call at most has the lock of a
    revision, and that the last posture that it read is still the last; `OneHistory`
    and `OneLine` say for each sequence alone what keeps it without forks and each
    posture on the one before it.
  * `CurrentnessIsNotGuessed` (`NothingIsGuessed`): what a reader is told is
    computed in one step from postures and references, of which `DocumentInv` says that
    they are of revisions that exist.
* **People** (same module), of `AccessSpec`.
  * `WhoActsWasGranted` (`OnlyGrantedActs`): rights are read one by one and may be
    revoked between the reads and the write, so "the actor has the right now" is not
    invariant and is not claimed.  `CallIsGranted` says for each program point which
    grants of the actor are on record, in force or not (`HeldNow`), and `GrantsKept`
    that a row of grants never changes but for its revocation.
  * `RightsAreNotTakenOver` (`NothingIsTakenOver`): what an insertion retires had
    lapsed when its transaction began, which the call remembers (`since`).
* **Categories** (same module), of `ClassificationSpec`.
  * `HierarchyStaysSound` (`CategoriesAreSound`): a forest is a set of categories of
    which every part that is not empty has a member whose parent is outside it
    (`Forest`), which needs no induction.  `MovedStaysForest`: it stays one when a
    category moves to a parent that is not below it.  `MovesAreOrdered` says that
    this is still true of a checked parent when the move is written, since at most
    one call holds the advisory lock, and creations, changes and archivals leave
    everything below a category below it or add leaves (`NewCategoryIsLeaf`).
* **Information** (`ProjectContents_proofs`), of `InformationSpec`.
  * `CardsStaySound` (`CardsAreSound`): `InformationInv`.  A change of the projection
    was read before there was a row to lock, and two first changes both pass (a
    finding); the history of each link is true all the same, because `TellsLink`
    depends only on the events of that link.
* **Claims** (same module), of `ClaimSpec`.
  * `ClaimsStayKept` (`ClaimsAreKept`): a claim is inserted in one step and visible
    in another.  `ClaimStands` says of a claim under way that its item's last word is
    acceptance, which stays so because the item is locked until the commit, and that
    what its trigger has computed is right for the rows it saw.
* **Changes** (same module), of `ChangesSpec`.
  * `ChangesStaySound` (`ChangesAreSound`): `ChangesInv` is `ReviewInv`,
    `ProjectTables`, `CandidateTables` and `ChangeCalls`.  The Project is read without
    its lock; `ChangeCallStands` says that what was read is one of the snapshots of
    its ledger, and the comparison of revisions under the lock that it is the last.
    A candidate has one application under way, by the lock of its row, and one scope
    one variant, by the unique index at the insertion and not by the look before it.
    Answers (`ChangeAnswered`) stay on record because the tables only grow (`Grows`).
* **The anatomy** (same module), of `AnatomySpec`.
  * `AnatomyStaysAuthorized` (`AnatomyIsAuthorized`): `AnatomyInv` is `MappingTables`,
    `CommandTables`, `OwnerTables` and `AnatomyCalls`.  Each act reads its predecessor
    without a lock, so a chain cannot be said to be *the present* one at its
    application (finding `RejectionIsHonoured`); since no act is taken back
    (`ChainGrows`), the very selection, command and authorization that were read are
    on record, and only the owner's row is compared under its lock (`OwnerMovesTo`).
* **Knowledge** (`KnowledgeEditing_proofs`).  `TypeCorrect`, with `CallsFit`: a call
  past its first read holds a text or variant that exists.
  * `EveryRevisionIsOnRecord` (`LedgerExplainsItem`).
  * `AppliedOnce` (`EditsApplyOnce`): `ApplyInv` adds that a revision written for a
    request is of its item and its base version; two of them would be two commands on
    one version, which the ledger excludes.
  * `ProposalsStayWhole` (`ProposalsAreWhole`): `AuditInv` adds that an audit row has
    the key of the command that wrote it, so that no other command can seem audited;
    `ProposalInv` that a variant is projected only while its request wants it, under
    a label that no other has.
* **Human attention** (`HumanAttention_proofs`).
  * `AttentionStaysSound` (`AttentionIsSound`): `Told` says that two ledgers together
    have one row per version left behind; a creation with several scopes adds a whole
    interval (`ToldMore`).
  * `GatesStayKept` (`GatesAreKept`): every operation on scopes retires some links and
    inserts others (`Relinks`), which keeps `LinksInv` whatever the operation was;
    `GatesInv` says for each request what its ledger, its records and its row have in
    common (`RequestTold`).  One blocker per issue is a matter of the index at the
    insertion (`OneBlocker`): the look before it decides nothing.
  * `AnswersStayRecorded` (`AnswersAreRecorded`): ledgers grow, and a repetition is
    answered only from them.
* **Effects behind a decision** (`GovernedEffects_proofs`), of `EffectSpec`.
  * `EffectsStayGoverned` (`EffectsAreGoverned`), in three parts.  `StandInv` says
    what each program point has behind it, in terms of the moments of the server's
    history between which it looked; a Paperless document moves without asking, so
    nothing can be said of *now*.  `GroundInv` carries that over to the effects that
    ran, `OneShotInv` adds who holds a consumed decision and has not used it, and
    `StoreInv` says of card, versions and binding which effect admitted them.
* **The governed loop** (same module), of `LoopSpec`.
  * `RetentionStaysGrounded` (`RetentionIsGrounded`): `LoopInv` follows the perimeter
    from the rows of a run through its hits to what it writes, which `answered` keeps
    however often the file is replaced; nothing is known of a stream or a record itself,
    since anybody may have written it.  `StoreFits` says that the table has one ingestion
    of each source, and `ReadAt` of what a run has read that it still is what the table
    has, or that the source was ingested again since: this bounds what the second
    reading can bring (`ReadTwice`).
  * `FusionStaysFair` (`FusionIsFair`): stronger than any run could show, for every
    two rankings of any length and every `K` (`FusionFair`).  Scores are compared as
    products of integers (`Cancel`, `Fractions`); `Before` is transitive
    (`BeforeIsTransitive`), a chunk that dominates another is before it
    (`BetterIsBefore`), hence fewer chunks are before it, and it is kept when the
    other is.
* **The mobile editor** (same module), of `EditorSpec`.
  * `EditorStaysFaithful` (`EditorIsFaithful`): `EditorInv` types the page, the local
    storage and what each waiting operation remembers.  `PageStands` and `WaitStands`
    say that the versions they name exist (an item never loses a version), that a
    preview is only awaited while an item is current, and that what a synchronization
    read at its beginning is on record, kept or still to be done, which is why nothing
    that it read is lost when it writes the queue (`QueueLoses`).  What is written is
    what was confirmed (`NewUpdates`) because an operation keeps the version and the
    text it was started with, and the service compares them under the lock of the item.

The theorems on the records of a Project, on people and Documents, and on effects are
about the components' own specifications; the runs `agency_records`, `collaboration`
and `governed_effects` explore these as alternatives of one instance.

**Only model-checked**: the liveness property `RepeatedUploadIsAnswered`, since
liveness under fairness and `ENABLED` are out of the prover's reach; and the
violations listed under Findings, which are counterexamples.  Induction over data is
out of reach too: no module here needs a recursive operator, and what is counted
(`Cardinality`) is handled by the theorems of `FiniteSetTheorems`.

## Findings

The code does not do what its documentation, its tests or its interface say.  One
is a run of its own, `source_answer_lost`; the others are definitions of the
modules, which TLC refutes when they are given to the configuration that is named,
as INVARIANT or, where noted, as PROPERTY.

| definition | what happens | how to see it |
|---|---|---|
| `AnswerIsDurable` | suggesting a project, linking one and restoring a Source are answered with success and rolled back when the connection closes | run `source_answer_lost` |
| `NoSubmissionOfRevoked` | a revocation that commits between the first `SELECT` of `reserve_launch` and its row lock is not in the snapshot; the revoked admission is submitted to Hermes (and later refused registration, so `RevokedNeverConsumed` holds) | `MCHermesLaunch.cfg` |
| `RecordedIsWhatWasSent` | two concurrent returns under one key with different payloads are both answered "recorded"; one payload is not stored | `MCHermesReturn.cfg` with `Carries <- TwoPayloads` |
| `FailedAnalysisMayBeRetried` | an upload whose conversion failed cannot be retried under its key; its extraction run already holds the primary key | `MCRevisionUploadRetry.cfg` |
| `AnswerIsOnRecord`, `ActsAreOnRecord` | the same loss as the first, for change candidates and for the acts of the anatomy | `MCAgencyRecords.cfg` with `Autocommit = FALSE` |
| `CacheIsDerived` | of two claims inserted at once, the later refresh leaves the earlier claim out of the cached values | `MCAgencyRecords.cfg` |
| `StaleWritesAreRefused` | two first changes of a projection both pass the comparison with revision 0 | `MCAgencyRecords.cfg` |
| `RejectionIsHonoured` | an authorization that is withdrawn after it was read is applied | `MCAgencyRecords.cfg`, PROPERTY |
| `MovesTakeTurns` | opposite moves of categories wait for each other until the database ends one | `MCAgencyRecords.cfg` |
| `PatchMeetsItsBytes` | a document that moves between the second capture and the PATCH is patched under a decision about its former bytes | `MCGovernedEffects.cfg` |
| `PackIsOfOneRun` | an evidence pack holds chunks of one source from two ingestions | `MCGovernedEffects.cfg` |
| `RequestsAreKept` | a request that is queued while an earlier one is posted is removed from the queue unsent | `MCGovernedEffects.cfg`, PROPERTY |
| `DraftsAreKept` | opening an item again overwrites its draft | `MCGovernedEffects.cfg`, PROPERTY |
| `PreviewIsOfTheShown` | between the opening of an item and its text, the text of the former item is previewed as an update of the new one; the signed diff shows it | `MCGovernedEffects.cfg`, PROPERTY |

The first has the same shape wherever a function reads before its
`with conn.transaction()` on a route's connection: in
`agency_change_candidates` (create, apply, reject),
`agency_change_candidate_review.request_project_candidate_revision`,
`agency_claims.record_claim`, `apu_mapping_reviews.append_mapping_review`,
`apu_write_preparation` (`prepare_write_command`, `append_authorization`),
`contradictory_review_store.persist_candidate`, `knowledge.apply_edit_request`
(its conflict marking and `knowledge_update`'s application included),
`knowledge_edit_variants` (select, reject, apply, project) and
`project_documents.record_issuer_reference`.  `KnowledgeEditing` covers both
cases: a rolled-back call is `Finish`, and the properties are about connections
whose blocks commit.  The modules on `Requests` have the constant `Autocommit` for
it.

Weak points that contradict no stated promise are listed as hazards with a note
instead: `complete_edit_request` overwrites a request that was already decided,
a rejection and an application do not see each other's lock, the audit of an
application names the variant read first, the replay of a selection never
matches its digest, projecting and applying lock the same two rows in opposite
orders, and two overlapping requests for one decision may differ in their scope
refs and both be answered.

## Plan

Every safety property of the runs is proved.  What a next step would add:

1. The parts left out of components that are "partly" modelled in `PROJECT.json`,
   where a property would need them: the review of proposals in the editor, with
   `KnowledgeEditing` as its service.
2. What a repair of each finding would establish: `Autocommit = TRUE` states it for
   the lost answers already, and the theorems whose properties are conditioned on it
   would then hold of the routes as well.
