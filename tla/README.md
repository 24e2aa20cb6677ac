# Verification of structr.ai: decisions, documents, saves, sessions, conversions, prices

structr.ai is a construction estimating platform: a React client, an
Express/tRPC server over PostgreSQL (Drizzle), and a small separate service,
the *financial executor*, that alone may calculate and write an estimate for
the calculator page. This directory holds TLA+ models of the parts of it whose
correctness depends on orders of events, the TLC instances that check them and
TLAPS proofs of the properties that matter most.

Paths below are relative to the repository (`src/...` here). Properties are
written in `code style`, with their module when it is not clear.

## 1. Inventory

### 1.1 The decision cycle of an estimate

| part | source | state | operations |
|---|---|---|---|
| Draft edits | `server/estimate-db.ts`, `server/estimate-mutation-db.ts` | `estimate_drafts` rows | create, change status, notes, discount, reject |
| Internal approval | `server/internal-estimate-approval-db.ts`, `shared/internal-estimate-approval-engine.ts` | append-only snapshot, approval and revocation rows; status and stamp on the draft | review, approve, revoke, read the record, replay of both |
| Versions | `server/estimate-version-v2-db.ts` | `supersedes`/`superseded_by` edges, version numbers, command hash on the child | preview, create a version from a live draft or from its snapshot, replay |
| Database guards | `drizzle/0007_internal_estimate_approval_core.sql` | none of their own | row trigger on drafts, deferred checks at commit |

All writers run in a `SERIALIZABLE` transaction that first takes the project
row `FOR UPDATE`; they interact only through the rows. The client chooses a
request id per command; a command is bound to it by a hash of all its fields.

*Hard here:* legal sequences nobody tried (legacy approval, discount, revoke,
version of a revoked draft, version of a version); a review that is stale when
it is confirmed; retries of commands whose answer was lost after the world has
moved on; two versions of one source; the bound on the ancestor walk.
*Correct means:* the strict reader never refuses a record the application
wrote; what was approved stays what the draft holds; a decision is made once
and withdrawn at most once; a request id is one command; an acknowledged answer
can be asked for again; versions and sources name each other.

### 1.2 Document export

`server/internal-estimate-export-db.ts` with
`shared/internal-estimate-export-renderer.ts`. State: one `jobtread_exports`
row per attempt. Operations: preflight attempt, download of a retained
attempt, attempt that delivers at once. Each reads authority in one
transaction, renders outside any, and records its outcome in a second; bytes
leave afterwards. It reads the decision record through the same strict reader.
*Hard:* everything that happens between the two transactions (revocation, a
version, another download, a deployment, a crash). *Correct means:* bytes leave
only under the decision that is in force at the second transaction; the archive
holds exactly what was handed out; one first delivery; attempts immutable.

### 1.3 The calculator page and its server

`client/src/lib/calculator-intent.ts` (a controller per mounted page, an epoch
that silences late answers, a hint in `sessionStorage`),
`client/src/pages/Calculator.tsx`, `client/src/lib/auth-token.ts` (a new
session invalidates controllers and hint), `server/financial-calculator-client.ts`
(one `fetch`, 30 s, no retry), `server/financial-calculator-db.ts`,
`drizzle/0021_financial_calculator_lifecycle.sql` (create is idempotent by
request id, refuses a stale confirmation). *Hard:* a create that takes effect
after its answer was lost; reload, second controller, another project, another
login or new prices in the middle. *Correct means:* a sent request is not
forgotten while it may still make a draft; receipts are true; a refusal is
final; what is confirmed is what was calculated for the current selection.

### 1.4 The executor's transaction runner

`services/financial-executor/src/transaction.ts`: a pool of slots (one
connection each), three attempts per request, a hard deadline, a lifecycle
callback that may stall, and a PostgreSQL backend that may outlive its
connection. *Hard:* COMMIT answered around the deadline, a lost connection, a
callback that wakes late. *Correct means:* no session is opened beside a
backend that may still be running; callers are told the truth; retries commit
once; slots come back.

### 1.5 Price adjustments

`server/price-adjustment-db.ts`, `shared/price-adjustment-engine.ts` and the
guards of `drizzle/0004_phase4_learning_multitenant.sql`. State: one
`price_adjustments` row per proposal with its rollback snapshot, the active rows
of `cost_code_pricing_history`, the profit floor of a zone. Operations: propose,
approve, reject, apply, roll back; prices and floors are edited by hand as well.
*Hard:* proposals, approvals and applies decide on what they read in earlier
statements; two of them may be under way for one target; a rollback comes after
anything else that happened. *Correct means:* transitions are closed; an applied
price is in force; a rollback restores what was in force; corrections do not
compound.

### 1.6 The session of a browser tab

`client/src/lib/auth-token.ts` (the session a tab shows, its bridge to the
identity provider's SDK, login, logout, forced refresh), `auth-session-cache.ts`
(the tRPC link that stamps requests with the operator of the moment, and the
query cache), `password-change.ts`, `password-recovery.ts`. State: module
variables of one tab, and one mark in `localStorage`, the intent to be logged
out, shared by all tabs. *Hard:* everything is awaited - the first read of the
stored session, a token read inside a request, a refresh, a password change -
and may be answered after a logout, another login or a recovery link, here or in
another tab; provider events come in any order. *Correct means:* a request never
leaves with another operator's bearer, no answer given to one operator is cached
for another, a recovery link never becomes a business session, a logout and a
newer login stand.

### 1.7 Lead conversion

`server/lead-conversion.ts` (the modern route) and `server/pipeline-db.ts`
(the legacy one), over `server/lead-conversion-identity.ts`, with
`shared/intake-conversion.ts` and `server/lead-access.ts`. A lead becomes a
client, a project and, on the legacy route, a deal, in one READ COMMITTED
transaction. State: the rows of leads, clients, projects, deals and profiles.
*Hard:* both routes at one lead, retries after a lost answer, staff who edit or
remove the rows between the statements of a conversion. *Correct means:* one
lead, one project; a refusal never overwrites a conversion; the project's client
and owner are eligible when it is made; conversions do not block each other for
ever.

### 1.8 Capture of historical estimates

`server/historical-estimate-db.ts`, `shared/historical-estimate-engine.ts`,
`drizzle/0005_historical_estimate_capture.sql`. Documents of estimates made
elsewhere are recorded once (`recordHistoricalSource`); selections of their lines
are recorded as imports, and an import may revise an earlier one
(`importHistoricalEstimate`). Both tables are append-only. Each capture takes its
project row, an advisory lock of its request id, and the row it revises. *Hard:*
each check is a statement of its own; request ids are reused, also in another
project; access is withdrawn meanwhile; locks are taken one after the other.
*Correct means:* a request id is one submission; revisions are linear; a row is
recorded under present authority; no capture waits for ever.

### 1.9 The rest

Listed in `PROJECT.json` with the reason each part is not modelled. Several hold
no protocol to model: closeout, actuals and the collecting of calibration samples
end in `holdExecutionOperation` (`shared/execution-authority.ts:21`), which always
refuses; draft recovery cannot leave its first state (section 6); the executor's
entry and the reviewed approval adapter are sequential or only read; the modules
of single rows (field operations, deals, RFI, daily logs, analytics) have no
operation of several steps. Scope review and the decision intents of the
client are open.

## 2. Modules and how they correspond to the code

`PROJECT.json` maps every definition to its lines.

**`EstimateDecision`** - 1.1. One action per operation; a transaction that
commits is one step, because writers of a project are serialized by the row
lock and SERIALIZABLE; one that fails, conflicts or whose audit fails changes
nothing and is a stuttering step. Commands are chosen freely from the whole
command type, so duplicates, stale reviews and reordered requests are included
without modelling a network. A content hash is the content it is computed
from; a command hash is the command. `policy` is the Profit Shield policy the
review would evaluate against, which changes independently; `authorized` is
the set of actors that pass the membership check. `acks` records the answers
sent to clients and is the one history variable. Rows at the start include
calculated, historical and legacy-bundle rows, and rows with the stamp of the
retired id-only approval. The row triggers of migration 0007 are *not* guards:
`TriggersNeverFire` says that the TypeScript code never needs them. The one
check only the database performs, the ancestor bound applied to a new child at
commit, is a guard (`RoomForChild`).

**`DecisionLedger`** - the abstract promise of 1.1: contents, a decision that
goes none - active - revoked, and terms fixed at the decision.
`EstimateDecision!ImplementsLedger` is the refinement.

**`EstimateExport`** EXTENDS `EstimateDecision` - 1.2, composed with the whole
decision cycle: `ExportNext` is a decision step or an export step. A call is a
record that keeps what the code keeps in local variables between its
transactions; bytes are the tuple they are computed from (export, authority,
build). `Deploy` lets the renderer change, with or without a new declared
version. `Drop` is a crash, a conflict or a lost client at any stage.

**`CalculatorJourney`** - 1.3. `calls` are the calls whose answer is still
heard, so bumping the epoch is `Superseded`; `arriving` are the creates that
can still reach the executor, whether or not anyone listens. `created` is the
executor's table. `submitted`, `refused` and `released` are history.

**`ExecutorRunner`** - 1.4. Run, callback and backend move independently;
`late` is the clock relative to the two deadlines, `promise` the settlement of
the driver's transaction promise, `txn` the truth in the backend.

**`PriceAdjustment`** - 1.5. A call keeps what it read in its local state: the
target it found free, the status it decides on, the price row it will replace.
Each statement that reads before it is a step; a transaction is one step. Where
several reads of one call decide together, the module says at the definition why
one step has the same outcomes (`Vetoed`, `ReadTarget`, `RollBack`). The
row trigger and the unique indexes are part of the system here, because the code
relies on them. A price is the row that holds it, since a rollback reactivates
rows; a floor is a number in thousandths of a percent, since its snapshot is
rounded to two decimals. `before` is a history variable.

**`BrowserSession`** - 1.6. One tab; what other tabs do is `Elsewhere` (they set
or lift the mark) and the storage event `Notice`. The SDK is external and
adversarial: any event about any session, any answer. The code compares counters
(`revision`, `generation`, `authAction`) after an await with what they were before
it; the model keeps the answer of that comparison with what is awaited (`live`,
`read`, `bridge`, `signIn`), so that a step which bumps a counter clears it
(`Revised`, `NextGeneration`, `NextAction`). A session stands for the user and
session id of its bearer, so renewing a token does not change it. Storage is
assumed to be available. Asking for a recovery link and reporting a link error
change none of this state. `ended` and `older` are history.

**`LeadConversion`** - 1.7, statement by statement: each read is a step, what a
transaction writes becomes visible in one step, and row locks follow from where a
call stands. Candidate clients are read without a lock, as in the code. Ids of new
rows are named after the call. The modelled minimum data is the contact of a
lead; one tenant; a converted project that was cancelled stays as it is.

**`HistoricalCapture`** - 1.8, statement by statement, with the locks a call holds
derived in the same way (`ProjectHeld`, `RequestHeld`, `ImportHeld`, `GrantHeld`).
A project stands for the project and its client; who may write it (administrator,
owner, member or role) is one relation, `members`, which cannot lose a pair that a
capture has share-locked. A request hash is the submission, without its actor, as
in the code. What the pure normalisation refuses is an `Abort`, and so is what an
index refuses: `IndexesNeverFire` shows that the indexes never do. **`CaptureArchive`**
is what captures promise, as if they never overlapped: submissions recorded and
answered one after another, by permitted actors; `ImplementsArchive` maps every row
to its submission (the request hash), its recorder and its id. Two request ids
whose advisory keys collide only wait for each other more often. The draft that an
import creates is written with it and not told apart.

**`MC*`** - the small instances. **`*_proofs`** - section 5.

## 3. Runs, bounds, and what they show

| run | module | checks | shows |
|---|---|---|---|
| `Decisions` | `EstimateDecision` | `RecordsAlwaysReadable`, `ApprovedContentStays`, `VersionChainCoherent`, `RequestsBindOneCommand`, `AnswersRepeatable`, `TriggersNeverFire`, `ImplementsLedger` | all edits around a decision; chains up to the ancestor bound under two request ids |
| `ExportRaces` | `EstimateExport` | `OneFirstDelivery`, `RetainedEvidenceSound`, `HandedAsArchived`, `AttemptsNameTheirDecision`, `DeliveredUnderAuthority`, `AttemptsRecordWhatTheyRead`, `AttemptsImmutable` | two calls for one export beside decisions and deployments, or one beside edits of approved notes |
| `JourneySaves` | `CalculatorJourney` | `OpenRequestHeld`, `ReceiptsTrue`, `RefusalFinal`, `ConfirmationBindsSelection`, `BusyEnds` | two controllers of a tab, two requests, selections, logins and prices |
| `RunnerAttempts` | `ExecutorRunner` | `QuietBesideCurrent`, `AnswersTrue`, `LeasesEnd` | two requests, three attempts, faults anywhere |
| `RunnerBrokenPipe` | `ExecutorRunner` | `QuietBesideCurrent` (violated) | finding 1 |
| `RunnerLateCallback` | `ExecutorRunner` | `LateCallbacksSilent` (violated) | finding 2 |
| `PriceRaces` | `PriceAdjustment` | `AppliedInForce`, `TransitionsClosed`, `RollbackRestores` | two calls and two adjustments over a target of each kind, beside edits by hand |
| `PriceCompounding` | `PriceAdjustment` | `Uncompounded` (violated) | finding 3 |
| `SessionLateAnswers` | `BrowserSession` | `BearerOfItsOperator`, `CacheIsOwn`, `RecoveryIsolated`, `NoBearerAfterLogout`, `NewerSignInStands` | every late answer and every order of provider events, beside other tabs |
| `LeadConversions` | `LeadConversion` | `OneConversion`, `ConvertedRowKept`, `ProjectsWellFounded`, `NoSecondDeal`, `CallsEnd` | two conversions by either route beside two writes by staff |
| `LeadDuplicates` | `LeadConversion` | `NoTwinClients` (violated) | finding 4 |
| `HistoricalCaptures` | `HistoricalCapture` | `RequestsBindOneCapture`, `RevisionsLinear`, `IndexesNeverFire`, `ImplementsArchive`, `CapturesEnd` | two captures with reused ids and competing revisions, access changing, any of them aborted |

Type invariants are proved (section 5), which needs no bound, and are not among
the runs' properties.

Why the bounds are enough for the cases the properties are about:

- *Decisions.* A draft is decided once, so one root and one child contain every
  order of edit, approval, revocation and version of both; two contents and two
  policies (one content fails one policy) are what a stale review needs.
  `MaxLineage = 2` with three drafts puts a chain one below, at, and one beyond the
  bound (1000 in the code); `MaxVersion = 3` stands for 2147483647. The action
  constraint `Families` splits the instance by the content of the first row:
  chains of three drafts under two request ids, in which contents, notes, policy and
  members stay and no row is sent, converted or rejected, or two drafts under one id, in
  which all of these change (membership under one of the policies). It only removes
  steps, which cannot hide a violation among the steps it keeps; what it removes
  (both at once, and more actors) is covered by the theorems.
- *Export.* Two concurrent calls are the smallest race; the two readings of one
  call meet any number of decision steps. The state constraint `EditedOrRaced` keeps
  two families of histories: two calls race beside deployments and a version while
  the notes stay as they are, or the notes are edited, before and after a decision,
  beside one call at a time of one build and one draft. States outside are not
  explored further, which hides nothing inside; the theorems cover both at once. Three builds: the one that rendered,
  one that claims the same version with other bytes, one of another version. The
  rest of the decision cycle is kept small, because the theorem `Beside` carries
  everything proved of it over to the composition.
- *Journey.* Two controllers are what a duplicated tab view or a remount
  during navigation gives; `server/financial-calculator-ui.test.ts:510` has the
  same set-up. Two requests suffice for "a second save while the first is
  open". The action constraint `Beside` keeps two controllers to one page, with one
  selection, login and set of prices, and lets all of these change on pages with
  one controller. The step that fairness is about, an awaited answer, changes none
  of them, so the constraint takes away no fair step.
- *Runner.* Slots do not share state, so one slot and two runs show what a
  slot leased again meets; three attempts is the code's own limit.
- *Prices.* Two adjustments of one target and two calls are the smallest race;
  a target of each kind, because they differ in guards and indexes; two rows
  entered by hand, so that an edit may add, replace or remove; floors of two and
  of three decimals, of which a rollback restores the first only (section 6). The
  proofs remove the sizes.

- *Session.* Two sessions of one account and one of another tell apart what the
  code compares (the user, or the user with the session); everything awaited exists
  once per tab in the code too, except requests, of which one is followed while any
  number may come before and after it.
- *Conversions.* Two calls are the smallest race, over one lead or over two leads at
  one house, of which one has a phone, one an e-mail and an owner; two writes by staff
  suffice to make a client ineligible and to replace it. `Entered` is one row by staff.
- *Captures.* Two calls are the smallest race for a request, a document or a
  predecessor; four row ids give a document and a chain of three selections. The
  commands are those that meet: one document in either project, first selections
  under two ids, competing revisions of the first selection and of the second, one
  that returns to an earlier choice, and one sent for the wrong project.

Deadlock is checked except in the runs of the runner and of lead conversion, where
the system stops when all modelled requests are done. Symmetry is used in
`ExportRaces` (of calls) and `PriceRaces` (of calls and of adjustments) only, whose properties are invariants and action properties.

## 4. Fairness

- `CalculatorJourney!FairSpec` assumes that a call that a controller awaits is
  settled and heard. Between the web tier and the executor the code limits every
  call by `AbortSignal.timeout(30_000)` (`server/financial-calculator-client.ts:83`),
  so the web tier always answers. The browser's own `fetch` to the web tier has no
  limit in the code: that it settles, be it with a network error, is left to the
  browser, and a request that the browser never settles would keep `busy` set. Given
  a settled call, the promise handlers clear `busy` on every path, which is what
  `BusyEnds` checks. Nothing is assumed of the executor or the user; an answer may
  always be a failure.
- `ExecutorRunner!FairSpec` assumes that time passes, the two timers fire and
  settled promises are resumed (the event loop). Nothing is assumed of the
  backend, the connection or the callback: `LeasesEnd` holds with all three
  stalled for ever.
- `LeadConversion!FairSpec` assumes that a conversion that can take its next
  statement does: PostgreSQL answers statements, and a row lock, once taken by a
  conversion, is waited for by those that come later. Aborts are never required and
  staff are never required to do anything.
- `HistoricalCapture!FairSpec` assumes strong fairness of each capture's steps,
  because a step that waits for a lock is enabled again and again while other
  captures take it: PostgreSQL grants a lock in the order it was asked for.
- Decisions, export, sessions and prices state safety only.

## 5. Proofs

Proved with TLAPS for every value of the constants that satisfies the named
assumptions of the modules (`DecisionAssumption`, `ExportAssumption`, `JourneyAssumption`,
`RunnerAssumption`, `SessionAssumption`, `ConversionAssumption`: roots are drafts, bounds are positive, `None` is not a member
of the data sets, a transport code is not the name of another settlement; `AdjustmentAssumption`:
the kinds of targets and of rows are disjoint, as their tables are;
`CaptureAssumption`: a predecessor is given together with its revision, which
`buildHistoricalSelection` enforces).

| theorem | module | property |
|---|---|---|
| `Typing` | `EstimateDecision_proofs` | `TypeOK` |
| `StrictReader` | `EstimateDecision_proofs` | `RecordsAlwaysReadable` |
| `Refinement` | `EstimateDecision_proofs` | `ImplementsLedger` |
| `Chains` | `EstimateDecision_proofs` | `VersionChainCoherent` |
| `OneCommand` | `EstimateDecision_proofs` | `RequestsBindOneCommand` |
| `ContentStays` | `EstimateDecision_proofs` | `ApprovedContentStays` |
| `Triggers` | `EstimateDecision_proofs` | `TriggersNeverFire` |
| `Repeatable` | `EstimateDecision_proofs` | `AnswersRepeatable` |
| `ExportTyping` | `EstimateExport_proofs` | `ExportTypeOK` |
| `FirstDeliveries` | `EstimateExport_proofs` | `OneFirstDelivery` |
| `Evident` | `EstimateExport_proofs` | `RetainedEvidenceSound` |
| `Named` | `EstimateExport_proofs` | `AttemptsNameTheirDecision` |
| `Archived` | `EstimateExport_proofs` | `HandedAsArchived` |
| `Immutable` | `EstimateExport_proofs` | `AttemptsImmutable` |
| `RecordedAsRead` | `EstimateExport_proofs` | `AttemptsRecordWhatTheyRead` |
| `Authorized` | `EstimateExport_proofs` | `DeliveredUnderAuthority` |
| `Beside` | `EstimateExport_proofs` | `ExportSpec` implements `Spec` of `EstimateDecision` |
| `JourneyTyping` | `CalculatorJourney_proofs` | `TypeOK` |
| `Refusals` | `CalculatorJourney_proofs` | `RefusalFinal` |
| `Confirmations` | `CalculatorJourney_proofs` | `ConfirmationBindsSelection` |
| `OpenRequests` | `CalculatorJourney_proofs` | `OpenRequestHeld` |
| `Receipts` | `CalculatorJourney_proofs` | `ReceiptsTrue` |
| `RunnerTyping` | `ExecutorRunner_proofs` | `TypeOK` |
| `TruthTold` | `ExecutorRunner_proofs` | `AnswersTrue` |
| `Quiet` | `ExecutorRunner_proofs` | `QuietBesideCurrent`, if `EPIPE` is no transport code |
| `PriceTyping` | `PriceAdjustment_proofs` | `PriceTypeOK` |
| `InForce` | `PriceAdjustment_proofs` | `AppliedInForce` |
| `Closed` | `PriceAdjustment_proofs` | `TransitionsClosed` |
| `Restores` | `PriceAdjustment_proofs` | `RollbackRestores` |
| `LiveOnce` | `PriceAdjustment_proofs` | `OneLive`, with one call at a time |
| `UnlessTwice` | `PriceAdjustment_proofs` | `Uncompounded`, as long as `OneLive` holds |
| `Sequential` | `PriceAdjustment_proofs` | `Uncompounded`, with one call at a time |
| `SessionTyping` | `BrowserSession_proofs` | `SessionTypeOK` |
| `Bearers` | `BrowserSession_proofs` | `BearerOfItsOperator` |
| `Caches` | `BrowserSession_proofs` | `CacheIsOwn` |
| `Recoveries` | `BrowserSession_proofs` | `RecoveryIsolated` |
| `LoggedOut` | `BrowserSession_proofs` | `NoBearerAfterLogout` |
| `Newer` | `BrowserSession_proofs` | `NewerSignInStands` |
| `LeadTyping` | `LeadConversion_proofs` | `LeadTypeOK` |
| `ConvertedOnce` | `LeadConversion_proofs` | `OneConversion` |
| `RecordsKept` | `LeadConversion_proofs` | `ConvertedRowKept` |
| `WellFounded` | `LeadConversion_proofs` | `ProjectsWellFounded` |
| `OneDeal` | `LeadConversion_proofs` | `NoSecondDeal` |
| `TwinsByOverlap` | `LeadConversion_proofs` | `NoTwinClients`, by the modern route, with one call inside its transaction at a time and clients edited by nobody else |
| `CaptureTyping` | `HistoricalCapture_proofs` | `HistoryTypeOK` |
| `OneCapture` | `HistoricalCapture_proofs` | `RequestsBindOneCapture` |
| `Revisions` | `HistoricalCapture_proofs` | `RevisionsLinear` |
| `Indexes` | `HistoricalCapture_proofs` | `IndexesNeverFire` |
| `UnderAuthority` | `HistoricalCapture_proofs` | `CapturedUnderAuthority` |
| `OneByOne` | `HistoricalCapture_proofs` | `ImplementsArchive` |

The arguments:

- **StrictReader.** `RecordsAlwaysReadable` speaks of existing rows and of the
  answer of a nested IF, and is not inductive: nothing in it says that a row
  that does not exist yet has no evidence, or what the evidence looks like. The
  invariant is `AllReadable`: every row, present or not, either has no evidence
  and an undecided status, or has coherent evidence. The delicate steps are
  `Approve`, which builds the evidence; `Revoke`, which must find the one
  approval; and `CreateVersion`, which extends the lineage below rows whose
  evidence depends on their own. Lineages survive because no step changes
  the origin of an existing row (`LineageKept`).
- **Chains.** `VersionChainCoherent` together with "a row that does not exist has
  no place in a chain" (`AbsentClean`), without which a new child could
  inherit an edge. All chains, so also those longer than TLC walks.
- **OneCommand, ContentStays.** Every answer sent is backed by the row that
  recorded its command (`AnswersBacked`), request ids are unique in each table,
  and the record only grows. With `AllReadable` the content of a decided
  draft is the content of its snapshot.
- **Triggers.** From types alone, one case per writer: each guard of the
  TypeScript code implies the clause of the trigger it could meet.
- **Repeatable.** The guards of a replayed answer are state predicates
  (`AnswersApprove` ...), so that a retry is answered can be said without ENABLED.
  For decisions it follows from `AllReadable` and `AnswersBacked`. For a version it needs
  the invariant `VersionsSound`: a version was made by the actor and from the draft
  that its command names, and its lineage is one that the reader walks to the end.
  That holds because the room the trigger counts for a child is exactly the lineage
  of its source and the child itself (`LineageOfSource`); without it, a child beyond
  the bound would be acknowledged and its retry would fail.
- **Refinement.** `LedgerInit` and `LedgerStep`: an edit is `Edit`, an approval
  `Decide`, a revocation `Withdraw`, everything else stutters. It uses
  `AllReadable` to know that a revocable draft has exactly one approval.
- **Refusals.** The invariant `Fates`: a request is submitted once and is then on
  its way, committed, refused or lost, never two of these.
- **Confirmations.** The invariant `Bound`: a controller awaits one call at a
  time, it is busy while it does, and a calculation in flight is of what is
  selected.
- **OpenRequests.** `HintInv` on top of `Bound`: a stored hint is of the present
  login and, once a controller is mounted, of its pair; a controller that
  expired has released its hint; and the one create a controller awaits is what
  the hint names.
- **Receipts.** `ReceiptInv` on top of `Fates`: a request is one command wherever
  anybody knows it - hint, call under way, created draft (`OneRequest`) - and
  news that travels to a controller is of its intent and was true when sent.
- **RunnerTyping, TruthTold, Quiet.** The three share `RunnerInv`, of which each
  half needs the other. About attempts: earlier ones are rolled back, later ones
  have not begun (`Past`), and what the promise says of the current one happened
  (`Knows`). About leases: a leased run and its slot name each other, a slot out
  of service has no lease, and behind a run that gave its slot back in service
  nothing is active (`Holds`, `Held`). The delicate steps are `Release`, where
  `Acknowledges` must imply that the backend is done - it does only without
  `EPIPE`, finding 1 - and `Retry`, which may begin only behind a rollback.
- **PriceTyping, InForce, Closed, Restores.** The four share `PriceInv`. `Sound`:
  every row of a code was entered by hand or written by an adjustment of that code
  that was applied, and so is every row a call has read or a snapshot holds -
  without it the book could already contain the row an apply is about to write.
  `OneApplied`: what the unique indexes keep. `Kept`: the book of a code with an
  applied adjustment is what it was before, with the snapshot's row replaced by
  the new one. The delicate step is `Apply`, whose row was read in an earlier
  step and may be out of force: `Kept` still holds, which is why
  `RollbackRestores` needs its condition on the snapshot and `Uncompounded` fails.
- **LiveOnce, UnlessTwice, Sequential.** What finding 3 needs, and what suffices
  against it. `Uncompounded` is not inductive; `Manually` adds that the rows of
  adjustments in force are those of applied ones (`OwnRows`) and that no call under
  way has read one (`ReadManual`). The one step that needs `OneLive` is `ReadTarget`:
  were an adjustment's row in force, its adjustment would be a second live one beside
  the approved one. So `UnlessTwice` is conditional on `[]OneLive` and allows any number
  of calls; rollbacks between the steps of an apply do no harm by themselves. `OneLive`
  itself holds when calls do not overlap, because nothing comes between the check of
  a proposal and its insert (`Unclaimed`), and fails only in the race of two proposals.

- **The export's theorems** share `WholeInv`: the decision invariants `TypeOK`,
  `AllReadable` and `ChainInv`, and `ExportInv`, which says of every row what it was
  recorded from (`RowOK`), of every call what it still holds from its first
  transaction (`CallOK`), that ids drawn by calls are distinct and unused (`Drawn`),
  and of every document handed out that the archive has it (`HandedOK`). A row's
  authority stays the recorded one because the decision record only grows.
  `Authorized` needs `AllReadable` once more: that the authority found at the second
  transaction is the one rendered means that the decision in force has its content.
  `Beside` is the other half of the composition: an export step changes nothing
  of the decision cycle.
- **The session's theorems** share `SessionInv`: `Signals` (while the user is logged
  out the mark is set); `Good`, of which `Isolated` says that whatever is live was
  asked for by the operator shown, `Quarantined` that a logged-out or recovering tab
  shows no session, and `Waiting` what a sign-in and a token read presuppose; and
  `Overdue`, that nothing awaited before the last sign-in can bring another
  operator back.
  Each action is a composition of `Revised`, `Publish`, `NextAction` and `Cleared`,
  so the proof has one lemma for each of these and puts the actions together.
- **The conversions' theorems** share `ConvInv`: the row locks exclude (`Exclusive`),
  rows are named after the call that makes them (`Named`), a lead and its project
  mark each other (`Marks`), a call knows only what still holds under its locks
  (`Knows`), and so do the client and the owner it is about to use (`Grounds`).
- **TwinsByOverlap.** What finding 4 needs. `Single` says that active clients share no
  e-mail and no phone, and, of a call between its plan and its write, that it still
  matches nobody if it planned a client (`Unmatched`). The one step that needs
  the hypothesis is `Write`, which makes a client that another call inside its
  transaction might have been planning too. The legacy route, which looks for
  nobody, is excluded by the assumption on `Asks`.
- **OneByOne.** A step that writes a row maps to `Capture`, an answer from a row to
  `AnswerAgain`, a change of access to `ChangeAccess`, every other step stutters.
  `CaptureArchive` keeps only the submissions, so the proof needs `Spelled`: each row
  says what its submission said. `HistInv` supplies the guards (`Due`).
- **The captures' theorems** share `HistInv`. `Apart`: two captures never hold one
  project, nor, once locked, one request id. `Found`: what a capture has read by the
  time it stands where it does is still so. The two depend on each other: a row
  written by one capture disturbs what another one read only if both are in one
  project or have one request id. The lock of the revised row turns out not to be
  needed, since a revision and its predecessor are of one project.

`OneLive` and `CapturedUnderAuthority` are stated by theorems and by no run: the first
holds only under the theorem's condition, the second is the part of `ImplementsArchive`
that speaks of access.

Only model-checked: the liveness
properties `BusyEnds`, `LeasesEnd`, `CallsEnd` and `CapturesEnd`, which are out of
the prover's reach. No module declares a RECURSIVE operator. The proofs assume
nothing about TLC's bounds: `MaxVersion`, `MaxLineage` and the others are parameters.

## 6. Where code and comments disagree

1. **A broken pipe counts as an acknowledged rollback.** The runner takes any
   rejection whose code has five capitals or digits and is not of class 08 for
   an answer of the server. `EPIPE`, which the operating system reports for a
   broken socket, has that shape, so the slot is leased again although its old
   backend may still run. The comment above the test says that a lost transport
   cannot acknowledge. Run `RunnerBrokenPipe`; with the driver's own codes
   (`CONNECTION_CLOSED` ...) `RunnerAttempts` shows the property to hold.
2. **A late callback still sends its routine.** `callCalculatorRoutine` checks the
   handle, awaits `armStatement`, and executes without checking again, so a
   callback that was suspended there across the deadline sends one more
   statement, although "Late callbacks cannot obtain a SQL capability". Run
   `RunnerLateCallback`. The statement is behind the ROLLBACK on the same connection
   and the database routine refuses it there, so `AnswersTrue` is not
   affected.
3. **A correction of a withdrawn correction.** `applyAdjustment` reads the price
   of a cost code before it asks whether another adjustment is applied, outside
   its transaction, and the transaction compares only the adjustment's own row.
   Two proposals that raced past the check for a live one, and a rollback of the
   first between the reading and the check of the second, leave an applied price
   computed from the first one's price, and its rollback makes that price active
   again - the code refuses other orders "so two corrections cannot compound into
   a move nobody approved". Run `PriceCompounding`. The geo path rereads under
   locks and is not affected. Both races are needed: `UnlessTwice` proves that without
   two live proposals of one target no timing of calls and rollbacks does it.

4. **Two leads of one person become two clients.** The conversion reads the candidate
   clients without a lock and nothing makes a contact unique, so two conversions
   at the same time both find nobody and both make a client, although the header of
   `server/lead-conversion.ts` promises "Existing client reused instead of duplicated
   (LIG-003)". Every later lead of that person is then ambiguous. Run `LeadDuplicates`;
   `TwinsByOverlap` proves that modern conversions which do not overlap keep the promise.
   The promise of no duplicate project at an address (LIG-004) rests on a read of the
   same kind.

Disagreements seen while reading and not made into a run:

- `server/draft-recovery-db.ts` saves a partial draft with the status `partial`
  (line 50), but `markPartialDraftRetrying` (199) and `abandonPartialDraft` (289)
  accept only `pending` and `retrying`, and nothing else leads there: what the header
  announces, "Allows retry or abandon", cannot happen. The retry count there is moreover read in
  one statement and written in another.
- `server/lead-conversion.ts` comments on the reuse of a client with "only fill
  governance fields that are still empty. Never overwrite"; the update below it sets
  the fields without a condition.
- `server/price-adjustment-db.ts` says of a rollback that it restores the price book
  "exactly" (8), from "a rollback snapshot capable of exact restoration" (14), and
  `shared/price-adjustment-engine.ts:525` that "restoration is exact". The snapshot of
  a zone's floor is rounded to two decimals (`round2`, engine 502), while
  `geo_zones.min_profit_shield_pct` is a `numeric` without a scale
  (`drizzle/schema.ts:1029`) that `geo-router` fills with any number from 0 to 80: a
  floor of 35.125 comes back as 35.13. `RollbackRestores` and the theorem `Restores` therefore promise a zone its
  floor only if it has at most two decimals; the model has both kinds of floors.
  For a cost code they promise the rows in force only if the row the price was computed
  from was still among them at the apply (finding 3 is what follows when it was not).
- A selection of a historical source that was once recorded is never recorded again,
  also not as a later revision that returns to it: the content hash does not bind
  the predecessor.

## 7. Not modelled

- Money arithmetic, document layout, wording, audit rows, JSON canonical
  forms: abstracted to the value they are computed from. A hash never
  collides.
- Of exports: drafts without a client, or with another than their project's, and the
  two codes they are refused with (`ESTIMATE_CLIENT_MISSING`,
  `ESTIMATE_CLIENT_CONTEXT_MISMATCH`); a draft takes its client from its project when it
  is made, and neither changes. The statuses of attempts that could not be represented
  (`blocked_validation`, `blocked_reconciliation`, `needs_exception_review`) are one status.
- Row-level security and database grants; on the server an actor either passes the
  membership check at the moment of the transaction or does not.
- Reads that change nothing (previews, lists, statistics).
- Schema migrations and writes that bypass the application; the row trigger
  and deferred checks are there for these.
- Calibration events that an applied adjustment marks as actioned: a comment of
  the code (`server/price-adjustment-db.ts`, above `markEventActioned`) declares
  that step not atomic with the apply.
- The write order of the SDK's own session storage when two tabs log in and out at
  once (`client/src/lib/auth-token.ts:588`): the model lets the storage return any
  session or none, and no property promises that the newer login survives it.
- Of lead conversion: the intake form, activities, governance fields, the
  geo context written after the commit, `orchestrateDealWin`, projects made with a lead
  beside a conversion (`createProject` and `updateProject` accept a `leadId`, but the
  schema of their only caller, the project router, has none), reopening a cancelled
  project, rows without a tenant.
- The components of 1.9.

## 8. Plan

Done: the decision cycle with its abstract ledger, the export composed with it, the
calculator journey, the transaction runner, price adjustments, the browser session,
lead conversion and the capture of historical estimates, each with its proofs.

Left, in this order:

1. The `SignIn` of `CalculatorJourney` replaced by `BrowserSession`, so that an
   invalidated session and a stored hint are one composition.
2. Scope review and scope sources (`shared/scope-review-state-machine.ts`,
   `shared/scope-source-state-machine.ts`) and the decision intents of the client.
3. `orchestrateDealWin` beside `LeadConversion`; historical imports as roots of
   `EstimateDecision`.
4. Closeout, actuals and calibration, when their hold is lifted.
5. The pure engines as operators against reference definitions.
