# Verification of the Gold Trade Settlement Platform

TLA+ models, TLC runs and TLAPS proofs about the backend of the platform
(`src/services/backend/app`, written `app/` below): Python, FastAPI, Celery and
PostgreSQL.  The models are translated from the code; where a document, a docstring
or a comment says something the code does not do, section 4 says so and names the
formula TLC refutes.

## 1. The system

Traders write **payment requests** about beneficiaries of theirs; the centre reviews
them.  An accountant gathers eligible requests into **batches**; a manager approves a
batch's version; the approved version becomes a bank **file**; a person uploads the
file to the bank and marks it **sent**; the bank's answers are recorded as
**results**, which may be **retried**, and illustrated by crops of the bank's
**receipts**, linked as evidence; when a request is paid its result is **published**
to the trader, who acknowledges or disputes it, and may be **corrected**.  Money also
comes in: a trader claims to have paid for a **gold sale**, the claim is matched to a
row of an imported **bank statement** and confirmed, and the gold is **dispatched**.
Around every command: its **idempotency** key, and the **outbox** event that becomes
a notification.

Every command runs in one unit of work (`app/db/unit_of_work.py`): one database
transaction at READ COMMITTED, `autoflush=False`.  These devices protect a row:

* `lock_rows` (`app/db/locking.py`): `SELECT ... FOR UPDATE`, in a fixed order within
  one call;
* `compare_and_swap` (`app/db/concurrency.py`): an `UPDATE` conditional on
  `record_version`;
* unique indexes and CHECK constraints.

`session.get` locks nothing.  The payment side moves `record_version` only in
`compare_and_swap`; the gold side, review tasks and statements add one in Python to
what they read, which compares nothing.  SQLAlchemy writes a column only if its value
differs from the one loaded, so a stale read may also *not* write.  What is hard about
the system follows: commands that read a row before another commits and write it
after; columns of two tables that must agree and are written by six commands; a status
written without moving the version another command compares; a transaction that rolls
back, or commits, more than meant.

### Inventory

| component | state it keeps | operations | correct when | modelled in |
|---|---|---|---|---|
| payment request intake | `payment_requests`, revisions | draft, submit, correct, review, mark eligible, cancel | what goes to batching is what the accountant read | `RequestIntake` |
| traders, beneficiaries | `traders`, `beneficiaries` | register, approve, reject, suspend, reactivate; create, amend, deactivate | each row moves as if alone | `RequestIntake` |
| payment batches | `payment_batches`, `_versions`, `_items`, `_allocations`, `payment_attempts` | create, replace, finalize, cancel | container and version agree, a replaced version holds nothing, allocations back the items | `PaymentBatching` |
| batch approval | `batch_approvals` | approve, reject | decided once, by neither its creator nor its finalizer | `PaymentBatching` |
| bank exports | `bank_excel_exports`, stored files | preview, generate, download, mark sent | only approved versions reach the bank, one active file each, sent means sent everywhere | `PaymentBatching` |
| row splitting | none (a loop) | split | rows add up, fit the bank's limit, are as few as can be | `Splitting` |
| results, retries | `payment_attempts`, `payment_requests.status`, review tasks | confirm paid, confirm failed, mark retry, create retry | never more paid than asked, status follows the ledger, one retry each | `PaymentResult` |
| publication, correction, response | publications | preview, publish, correct, acknowledge, dispute | the trader is told exactly what was paid | `PaymentResult`, `Evidence` |
| evidence | bundles, segments, crops, confirmed links | crop, render, link, replace, revoke, close | evidence once given is neither lost nor doubled; nothing is shown unreviewed | `Evidence` |
| manual review tasks | `manual_review_tasks` | open, start, resolve, cancel | a review counts for the image reviewed | `Evidence` (also opened in `PaymentResult`, `FilesQueue`) |
| bank configuration | `bank_profiles`, `_versions`, mappings | create, number, activate | the version in force can be parsed with | `BankConfig` |
| bank statements | `bank_statement_files`, import runs, rows | file, ask for a run, parse, check for duplicates, match | a run's rows are the statement's lines and stay | `StatementImport` |
| gold sale, incoming payments, dispatch | sale orders, receipts, matches, dispatches | price, claim, match, confirm, dispatch, acknowledge, close | nothing leaves unpaid, no price moves under money | `GoldSale` |
| files queue | `processing_jobs`, derived files, rows | enqueue, poll, run, hand back, record failure | one output per job, nothing lost, nothing starved | `FilesQueue` |
| idempotency | `idempotency_records` | claim, complete, replay | a key runs one command | `Delivery` |
| outbox, notifications | `outbox_events`, `notifications` | append, dispatch, project | every event ends; one message for each a trader is told of | `Delivery` |
| upload | `file_objects`, storage | initiate, stream, finalize | rows and bytes account for each other | `Delivery` |
| identity, sessions, permissions | users, sessions, roles | login, step-up, grant | | no |
| retention, job policy, reports, interfaces, infrastructure | | | | no |

The components interact through shared rows far more than through messages: a batch
reads `payment_requests.status` and writes `payment_attempts`; results read those
attempts and write the request's status; a cancellation reads that status; exports
read and write batch, version and attempts; publications cite links; statement rows
are matched by the gold side.  The only asynchronous parts are the outbox and the files
queue, both tables polled by Celery beat.

`PROJECT.json` lists every component with its sources, and the hazards at their
lines with the properties that would catch them.

## 2. Modules

| component module | promise it is shown to implement | for TLC | proofs |
|---|---|---|---|
| `PaymentBatching` | `DualControl`: prepared, submitted, judged by another, released | `MCPaymentBatching` | `PaymentBatching_proofs` |
| `PaymentResult` | `Settlement`: one outcome per payment, never too much, told the truth | `MCPaymentResult` | `PaymentResult_proofs` |
| `GoldSale` | `GoldLedger`: received up to the price, released only when covered | `MCGoldSale` | `GoldSale_proofs` |
| `RequestIntake` | `RequestLifecycle`: the same commands at one instant each | `MCRequestIntake` | `RequestIntake_proofs` |
| `Evidence` | `EvidenceCustody`: evidence given is exchanged, never lost or doubled; shown only when cleared, to whom it concerns | `MCEvidence` | `Evidence_proofs` |
| `FilesQueue` | `JobQueue`: one worker at a time, ended only there or by being given up | | `FilesQueue_proofs` |
| `BankConfig`, composed by `StatementImport` | `JobQueue`, by the import's jobs | `MCStatementImport` | `StatementImport_proofs` |
| `Delivery` | `ExactlyOnce`: a key takes effect once and answers for what it cannot tell from that; its news is settled once | `MCDelivery` | `Delivery_proofs` |
| `Splitting` | | | `PaymentBatching_proofs` |

Two conventions hold in all of them.  A variable is a column, named in its
declaration, or what a transaction under way has read.  A command is *one* action
when everything it decides on is read after the lock it needs; where it decides on an
unlocked read, the read is an action (`...Reads`, `...Checks`, `Begin...`), the commit
another, and whatever other sessions commit lies in between.  A command that refuses
and rolls back is the absence of an action, or `Abandon`.

### PaymentBatching

`CreateBatch`, `CreateReplacementVersion`, `CancelBatch`, `FinalizeVersion`, `Decide`
(both routes share `_decide`), `GeneratePreview`, `GenerateFinal`, `MarkSent`: each
takes the batch row, or the export row, FOR UPDATE before it reads what it decides on.
The download locks nothing and re-reads a whole file between its check and its write,
so it is `DownloadExport` and `DownloadCommits`.  `CancelRequest`,
`RetireConfiguration` and `FileDrifts` are the surroundings: a request withdrawn, a
bank profile retired, a stored file damaged.  An identifier is used once, as a UUID is.
The attempts of one request in one version are one row of the model: the commands
treat them alike.  Workbook cells, audit rows and authentication are left out;
permissions are the sets `Accountants` and `Managers`.

### PaymentResult

The commands hold the request's row FOR UPDATE, so a commit is one action, with two
exceptions.  `confirm_paid` looks for its tracking number among *all* attempts,
which nothing locks: `CheckPaid`, then `ConfirmPaid` or `AbandonConfirmation`.
`cancel_request` reads the status without a lock and compares and swaps
`record_version`: `CancelReads`, then `CancelCommits`, and the variable `swapped` says
whether the version moved since the review.  An overpayment opens a discrepancy task and
refuses, and the refusal commits: that is the other branch of `ConfirmPaid`.  `TotalOf` is a
constant function from sets of attempts to sums, described by an assumption, so that
the proofs need no recursion.

### GoldSale

`app/commands/gold_sale.py`, `incoming_payment.py`, `incoming_match.py`,
`incoming_confirmation.py`, `gold_dispatch.py`, `gold_sale_closure.py`.  Pricing, claims,
proposals, confirmations and acknowledgements each read before they lock, and are two
or three actions.  A confirmation locks the order and then trusts the receipt it read
earlier: `ConfirmationReads` (unlocked), `ConfirmationChecks` (locked, sums the order's
other receipts), `ConfirmIncomingPayment`.  `Written` is SQLAlchemy's rule that only a
changed value is written.  An override lets gold leave without full payment; the
dispatches it made are `overridden`.  `TotalOf` is again described by an assumption.

### RequestIntake

No command of intake locks anything; each swaps one row on the version its client was
shown.  A client may hold any version that exists or existed, none that does not exist
yet.  Rows of three kinds (requests, beneficiaries, their business) have one record
each: status, edition (current revision, or the identity of a beneficiary), version.
A correction inserts its revision before its swap: `CreateRevision` is the commit of
both, so losing the swap leaves nothing.  The comment on eligible requests at
`app/commands/payment_request.py:134` ("if no active allocation") describes a check the
command does not make; the model does not make it.

### Evidence

Segments are cut from bundles as attachments or as crops; a crop is rendered by a
worker (`version` 1, then 2), put before a person, linked, cited, replaced, revoked.
A publication and a correction hold their request's row (`Locked`); replacing and
revoking a link lock before they read, and are one action each.  `judged` is a
history variable: the images a review passed.  A link is its attempt, segment and type,
UNIQUE together.

`EvidenceCustody` forgets links, tasks and transactions: per attempt the segment that
evidences it and those that did, per request the image shown.  In it a trader is shown
only what was cleared as it stands and had been linked to a payment of that trader's
own request; `LocksHold`, that a request is in the hands of one publication at a time,
is what makes a first publication the first.

### BankConfig and StatementImport

`BankConfig` is one profile: `CreateProfile` with its first version, `NumberVersion` then
`CreateVersion`, `BeginActivation` then `Activate` (which retires what was *read* as
active and gives the version its statement mapping).  `StatementImport` extends it: a
statement is filed against any version of the bank, in force or not; `CheckInFlight`,
`NumberRun` and `CreateImportRun` are the two queries and the commit of a request for
a run; `BeginParse`, `LookForDuplicates`, `ParseSucceeds`, `ParseFails`, `ParseRaises`,
`RecordParseFailure`, `ParserDies` are a worker's life.  Of the queue it keeps what
`FilesQueue` shows: a due job has one worker, a failure is recorded after the rollback,
late.  That this abridged queue still keeps within the promise `FilesQueue` is shown to
keep is `ImplementsJobQueue`: both modules instantiate `JobQueue`.  `ConfirmMatch` is
the matching guard; what a match does to an order is `GoldSale`'s.

### FilesQueue

`Poll` is the claim (`FOR UPDATE SKIP LOCKED`, in the order of `available_at`)
together with the branch of the task that follows: a job of the other task's type
is handed back in the same transaction.  `Work` is the handler and its commit, or
its exception and the rollback of everything, the claim's increment of
`attempt_count` included.  The failure is recorded by a second transaction that
reads without a lock: `ReadForFailure`, `RecordFailure`.  `Crash` kills a worker
anywhere.  `BecomesDue` is time reaching a retry's `available_at`.  The order of
`available_at` is kept as the set of pairs `ahead`, with the jobs already `due`: no
clock, no sequence, and `QueueIsALine` says that a poll never has two jobs to choose
between.

`JobQueue` forgets the line, the attempts and the rollbacks: a job is waiting, finished
or dead, in one worker's hands or none, and its work done or not.  A hand-back is a
stutter of it; a dead letter and a retry come only from a worker that failed at the job
(`Report`), late and possibly over what another has done since.

### Delivery

A key is claimed, executed and completed in the command's own transaction, except by
an upload, which is three: `Initiate`, `Stream`, `Finalize`.  What a key keeps of a request is
`RequestHash[k][b]`, the hash of what its command takes from the body `b`; `Replay`, a
completed key asked again, compares that and nothing else.  Commands choose differently:
an upload hashes purpose, filename and declared type and not the bytes
(`upload.py:229`), a correction the request and the link it replaces and not the new
segment or the reason (`publication_correction.py:190`), a publication the request alone
(`payment_publication.py:278`), a statement its version and file and not its account or
dates (`bank_statement.py:165`).  So `RequestHash` is a constant of which nothing is
assumed, and success can be told of a body that was not executed: what is shown is that
its hash was.  `CallEnds` is any end that
commits nothing further: refusal, exception, lost connection, dead process.
`CommitRefusal` is the overpayment routes, which commit a refusal and the unfinished
claim.  `Poll`, `Dispatch`, `BecomesDue`, `Crash` are the dispatcher, which claims, delivers
and records a batch of events in one transaction; a death loses the attempt count too.

`ExactlyOnce` forgets calls, dispatchers, attempts and storage: per key what it did and
for whom it answered, and whether its news is owed, told or lost.  Its promise goes as
far as its `Digest` tells requests apart, which `Delivery` fills with `RequestHash`.

### Splitting

A behaviour is one call of `split()`, a step is one turn of its loop.

## 3. Runs

| run | shows | distinct states |
|---|---|---|
| `batching` | six invariants and the refinement of `DualControl` over every interleaving of two batches or one replaced once | 495,651 |
| `result` | six invariants and the refinement of `Settlement` over two requests and four attempts | 228,465 |
| `files_queue` | three invariants, the refinement of `JobQueue` and the liveness of two renderers and a parser, with failures and a crash | 126,266 |
| `splitting` | every combination of small amounts, limits, cutoff and hour | 7,161 |
| `gold_sale` | three invariants, the price, and the refinement of `GoldLedger` by two overlapping transactions | 448,804 |
| `delivery` | two invariants, the refinement of `ExactlyOnce` and the liveness of the outbox: repeated calls, dying uploads, failing deliveries, a crash | 122,570 |
| `request_intake` | two invariants, the accountant's hold, and the refinement of `RequestLifecycle` | 457,825 |
| `evidence` | the chain of primary evidence and the refinement of `EvidenceCustody` | 1,377,713 |
| `statement_import` | run numbers, configuration and immutable rows, with overlapping activations and racing, dying and late workers | 2,245,956 |
| `double_batching`, `paid_then_cancelled`, `dispatched_twice` | findings | |

Bounds and why they are enough:

* `batching`: two requests (selections may be equal, overlapping, disjoint), two
  versions (two batches, or one batch replaced once), two exports (two files of one
  version, or one each), two administrators, one of them holding both roles, the
  case the separation of duties is for.  A third of anything adds no new pair of
  conflicting commands, and the proofs remove the bound.
* `result`: `r1` asks for 2 and can be paid in halves, at once, or too much; `r2`
  shares its tracking numbers.  Three attempts of one request are the fewest that
  allow an overpayment and a retry; one segment, which a publication shows or
  does not, so that a correction can change what is shown.
* `files_queue`: two renderers, so that one can overtake the other's failure
  recording; one crop that may fail every time; one crash.  `MaxAttempts` is 2
  instead of 5: one attempt that fails and one that is the last.
* `splitting`: amounts to 7, limits to 3: multiples, remainders, amounts at and
  below a limit, limits of one; hours before, at and after the cutoff.
* `gold_sale`: one order, two receipts that pay it in halves or overpay it, one bank
  row both may claim, two dispatches (one on an override, one not), two transactions:
  a conflict needs two.  Two orders share nothing but a bank row, which
  `RowPaysOnceWithinOrder` does not promise across orders.
* `delivery`: a key a trader is told of, one whose refusal commits and whose event can
  never be delivered, an upload; two bodies, which the first tells apart and the other two
  hash alike; a batch of two, so that the poison shares its batch; two attempts instead
  of eight.
* `request_intake`: one request with one correction (`MaxRevisions` 2), one beneficiary
  amended once, one trader and one accountant.  `MaxVersion` bounds how often each row
  moves: six versions take a request through submission, return, correction, second
  submission and review.
* `evidence`: two segments, so that a link can be replaced by another; one operator
  and one publisher, the two whose reads go stale; one attempt and its request.  That a
  trader is shown nothing of another's request is therefore the theorem's to say, and
  so is a render that falls inside the one operator's own review.
* `statement_import`: two statements that share a fingerprint, one with two lines of one
  reference, one unreadable; two runs, which can be two of one statement; two clerks,
  two workers; two configuration versions whose windows do not overlap, so that two
  administrators can activate both at once.  `TakeTurnsLater` lets administrators overlap
  until the first statement is filed and activate one at a time after that: an import
  reads which versions exist and which are mapped, sets that only grow, so nothing it
  does depends on what else two administrators have read.  `OneMatch` stops after one
  match: no other action reads or writes matches.  The theorems have neither bound.

Symmetry is used for identifiers whose values no operator compares by order, and in no
run with a liveness property.  In `statement_import` it includes the two versions: their
windows enter through `Overlap` alone, which exchanging them leaves as it is.

Deadlock is not checked: every model ends, as identifiers run out, every job is
finished, or the call has returned.

Fairness is assumed in two models.  In `FilesQueue`: `Poll` because beat sends both
tasks every thirty seconds, `Work` and the recording because a handler ends and the
worker goes on, `BecomesDue` because time passes.  In `Delivery`: `Poll` and `Dispatch` of
each worker and `BecomesDue`, for the same reasons.  Nothing obliges a client to call, a
job to be enqueued, or a worker to die.  Under it:

* `HealthyJobsSettle`: a job whose handler works ends and stays ended, whatever its
  neighbours do, except where the late recording of a failure has reopened a finished
  job: such a job's claim, once its attempts are used up, is refused by the CHECK on
  `attempt_count` at every poll, and it holds back what is behind it.  (It may end in
  the dead letters: `HandedBackIsNotExhausted` below.)
* `EventsSettle`: every outbox event is published or dead-lettered; a poisonous one
  does not hold back its batch.  It rests on the number of deaths being finite: a crash
  rolls the attempt count back with the batch, so the count does not bound crashes.

## 4. Where the code departs from what is said of it

Three counterexamples are runs:

1. `double_batching` (`RequestInOneLiveVersion`): a request enters two active batches.
   `create_batch` checks the request's status, which no batch command changes, and makes
   fresh attempts.
2. `paid_then_cancelled` (`PaidRequestNotCancelled`): a paid request is cancelled, because
   `_recalculate` writes the status without moving `record_version`.
3. `dispatched_twice` (`PastDispatchIsPast`): a confirmation writes
   `incoming_payment_confirmed` over an order already dispatched or closed, from which
   gold is dispatched again.

The modules state twelve more, which TLC refutes in the same way when the formula is
put in place of the properties of the module's configuration (with the instance in
brackets where the configured one is not the shortest):

| formula | the code | what is said |
|---|---|---|
| `CancelledBatchStaysCancelled` (PaymentBatching) | `app/commands/payment_batch_approval.py:306`: a decision on the version of a cancelled batch writes over the batch's status | `docs/governance/status_catalog.yaml:370`: cancelled is terminal |
| `SentFileIsNotWalkedBack` (PaymentBatching) | `app/api/v1/bank_exports.py:484`: a late download writes `downloaded` over a file marked sent | its docstring, line 426 |
| `DistinctTracking` (PaymentResult) | `app/commands/payment_result.py:500`: the check reads what nothing locks, so one bank transaction pays attempts of two requests | its refusal, line 510 |
| `HandedBackIsNotExhausted` (FilesQueue) | `app/workers/tasks/files.py:140`: handing back counts an attempt, so jobs nobody tried are exhausted | the comment at line 136 |
| `RetriesAreBounded` (FilesQueue) | `app/workers/tasks/files.py:161`: the rollback undoes the claim's increment, so a failing job never runs out | line 19, `app/db/claiming.py:100` |
| `SucceededStaysSucceeded` (FilesQueue) | `app/workers/tasks/files.py:198`: recording a failure reopens a job another worker finished | `app/db/claiming.py:185` |
| `AnswersForNoOther` (Delivery) | `app/files/upload.py:229`: the key's hash leaves the bytes out, so other bytes under the same form are answered with the first file; `app/commands/publication_correction.py:190` leaves out the new segment and the reason | `app/idempotency/resolver.py:8`, "returning the first response for the second request would be a silent wrong answer"; `app/files/upload.py:208`, "what the first identical request produced" |
| `InProgressIsUnderWay` (Delivery) | `app/files/upload.py:272`: an upload that dies after its first transaction, or an overpayment refusal, leaves the key in progress for ever; nothing acts on `expires_at` | `app/idempotency/resolver.py:160`, "Retry shortly" |
| `CitedEvidenceIsActive` (Evidence) | `app/commands/confirmed_evidence_link.py:391`: a supplementary link a publication cites is revoked; a link is replaced under a publication about to cite it | line 363, "cannot silently erase a previously published result" |
| `OneInForce` (BankConfig under `ConfigSpec`) [two administrators, two versions with overlapping windows] | `app/bankconfig/resolution.py:163`: two activations at once retire only what each read | its docstring, "Two active versions with overlapping windows cannot both exist for one profile" |
| `CreditPaysOnce` (StatementImport) [two claims, one clerk, one worker, no symmetry, no `OneMatch`] | `app/commands/incoming_confirmation.py:348`: a reparse makes the credit another row, and the guard looks at the row | its message, "one bank credit cannot pay two different claims" |
| `TwinsAreFlagged` (StatementImport) [two statements with one valid line in common] | `app/statements/duplicates.py`: two statements parsed at once look for each other's rows before either is committed, so neither twin is flagged | `06_Workflows_and_State_Machines.md:478`, "Duplicate fingerprints are flagged, not silently discarded." |

`OneRunInFlight`, `InFlightCanEnd` and `SuccessIsNotOverwritten` (StatementImport) are
refuted likewise: two clerks queue two runs of a statement; a run whose job is dead
stays queued and blocks its statement; a late failure writes `parse_failed` over a
parsed statement.

Seen while modelling, and part of the models without a formula of their own: re-confirming a
partly confirmed receipt replaces its amount but judges the order by the sum of both
(`record_dispatch` sums afresh, which is why `GuardedDispatchStaysCovered` holds); a match
that is active can be rejected; a claim may write its order's status over a
confirmation just committed; no command retires or re-dates a configuration version,
although the refusal of an overlapping one asks for it; rows marked invalid or
possibly duplicate can be matched.

The invariants of the passing runs hold in the same models, these behaviours
included: a request batched twice is still never overpaid, a file downloaded late is
still the only active one of its version, a reopened job still has one output, a sale
dispatched twice is still paid for.

## 5. Proofs

All for every value of the constants, under the assumptions named in the modules:
role sets are subsets of the administrators, `Null` is nobody's identifier; every
attempt has a request and a positive amount, and `TotalOf` grows by an attempt's, or a
receipt's, amount; amounts, prices and limits are positive (CHECKs of the database).
Each proof module has one lemma per conjunct or per group of actions, one step per
action, and ends with the temporal theorems.

* **`PaymentBatching`**: `Inv`, the conjunction of its safety invariants, `TypeOK`,
  `DecidedByAnother` (separation of duties) and `RowsHaveProvenance`, is inductive.  None
  of its larger parts is so alone: that a sent file and its batch agree
  (`SentTogether`) needs that the file's version exists and was decided
  (`FinalFileAuthorised`), that it belongs to an existing batch.  From it follow the listed
  theorems and `Spec => ImplementsDualControl`.
* **`PaymentResult`**: `Inv` adds `ConfirmationsHoldTheRow` to the checked
  invariants: a confirmation between its check and its commit is the only one of its
  request, and its attempt is still as it read it, so the sum it adds to is current.  A
  settled request can be paid no more, as any further amount would exceed what was
  asked, hence what a publication names stays true; so
  `Spec => ImplementsSettlement`.
* **`GoldSale`**: `Inv` adds `PricedBeforePaid` (before a payment is confirmed an order has
  no money and no gold moving, and a pricing in flight that will still swap is of such
  an order) and `ChecksStayTrue` (a confirmation that made its checks holds its order
  alone).  The price then never moves under money, the sum never passes the price, and
  `Spec => ImplementsLedger`.
* **`RequestIntake`**: `Inv` adds, for every command under way, that what it read let it go
  on (`Justified`) and that a row with the version it read is the row it read
  (`StillAsRead`).  That is exactly what makes compare-and-swap enough; with it each
  swap is a step of `RequestLifecycle` at one instant.
* **`Evidence`**: `Inv` adds `LinksFit` (a retired link is the one its successor names),
  `ReviewsFit` (a review that passed is remembered in the version it was of) and
  `CallsFit` (what a transaction read of an image or a link does not become untrue).
  `TheActiveRetires` is the heart of it: a correction does not lock the link it retires,
  but if that is no longer active another link of the attempt is, and the unique index
  refuses the successor.  So every replacement is an exchange, and with `LocksHold`
  every step is one of `EvidenceCustody`: `Spec => ImplementsCustody`, for any number of
  attempts and requests, where the run has one of each.
* **`StatementImport`**: the configuration's invariant is proved for `BankConfig` alone
  and carried through the steps of the import; the import's adds what clerks' and workers'
  open transactions hold.  Also proved, beyond what the run checks: a run's rows are
  its statement's lines (`RowsAreTheStatement`), a waiting run has a job
  (`WaitingRunHasItsJob`), a statement's status is the word of one of its runs
  (`FileStatusIsEarned`), flagged rows have a review (`FlaggedRowsAreReviewed`), the
  profile points at an active version, numbers tell versions apart.  TLC checked each
  on the configured instance before it was proved.  `Spec => ImplementsJobQueue` is
  proved too, from the same invariant; TLC confirms it on that instance as well, but
  takes three times as long with it, so the run leaves it to the theorem.
* **`Delivery`**: `Inv` adds that one call at a time works on a key (the unique index),
  that nothing happens before completion, and that only the worker that holds a due event
  moves it.  A completion is then the one instant a key takes effect, a dispatched batch
  one step that settles the news of several keys, everything else (uploads' bytes,
  back-off, deaths) a stutter: `Spec => ImplementsExactlyOnce`, whatever the commands hash.
  `HashedBodiesAreToldApart` says where more is true: a key whose command hashes all
  that tells two bodies apart answers for the request it executed and for no other.
* **`FilesQueue`**: `Inv` adds `QueueIsALine`, `HeldJobsWait`, `ReadingsHold` and
  `FailuresHaveJobs`.  One output per job needs that a job in a worker's hands is due, is
  in nobody else's, and that the worker knows whether it was done before; that a
  recording may dead-letter a job needs that attempts are never taken back, so what it
  read as exhausted, unlocked, still is.  Lemmas on the order of the line (joining,
  leaving, postponing, becoming due) show that it stays total, hence that at most one
  job can be claimed by a poll.  `Spec => ImplementsJobQueue` then has one lemma per
  action: `Finish` is `Complete`, `Raise` is `Fail`, a recording is `Report`, a refused
  commit and a death are `LetGo`, everything else is not seen.
* **`Splitting`** (in `PaymentBatching_proofs`: it is the loop batches are made with): while the loop runs, rows are full and
  `Len(rows) * limit + remaining = amount`; the last row takes the rest.

The type invariants are proved with the rest and not listed in the runs.

Only model-checked: liveness (`HealthyJobsSettle`, `EventsSettle`), which is out of the
prover's reach, as is what fairness rests on, ENABLED; and the counterexamples, which
need no proof.

## 6. Not modelled, and why

* Audit rows are appended with every command and read by none.
* Identity: sessions, login, step-up and role changes are state machines per user that
  share no row with the money; permissions enter as role sets, and a command is
  assumed to run with the permissions it began with.
* Uploading a bank's result bundle, linking it to a batch and deciding a matching
  candidate write columns no modelled command decides on.
* Assigning a review task; editing the centre's profile; creating a source account:
  single-row edits.  `create_mapping` has no caller.
* Retention and reconciliation only report.  What matters of storage, that bytes can
  lose their digest, is `FileDrifts`, and the upload is in `Delivery`.
* `app/workers/execution.py` has no caller among the tasks; the lease sweep counts.
* API routes check permissions, headers and shapes and call one command; where a route
  does more (the download, the overpayment refusals' commit) it is in the models.
  Schemas, serializers, migrations, the audit registry and the reports are the bulk of
  the lines no definition stands for.
* Reports and work queues are queries; the two front ends are screens over the API;
  `src/infra` is deployment.
* Deadlocks between two commands' row locks: PostgreSQL aborts one and its caller
  retries; the actions are commits.

## 7. Plan

Done, in this order: batching and results with their promises and proofs; splitting with
its proof; the files queue and its liveness; gold sale; delivery (idempotency, outbox,
uploads); request intake; evidence; configuration and statement import, all with proofs;
the safety of the files queue as theorems, and the promises `JobQueue`, `ExactlyOnce` and
`EvidenceCustody` with the proofs that they are kept.

To come:

1. The composition of `Evidence` with `PaymentResult`: a publication's money and its
   images decided in one transaction.
2. The composition of `GoldSale` with `StatementImport` over shared bank rows, two orders
   at once.
3. User lifecycle: suspension, recovery and role changes against the sessions and
   commands under way.
