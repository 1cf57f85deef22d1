# Verification of the RGN Farma System core

TLA+ models of the parts of this Django ERP whose correctness depends on the
order in which several users, workers and transactions act; TLC runs that check
them on small instances; TLAPS proofs of their invariants for every instance. Paths are relative to the repository.

## 1. Inventory

The system is one Django project (PostgreSQL, Celery over RabbitMQ) with about
thirty apps. Every app has models, a REST viewset, an HTML page of the generic
`/app/` shell and an audit record per domain action. Apart from reports, fiscal
and AI agents, which have Celery tasks, all behaviour is synchronous: an HTTP
request runs one or more database transactions. `ATOMIC_REQUESTS` is off, so a
method that is not decorated with `transaction.atomic` commits at every `save`.

| Part | State it keeps | Operations | Talks to | What is hard | What makes it correct |
|---|---|---|---|---|---|
| production | status of an order; allocations with their reserved, issued, lost and returned quantities and linked movements; outputs; genealogy | approve, release, start, pause, resume, complete, cancel; reserve, issue, receive; edits of rows | inventory (movements), qa (lot of an output), formulations, masters | repeated calls, edits between two calls, several rows on one balance, several orders on one lot, all-or-nothing over many rows | reserved stock is exactly what rows hold; movements are written once; genealogy equals what was issued |
| inventory | balance of a lot at an address per quality status: on hand, reserved; the movement ledger | receive, issue, adjust, reserve, consume, release | production, procurement, qa | concurrent writers of one balance; adjustments that count reserved stock | balance equals the ledger; reserved <= on hand; never negative |
| qa | lot release, quality block, review | approve, reject, block, unblock; apply | inventory (status of lot and balances), production | unlocked read-modify-write of the lot by three actors | lot, balances and release agree; a terminal decision is kept |
| quality | sample, analysis, document, investigation | collect ... approve, reject, cancel | inventory (status of the lot), qa | stale copies of sample and lot | a sample decides once |
| reports | execution with lease and token, protected artifact, retry count | request, claim, store, complete, retry, cancel, clean up | files, Celery | worker crash, lease expiry, late worker, redelivery, cancel against completion | one artifact per finished execution, no execution stuck for ever |
| procurement | quantity ordered; receipts with their quality and stock entry status; items with what was received, accepted and rejected | edit of an order item; mark received, release quality, post stock, NF-e import; edits of receipts and items | inventory (lots, balances, movements), qa (disposition of a lot), files | several receipts of one order item, a repeated posting, saves of rows that were read before the posting | a receipt enters stock once and wholly, within the order; what is in stock is immutable |
| finance | titles with status, paid and open amount; settlements; balance of an account; closed months | approve, cancel, mark overdue, settle, reconcile, reverse; edits; close a month | fiscal, procurement (titles) | partial settlements reversed in any order, edits after a settlement | paid amount, status and account follow the active settlements |
| fiscal | emission status and key of a document; its XML and DANFE; deliveries by mail | issue, check status, cancel; schedule, send; edits | the tax authority over HTTP, files, Celery | an answer lost after the authority has acted, a rollback after a task was queued, stale saves | the record claims nothing the authority has not done |
| files | status and successor of a file; uses, revocation and expiry of a link | replace, delete, expire; generate, use, revoke; edits | reports, fiscal, procurement | requests that decide by the row they have read | a dead link serves nobody; a file has one successor |
| workflow | instance, steps, tasks | start, approve, reject, delegate | all | two approvers of one step | a step is decided once |
| base | identifier sequences, aggregate form writes | next number, save aggregate | all | two transactions on one sequence | no number twice |
| capa, changes, deviations, risks, audits, recalls, training, documents, crm | one status per record | guarded transitions | audit log | stale copy of the record | terminal statuses are kept |
| governance, compliance, integrations, knowledge, ai_agents, masters, auxiliary, accounts, core | registers, logs | CRUD, indexing, calls out | - | little | - |

`PROJECT.json` lists every part with the files that implement it, and under
`hazards` what can go wrong in this code at which line.

## 2. Plan

Items 1 to 7 are done, the others are the plan, in this order.

1. `ProductionOrder` over `StockBalance` and `Summation`: orders, allocations,
   outputs and the balances they hold, with `ReservationPromise`. All invariants of
   the stock and the refinement of the promise proved.
2. `ReportExecution` with `ReportPromise`: leases, tokens, artifacts, redelivery,
   death of a worker and cancellation; settling under fairness; refinement of
   the promise.
3. `LotDisposition`: `LotRelease`, `QualityBlock`, the evidence of a release and
   the balances of a lot, with the unlocked writes of `apply`, of a sample and of
   a plain edit as steps of their own.
4. `Settlement`: titles, settlements and accounts over `Summation`.
5. `PurchaseReceipt`: receipts of one order and their entry into stock over
   `Summation`, with the saves that read before they lock as steps of their own,
   and `EntryPromise`.
6. `FiscalEmission`: the transactions around a call to the authority, its late and
   lost answers, and the mail.
7. `SecureFile` with `LinkPromise`: files and links, with the row every request has
   read.
8. `AllocationForm`: two editors who load, lock, merge and save one row, shown
   to refine `SaveLine`.
9. `IdentifierSequence` and `LockOrder`: two transactions on one sequence, and the
   lock acquisition of production, qa and procurement as steps.
10. `RecallCampaign`, which locks and re-checks what it decides by. The other
    record workflows (capa, changes, deviations, audits, risks, training) decide by
    the copy of the request everywhere, so that a model of them says nothing that
    this sentence does not.

The project keeps to a dozen runs, each worth its minutes, and to forty properties
checked by them. The counterexamples that lost their run to a module of items 4 to 7
are told in section 6 with the instance that gives them.

Every invariant and action property of the passing runs is proved, and so are the
refinements of `ReportPromise`, `ReservationPromise`, `EntryPromise` and `LinkPromise`;
theorems about items 8 to 10 would follow their modules.

## 3. Modules

**StockBalance** has the arithmetic of a balance row: `BalanceClean` is
`StockBalance.clean`, `CanIssue` is `_validate_issue` on an approved balance,
`Reserved`, `Consumed`, `Released` and `Moved` are what the service methods of
`StockMovement` assign.

**Summation** sums a function over rows `1..n` by a recursive function, so that
the modules that use it can be proved about. A sum over rows stands for the
dictionary keyed by balance that `reserve_materials` and `issue_materials` build.

**ProductionOrder** is the core. One action is one database transaction: each
operation locks the order, then the allocations, then the balances and holds the
locks to the commit, and a `ValidationError` rolls everything back. The guard is
therefore everything the operation validates, for all rows together.

| Model | Code |
|---|---|
| `order` | `ProductionOrder.status` |
| `line` | `MaterialConsumption`: lot, planned, actual, loss, returned, and the quantities of its four linked movements |
| `bal` | the approved `StockBalance` of each lot |
| `posted` | the ledger entries no allocation made |
| `out`, `genealogy` | `ProductionOutput`, `StockLotGenealogy` |
| `expired`, `closed`, `withdrawn` | expiry dates that have passed, inactive addresses, unavailable materials, products, formulas and routes |

`reserved_quantity` and `issued_quantity` of a row always equal the quantity of
the linked movement (the code validates it on each operation), so one number
stands for both. A lot has one address, since an allocation names one and the
balance identity includes it. The row's `quality_status` is collapsed: the code
revalidates the balance it names each time. `SaveLine` takes any combination of
the user's fields, which covers a form submitted from a stale page, because
`MaterialConsumption.save` merges only the changed fields under the lock and
validates the result. An authorised user may correct a lot's expiry date
(`Redate`) and reopen an address; the row's own date is cleared by a save.
Nothing else is meant to write balances and movements: their REST resources accept
no field and the retention policy denies deletion. An empty PATCH of a balance, or
its HTML form, still saves the whole row as it was read; that is a hazard of its
own, which the model leaves out (`inventory/serializers.py:106`).

**ReservationPromise** is what a reservation promises whatever else uses the lot: a
row claims a quantity once, the claim is settled once and in one piece, and the shelf
holds what is claimed and unsettled. `ReservationPromiseKept` maps `claim` to the row's
lot and the quantities of its movements (`ClaimOf`), `shelf` and `reserved` to the
balance of the lot. Orders, statuses, dates and the fields users type have no
counterpart: their operations stutter or are one of three steps.

Operators named `X_Something` are wrong variants of `X` that the runs are tested
against; no specification uses them.

**ReportExecution** follows one execution through `reports/services.py` and
`reports/tasks.py`. Unlike production, a run is not one transaction: an action is
one transaction, or one call to the storage, and a process can be overtaken or
die before each of them.

| Model | Code |
|---|---|
| `exec` | `ReportExecution`: `status`, `started_at` (`started`), `result_file` (`file`) |
| `art` | the `ProtectedFile` rows of the execution, and whether a file lies in their directory |
| `proc` | a Celery worker in `generate_report_execution`, or a caller of `run()`: the next step, the message it holds, the token and artifact it compares with the row, the artifacts it is to remove |
| `queue` | the messages not yet taken: `request.retries` and the end of their countdown |
| `seen` | what `cancel()` has read and not yet acted on |
| `allowed` | whether the requester may still generate the report and the definition is active |
| `clock` | `timezone.now()` |
| `budget` | what has gone wrong so far, and `unretried` (above) |

A process goes through `claim` (`_claim_execution`), `blobs`, `row` and `detach`
(reconciling what an earlier run left), `render`, `reserve`, `store`, `complete`
and `notify`. An error takes it to `release` or `fail`, from there through the
same cleanup, and to `retry` or `exhaust`; `purpose` says what a cleanup is for.
`StillOwner` is the comparison that reservation, storage, completion, release and
failure make with the row locked.

An error may strike every step that uses the database, the storage or the broker. What
follows depends on where. The body of `run` handles an
error of rendering, reservation, storage and completion, and releases or fails the
execution (`RunFault`, `StoreFault`); an incomplete cleanup or an error of the
release leads to a retry. But `generate_report_execution` repeats only the two
exceptions it knows (`reports/tasks.py:37`). An error in the claim, in the
transaction that detaches an old artifact, in `_mark_failed`, in
`mark_retry_exhausted` or in the publishing of the next message ends the task, and
its message is acknowledged (`UnretriedFault`, `FinalFault`). The history
`budget.unretried` remembers it.

Messages are acknowledged late (`CELERY_TASK_ACKS_LATE` with
`CELERY_TASK_REJECT_ON_WORKER_LOST`): `Crash` puts the message back with the same
number of retries; a task that ends with an error is acknowledged. A retry after
an error waits 15 seconds and more, which is below one tick; a retry after a
lease conflict waits for the end of the lease. The clock ticks only while a lease
or a countdown runs, since nothing else depends on it, and it may stand still
between any two steps. A retry of a process that has no message is an error to
its caller.

**ReportPromise** is what the requester is promised: a status and the file that
can be read. `PromiseKept` maps `status` to the status of the row and `readable`
to its artifact if the execution is completed and the artifact is live and has
its bytes.

**LotDisposition** follows one lot that production made, from its receipt on.

| Model | Code |
|---|---|
| `status` | the status of the `LotRelease`, of the `StockLot`, of its product and supplier, of the review, sample, document and investigation of the release, and of every `QualityBlock` |
| `rows` | the balances of the lot by address and quality status |
| `evidence` | whether the release names a review and a document |
| `sampled` | whether `QualitySample.stock_lot` is this lot |
| `req` | per request in progress, the saves it has still to make |
| `overwritten` | history: the records whose status was last changed by a plain edit |

`LotRelease._transition` and `QualityBlock.unblock` lock what they change and are
one transaction, hence one action each (`Transition`, `LiftBlock`). The others read
a row, decide by what they read and save afterwards, each `save` a transaction of
its own: `apply` saves the block, the lot, the product and the supplier; approval
and rejection of a sample save the sample and then its lot; a PUT or PATCH saves
one row whole (`RequestEdit`): the status of a release and of a lot is the one it has
read, the status of all others is a field of the request (`is_blocked` for a supplier).
Such a request becomes a
sequence of writes when it reads its row, and `Save` makes the next one whenever it
likes; a request that dies is one that makes no further step. A block entered through
its HTML form is inserted and not applied (`EnterBlock`). `Kinds` chooses the
requests of an instance and `Editable` the records that plain edits save; in the code
all of them can be edited, and the theorems hold for any choice.

A write carries a mark, `edit`, that tells an operation from a plain edit. An edit that
changes a status puts its record in `overwritten`, the next write of an operation takes it
out. This is how the properties say what an edit may break and for how long.

The targets of a block and the evidence of a release are fixed. The statuses of a
sample before its review are one (`"open"`), since nothing distinguishes them. An
output of production enters its lot in quarantine; the other statuses of
`StockQualityStatus` (`reserved`, `under_analysis`, `returned`,
`segregated`) are not given to a lot by any operation modelled here.

**Settlement** is the ledger of `finance/models.py`. Every operation of it locks the
title, then the settlement, then the account, and `LockedFinanceEditMixin` applies an
edit as a patch of the changed fields to the locked row, so an action is a
transaction and an edit may set its fields to anything.

| Model | Code |
|---|---|
| `title` | `FinancialTitle`: status, type, `original_amount`, `paid_amount`, `open_amount` |
| `settlement` | `FinancialSettlement`: status, title, account, month of its date, amount, net movement, reconciled |
| `account` | `FinancialAccount`: opening and current balance |
| `closed` | the months of `FinancialPeriodClosing` that are closed |

Interest and penalty less discount are one `Charge`, which may be negative; a date is
the month it falls in.

**PurchaseReceipt** is the part of `procurement` that touches stock. `post_stock`,
`release_quality`, the NF-e import and the save of an order item lock what they
decide by: one action each. A save of a receipt writes every field as the request
read it (`ReadReceipt`, `SaveReceipt`); a save of an item reads the receipt the item
belongs to, then locks receipts, then writes (`ReadItem`, `LockReceipts`,
`WriteItem`), and other transactions fall between these steps.

| Model | Code |
|---|---|
| `order` | `PurchaseOrderItem.quantity` |
| `receipt`, `item` | `PurchaseReceipt` (status, quality status, stock entry status), `PurchaseReceiptItem` |
| `movement`, `stock` | the receipt movement of an item, the approved balance these movements brought |
| `held` | lots whose disposition is not approved, which QA changes at any time |
| `itemReq`, `receiptReq` | saves in progress |
| `overrun` | history: the items in stock that a save has written without the lock of their receipt |

An edit may give an item to another receipt, which is a field of its serializer
(`procurement/serializers.py:340`). A save that has read the receipt of an item before
another save moves it locks the old receipt and the one the request names, but not the one
the item is in. If that one enters stock before the save writes, the save changes an item
in stock: the item is *overrun*, and what the properties say of items in stock is said of
those that are not.

**EntryPromise** is what the receipts of an order promise: each enters stock once, with
all its rows, and what has entered stays within the order however the order is changed.
`EntryPromiseKept` maps an entry to a row that has a movement (`EntryOf`), `entered` to
the receipts whose stock entry is `posted` and `onhand` to the stock. Saves of
receipts and items, in however many steps they happen and to whatever receipt they move
an item, are stutters. The promise is kept until an item is overrun.

**FiscalEmission** is the emission of invoices. `issue`, `check_status` and `cancel`
hold the lock of the document while they call the authority: `Begin`, `Respond` and
a commit or `Rollback`. What the authority has done is not undone by a rollback, nor
is a task that `apply_async` has put into the broker before the commit (`QueueMail`).

| Model | Code |
|---|---|
| `doc` | `FiscalDocument`: `emission_status`, whether it has an `access_key`; and a history, `typed`: a form has set the status and no operation has since |
| `stored` | documents with XML and DANFE among the `ProtectedFile` rows |
| `call` | the transaction of a process: operation, document, answer, delivery it has created |
| `authority`, `late` | what the authority decided, and requests it works on although nobody waits |
| `mail`, `queue` | `FiscalEmailDelivery` and the tasks in the broker |
| `copy` | the row an editor is to save |

The statuses `validating` and `sent` are written and overwritten within one
transaction, so nobody sees them. The authority is external: it decides once on an
issue and once on a cancellation, may answer a repetition with a rejection, and its
answer may be lost or make no sense.

An editor saves every column without a lock. The serializer keeps the emission fields as
it has read them. The form of the HTML pages has them as fields
(`base/ui/registry.py:1697`, `base/ui/forms.py:482`), and `FiscalDocument.clean` only
asks that they are not empty, so `ReadDocument` prepares either the row as read or any
row with `typed`.

**SecureFile** is `files/models.py` without its contents: `file` (`status`,
`replaced_by`), `link` (`use_count`, `is_revoked`, whether `expires_at` has passed),
and per request the row it has read (`copy`, `seen`). `replace` and `use` decide by
rows they lock, `delete_secure`, `expire`, `revoke` and `generate_secure_link` by the
row as read, and a PUT or PATCH saves the whole row. `served` counts the uses granted
and `resaved` the files an edit has set back; the code has neither, the properties
need them.

**LinkPromise** is what the issuer of a link is promised: it serves at most `MaxUses`
times and, once dead, never again. `LinkPromiseKept` maps `phase` to whether the row of
the link exists and is valid, `given` to `served`.

The modules **MC...** have the instances, the modules **..._proofs** the theorems.

## 4. Runs

| Run | Instance | Question |
|---|---|---|
| `shared_lot` | one order, two rows on one lot of two units, one output, quantities 0..1, direct issues and adjustments | do sums over rows, repeated calls and edits keep reserved stock, ledger and genealogy consistent, is an output stocked once, and do they implement `ReservationPromise`? |
| `disturbed_order` | one order, one row, two lots, quantities 0..2, expiry, address and master data changing | do partial consumption, cancellation and a changing environment settle a reservation wholly? |
| `report_workers` | two workers, one user who cancels, two retries, one death, two errors, one withdrawal of a permission | can a late or repeated worker lose an artifact, write into a deleted one or publish twice? |
| `report_callers` | a worker and a direct caller, one user, one retry, one death, one error | can two processes own the execution? |
| `report_settles` | one worker, three retries, one death, two errors, fair | does the execution end, unless an error is one that the task does not retry? |
| `lot_dispositions` | one request in progress beside the transactions, a block on the lot, two addresses, every kind of request, plain edits of release, lot and sample | has stock the disposition of its release, do lot and balances agree, does only a release approve a lot, but where a stale copy has overwritten a status? |
| `lot_edited` | two requests in progress, two blocks that meet on the product, plain edits of release, lot, product and one block | does decided stock survive stale saves of its release and its lot, and does no unblock free what another block holds? |
| `settlements` | two titles, one account, one month, three settlements, amounts 1 and 2, a discount of 2 and a charge of 1 | do paid amount, status and account follow the settlements through partial payment, reversal, edit and cancellation? |
| `receipts` | two receipts of one order item, two items, one lot, an editor with a save of an item and one of a receipt in progress; items move between receipts | does a receipt enter stock once, wholly and within the order, as `EntryPromise` says? |
| `receipt_item_moved` | the same with two editors | the immutability of what is in stock, refuted (section 6) |
| `fiscal_emission` | one document, two transactions, one editor, two deliveries | does the record claim only what the authority has done unless a form has set it, does it stand until somebody saves a row, and does every mail carry an invoice? |
| `secure_files` | three files, one link of two uses, two requests | are uses counted exactly, do links keep `LinkPromise`, has a file one successor? |

Bounds of production. `MaxStock` stops receipts and upward adjustments; `Quantity` is what
users type; `Expirable`, `Closable` and `Withdrawable` choose what the
environment disturbs. Two rows are the least number that can share a balance,
and quantity 2 with one row the least with a partial consumption, a loss and a
return in the same reservation. Orders that compete for one lot are left to the
proofs, which hold for any number of orders, rows and lots.

`CHECK_DEADLOCK FALSE`: the system may stop, for example when every order is
completed or cancelled and no stock is left to issue.

Bounds of reports. `Lease = 1`: the lease of 300 s is one tick, and all other
waits are shorter. `MaxClock` lets a lease expire under each process that can
hold one. `Artifact` has three members, four in `report_settles`: one per run that the
bounds allow in all but a few behaviours; when none is left, `Reserve` waits, which only
cuts a behaviour short. `MaxCrashes`, `MaxFaults` and `MaxRevocations` bound what goes
wrong. The proofs need none of these bounds.

Bounds of dispositions. Two blocks are the least that can share a target, on
which one must see the other; two addresses the least of which a bulk update could
miss one; two requests the least of which one can be overtaken between two writes.
An instance with all of it is too large, so that each of the two runs has what its
questions need: whether release, lot and balances agree needs every kind of request, one
of them at a time beside the transactions, and stale copies of release, lot and sample;
whether blocks hold needs two requests and copies of the product and of a block.
Symmetry permutes requests and addresses, not blocks, whose targets differ. The theorems
hold for any number of requests, blocks and addresses, any targets and edits of all
records at once.

Bounds of the others. Two titles are the least that can confuse an account; with
three settlements a title can be paid in parts, reversed and paid again; the discount
of 2 is larger than the smaller amount. Two receipts of one item of each are the least
that exceed an order together, `Ordered` has 0 so that an order can be reduced too
far, and one lot is the least that two items share. `receipts` has one editor, beside
the transactions of the other users, which are actions of their own. An item is overrun
only if there are two, as `receipt_item_moved` has; what holds of the others then is
proved for any number of editors. TLC confirms all six properties with two editors
and one item (1.8 million states). One document is enough for the emission, whose
steps are about one; two transactions are the least of which one can answer late, two deliveries the least of
which one can outlive a rollback. Three files allow a second successor, two uses a
lost increment. The theorems hold for all of these numbers.

Fairness. None is assumed but of reports: every other step is the request of a user
or an answer of the authority, and nothing in the code makes either happen. The tasks
that mail an invoice are not repeated, so they promise nothing either. `FairSpec` of reports assumes
that a process which is alive takes its next step, that a message which is due is
delivered to some worker, and that time passes; it assumes nothing of errors,
deaths and users. `Settles` says that an execution ends for good unless an error was
one the task does not retry; there is a retry for each error and one for
the lease that a dead worker leaves behind. Section 6 tells what happens otherwise.

## 5. Proofs

`Summation_proofs` shows, by induction over the number of rows (as a least
counterexample, `SetInduction`), that a sum of naturals is natural, that sums
add, are monotone and are zero for zero shares. `ProductionOrder_proofs` lifts
this to the demand on a lot (`DemandAdd`, `DemandMonotone`, `DemandChange`).

The invariants are not inductive one by one. `IndInv` adds `RowsConsistent`: a
row has movements only with a reservation, its issue, loss and release add up to
nothing or to the whole reservation, and the loss and release are those the row
shows. Without "nothing or the whole", a cancellation could release a row that
has already a release movement; without "the row stays on its lot", the sum over
a lot would change under an edit. `StockStepInv` is the heart of the argument: a
step that adds `d` to what rows hold and `e` to what they took, and moves the
balances by the demands of `d` and `e`, keeps `ReservedIsOutstanding`,
`LedgerConservation` and `ReservationBacked`. Each operation is then one lemma
that exhibits its `d` and `e` (a reservation: `d` is what it wants; an issue: `d`
is minus what it settles and `e` what it consumes; a cancellation: `d` is minus
what it frees; an edit: none). That nothing becomes negative follows: what is
reserved equals a sum of natural numbers.

`ReservationsAsPromised` rests on the same invariant. `ClaimsBacked` carries what it says
about sums over to the claims: `ReservedIsOutstanding` makes the counter of a lot the
sum of what is left of its claims, `LedgerConservation` makes the shelf differ from the
posted entries by what the claims have used, before a step and after it. What
remains is to name, row by row, what an operation does to the claims (`ReserveRows`,
`IssueRows`, `CancelRows`, `EditRows`): an issue and a cancellation settle whole
claims, an edit changes none, since a row with a movement keeps its lot.
`MovementsWriteOnce`, which the promise implies for linked movements, is proved
(`HistoryKept`) and has no run of its own any more.

`OutputStockedOnce` and `GenealogyMatchesIssues` need one more fact, `ReceivedWhenCompleted`:
an output is received only in a completed order. `ReceiveEffect` shows that the
genealogy that is written is the sum of what the rows have issued, since every row is
asked whether it matches its movements. Afterwards no operation issues for that order
(`CompletedStays`, `IssuesSettled`) and an edit changes neither an issue of its rows nor
a received output (`OutputUntouched`), so that what was written stays true.

For reports, `IndInv` of `ReportExecution_proofs` adds to the invariants that a
running row has a timestamp that is not in the future, that an owner's token is
not in the future, that a process before its reservation holds no artifact, and
`FreshTokenInRow`. The last is what makes `OneOwner` inductive. Tokens are
timestamps, and two claims at the same instant would write the same token; but a
token of this very instant can only be the one in the row of a running
execution, whose lease, of at least one tick, has not expired, so nobody can
claim it at that instant. `LeaseChange` names the few ways a step can change row,
tokens and clock, `LeaseKinds` sorts the actions into them, and `OwnerInvStep`
argues about the ways only. `LinkKinds` and `LinkedStep` do the same for
`LiveArtifactLinked`.

`ArtifactInv` is what `DeletedHasNoBlob` and the refinement rest on. A late worker may
still write to an artifact while another process cleans it up. `DoomedLater` says
that such a cleanup belongs to a later claim, so the token of the late worker is older
than the one in the row and its store is refused; `RowLatest` keeps tokens and row in
that order. `TargetEmpty` says that a row is deleted only after its bytes, `HeldAlone`
that nobody else writes to the artifact of a process. For the promise, an owner about to
complete has an artifact with its bytes (`ReadyToPublish`), and what is published
is in nobody's hands (`PublishedStays`): no process holds it or is to remove it.
`ArtifactKinds` sorts the actions by what they do to artifacts. With these,
`PromiseHolds` maps each step to one of `ReportPromise` or to a stutter: only a
completion makes a file readable and only a cancellation takes it away. `Settles` is
liveness under fairness, which stays with TLC.

For dispositions, all six properties are proved of `Spec` as it is, with plain edits of
every record. The only premise is in the properties: the record that matters was not
overwritten by a stale copy. Each theorem has its invariant beside `BaseInv`, the type
and `WritesPermitted` (a pending write is one that a request of its kind, or an edit of an
editable record, makes):

| Theorem | Invariant beside `BaseInv` |
|---|---|
| `DecidedStockKept` | none: only a disposition relabels balances, and it finds all of them in quarantine or all blocked |
| `StockDisposed` | none: a disposition finds what it relabels as the release says, or the release is overwritten |
| `UnblockNeverApproves` | `ApprovalBacked`: while a lot no sample names is approved, or somebody is to save it as approved, some balance is approved. Approved stock stays (`DecidedStockKept`) and says, by `StockDisposed`, that the release is released |
| `Agreement` | `LotHeld`: a lot no sample names is about to be written by an operation only for a block that exists; edits are told by their mark. A step after a disposition is final is sorted by `FinalStep` |
| `BlocksHold` | `HoldsFollow`: behind the write that activates a block come the writes of all its targets |

That `ApprovalBacked` speaks of stock, which no request writes, and not of the release,
which a stale copy may overwrite at any time, is what makes it inductive. With `LotHeld`
the premise of `DispositionAgrees` may speak of blocks alone; with `HoldsFollow` the
write that reactivates a lifted block never leaves it without a pending hold.

For settlements, the two sums (`PaidIsSettled` over the settlements of a title,
`AccountLedger` over those of an account) change by one row at a time; `TotalPoint` of
`Summation_proofs` says what that does to a sum. `IndInv` adds `RowsPosted`: a
settlement has a positive amount, and a title and an account that exist. A reversal
never makes a title's paid amount negative because the sum that is kept contains the
amount it takes away (`TotalBoundsShare`). `CancelledHasNoSettlement` follows: a
cancelled title is paid nothing, and an active settlement alone would be a positive sum;
it is proved (`CancellationWins`) and needs no run of its own.

For receipts, all properties are proved of `Spec` as it is, with items that move between
receipts. The invariant `IndInv` says that a movement is what its item shows unless the
item is overrun (`RowSound`), and that what a save in progress has locked is not in
stock (`RequestSound`): the row it writes may be in another receipt by then, and
`WrittenRow` is the case distinction. Either the save holds the lock of the receipt the row
is in, which is not in stock, or the row is not in stock, or it becomes overrun by this
very write. `Intact` says what a step that writes no item in stock leaves of the
movements, `OrderStays` carries the order over such steps. `OrderNotExceeded` compares
two sums, what `_validate_first_stock_entry` adds up and what has entered after the
posting, row by row (`EntryWithinOrder`). `EntriesAsPromised` uses `OrderNotExceeded`
before and after a step, shows that the rows a posting makes entries are exactly those
that were pending, that nothing else makes or changes one, and that the balance of a lot
grows by their sum; once an item is overrun it stays so (`NoneOverrun`), so that the
promise is kept up to that step.

For emissions, `IndInv` has `LocksHeld` (no two transactions hold one document),
`CallsSound` (an answer that says authorised or cancelled was true, and stays true
since the authority takes nothing back; `SparesDecided`: a transaction that holds an
authorised document does not issue it and one that holds a cancelled document only
consults, and neither is told that it was rejected), `RowsBacked` and `CopiesBacked` (rows claim
no more than the authority has decided, nor do the copies that editors will save, unless
they are typed), and
that stored documents are issued and deliveries are of stored documents. `RecordStands` needs
`SparesDecided` and the lock: only the stale save of an editor takes back what a record
says was authorised or cancelled. An operation that starts from a typed row ends with what
the authority answers, so its result is backed again. No part speaks
of requests on their way: whatever they make the authority do only confirms what is
claimed.

For files, `IndInv` needs little beside `UsesCounted`: a use decides and counts by the
row it has locked, so that the rows requests have read need not be described at all.
For `LinksAsPromised`, no step is about two links (`OneLink`), and what it does to one is
one of four ways (`EveryLinkStep`), each of which leaves its phase or moves it as the
promise allows (`PhaseStep`).

Proved for all constants that satisfy the assumptions of the modules: the theorems
listed in `PROJECT.json` (`RowAssumption` and `QuantityAssumption` in production,
`ReportAssumption`, `DispositionAssumption`, `LedgerAssumption`, `ReceiptAssumption`,
`EmissionAssumption` and `FilesAssumption`). Of the properties of the passing runs
only `Settles` is model-checked and not proved: it is liveness under fairness. Proved
and no longer run are `MovementsWriteOnce`, `CancelledHasNoSettlement` and
`DeadLinksStayDead`, each because a property that is run says more.

## 6. Where the code and its documents disagree

Shown by a run:

- `procurement/models.py:1219` calls the items of a posted receipt immutable.
  `PurchaseReceiptItem.save` decides which receipts to lock by a query without a lock
  (1209); if another save moves the item to another receipt in between, the posting of
  that receipt commits while the first save holds other locks, and the item in stock
  is rewritten (`PostedItemsImmutable` in `receipt_item_moved`).

Refuted by TLC, without a run of their own. The properties stand at the end of the
modules; each fails in a few steps in the instance named:

- `reports/models.py:612` refuses to cancel a completed report, but decides by
  an instance read without a lock (`CompletedNotCancelled`, with one worker and one
  user who cancels).
- `docs/architecture/reports.md:150` fails an execution whose retries are used up;
  if its last worker died, the repeated message is lost to the lease of the dead
  worker and the execution stays running (`ExhaustedIsFailed`, with one retry, one
  death and one error).
- `tests/test_fix_qa_quality.py:170` promises that unblocking never moves a rejected
  lot back to quarantine, and `docs/validation/analysis-2026-10-23.md:17` calls that
  corrected. `unblock` spares a lot that is rejected at that moment, but `apply` has
  overwritten the status with `blocked` before (`RejectedStaysOut`, with
  `Kinds = {"block"}` and a block on the lot).
- `docs/architecture/production.md:135` leaves the release of a lot to QA alone; the
  approval of a sample approves its lot (`OnlyQAApproves`, with `Kinds = {"sample"}`).
- `docs/architecture/production.md:171` calls `released` and `rejected` terminal; the
  guard of `LotRelease.save` reads the persisted status before the save, and a
  disposition between the two is overwritten (`DispositionTerminal`, with
  `Editable = {"release"}`).

Met while reading, without a run:

- `docs/architecture/production.md:293` says that `cancel` changes only the
  lifecycle; the code also releases stock. The document is older than the code
  here: `docs/architecture/corrections-stock.md` describes the release.
- `docs/architecture/production.md:74` says that received outputs stay valid for
  audit; `ProductionOutput.clean` rejects them once QA has decided on their lot.
- `docs/architecture/reports.md:185` notifies on completion; a worker that dies
  after the commit notifies nobody, nor does the repeated message.
- `apply` puts a block on its targets in saves of their own; a request that dies
  between them leaves an active block whose product is free
  (`qa/models.py:902`). `BlockTakesHold` counts the write as pending.
- `docs/architecture/reports.md:150` fails an execution that cannot be generated. One
  error of the database in the claim, in the detaching of an old artifact, in
  `mark_retry_exhausted` or in `_mark_failed`, or one of the broker when the next message
  is published, is none of the exceptions the task repeats (`reports/tasks.py:37`): the
  message is acknowledged and the execution stays pending or running for good.
- The HTML form of fiscal documents has `emission_status`, `access_key` and
  `cancel_protocol` as fields, and `clean` only asks that they are filled in
  (`base/ui/registry.py:1697`, `fiscal/models.py:726`): a save can record an authorisation
  or a cancellation the authority never gave.
- A lot's edit saves the quality status it read (`inventory/models.py:115`), so a
  lot may lose the status a disposition gave it while it was edited.
- A review that is rejected while another user approves it ends as rejected
  although its approval was answered (`qa/models.py:163`).

## 7. Not modelled

Production: costs, operation executions and labour of an order; `transfer_stock`,
which nothing calls but tests; closing of an order, which no code does; database
deadlocks, which abort a transaction as a whole and so are steps that change
nothing; genealogy rows edited by hand by an authorised user.

Reports: what a report contains, schedules (`record_run`), audit records; an
operation of a user on the artifact itself; an empty PATCH, which saves a stale copy
of the whole row; a commit whose outcome the worker does not learn; a clock that
goes backwards.

Dispositions: segregation of duties, checklists and training, which only refuse
requests; a block or a sample that is given other targets; lots that are purchased and
not made; stale saves of a balance; audit records.

Finance: entries of the cash flow made from a settlement, cost centres, contracts;
the race between a closing and a settlement, since a month closes here between
transactions.

Procurement: requisitions, quotations and the approval of an order, which are over
before a receipt exists; the storage of an NF-e; `receive_purchase_receipt_item`
called alone, which only tests do; deletion of a receipt, which retention denies.

Fiscal: the entry of a purchase document and its financial title, tax assessment,
`FiscalEmailDelivery.cancel`, which nothing calls; files that users upload and link to a
document (`files/serializers.py:42`), which count as its XML and DANFE for the mail and
are left out of `stored`. Files: access rules, contents,
`supersedes`, which users set freely, and the forms of the Django admin, which save
whole rows.

Hazards met in this code that no model covers and the list of `PROJECT.json` has no
room for: a commit of a report whose outcome the worker does not learn
(`reports/services.py:480`); an order completed with open reservations can neither
issue nor cancel and its stock stays reserved (`production/models.py:430`); a cancellation validates every
row and is blocked by one that has expired (`production/services.py:215`); a worker
that dies while its execution is cancelled leaves an artifact nobody removes
(`reports/models.py:613`); the dossier page creates releases that can never be
approved (`qa/ui_views.py:350`); `create_from_settlement` can be repeated for one
settlement (`finance/models.py:957`); `mark_received` sets a released receipt back
(`procurement/models.py:1000`); a document that `check_status` authorised has no
files and can be neither issued again nor mailed, and a lost answer to a cancellation
is never found out (`fiscal/services.py:299`); after a lost authorisation a repeated
issue may record a rejection (`fiscal/services.py:252`); the mail of a document that was
cancelled after the schedule still goes out (`fiscal/services.py:436`); a stale PUT of a
file makes a replaced one active again (`files/serializers.py:64`).

The other parts of the inventory are listed with their reasons in `PROJECT.json`.
