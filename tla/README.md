# EduVault: verification of the marketplace's core

This directory holds the TLA+ development kept beside the EduVault code: modules
that model its two contracts and the off-chain machinery around them, TLC
configurations that check them on small instances, and TLAPS proofs that carry
the main results over to every instance. `PROJECT.json` is the index: components,
runs, mutants, the map from definitions to source lines, hazards and theorems.
Paths below are relative to the repository root; `src/` in front of them, as in
`PROJECT.json`, is the root itself.

## 1. The system

EduVault sells educational material. A Next.js application with a MongoDB
database (`src/`) serves the shop; two Soroban contracts (`soroban/contracts`)
hold the sale terms and the money; background workers carry work between the two.

| Component | State it keeps | Operations | What is hard | What makes it correct |
|---|---|---|---|---|
| purchase-manager: checkout, escrow, disputes, refunds | escrow, settlement, dispute, buyer, entitlement, quote, pending-checkout and bulk records; purchase nonce; token balance | `purchase`, `purchase_bulk_licenses`, `withdraw_payouts`, `open_dispute`, `resolve_dispute`, `refund_purchase`, `refund_bulk_purchase`, `record_quote`, `begin/cancel_checkout` | buyers, creators and administrators act on one purchase in any order; several records describe it; two time windows | the records agree; access and money correspond; a settled purchase stays settled; the contract can pay what it owes |
| purchase-manager: scholarship credits | grants, a list of grant ids and an aggregate balance per learner, redemptions, issuers, costs | issue, revoke, redeem (a loop over grants), set issuer and cost | three redundant representations of one number; expiry while a grant is listed; a loop that must not fail half-way | credits are conserved; a redemption that is admitted completes; earliest expiry is spent first |
| purchase-manager: administration | admin role, pending transfer, configuration, pending proposal | transfer, accept, cancel, propose, approve, fee, pause | protocols of several people, deadlines | authority is never duplicated; a handover is announced; the treasury needs two people |
| material-registry | administrator and pending transfer, asset allowlist, materials with status, paused flag, quotes and terms version | `initialize`, `register_material`, `update_sale_terms`, four status calls, allowlist, admin transfer | a price is read now and charged later; a status kept twice and written by calls that differ | checkout never sees new terms under an old version, nor a paused material on sale |
| refund workflow | one document per claim (`refunds`), the mirror on the purchase, the entitlement | request, approve, reject, retry, submit, reconcile, finalize | several workers and requests, a crash at every await, an ambiguous ledger answer, stale reads | a purchase is refunded at most once; every approved refund resolves; access goes after the money |
| side-effect outbox | one document per effect: status, lease, attempts, causal link | enqueue, lease, deliver, acknowledge, reschedule, replay | leases that expire under a slow worker, crashes, operator replays | causal order; no effect lost; bounded retries |
| workflow orchestrator and worker | one document per registration or purchase: state, lease, fencing token, retries | claim, heartbeat, confirm, fail, retry, postpone, poison, recover | fencing of slow workers, writes that bypass the fence, a crash between two writes | a record follows its workflow; a settled workflow is left alone; every reconcilable one ends |
| ownership transfer | one document per offer, disputes, the material's owner | offer, accept, decline, cancel, expire, dispute, recover | two documents changed without a transaction; an old clock; a stalled accept | only the owner gives a material away; documents and owner agree; a dispute or a hold is respected |
| chain indexer | cursor, checkpoints, event identities, projections, dead letters | batch, detect fork, rewind, apply an event, retry and quarantine a dead letter | reorganisations, crashes between the writes of one event, events applied again behind newer ones | the projection ends where the chain is; no event is left behind; no second receipt; it catches up |
| entitlement and download access | a cached decision per buyer and material | resolve (row, cache, two chain questions, write-back), invalidate | a decision taken from old reads and written after a revocation | a refunded purchase is not served; access follows the chain |
| payment reconciliation, sessions, background workers | pending purchases; epochs; jobs | poll, compare, revoke, lease | the same as above | section 7 |
| idempotency keys, dispatcher, publication saga, operation queue | a small document each | | no caller outside their tests | section 7 |
| API routes, pages, monitoring, search, uploads, scripts | none of their own | I/O around the parts above | | |

Interactions. Checkout reads the registry in the same transaction. The
scholarship part and the purchases share the entitlement record. The contracts'
events reach the database through the indexer, which writes the purchase row and
the cache that downloads resolve access from; the workflow worker confirms its
records from the same indexed events. The refund workflow pays from a treasury
account over Horizon and mirrors the result in MongoDB; it runs inside admin
requests and inside `runWorker`. Request handlers and the indexer put effects
into the outbox, which `runSideEffectWorker` delivers. Everything off-chain
communicates through documents read and later updated with a filter; how much of
what was read the filter repeats decides what can go wrong.

## 2. The plan and where it stands

1. `PurchaseManager`, `PurchaseManagerProofs`: the settlement core. Done.
2. `RefundWorkflow`, `RefundProofs`: off-chain refunds. Done.
3. `Outbox`, `OutboxProofs`: side effects. Done.
4. `Scholarship`: credits, their lists and balances. Done.
5. `PlatformAdmin`: authority; it and `Scholarship` are proved about in
   `ContractProofs`. Done.
6. `EscrowSettlement`: what the contract promises of a purchase; that
   `PurchaseManager` implements it is proved in `PurchaseManagerProofs`. Done.
7. `WorkflowOrchestrator`, `WorkflowProofs`: leases and fencing tokens. Done.
8. `OwnershipTransfer`, `OwnershipProofs`: two documents without a transaction.
   Done.
9. `Indexer` with `Entitlement`, `IndexerProofs`: the projection of the chain and
   the downloads that read it. Done.
10. `MaterialRegistry`, `Marketplace`: the second contract and the composition
    of the two, proved in `PurchaseManagerProofs` to implement `PurchaseManager`.
    Done.
11. `FiniteSums`: lemmas about sums over a finite set, on which solvency and the
    scholarship theorems rest. Done.

Every invariant, action property and refinement that a run checks is now a
theorem; only liveness rests on TLC alone. Next: `paymentReconciler` beside the
indexer, since both write the purchase row.

## 3. The modules

### PurchaseManager

One variable per kind of storage entry, one action per entry point. A contract
call either returns Ok and commits or leaves no trace, so an action is the
successful outcome: its guard is the conjunction of the call's checks. The
exception is `refund_bulk_purchase`, whose loop is taken an iteration at a time
(`batch`); no other action runs meanwhile.

| Variable | Storage | Written by |
|---|---|---|
| `escrow` | `DataKey::Escrow` | `Purchase`, `PurchaseBulkLicenses`, `WithdrawPayouts`, `ResolveDispute`, refunds |
| `settlement` | `DataKey::Settlement`, its state | the same, `OpenDispute`, `RedeemScholarshipCredits` |
| `dispute` | `DataKey::Dispute` | `OpenDispute`, `ResolveDispute` |
| `entitlement`, `buyerOf` | `DataKey::Entitlement`, `PurchaseBuyer` | sales, redemption, refunds |
| `quote`, `checkout` | `DataKey::Quote`, `PendingCheckout` | `RecordQuote`, `BeginCheckout`, `CancelCheckout`, `Purchase` |
| `nonce` | `DataKey::PurchaseNonce` | sales and redemption |
| `pool` | the contract's token balance | sales, payouts, refunds |
| `config` | `PlatformConfig` and allowed assets | the administrator's actions |
| `sale` | what the registry answers about a material | `RegisterMaterial`, `UpdateSaleTerms`, `SetMaterialOnSale` |
| `reissued` | none (history) | ids recorded under a second purchase |

One payout recipient stands for all shares, since the contract pays them
together. Ledger sequence and timestamp advance together. A price of 0 stands
for a missing quote, and `NotRegistered` for a material the registry lacks.

### EscrowSettlement

The abstract specification: the money of a purchase is held, may be frozen by a
dispute, and leaves once, to the creator or back to the buyer; access comes with
the purchase and goes only with the money. `CustodyOf` and `GivesAccess` in
`PurchaseManager` are the refinement mapping. The promise is per id, and ends
(`Collide`) when the contract records two purchases under one id, which it can
(section 6).

### MaterialRegistry and Marketplace

`MaterialRegistry` has the same form as `PurchaseManager`: `upgradeAdmin` and
`pendingTransfer` are instance storage, `allowedAsset` the enabled entries of the
allowlist, `material` the three entries a material has. The status calls are kept
apart because they differ: `set_material_status` and its two wrappers write the
status and the paused flag, `set_material_deactivated` writes the status and reads
the flag. `register_material` derives a fresh id, so its id is any unused one.

`Marketplace` instantiates it beside `PurchaseManager`. What checkout sees of a
material, `SaleInfo`, is computed from the registry's entries; a step is a call of
one contract or of the other. `ImplementsPurchaseManager` says that the result is
a `PurchaseManager`, whose abstract registry actions are thereby shown to allow
enough, and everything checked or proved of it holds of the two together.

### Scholarship

Grants, the learner's list of ids and the stored aggregate are separate
variables, as in storage. `RedeemBegin`, `ConsumeStep` and `RedeemFinish` are one
call: the loop of `consume_scholarship_credits` is taken an iteration at a time
so that its running-out-of-credits error, which would undo the call, can be shown
unreachable. `PurchaseOrRefund` stands for the rest of the contract's effect on
the shared entitlement record.

### PlatformAdmin

The role, its two-step transfer with a delay, and the configuration, which an
administrator sets directly (fee, pause) or proposes for another to approve.

### RefundWorkflow

Each await of `refundWorkflow.js` ends a step. `job` holds what a process keeps
in memory between its steps, `claim` the documents; a process that is abandoned
loses its `job`. The steps of `processApprovedRefund` are `ClaimForSubmission`,
`PreflightFails` or `BuildTransaction`, `RecordCheckpoint`, `SendTransaction` and
the three outcomes; those of `finalizeSettlement` are `Finalize`, `RevokeAccess`,
`MirrorOnPurchase`, `MarkConverged`; those of `reconcileRefund` are
`StartReconcile`, `QueryStatus`, `ReconcileRetry` and `StillPending`, and they
decide on the copy of the claim the worker polled. The ledger (external) applies
a sent transaction, or fails it, only with the next sequence number and within
its time bound. Time is kept as ages that stop growing once no comparison can
tell them apart. `MaxJobTime` bounds how long a process takes for one job; a
value above `STUCK_SUBMITTING` means no bound at all.

### Outbox

All effects belong to one source. Enqueuing a linked webhook is three steps
(`GetNextCausalLink`, `CheckPredecessor`, `InsertEffect`); delivering is
`LeaseNextIntent`, one of three outcomes of sending, `Acknowledge` and
`UnblockSuccessors`, or `RescheduleIntent`; a worker out of attempts takes `Bury`.
Updates filter by what the code filters by: `Acknowledge` by status,
`RescheduleIntent` and `Bury` by id alone. Replays read first and write later.
`received` and `acked` record what ever happened to an effect.

### WorkflowOrchestrator

`wf` is the documents, `job` what a worker holds of the one it claimed. A worker
claims (`claimWorkflowForProcessing`), heartbeats, looks for the record and the
indexed event (`Process`, `reconcileTransaction`), commits with its token
(`Settle`, `confirmWorkflow`) and updates the record (`UpdateRecord`). `Caught`
follows a throw through the nested catch blocks: an `addRetryAttempt` for each,
which reads the document by id and then transitions it to what it has read, and
`poisonWorkflow` outside of all. A call may throw before or after it took effect.
`Released` is what every fenced transition writes; `poisonWorkflow`, the
postponing `updateWorkflowState` and the operator's `recoverWorkflow` write by id
alone. Left out because nothing reads them: the generation, the claim count and
the owner's name. A fencing token is any one that nobody holds. `createWorkflow`
and the client's `updateWorkflowState` have no caller outside the tests; the
model lets a client call them as their signatures permit.

### OwnershipTransfer

One material. `call` holds the requests in progress with the clock each read when
it started. Accepting is `LoadTransfer`, `Claim`, `SwapOwner`, `Finish`, with
`Expire` where the offer is overdue; proposing is `FindExisting` and `Insert`
under the unique index; a sweep is `SettleRead` and `settleStuckTransfer`. A
request may die at any step and the swap may throw before or after it lands. The
history variables mark what happened too late: a swap after the lease, a
settlement or a final update that hit a newer claim (`overtaken`), and a dispute
that opened while a request was under way (`raced`).

### Indexer and Entitlement

`chain` is the canonical ledgers with at most one event each; `Reorg` replaces a
suffix by another branch, whose events are again ones the contract could emit.
A batch is `StartBatch` (with `detectFork`), the three writes of a rewind,
`Fetch`, for each event the writes of `applyIndexedEvent` (identity, row, cache,
receipt) and `FinishBatch`; `Crash` may come between any two and `EventFailed`
puts an event among the dead letters. Operators retry or quarantine those at any
time. `Entitlement` is `resolveEntitlement`: row, cache, the two questions to the
chain, the verdict, and its write-back, each a step, racing the indexer; whether
an entry is still fresh is the reader's choice. A ledger without event occurs
only where nothing can follow or after a reorganisation. The events of a page are
a set, from which the batch takes the earliest; what the contract says of its
purchases (`Settled`) is what the last event of each left it in.

Four history variables take part in no guard. `reflected` is the events the row
is the outcome of, `fetched` those delivered since the last rewind that forgot
them; `outOfTurn` and `unrevoked` mark what the properties excuse. `unrevoked` is
set when a rewind orphans the row and cleared when it revokes the cache entry: a
failure or crash in between leaves it set. A read-only step that
looks at several documents is one step (`detectFork`, an operator's command's
reads); a failing database read of a download counts as a denial.

## 4. The runs

| Run | Instance | Shows |
|---|---|---|
| `checkout` | both contracts, all actions: 2 accounts, 1 buyer, 1 material, 2 prices, 1 purchase, 2 ledgers, 2 versions of the terms | `ImplementsPurchaseManager`, `QuoteShowsCurrentPrice`, `RegistryIsSound`, `HandoverIsAnnounced` |
| `settlement` | the actions that touch money: 2 buyers, 3 ids, bulk sales of 1 or 2, a price whose fee is whole and one whose fee is rounded, 4 ledgers | `ImplementsSettlement`, `SettlementMatchesEscrow`, `EntitlementBacked`, `LivePurchaseGrantsAccess`, `Solvent`, `TerminalIsFinal`, `NoReleaseInDisputeWindow`, `TypeOK` |
| `scholarship` | 1 learner, 2 materials, 3 grants with every expiry and without, 3 ledgers | `CreditsAddUp`, `GrantsCoverRedemption`, `EarliestExpiryFirst` |
| `platform_admin` | 3 addresses, legal and illegal fees, treasuries and delays, 8 instants | `AuthorityIsSingle`, `HandoverIsDelayed`, `TreasuryNeedsTwoPeople`, `AuthorityTypeOK` |
| `refund_prompt` | 2 claims for 1 purchase, a worker and an admin request no slower than the stuck threshold, 2 transactions, 1 crash | `PaidAtMostOnce`, `ClaimsMatchLedger` |
| `refund_live` | 1 claim, a worker and an admin request of any speed, 2 transactions, 1 crash, fairness | `MirroredOnceAfterPayment`, `SettledIsTerminal`, `EveryRefundResolves` |
| `outbox_order` | 2 effects, 2 workers of any speed, 1 replay | `OrderedDelivery` |
| `outbox_lease` | 2 effects, 2 workers that finish within their lease, 1 crash or failing call, fairness | `LeasesAreSound`, `EveryEffectResolves` |
| `workflow` | 1 workflow of every type and metadata, 2 workers, 2 retries, 2 failures (crash, throw or overrun lease), 1 recovery, fairness | `RecordsMatchCommits`, `SettledIsLeftAlone`, `ReconciliationEnds` |
| `ownership` | 3 users, 2 transfers, 2 concurrent requests of 5, an offer of 2 ticks, a lease of 1, 2 claims of an offer, 2 disputes, 1 failure | `TransfersMatchOwner`, `OnlyTheOwnerGivesAway`, `DisputeHolds`, `HeldMovesOnlyByOldOffers` |
| `indexer` | 3 ledgers, 1 reorganisation, 1 failure or crash, pages of 2, 2 checkpoints, fairness | `RowMatchesChain`, `NothingLeftBehind`, `OneReceiptPerEvent`, `CatchesUp` |
| `download` | the same chain without failures, and a download | `RefundedStaysDenied`, `AccessFollowsTheChain` |

Each property has a mutant in `PROJECT.json`: a plausible slip in one modelled
definition under which TLC finds the property violated. The mutated forms stand
above the definitions they replace, marked `Mutant:`. Where a property is a
conjunction of named parts, the parts are defined and explained above it; where
the type invariant is not a property of its own, it is the first conjunct of one.

Why the bounds are enough.

- The settlement records interact pairwise: a purchase and another of the same
  material, a bulk sale and a single one behind it, a purchase and its dispute;
  three ids and two buyers contain every such pair, and the ledger bound passes
  both windows. `settlement` leaves out quotes, pending checkouts and the
  switches, which only decide whether a sale is admitted; `checkout` has them.
  Two versions of the terms are one change under a quote; two accounts are a
  creator and an administrator, or a nominee; the longer histories are covered by
  the proofs.
- Three grants allow one to be drawn, one to expire and one to be revoked in a
  single history.
- A refund race needs an old transaction and a new one, hence two; a second claim
  is needed because a rejected claim frees the purchase for another.
- An outbox hazard is between an effect and its predecessor, or between two
  workers on one effect; a workflow hazard between two workers on one workflow,
  one of which is slow and one of which finds a call failing.
- Ownership needs a material that leaves its owner and comes back, which takes
  three users or two transfers, and two requests that overlap; a third request
  can only follow one that has ended or died, which the five calls allow.
- A purchase goes through at most three events that matter to access (recorded,
  disputed, resolved), so three ledgers hold its whole history, a page boundary
  falls inside, and two checkpoints let a fork be found at, above and below the
  oldest. What more reorganisations and failures add is left to the proofs.

`CHECK_DEADLOCK FALSE` appears where the bounds (ids, ledgers, clock, requests)
or a settled document end every behaviour; the refund and outbox models are
checked for deadlock.

Fairness. `FairSpec` of `RefundWorkflow` and `Outbox` assumes weak fairness of
`Tick` and of each worker's steps, `Spec` of `WorkflowOrchestrator` of each
worker's work and of the passage of time: `runWorker` and `runSideEffectWorker`
loop for ever, and MongoDB and Horizon calls return or throw. `Spec` of `Indexer`
assumes weak fairness of the batch: the script
`scripts/run-stellar-indexer.mjs` or `POST /api/indexer` is invoked again and
again, which the repository leaves to its deployment. Nothing is assumed of
administrators, operators, request handlers, enqueuers, or the network applying a
transaction. Crashes and failing calls are bounded (`MaxAbandons`,
`MaxFailures`): a worker that crashes for ever finishes nothing. Fairness is of
the worker as a whole, so liveness does not rest on a favourable choice among its
outcomes.

## 5. The proofs

TLAPS proves the following for every value of the constants under the named
assumptions of the modules (`ConstantsAssumption`: rates at most the basis, the
dispute window no longer than the escrow lock; `NoRecordAssumption`,
`NoRecordIsNoRecord`, `AbsentIsNoRecord`, `RegistryAssumption`, `NoClaimIsNoDoc`, `NoneIsNoTransfer`,
`NoEffectIsNoDoc`, `NoneIsNoEvent`, `NoneIsNoValue`: the absent value is not a record,
a state or an address; `IndexerAssumption`: the bounds of chain, failures,
reorganisations, page and history are numbers, the last two positive;
`ScholarshipConstants` with `NoneIsNoGrant`: amounts and costs are positive, the
materials finitely many; `AdminConstants`; `RefundConstants`, `TimeBoundsExpireFirst`; `OutboxConstants`; `TransferConstants`; `WorkflowConstants`, which also says that
workflows and workers are finitely many). TLC evaluates each of them on the
instances above. A theorem that holds only of timely workers says so as a
hypothesis on the constants, which the run of the same property satisfies.

`FiniteSums` is about `SumFunctionOnSet` of the community modules, which the models
use for what a contract owes and a learner holds. It is a recursion over subsets
that picks an element of its own choice; the lemmas show that it has one solution
(`SumUnfolds`), that any element can be taken out first (`SumRemove`), and how a sum
changes with one term (`SumChangeOne`) or a block of equal terms (`SumAddBlock`).
Induction with an operator for its predicate is beyond the provers, so each is an
argument about a smallest counterexample, a set of sets without a minimal member.

`PurchaseManagerProofs`, about `PurchaseManager`

- `TypeCorrect`. `TypeOK` is inductive. Its content is that balances and escrowed
  amounts stay natural numbers: the fee is at most the price, and nothing is paid
  that the balance does not cover.
- `AgreementHolds`. None of the three invariants about a purchase's records is
  inductive alone: that a refund takes away the right entitlement needs that the
  entitlement names the purchase being refunded (`GrantsAccess`), which a new sale
  preserves because it is refused to a buyer whose access is backed by another
  purchase (`Backed`), and money moves only where escrow and settlement agree
  (`EscrowAgrees`). The invariant is their conjunction with `TypeOK`, under the
  hypothesis that no id was reissued (`Fresh`); the history variable makes that
  hypothesis hold in every earlier state as well, which the induction needs.
- From it `SettlementAndEscrowAgree`, `PaidPurchaseKeepsAccess`, `AccessIsBacked`,
  `SettledIsFinal` and `ReleaseAfterWindow`; the last uses that the lock is at
  least as long as the window.
- `QuotesBindThePrice`, with the strengthening that a stored quote's version is
  at most the current one: versions only grow, so a quote that matches was taken
  at the current terms.

- `ContractIsSolvent`, for any number of assets, prices, recipients and purchases:
  until an id is reissued, what the contract holds of an asset is what its
  unclaimed escrows come to, but for less than one unit per recipient of one bulk
  sale. The invariant `BooksInv` names the size of the largest bulk sale of all
  (`Books`): a bulk sale of more than one takes the next nonce
  (section 6), so no later sale escapes a reissue and there is at most one. That
  one rounds the fee down once where its escrows round it down per recipient,
  which differs by less than the number of recipients (the rounding lemma).
- `SettlementRefines`: `Spec` implies `EscrowSettlement` under the refinement
  mapping. Where no id was reissued the settlement's state alone determines
  custody and access (`ViewInv`, which follows from the agreement of the records),
  so the lemma about a step (`RecordsMove`) only has to follow the settlement
  record of each purchase; once an id is reissued, every step maps to `Collide` or
  a stutter.

`PurchaseManagerProofs`, about `Marketplace` and `MaterialRegistry`

- `MarketplaceRefines`: `MarketplaceSpec` implies the `Spec` of `PurchaseManager`.
  The initial states map to initial states, and a step maps to a step or a
  stutter. Two invariants carry it: the materials are well typed
  (`MaterialsTyped`), and `sale` is what checkout computes from them
  (`ViewOfRegistry`). A registry call changes at most one material
  (`RegistryCallCases`); a new one is `RegisterMaterial`, new terms are
  `UpdateSaleTerms`, a status call that changes what checkout sees is
  `SetMaterialOnSale`, and one that does not (Paused to Archived) is a stutter.
- `HandoverAnnounced`, by the invariant `RolesAreSound`: a stored nomination
  carries the delay that `initiate_admin_transfer` checked, on which
  `accept_admin_transfer` relies.
- `RegistrySound`. The two flags agree by `FlagsInv`; that a sold material was
  registered under an administrator needs that an escrow is only ever made for a
  material that is on sale (`EscrowMaterial`, of `PurchaseManager`), that `sale`
  is the registry's view, that materials are never removed (`SoldIsRegistered`)
  and that the administrator's role is never given up (`RegisteredUnderAdmin`).
  `TypeOK` of `PurchaseManager` comes from `MarketplaceRefines` and `TypeCorrect`.

`ContractProofs`, about `PlatformAdmin`: the inductive invariant `AuthorityInv` is
`AuthorityTypeOK`, `AuthorityIsSingle` and that a pending nomination carries the delay `transfer_admin` checked
(`NominationIsDelayed`), which `accept_admin` relies on without looking again.
From it `ConfigurationValid`, `OneAuthority`, `DelayIsRespected`, `TreasuryIsGuarded`.

`ContractProofs`, about `Scholarship`, for any amounts, costs, expiries and number of
grants, by `ScholarshipInv`:

- `CreditsAlwaysAddUp` and `RedemptionsAreCovered` need each other. That the balance
  can be debited at the end of a redemption needs that the grants gave the whole
  price; that they can needs that the loop scans every open grant of its learner
  (`LoopSound`), hence that the list names each of them once
  (`ListNamesOpenGrants`), that a grant is open exactly while it has credits
  (`OpenWhileCreditsRemain`), and that an unused id has no grant
  (`UnissuedAreNone`). An iteration pays the rest, or empties a grant, which then
  leaves list and sum together (`ConsumeKeeps`).
- `remove_grant_from_learner` is the recursive function `Without`; that it keeps
  every other id, once, is `WithoutDrops`.
- `DrawsEarliestExpiryFirst`: the scan finds a grant that no candidate expires
  before, since expiries are numbers and a grant without one displaces none
  (`BestIsEarliest`), and every spendable grant is a candidate by the invariant.

`RefundProofs`, for any number of claims, workers and admin requests of any speed:

- `MirrorFollowsPayment` and `SettledStaysSettled`. Neither is inductive alone.
  The invariant `RefundInv` adds what a process at each of its steps may rely on
  (`JobIsSound`): one that finishes a settlement works on a claim that was paid,
  one that waits for an answer names a transaction of its own claim, and one about
  to send holds a transaction that nobody has sent (`UnsentAreDistinct`), so that
  what was paid stays paid. A settled claim was paid (`SettledIsPaid`), and the
  retry count a worker writes back is the one it claimed, hence within the budget
  (`WithinBudget`).
- A step of a process is described once (`ProcessStep`): one claim is rewritten
  into a document it `MayBecome`, one transaction is added or moves on, and its
  job goes on with what it may rely on.
- `RefundedAtMostOnce` and `ClaimsAgreeWithLedger`, under `PromptProcesses`: a
  deployment runs one `runWorker`, and no job takes longer than a claim may
  stay in submitting (`STUCK_SUBMITTING`). Admin requests run inline beside it, in
  any number; crashes and lost answers are as in the module. Without the
  hypothesis both are false (section 6). The invariant is `PaymentInv`:
  a claim that is being submitted is no older than the job of its one submitter,
  so that nobody takes it for abandoned (`SubmitterOwns`); every transaction but
  the one being built or named by the claim is dead, that is refused, failed,
  expired, or in nobody's hands (`OneInFlight`); the one it names is as
  old as the wait for it, hence expired when the wait is given up
  (`AgedWithClaim`, with `TimeBoundsExpireFirst`); what the reconciling worker has
  read is still so when it writes (`ReadIsCurrent`), since only a second worker
  could have changed it; and a purchase has one live claim (`OneLiveClaim`, from
  the unique index).

`WorkflowProofs`, with the invariant `FenceInv`:

- `FenceHolds`. A token is held by one document and one claim at a time
  (`TokensAreUnique`; a free one exists by counting, `FreeToken`); a document that
  has ended is unclaimed, and whoever still holds its token in memory can write
  nothing fenced; a worker with its claim works on a workflow in a claimable state
  (`ClaimedState`).
- `RecordsAndWorkflowsAgree`: a record is updated only by the worker whose commit
  the fence accepted, and lags behind only when that worker died in between.
- `EndedStaysEnded`: a retry count is only ever written under the fence or by the
  operator, so a stale one read by `addRetryAttempt` cannot reach a workflow that
  has ended; and without failures the unfenced writers hold their claim.

`OutboxProofs`: `DeliveryIsOrdered`, by `OrderInv`. A gate that has opened never
closes and opens only after a delivery (`GatesFollowDeliveries`), documents keep
their links, and a worker's job is on an effect whose gate was open when it was
leased (`JobsAreReady`), however long ago; so sending late, twice, or after a
replay is still in order. One lemma, `DeliveryStep`, covers the worker's steps.
`LeasesHold` is about workers whose deliveries end within their lease, and effects
no operator replays (`TimelyWorkers`). The code enforces neither: a lease is five
minutes and `renewLease` has no caller, and without the hypothesis an effect
can be in two hands at once. `LeaseInv`: the age of a job and what is left of its
lease add up to the lease, so that it never expires in its worker's hands
(`LeaseHeld`); and attempts beyond the limit are as many as the crashes after which
they were made (`Counted`).

`OwnershipProofs`, for any number of users, offers and requests, by `OwnInv`:

- `TransfersAreHonest`. The agreement of the two documents is not inductive. It
  needs what each request knows (`KnowsTheSwap`): one that found the material
  unmoved, or is about to swap it, is right as long as its claim is the current
  one; that a claim is acted on by the one request that made it until its lease
  is over (`ClaimsAreUnique`), so nobody swaps behind a settlement that has
  already read the material; and that the material still shows the swap of a
  transfer that waits for its last update (`SwapShows`), since the unique index
  lets no other offer be live (`OneLive`).
- `DisputesHold` from what a request saw when it loaded the transfer
  (`WasThereFirst`), `HoldStopsNewOffers` from what a proposal saw when it read
  the material (`ProposalIsOld`), `OwnersGiveAway` from the filter of the swap and
  that nothing else changes the owner.

`IndexerProofs`, for chains of any length with any number of reorganisations, pages
and histories of any size, any number of failures, crashes, operator's retries and
downloads, by `IInv` (`IndexerInvariant`). TLC has checked each of its conjuncts, on
the chain of `indexer` and of `download` with and without a resolver, up to one
reorganisation and one failure, or two failures on one branch.

- `ReceiptsAreOnePerSale` is the count `ReceiptsCounted`, in which a receipt the
  batch is about to enqueue already counts (`DueReceipt`). It rests on the identity
  being recorded before the receipt is decided, and on nothing but a sale reaching
  that decision (`SalesAlone`).
- `NothingIsLeftBehind`. The cursor moves only when a batch ends, and then past every
  event it took; so each delivered event is still to do, in hand, or has had its
  effect and comes before those (`NothingLost`, with `BatchInOrder`). A crash drops
  the batch and leaves the cursor before all of it; a failed event is a dead
  letter. The lemma about `Fetch` shows that no event lies between the cursor and
  the end of a page that is not on it.
- `MirrorIsFaithful`. The row was last written for one of the events it reflects, or
  is orphaned, or a download mirrored what the chain had told it (`RowExplained`);
  it names the purchase of the last sale reflected and no event of that purchase is
  newer (`RowFollowsSales`). `isStaleReplay` compares what it reads with what the
  batch writes a step later, which only an operator may disturb (`ApplySound`).
  Where exactly the chain's events are reflected, the last of them is the row's.
- `DenialIsKept` follows from the same: a refund or dispute that is the chain's last
  event is the row's, and the row denies whatever the cache says, because a
  download only ever makes it more revoking. No hypothesis about downloads is
  needed.
- `AccessIsRight`. That access is given needs more than the row: an event that
  grants it may have written the row and not yet the cache entry (`Outstanding`),
  and until then, or until a later event revokes it, a sale or a resolved dispute
  promises an entry that is not revoked (`SalesGrant`, `ResolutionsGrant`; an
  orphaning rewind forgets what was delivered, `RewindForgets`). That it is refused
  to an orphaned purchase needs that every download under way knows its reads to be
  outdated (`OrphansRevoked`).
- A download may revoke by what the chain answered; `ResolversSound` ties the answer
  to an event of the chain that is no older than the row. That is only so before the
  first reorganisation (`OneBranch`, `RowOnChain`), and the properties excuse the
  rest as `Misled`.
- What the contract can emit after what (`ChainPossible`) is the premise of all of
  this: a purchase follows only a refund, so of a chain's events the last purchase's
  are the last. A prefix of a chain is a chain, and growing it adds one event at the
  end; the lemmas about `Purchases`, `Standing` and `Settled` say what changes.

Three hypotheses came out of failed proofs, which TLC confirmed on larger instances
(two reorganisations, two failures, one checkpoint). A cursor at the end of the
chain does not mean that the chain's events were all delivered since the last
rewind, since a chain can be replaced by a shorter one behind it: `Delivered` asks
for both. An operator's retry can overwrite an event of another branch at the same
ledger, which is also out of turn. And a crash, not only a failure, can come between
orphaning a row and revoking its cache entry (section 6).

Only model-checked: liveness under fairness (`EveryRefundResolves`,
`EveryEffectResolves`, `ReconciliationEnds`, `CatchesUp`), which the provers do not
reach, and with it that the indexer gets to the states that `UpToDate` and
`Delivered` describe, which the theorems about it presuppose.

## 6. Where the code departs from what it says

Met while modelling; each is in the models as the code has it.

Disagreements between the code and a comment, a document or a test:

- `purchase_bulk_licenses` takes one nonce (`lib.rs:1220`) and numbers its
  recipients from it, so the next sale is recorded under an id in use and a
  settled purchase becomes pending again, contrary to `lib.rs:89` and
  `test.rs:4434`. Every result about purchases is stated up to the first such
  reissue (`Fresh`; `Collide` in `EscrowSettlement`).
- `resolve_dispute(RefundBuyer)` calls `perform_single_refund`, which refuses
  every settlement but Pending (`lib.rs:3034`); a disputed one is Disputed, so the
  call always fails, contrary to `lib.rs:1779`.
- With a second refund worker, a reconciliation that works on an old copy of a
  claim (`refundWorkflow.js:580`) returns it to approved after the other has sent
  a new transaction: the update compares the status and not the attempt. The
  refund is paid twice, contrary to `refundWorkflow.js:36-38`. With one worker
  and prompt requests it is not (`refund_prompt`).
- A successor inserted between the check of its predecessor's status
  (`outbox.js:51`) and the unblocking update stays gated for ever, contrary to
  `outbox.js:45-46`. `EveryEffectResolves` speaks of effects whose gate is open.
- Any owner of a material can dispute any purchase of it, contrary to
  `lib.rs:1694`; expired grants count against the limit of active ones
  (`docs/soroban-scholarship-credits.md:105`); a replay does not close the gates
  again (`outbox.js:388`).

Contracts. The escrows of a bulk sale promise up to one unit per recipient more
than was transferred (bounded by `Solvent`). An administrator who nominates
itself ends with no administrator (`HandoverIsDelayed` says exactly when). An
approved configuration replaces the whole configuration with values chosen when
it was proposed. `redeem_scholarship_credits` does not look at the pause switch.
`refund_bulk_purchase` handles at most 25 ids and always starts at the first. In
the registry, `set_material_status(Archived)` clears the paused flag, so that a
material paused, archived and restored comes back Active, while
`set_material_deactivated` keeps it; unpausing brings an archived material back;
a creator can undo an administrator's pause; an asset that is disabled stays in
the quotes that name it (the purchase manager has an allowlist of its own); and
whoever calls `initialize` first becomes its administrator.

Refunds and outbox. `tx_bad_seq` from a second Horizon after the first delivered
(`refundService.js:127`) is taken for a rejection. The unique index of live claims
relies on a partial filter with `$ne` (`schemaContracts.js:268`), which MongoDB
does not accept; the model has the index as intended. Two concurrent webhooks can
take one version. A webhook nobody accepted is marked delivered.

Workflows. A document with a tokenURI and no transaction hash, or with neither,
never settles, and a submitted workflow that was never retried is never claimed
(`Reconcilable` is the complement). A crash between confirming a workflow and
updating its record loses the update for good (`dropped`). `addRetryAttempt`
writes the retry count it read earlier; the fence makes that harmless.

Ownership. `now` is read once per request (`ownershipTransfer.js:273`). A dispute
opened after the accepting request loaded the transfer does not stop it (:277). A
material suspended after the offer can still be accepted (:314). A swap that
comes after the lease moves a material under a transfer already settled as
failed, and a late update after it can mark a newer claim failed (:335). Recovery compares the
owner, which cannot tell its own swap from a later one to the same owner (:137,
:413). Disputes are looked for and then inserted, so two can be open (:96-100). An
expired offer is declined by whoever looks next. Nothing in `src/` schedules
`recoverStuckTransfers`.

Indexer and entitlement. The hash of a ledger is read after its events were
fetched (`stellarIndexer.js:752`), so a reorganisation in between is recorded as
the expected branch; a failed hash read stores the old hash (:753); a chain
shorter than the last checkpoint is treated as aged out (`forkDetection.js:84`),
and a reorganisation deeper than the oldest checkpoint is not seen. In these cases
the rewind does not happen, and `UpToDate` says which states the mirror is judged
in. A late dead-letter retry of `purchase.completed` grants a refunded purchase
again (`stellarIndexer.js:139`; `outOfTurn`). A failure to invalidate the cache
during a rewind is swallowed (`forkDetection.js:178`), and a crash between the two
writes has the same outcome until the rewind, detected again, is repeated, which a
chain that meanwhile hides the fork prevents (`unrevoked`). A resolution in
flight overwrites a revocation (`entitlement.js:589`), and for an orphaned
purchase, which is not a revoking state (:75), nothing else denies it
(`staleFill`). A receipt is lost when the process dies before it is enqueued.
Overlapping batches are possible and not modelled.

## 7. Not modelled, and why

Most of the repository's lines are pages, components, API routes, scripts,
configuration audits and I/O (search, uploads, IPFS, email, analytics): they
parse, render and forward, and keep no protocol state, so the share of all lines
that the map covers is small and stays small. What is modelled is the code that
decides about money, ownership and access.

No caller in the application outside its tests, hence no behaviour of the running
system: `sideEffects/dispatcher.js`, `backend/idempotency.js`,
`backend/publicationSaga.js`, `queue/operationQueue.js` (its React hook is itself
unused), `reconciliation/purchaseReconciler.js`.

In use and left out: `purchases/paymentReconciler.js` (confirms a pending
purchase and then grants access, two writes by id, a crash between which leaves
the row confirmed and the cache empty; the next module of the plan);
`auth/tokenService.js`, `auth/sessionRevocation.js` and `auth/supportAccess.js`
(who is signed in); `workers/backgroundWorker.js` (a leased queue of the outbox's
shape for storage maintenance); `indexer/recovery.js` (rebuilds state with the
functions modelled) and the event types that are plain upserts of a collection of
their own.

Inside the modelled components: payout shares, purchase snapshots, material
metadata, the token-kind registry, storage rent and its indexes, the oracle and
contract upgrades carry no protocol state that the properties depend on. Audit
events, notifications, health and trace queries only observe.
