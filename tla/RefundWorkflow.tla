--------------------------- MODULE RefundWorkflow ---------------------------
(***************************************************************************)
(* The off-chain refund state machine of src/lib/refunds/refundWorkflow.js *)
(* with the processes that drive it concurrently: background workers      *)
(* (workflowWorker.js), which submit approved refunds and reconcile the    *)
(* ones left in flight, and admin requests, which approve or retry a claim *)
(* and make one inline attempt to submit it.                               *)
(*                                                                         *)
(* Every await of the code is a step: between two steps of one process any *)
(* other process may run, and the process may be abandoned (it crashes, or *)
(* the awaited call throws and the caller drops the job).  All that        *)
(* survives is what MongoDB and the Stellar ledger hold.                   *)
(*                                                                         *)
(* Time is kept as ages that saturate once nothing can tell them apart.    *)
(***************************************************************************)
EXTENDS Naturals, Sequences, FiniteSets

CONSTANTS
    Purchases,             \* purchases a refund may be claimed for
    Refunds,               \* ids of refund claims
    Workers,               \* processes running runWorker
    Routes,                \* admin requests: one inline submission each
    MAX_SUBMIT_RETRIES,    \* REFUND_MAX_RETRY_ATTEMPTS
    STUCK_SUBMITTING,      \* ticks of STUCK_SUBMITTING_MS
    PENDING_TIMEOUT,       \* ticks of PENDING_TIMEOUT_MS
    TX_TIMEBOUND,          \* ticks a built transaction stays valid (30 s)
    MaxJobTime,            \* bound: ticks one process takes for one job
    MaxTx,                 \* bound: transactions built
    MaxAbandons,           \* bound: crashes and failing calls
    NoClaim                \* absence of a claim document

ASSUME RefundConstants ==
    /\ MAX_SUBMIT_RETRIES \in Nat
    /\ STUCK_SUBMITTING \in Nat
    /\ PENDING_TIMEOUT \in Nat
    /\ TX_TIMEBOUND \in Nat
    /\ MaxJobTime \in Nat
    /\ MaxTx \in Nat
    /\ MaxAbandons \in Nat
    /\ Workers \cap Routes = {}
    /\ Workers \cup Routes # {}

\* The code's comment on PENDING_TIMEOUT_MS: a transaction's own time bounds
\* expire well before a claim is given up on.
ASSUME TimeBoundsExpireFirst ==
    /\ TX_TIMEBOUND < STUCK_SUBMITTING
    /\ TX_TIMEBOUND < PENDING_TIMEOUT

VARIABLES
    claim,       \* refunds collection: refund id -> document or NoClaim
    applied,     \* purchases.appliedRefundIds
    refunded,    \* purchases.refundedAmount, in claims added to it
    access,      \* entitlement of the purchase's buyer
    txs,         \* every refund transaction ever built
    sequence,    \* the signer account's sequence number
    job,         \* process -> what it is in the middle of
    abandons     \* jobs abandoned so far

vars == <<claim, applied, refunded, access, txs, sequence, job, abandons>>
market == <<applied, refunded, access>>
chain == <<txs, sequence>>

Processes == Workers \cup Routes

Statuses == {"requested", "approved", "submitting", "pending", "settled",
             "failed", "rejected"}

NoTx == 0
\* pendingSince not yet set; every other value is the ticks since then.
Never == PENDING_TIMEOUT + 2

\* One tick later, up to the first age past the limit.
Older(age, limit) == IF age <= limit THEN age + 1 ELSE age

Stages == {"idle", "claim", "preflight", "checkpoint", "submit", "await",
           "finalize", "revoke", "mirror", "converge", "query", "retry", "poll"}

Idle == [stage |-> "idle", refund |-> NoClaim, retryCount |-> 0, tx |-> NoTx,
         pendingSince |-> Never, age |-> 0]

ClaimDocs == [purchase : Purchases, status : Statuses,
              retryCount : 0..(MAX_SUBMIT_RETRIES + 1), txHash : 0..MaxTx,
              pendingSince : 0..Never, age : 0..(STUCK_SUBMITTING + 1),
              entitlementRevoked : BOOLEAN]

Transactions == [refund : Refunds, seq : Nat, age : 0..(TX_TIMEBOUND + 1),
                 state : {"built", "sent", "rejected", "applied", "failed"}]

Jobs == [stage : Stages, refund : Refunds \cup {NoClaim},
         retryCount : 0..MAX_SUBMIT_RETRIES, tx : 0..MaxTx,
         pendingSince : 0..Never, age : 0..MaxJobTime]

ASSUME NoClaimIsNoDoc == NoClaim \notin ClaimDocs

TypeOK ==
    /\ claim \in [Refunds -> ClaimDocs \cup {NoClaim}]
    /\ applied \in [Purchases -> SUBSET Refunds]
    /\ refunded \in [Purchases -> Nat]
    /\ access \in [Purchases -> BOOLEAN]
    /\ txs \in Seq(Transactions) /\ Len(txs) <= MaxTx
    /\ sequence \in Nat
    /\ job \in [Processes -> Jobs]
    /\ abandons \in 0..MaxAbandons

Init ==
    /\ claim = [r \in Refunds |-> NoClaim]
    /\ applied = [p \in Purchases |-> {}]
    /\ refunded = [p \in Purchases |-> 0]
    /\ access = [p \in Purchases |-> TRUE]
    /\ txs = <<>>
    /\ sequence = 0
    /\ job = [p \in Processes |-> Idle]
    /\ abandons = 0

-----------------------------------------------------------------------------
(***************************************************************************)
(* Claims and admin decisions                                              *)
(***************************************************************************)
Status(r) == IF claim[r] = NoClaim THEN "none" ELSE claim[r].status

LiveClaims(p) == {r \in Refunds : claim[r] # NoClaim
                                  /\ claim[r].purchase = p
                                  /\ claim[r].status # "rejected"}

\* deriveRefundTerms refuses a purchase already mirrored as Refunded; the
\* unique index on live claims turns a duplicate into a no-op.
RequestRefund(r, p) ==
    /\ claim[r] = NoClaim
    /\ applied[p] = {}
    /\ LiveClaims(p) = {}
    /\ claim' = [claim EXCEPT ![r] =
           [purchase |-> p, status |-> "requested", retryCount |-> 0,
            txHash |-> NoTx, pendingSince |-> Never, age |-> 0,
            entitlementRevoked |-> FALSE]]
    /\ UNCHANGED <<market, chain, job, abandons>>

At(r, stage) == [Idle EXCEPT !.stage = stage, !.refund = r]

\* The approve route: the transition, then its inline processApprovedRefund.
ApproveRefund(p, r) ==
    /\ job[p].stage = "idle"
    /\ Status(r) = "requested"
    /\ claim' = [claim EXCEPT ![r].status = "approved", ![r].age = 0]
    /\ job' = [job EXCEPT ![p] = At(r, "claim")]
    /\ UNCHANGED <<market, chain, abandons>>

RejectRefund(r) ==
    /\ Status(r) \in {"requested", "failed"}
    /\ claim' = [claim EXCEPT ![r].status = "rejected", ![r].age = 0]
    /\ UNCHANGED <<market, chain, job, abandons>>

\* The retry route: a fresh automatic budget, then the inline attempt.
RetryFailedRefund(p, r) ==
    /\ job[p].stage = "idle"
    /\ Status(r) = "failed"
    /\ claim' = [claim EXCEPT ![r].status = "approved", ![r].retryCount = 0,
                              ![r].age = 0]
    /\ job' = [job EXCEPT ![p] = At(r, "claim")]
    /\ UNCHANGED <<market, chain, abandons>>

-----------------------------------------------------------------------------
(***************************************************************************)
(* retryOrFail: the process's own copy of retryCount decides, the          *)
(* compare-and-set on the status decides whether anything is written.      *)
(***************************************************************************)

\* Mutant: the update does not compare the status.
RetryUnfenced(r, retryCount, from) ==
    [claim[r] EXCEPT !.status = "approved", !.age = 0, !.txHash = NoTx]

RetryOrFail(r, retryCount, from) ==
    LET next == retryCount + 1
        c == claim[r]
    IN IF c.status \notin from THEN c
       ELSE IF next > MAX_SUBMIT_RETRIES
       THEN [c EXCEPT !.status = "failed", !.retryCount = next, !.age = 0]
       ELSE [c EXCEPT !.status = "approved", !.retryCount = next, !.age = 0,
                      !.txHash = NoTx]

EndJob(p) == job' = [job EXCEPT ![p] = Idle]

GiveBack(p, from) ==
    LET r == job[p].refund
    IN /\ claim' = [claim EXCEPT ![r] = RetryOrFail(r, job[p].retryCount, from)]
       /\ EndJob(p)

GoTo(p, stage) == job' = [job EXCEPT ![p].stage = stage]

-----------------------------------------------------------------------------
(***************************************************************************)
(* processApprovedRefund                                                   *)
(***************************************************************************)
\* getRefundsAwaitingSubmission hands an approved refund to the worker.
PollApproved(p, r) ==
    /\ job[p].stage = "idle"
    /\ Status(r) = "approved"
    /\ job' = [job EXCEPT ![p] = At(r, "claim")]
    /\ UNCHANGED <<claim, market, chain, abandons>>

ClaimForSubmission(p) ==
    LET r == job[p].refund
    IN /\ job[p].stage = "claim"
       /\ IF Status(r) = "approved"
          THEN /\ claim' = [claim EXCEPT ![r].status = "submitting",
                                         ![r].age = 0]
               /\ job' = [job EXCEPT ![p].stage = "preflight",
                                     ![p].retryCount = claim[r].retryCount]
          ELSE EndJob(p) /\ UNCHANGED claim
       /\ UNCHANGED <<market, chain, abandons>>

\* Treasury balance unreadable or short, or the envelope could not be built.
PreflightFails(p) ==
    /\ job[p].stage = "preflight"
    /\ GiveBack(p, {"submitting"})
    /\ UNCHANGED <<market, chain, abandons>>

\* buildRefundTransaction: next sequence number of the account as loaded now.
BuildTransaction(p) ==
    /\ job[p].stage = "preflight"
    /\ Len(txs) < MaxTx
    /\ txs' = Append(txs, [refund |-> job[p].refund, seq |-> sequence + 1,
                           age |-> 0, state |-> "built"])
    /\ job' = [job EXCEPT ![p].stage = "checkpoint", ![p].tx = Len(txs) + 1]
    /\ UNCHANGED <<claim, market, sequence, abandons>>

\* Mutant: the hash is kept in memory only until the outcome is known.
CheckpointSkipped(p) ==
    /\ job[p].stage = "checkpoint"
    /\ GoTo(p, "submit")
    /\ UNCHANGED <<claim, market, chain, abandons>>

\* The durability checkpoint: an update by _id alone, whatever the status.
RecordCheckpoint(p) ==
    /\ job[p].stage = "checkpoint"
    /\ claim' = [claim EXCEPT ![job[p].refund].txHash = job[p].tx,
                              ![job[p].refund].age = 0]
    /\ GoTo(p, "submit")
    /\ UNCHANGED <<market, chain, abandons>>

\* The signer is disabled or the amount is over its cap: nothing was sent.
SubmissionBlocked(p) ==
    /\ job[p].stage = "submit"
    /\ GiveBack(p, {"submitting"})
    /\ UNCHANGED <<market, chain, abandons>>

SendTransaction(p) ==
    /\ job[p].stage = "submit"
    /\ txs' = [txs EXCEPT ![job[p].tx].state = "sent"]
    /\ GoTo(p, "await")
    /\ UNCHANGED <<claim, market, sequence, abandons>>

SubmissionConfirmed(p) ==
    /\ job[p].stage = "await"
    /\ txs[job[p].tx].state = "applied"
    /\ GoTo(p, "finalize")
    /\ UNCHANGED <<claim, market, chain, abandons>>

\* A definitive rejection: this envelope never entered the ledger.
SubmissionRejected(p) ==
    /\ job[p].stage = "await"
    /\ txs[job[p].tx].state = "sent"
    /\ txs' = [txs EXCEPT ![job[p].tx].state = "rejected"]
    /\ GiveBack(p, {"submitting"})
    /\ UNCHANGED <<market, sequence, abandons>>

\* Timeout, network error or a code that is not definitive (tx_failed too).
SubmissionAmbiguous(p) ==
    /\ job[p].stage = "await"
    /\ claim' = [claim EXCEPT ![job[p].refund] =
           IF @.status = "submitting"
           THEN [@ EXCEPT !.status = "pending", !.age = 0, !.pendingSince = 0]
           ELSE @]
    /\ EndJob(p)
    /\ UNCHANGED <<market, chain, abandons>>

-----------------------------------------------------------------------------
(***************************************************************************)
(* finalizeSettlement                                                      *)
(***************************************************************************)
Finalize(p) ==
    LET r == job[p].refund
        c == claim[r]
        s == IF c.status \in {"submitting", "pending"}
             THEN [c EXCEPT !.status = "settled", !.age = 0,
                            !.txHash = job[p].tx]
             ELSE c
    IN /\ job[p].stage = "finalize"
       /\ claim' = [claim EXCEPT ![r] = s]
       /\ IF s.status = "settled" /\ ~s.entitlementRevoked
          THEN GoTo(p, "revoke")
          ELSE EndJob(p)
       /\ UNCHANGED <<market, chain, abandons>>

PurchaseOf(r) == claim[r].purchase

RevokeAccess(p) ==
    /\ job[p].stage = "revoke"
    /\ access' = [access EXCEPT ![PurchaseOf(job[p].refund)] = FALSE]
    /\ GoTo(p, "mirror")
    /\ UNCHANGED <<claim, applied, refunded, chain, abandons>>

\* Mutant: the purchase update has no such filter.
AlwaysApplied(r) == claim[r] # NoClaim

\* The filter appliedRefundIds: { $ne: refundId } of the purchase update.
NotYetApplied(r) == r \notin applied[PurchaseOf(r)]

MirrorOnPurchase(p) ==
    LET r == job[p].refund
        q == PurchaseOf(r)
    IN /\ job[p].stage = "mirror"
       /\ IF NotYetApplied(r)
          THEN /\ applied' = [applied EXCEPT ![q] = @ \cup {r}]
               /\ refunded' = [refunded EXCEPT ![q] = @ + 1]
          ELSE UNCHANGED <<applied, refunded>>
       /\ GoTo(p, "converge")
       /\ UNCHANGED <<claim, access, chain, abandons>>

MarkConverged(p) ==
    /\ job[p].stage = "converge"
    /\ claim' = [claim EXCEPT ![job[p].refund].entitlementRevoked = TRUE]
    /\ EndJob(p)
    /\ UNCHANGED <<market, chain, abandons>>

-----------------------------------------------------------------------------
(***************************************************************************)
(* reconcileRefund works on the document getRefundsAwaitingReconciliation  *)
(* read, not on the one in the database when it writes.                    *)
(***************************************************************************)
\* Mutant: only pending claims are reconciled; crashed ones are forgotten.
PendingOnly(c) == c.status = "pending"

\* Mutant: a claim being submitted is taken over at once.
NeverStuck(c) ==
    \/ c.status \in {"pending", "submitting"}
    \/ c.status = "settled" /\ ~c.entitlementRevoked

AwaitsReconciliation(c) ==
    \/ c.status = "pending"
    \/ c.status = "submitting" /\ c.age > STUCK_SUBMITTING
    \/ c.status = "settled" /\ ~c.entitlementRevoked

StartReconcile(p, r) ==
    LET c == claim[r]
    IN /\ job[p].stage = "idle"
       /\ c # NoClaim
       /\ AwaitsReconciliation(c)
       /\ job' = [job EXCEPT ![p] =
              [stage |-> IF c.status = "settled" THEN "finalize"
                         ELSE IF c.txHash = NoTx THEN "retry" ELSE "query",
               refund |-> r, retryCount |-> c.retryCount, tx |-> c.txHash,
               pendingSince |-> c.pendingSince, age |-> 0]]
       /\ UNCHANGED <<claim, market, chain, abandons>>

\* Mutant: a transaction Horizon cannot find is rebuilt without waiting.
NotFoundIsFailed(state, pendingSince) ==
    IF state = "applied" THEN "finalize" ELSE "retry"

\* What the answer of getTransactionStatus leads to.
NextStage(state, pendingSince) ==
    CASE state = "applied" -> "finalize"
      [] state = "failed" -> "retry"
      [] state \notin {"applied", "failed"} ->
           IF pendingSince # Never /\ pendingSince > PENDING_TIMEOUT
           THEN "retry" ELSE "poll"

QueryStatus(p) ==
    /\ job[p].stage = "query"
    /\ GoTo(p, NextStage(txs[job[p].tx].state, job[p].pendingSince))
    /\ UNCHANGED <<claim, market, chain, abandons>>

ReconcileRetry(p) ==
    /\ job[p].stage = "retry"
    /\ GiveBack(p, {"submitting", "pending"})
    /\ UNCHANGED <<market, chain, abandons>>

StillPending(p) ==
    LET r == job[p].refund
        since == job[p].pendingSince
    IN /\ job[p].stage = "poll"
       /\ IF Status(r) \in {"submitting", "pending"}
          THEN claim' = [claim EXCEPT ![r].status = "pending", ![r].age = 0,
                         ![r].pendingSince = IF since = Never THEN 0 ELSE since]
          ELSE UNCHANGED claim
       /\ EndJob(p)
       /\ UNCHANGED <<market, chain, abandons>>

-----------------------------------------------------------------------------
(***************************************************************************)
(* The environment: the ledger, time, and processes that die or give up    *)
(***************************************************************************)
\* External: the network may apply a sent transaction until its time bound,
\* and only the one that carries the account's next sequence number.
CanApply(t) ==
    /\ txs[t].state = "sent"
    /\ txs[t].age <= TX_TIMEBOUND
    /\ txs[t].seq = sequence + 1

ApplyTransaction(t) ==
    /\ CanApply(t)
    /\ \E outcome \in {"applied", "failed"} :
          txs' = [txs EXCEPT ![t].state = outcome]
    /\ sequence' = sequence + 1
    /\ UNCHANGED <<claim, market, job, abandons>>

\* A crash, a lost request, or an exception out of an awaited call.
Abandon(p) ==
    /\ job[p].stage # "idle"
    /\ abandons < MaxAbandons
    /\ abandons' = abandons + 1
    /\ EndJob(p)
    /\ UNCHANGED <<claim, market, chain>>

\* A bound past STUCK_SUBMITTING rules nothing out: jobs take any time.
JobsMayStall == MaxJobTime > STUCK_SUBMITTING

Since(t) == IF t = Never THEN Never ELSE Older(t, PENDING_TIMEOUT)

Tick ==
    /\ \A p \in Processes : job[p].stage # "idle" => job[p].age < MaxJobTime
    /\ claim' = [r \in Refunds |->
           IF claim[r] = NoClaim THEN NoClaim
           ELSE [claim[r] EXCEPT
                    !.age = IF claim[r].status = "submitting"
                            THEN Older(@, STUCK_SUBMITTING) ELSE @,
                    !.pendingSince = Since(@)]]
    /\ txs' = [t \in DOMAIN txs |->
           IF txs[t].state \in {"built", "sent"}
           THEN [txs[t] EXCEPT !.age = Older(@, TX_TIMEBOUND)]
           ELSE txs[t]]
    /\ job' = [p \in Processes |->
           IF job[p].stage = "idle" THEN Idle
           ELSE [job[p] EXCEPT !.pendingSince = Since(@),
                               !.age = IF JobsMayStall THEN 0 ELSE @ + 1]]
    /\ UNCHANGED <<market, sequence, abandons>>

-----------------------------------------------------------------------------
AdminStep ==
    \/ \E r \in Refunds, q \in Purchases : RequestRefund(r, q)
    \/ \E r \in Refunds : RejectRefund(r)
    \/ \E p \in Routes, r \in Refunds :
          ApproveRefund(p, r) \/ RetryFailedRefund(p, r)

SubmissionStep(p) ==
    \/ ClaimForSubmission(p) \/ PreflightFails(p) \/ BuildTransaction(p)
    \/ RecordCheckpoint(p) \/ SubmissionBlocked(p) \/ SendTransaction(p)
    \/ SubmissionConfirmed(p) \/ SubmissionRejected(p)
    \/ SubmissionAmbiguous(p)
    \/ Finalize(p) \/ RevokeAccess(p) \/ MirrorOnPurchase(p)
    \/ MarkConverged(p)

WorkerStep(p) ==
    \/ \E r \in Refunds : PollApproved(p, r) \/ StartReconcile(p, r)
    \/ SubmissionStep(p)
    \/ QueryStatus(p) \/ ReconcileRetry(p) \/ StillPending(p)

Next ==
    \/ AdminStep
    \/ \E p \in Workers : WorkerStep(p)
    \/ \E p \in Routes : SubmissionStep(p)
    \/ \E t \in DOMAIN txs : ApplyTransaction(t)
    \/ \E p \in Processes : Abandon(p)
    \/ Tick

Spec == Init /\ [][Next]_vars

\* runWorker loops for ever and time passes; nothing is assumed of the
\* admins, of the inline attempts, or of the network.
FairSpec == Spec /\ WF_vars(Tick) /\ \A p \in Workers : WF_vars(WorkerStep(p))

-----------------------------------------------------------------------------
(***************************************************************************)
(* Properties                                                              *)
(***************************************************************************)
PaymentsOf(q) == {t \in DOMAIN txs : txs[t].state = "applied"
                                     /\ PurchaseOf(txs[t].refund) = q}

\* "One effective refund per purchase, ever" (schemaContracts.js): however
\* submissions, reconciliations, admin retries, rejections, new claims and
\* crashes interleave, the ledger applies at most one refund payment for a
\* purchase.
PaidAtMostOnce == \A q \in Purchases : Cardinality(PaymentsOf(q)) <= 1

\* A claim is only rebuilt, failed or rejected when no transaction built for
\* it has been, or can still be, applied: retryOrFail never abandons money
\* in flight.
NothingInFlightWhenReleased ==
    \A r \in Refunds, t \in DOMAIN txs :
        (Status(r) \in {"approved", "failed", "rejected"} /\ txs[t].refund = r)
            => txs[t].state # "applied" /\ ~CanApply(t)

\* A settled claim carries the hash of a transaction the ledger applied for
\* it (the hash finalizeSettlement stores is the one an auditor looks up).
SettledHashIsThePayment ==
    \A r \in Refunds : Status(r) = "settled" =>
        /\ claim[r].txHash # NoTx
        /\ txs[claim[r].txHash].state = "applied"
        /\ txs[claim[r].txHash].refund = r

\* What the claims say agrees with the ledger: the documents are well typed,
\* retries within their limit included, settled ones name their payment, and
\* the ones that may be paid anew, or not at all, have none.
ClaimsMatchLedger ==
    TypeOK /\ SettledHashIsThePayment /\ NothingInFlightWhenReleased

\* Access is never revoked, and the purchase never marked refunded, before
\* the ledger has applied the payment.
NoRevocationBeforePayment ==
    \A q \in Purchases :
        (~access[q] \/ applied[q] # {}) => PaymentsOf(q) # {}

\* Exactly-once mirroring: overlapping finalizers and crash retries add a
\* refund to the purchase's refundedAmount once.
MirroredOnce == \A q \in Purchases : refunded[q] = Cardinality(applied[q])

\* finalizeSettlement's three writes, repeated and overlapping: what they leave
\* on the purchase comes after the payment and is there once.
MirroredOnceAfterPayment == NoRevocationBeforePayment /\ MirroredOnce

\* Settled is terminal, and a claim once converged stays converged.
SettledIsTerminal ==
    [][\A r \in Refunds : Status(r) = "settled" =>
          /\ Status(r)' = "settled"
          /\ claim[r].entitlementRevoked => claim'[r].entitlementRevoked]_vars

Converged(r) ==
    /\ Status(r) = "settled"
    /\ claim[r].entitlementRevoked
    /\ ~access[PurchaseOf(r)]
    /\ r \in applied[PurchaseOf(r)]

\* Every approved refund is eventually paid, revoked and mirrored, or reaches
\* failed, where it waits for an admin: none is lost by a crash, a timeout or
\* an ambiguous answer.
EveryRefundResolves ==
    \A r \in Refunds :
        (Status(r) = "approved") ~> (Converged(r) \/ Status(r) = "failed")

=============================================================================
