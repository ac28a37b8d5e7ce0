---------------------------- MODULE RefundProofs ----------------------------
(***************************************************************************)
(* What RefundWorkflow guarantees for any number of purchases, claims,     *)
(* workers and admin requests, however slow they are: access and the       *)
(* purchase's mirror follow the payment, and a settled claim stays so.     *)
(* With one worker and no job longer than STUCK_SUBMITTING, also that the  *)
(* claims agree with the ledger and a purchase is refunded at most once.   *)
(***************************************************************************)
EXTENDS RefundWorkflow, FiniteSetTheorems, SequenceTheorems, TLAPS

-----------------------------------------------------------------------------
(* The invariant. *)

\* The ledger has applied a refund for this claim.
Paid(r) == \E t \in DOMAIN txs : txs[t].state = "applied" /\ txs[t].refund = r

\* A transaction is built for a claim there is, and a claim and whoever works
\* on it name a transaction of its own.
TxsAreOfClaims ==
    /\ \A t \in DOMAIN txs : claim[txs[t].refund] # NoClaim
    /\ \A r \in Refunds : claim[r] # NoClaim /\ claim[r].txHash # NoTx =>
          claim[r].txHash \in DOMAIN txs /\ txs[claim[r].txHash].refund = r

\* The automatic budget is exceeded only by failing.
WithinBudget ==
    \A r \in Refunds :
        claim[r] # NoClaim /\ claim[r].status \notin {"failed", "rejected"} =>
            claim[r].retryCount <= MAX_SUBMIT_RETRIES

Unsent(p) == job[p].stage \in {"checkpoint", "submit"}
Finishing(p) == job[p].stage \in {"finalize", "revoke", "mirror", "converge"}

\* What a process at a step may rely on: in particular it finishes only what
\* was paid, and the transaction it is about to send was never sent.
JobIsSound(p) ==
    job[p].stage # "idle" =>
        /\ job[p].refund \in Refunds /\ claim[job[p].refund] # NoClaim
        /\ Unsent(p) \/ job[p].stage \in {"await", "query"} =>
              job[p].tx \in DOMAIN txs /\ txs[job[p].tx].refund = job[p].refund
        /\ job[p].stage = "finalize" => job[p].tx = NoTx
              \/ (job[p].tx \in DOMAIN txs /\ txs[job[p].tx].refund = job[p].refund)
        /\ Unsent(p) => txs[job[p].tx].state = "built"
        /\ Finishing(p) => Paid(job[p].refund)

UnsentAreDistinct ==
    \A p, q \in Processes : p # q /\ Unsent(p) /\ Unsent(q) => job[p].tx # job[q].tx

SettledIsPaid == \A r \in Refunds : Status(r) = "settled" => Paid(r)

AppliedIsFinite ==
    \A q \in Purchases : IsFiniteSet(applied[q])

RefundInv ==
    /\ TypeOK
    /\ TxsAreOfClaims /\ WithinBudget
    /\ \A p \in Processes : JobIsSound(p)
    /\ UnsentAreDistinct /\ SettledIsPaid
    /\ AppliedIsFinite /\ MirroredOnceAfterPayment

\* The part of the invariant that is about claims, transactions and jobs.
CoreInv ==
    /\ TypeOK
    /\ TxsAreOfClaims /\ WithinBudget
    /\ \A p \in Processes : JobIsSound(p)
    /\ UnsentAreDistinct /\ SettledIsPaid

-----------------------------------------------------------------------------
(* What every step keeps. *)

ClaimsKept ==
    \A r \in Refunds : claim[r] # NoClaim =>
        claim'[r] # NoClaim /\ claim'[r].purchase = claim[r].purchase

TxsKept ==
    \A t \in DOMAIN txs :
        /\ t \in DOMAIN txs' /\ txs'[t].refund = txs[t].refund
        /\ txs[t].state = "applied" => txs'[t].state = "applied"

\* What was paid stays paid.
LEMMA StaysPaid ==
    ASSUME TxsKept, NEW r
    PROVE  Paid(r) => Paid(r)'
BY DEF Paid, TxsKept

LEMMA PaymentsStay ==
    ASSUME CoreInv, ClaimsKept, TxsKept, NEW q \in Purchases, PaymentsOf(q) # {}
    PROVE  PaymentsOf(q)' # {}
<1>1. PICK t \in DOMAIN txs : txs[t].state = "applied" /\ PurchaseOf(txs[t].refund) = q
  BY DEF PaymentsOf
<1>2. txs \in Seq(Transactions) /\ txs[t] \in Transactions /\ claim[txs[t].refund] # NoClaim
  BY <1>1, ElementOfSeq, LenProperties DEF CoreInv, TypeOK, TxsAreOfClaims
<1>3. txs[t].refund \in Refunds
  BY <1>2 DEF Transactions
<1>4. /\ t \in DOMAIN txs' /\ txs'[t].state = "applied" /\ txs'[t].refund = txs[t].refund
      /\ claim'[txs[t].refund].purchase = q
  BY <1>1, <1>2, <1>3 DEF TxsKept, ClaimsKept, PurchaseOf
<1>5. QED
  BY <1>4 DEF PaymentsOf, PurchaseOf

\* A claim that was paid is a payment of its purchase.
LEMMA PaidPurchase ==
    ASSUME NEW r \in Refunds, Paid(r)
    PROVE  PaymentsOf(PurchaseOf(r)) # {}
BY DEF Paid, PaymentsOf

LEMMA MarketStays ==
    ASSUME CoreInv, ClaimsKept, TxsKept, UNCHANGED market,
           AppliedIsFinite, MirroredOnceAfterPayment
    PROVE  AppliedIsFinite' /\ MirroredOnceAfterPayment'
<1>1. \A q \in Purchases : PaymentsOf(q) # {} => PaymentsOf(q)' # {}
  BY PaymentsStay
<1>2. QED
  BY <1>1 DEF market, AppliedIsFinite, MirroredOnceAfterPayment,
     NoRevocationBeforePayment, MirroredOnce

\* The documents a step may write into a claim.
MayBecome(r, d) ==
    /\ d \in ClaimDocs
    /\ d.purchase = claim[r].purchase
    /\ \/ d.txHash \in {NoTx, claim[r].txHash}
       \/ d.txHash \in DOMAIN txs /\ txs[d.txHash].refund = r
    /\ d.status \notin {"failed", "rejected"} => d.retryCount <= MAX_SUBMIT_RETRIES
    /\ d.status = "settled" => Paid(r)

\* What p may do to the transactions: add one for its claim, or change the one
\* it is about to send.
TxStep(p, r) ==
    /\ txs' \in Seq(Transactions) /\ Len(txs') <= MaxTx /\ TxsKept
    /\ \A t \in DOMAIN txs' \ DOMAIN txs : txs'[t].refund = r
    /\ \A t \in DOMAIN txs : txs[t].state = "built" /\ txs'[t].state # "built" =>
           Unsent(p) /\ t = job[p].tx

\* The jobs p may go on with.
JobStep(p, r, j) ==
    /\ j \in Jobs
    /\ j.stage # "idle" =>
        /\ j.refund = r
        /\ j.stage \in {"checkpoint", "submit", "await", "query"} =>
              j.tx \in DOMAIN txs' /\ txs'[j.tx].refund = r
        /\ j.stage = "finalize" =>
              j.tx = NoTx \/ (j.tx \in DOMAIN txs' /\ txs'[j.tx].refund = r)
        /\ j.stage \in {"checkpoint", "submit"} =>
              /\ txs'[j.tx].state = "built"
              /\ j.tx \notin DOMAIN txs \/ (Unsent(p) /\ j.tx = job[p].tx)
        /\ j.stage \in {"finalize", "revoke", "mirror", "converge"} => Paid(r)

\* What the steps of processes leave well typed, or alone.
RestTyped ==
    /\ applied' \in [Purchases -> SUBSET Refunds]
    /\ refunded' \in [Purchases -> Nat]
    /\ access' \in [Purchases -> BOOLEAN]
    /\ sequence' = sequence /\ abandons' \in 0..MaxAbandons

\* A step of a process p: one claim is rewritten, a transaction is added for
\* it or changes, its job moves on.
LEMMA ProcessStep ==
    ASSUME CoreInv, NEW p \in Processes,
           NEW r \in Refunds, claim[r] # NoClaim,
           NEW d, MayBecome(r, d), claim' = [claim EXCEPT ![r] = d],
           TxStep(p, r), NEW j, JobStep(p, r, j), job' = [job EXCEPT ![p] = j],
           RestTyped
    PROVE  CoreInv' /\ ClaimsKept
<1> USE DEF TxStep, JobStep, RestTyped
<1>1. /\ claim' \in [Refunds -> ClaimDocs \cup {NoClaim}] /\ claim'[r] = d
      /\ \A x \in Refunds \ {r} : claim'[x] = claim[x]
      /\ d # NoClaim
  BY NoClaimIsNoDoc DEF CoreInv, TypeOK, MayBecome
<1>2. ClaimsKept
  BY <1>1 DEF ClaimsKept, MayBecome
<1>3. /\ job' \in [Processes -> Jobs] /\ job'[p] = j
      /\ \A q \in Processes \ {p} : job'[q] = job[q]
  BY DEF CoreInv, TypeOK
<1>4. TypeOK'
  BY <1>1, <1>3 DEF CoreInv, TypeOK
<1>5. TxsAreOfClaims'
  <2>1. \A t \in DOMAIN txs' : claim'[txs'[t].refund] # NoClaim
    <3>1. SUFFICES ASSUME NEW t \in DOMAIN txs' PROVE claim'[txs'[t].refund] # NoClaim
      OBVIOUS
    <3>2. CASE t \in DOMAIN txs
      <4>1. txs[t] \in Transactions
        BY <3>2, ElementOfSeq, LenProperties DEF CoreInv, TypeOK
      <4>2. txs[t].refund \in Refunds /\ claim[txs[t].refund] # NoClaim
        BY <3>2, <4>1 DEF CoreInv, TxsAreOfClaims, Transactions
      <4>3. QED
        BY <1>2, <3>2, <4>2 DEF TxsKept, ClaimsKept
    <3>3. CASE t \notin DOMAIN txs
      BY <1>1, <3>3
    <3>4. QED
      BY <3>2, <3>3
  <2>2. \A x \in Refunds : claim'[x] # NoClaim /\ claim'[x].txHash # NoTx =>
          claim'[x].txHash \in DOMAIN txs' /\ txs'[claim'[x].txHash].refund = x
    BY <1>1 DEF CoreInv, TxsAreOfClaims, MayBecome, TxsKept
  <2>3. QED
    BY <2>1, <2>2 DEF TxsAreOfClaims
<1>6. WithinBudget'
  BY <1>1 DEF CoreInv, WithinBudget, MayBecome
<1>7. SettledIsPaid'
  <2>1. SUFFICES ASSUME NEW x \in Refunds, Status(x)' = "settled" PROVE Paid(x)
    BY StaysPaid DEF SettledIsPaid
  <2>2. CASE x = r
    BY <1>1, <2>1, <2>2 DEF MayBecome, Status
  <2>3. CASE x # r
    BY <1>1, <2>1, <2>3 DEF CoreInv, SettledIsPaid, Status
  <2>4. QED
    BY <2>2, <2>3
<1>8. UnsentAreDistinct'
  <2>1. SUFFICES ASSUME NEW q \in Processes, q # p, Unsent(q), Unsent(p)'
                 PROVE  job[q].tx # j.tx
    BY <1>3 DEF CoreInv, UnsentAreDistinct, Unsent
  <2>2. job[q].tx \in DOMAIN txs
    BY <2>1 DEF CoreInv, JobIsSound, Unsent
  <2>3. QED
    BY <1>3, <2>1, <2>2 DEF CoreInv, UnsentAreDistinct, Unsent
<1>9. JobIsSound(p)'
  <2>1. SUFFICES ASSUME j.stage # "idle" PROVE JobIsSound(p)'
    BY <1>3 DEF JobIsSound
  <2>2. j.refund = r /\ claim'[r] # NoClaim
    BY <1>1, <2>1
  <2>3. j.stage \in {"finalize", "revoke", "mirror", "converge"} => Paid(r)'
    BY <2>1, StaysPaid
  <2>4. j.stage \in {"checkpoint", "submit"} => txs'[j.tx].state = "built"
    BY <2>1
  <2>5. /\ j.stage \in {"checkpoint", "submit", "await", "query"} =>
              j.tx \in DOMAIN txs' /\ txs'[j.tx].refund = r
        /\ j.stage = "finalize" =>
              j.tx = NoTx \/ (j.tx \in DOMAIN txs' /\ txs'[j.tx].refund = r)
    BY <2>1
  <2>6. QED
    BY <1>3, <2>2, <2>3, <2>4, <2>5 DEF JobIsSound, Unsent, Finishing
<1>10. ASSUME NEW q \in Processes, q # p PROVE JobIsSound(q)'
  <2>1. job'[q] = job[q] /\ JobIsSound(q)
    BY <1>3, <1>10 DEF CoreInv
  <2>2. Unsent(q) => txs'[job[q].tx].state = "built"
    BY <1>10, <2>1 DEF CoreInv, JobIsSound, UnsentAreDistinct, Unsent
  <2>3. Paid(job[q].refund) => Paid(job[q].refund)'
    BY <2>1, StaysPaid DEF Paid, TxsKept
  <2>4. QED
    <3>1. SUFFICES ASSUME job[q].stage # "idle" PROVE JobIsSound(q)'
      BY <2>1 DEF JobIsSound
    <3>2. job[q].refund \in Refunds /\ claim'[job[q].refund] # NoClaim
      BY <1>2, <2>1, <3>1 DEF JobIsSound, ClaimsKept
    <3>3. /\ Unsent(q) \/ job[q].stage \in {"await", "query"} =>
                job[q].tx \in DOMAIN txs' /\ txs'[job[q].tx].refund = job[q].refund
          /\ job[q].stage = "finalize" => job[q].tx = NoTx
                \/ (job[q].tx \in DOMAIN txs' /\ txs'[job[q].tx].refund = job[q].refund)
      BY <2>1, <3>1 DEF JobIsSound, TxsKept
    <3>4. Finishing(q) => Paid(job[q].refund)'
      BY <2>1, <2>3, <3>1 DEF JobIsSound
    <3>5. QED
      BY <2>1, <2>2, <3>2, <3>3, <3>4 DEF JobIsSound, Unsent, Finishing, Paid
<1>11. QED
  BY <1>2, <1>4, <1>5, <1>6, <1>7, <1>8, <1>9, <1>10 DEF CoreInv

-----------------------------------------------------------------------------
(* The documents and jobs that steps write. *)

\* A claim's document, as it is and with another status.
LEMMA ClaimDoc ==
    ASSUME CoreInv, NEW r \in Refunds, claim[r] # NoClaim
    PROVE  /\ claim[r] \in ClaimDocs /\ MayBecome(r, claim[r])
           /\ Status(r) = claim[r].status
           /\ claim[r].retryCount \in 0..(MAX_SUBMIT_RETRIES + 1)
           /\ claim[r].txHash \in 0..MaxTx
BY DEF CoreInv, TypeOK, MayBecome, ClaimDocs, TxsAreOfClaims, WithinBudget,
   SettledIsPaid, Status

\* retryOrFail leaves a claim as it is, fails it, or returns it within budget.
LEMMA RetriedClaim ==
    ASSUME CoreInv, NEW r \in Refunds, claim[r] # NoClaim,
           NEW n \in 0..MAX_SUBMIT_RETRIES, NEW from
    PROVE  MayBecome(r, RetryOrFail(r, n, from))
<1>1. claim[r] \in ClaimDocs /\ MayBecome(r, claim[r])
  BY ClaimDoc
<1>2. n + 1 \in 0..(MAX_SUBMIT_RETRIES + 1) /\ 0 \in 0..(STUCK_SUBMITTING + 1) /\ NoTx \in 0..MaxTx
  BY RefundConstants DEF NoTx
<1>3. CASE claim[r].status \notin from
  BY <1>1, <1>3 DEF RetryOrFail
<1>4. CASE claim[r].status \in from /\ n + 1 > MAX_SUBMIT_RETRIES
  <2> DEFINE d == [claim[r] EXCEPT !.status = "failed", !.retryCount = n + 1, !.age = 0]
  <2>1. RetryOrFail(r, n, from) = d
    BY <1>4 DEF RetryOrFail
  <2>2. MayBecome(r, d)
    BY <1>1, <1>2 DEF MayBecome, ClaimDocs, Statuses
  <2>3. QED
    BY <2>1, <2>2
<1>5. CASE claim[r].status \in from /\ ~(n + 1 > MAX_SUBMIT_RETRIES)
  <2> DEFINE d == [claim[r] EXCEPT !.status = "approved", !.retryCount = n + 1,
                                   !.age = 0, !.txHash = NoTx]
  <2>1. RetryOrFail(r, n, from) = d /\ n + 1 <= MAX_SUBMIT_RETRIES
    BY <1>2, <1>5, RefundConstants DEF RetryOrFail
  <2>2. d \in ClaimDocs
    BY <1>1, <1>2 DEF ClaimDocs, Statuses
  <2>3. d.purchase = claim[r].purchase /\ d.txHash = NoTx /\ d.status = "approved"
        /\ d.retryCount = n + 1
    BY <1>1 DEF ClaimDocs
  <2> HIDE DEF d
  <2>4. QED
    BY <2>1, <2>2, <2>3 DEF MayBecome
<1>6. QED
  BY <1>3, <1>4, <1>5

LEMMA IdleJob == Idle \in Jobs
BY RefundConstants DEF Idle, Jobs, Stages, NoTx, Never

LEMMA NewJob ==
    ASSUME NEW r \in Refunds
    PROVE  /\ At(r, "claim") \in Jobs /\ At(r, "claim").refund = r
           /\ At(r, "claim").stage = "claim"
BY IdleJob DEF At, Jobs, Stages

LEMMA SinceStays == \A n \in 0..Never : Since(n) \in 0..Never
BY RefundConstants DEF Since, Older, Never

\* Time changes only the ages of a claim.
LEMMA AgedClaim ==
    ASSUME CoreInv, Tick, NEW r \in Refunds, claim[r] # NoClaim
    PROVE  /\ claim'[r] \in ClaimDocs /\ claim'[r].purchase = claim[r].purchase
           /\ claim'[r].status = claim[r].status /\ claim'[r].txHash = claim[r].txHash
           /\ claim'[r].retryCount = claim[r].retryCount
           /\ claim'[r].entitlementRevoked = claim[r].entitlementRevoked
<1>1. claim[r] \in ClaimDocs
  BY ClaimDoc
<1>2. PICK n \in 0..(STUCK_SUBMITTING + 1) :
          claim'[r] = [claim[r] EXCEPT !.age = n, !.pendingSince = Since(@)]
  <2>1. claim'[r] = [claim[r] EXCEPT !.age = IF claim[r].status = "submitting"
                                             THEN Older(@, STUCK_SUBMITTING) ELSE @,
                                     !.pendingSince = Since(@)]
    BY DEF Tick
  <2>2. /\ claim[r].age \in 0..(STUCK_SUBMITTING + 1)
        /\ Older(claim[r].age, STUCK_SUBMITTING) \in 0..(STUCK_SUBMITTING + 1)
    BY <1>1, RefundConstants DEF ClaimDocs, Older
  <2>3. QED
    BY <2>1, <2>2
<1>3. Since(claim[r].pendingSince) \in 0..Never
  BY <1>1, SinceStays DEF ClaimDocs
<1>4. QED
  BY <1>1, <1>2, <1>3 DEF ClaimDocs

-----------------------------------------------------------------------------
(* The steps. *)

LEMMA StepKeepsRefunds ==
    ASSUME RefundInv, [Next]_vars
    PROVE  RefundInv'
<1> USE DEF market, chain
<1>0. /\ CoreInv /\ AppliedIsFinite /\ MirroredOnceAfterPayment
      /\ job \in [Processes -> Jobs] /\ txs \in Seq(Transactions) /\ Len(txs) <= MaxTx
      /\ abandons \in 0..MaxAbandons /\ DOMAIN txs = 1..Len(txs) /\ Len(txs) \in Nat
      /\ \A t \in DOMAIN txs : txs[t] \in Transactions
  BY ElementOfSeq, LenProperties DEF RefundInv, CoreInv, TypeOK
<1>a. UNCHANGED <<market, sequence, abandons>> => RestTyped
  BY <1>0 DEF CoreInv, TypeOK, RestTyped
\* A process that leaves transactions and purchases alone.
<1>1. ASSUME NEW p \in Processes, NEW r \in Refunds, claim[r] # NoClaim,
             NEW d, MayBecome(r, d), claim' = [claim EXCEPT ![r] = d],
             NEW j \in Jobs, job' = [job EXCEPT ![p] = j],
             j.stage # "idle" =>
                 /\ j.refund = r
                 /\ j.stage \in {"checkpoint", "submit", "await", "query"} =>
                      j.tx \in DOMAIN txs /\ txs[j.tx].refund = r
                 /\ j.stage = "finalize" =>
                      j.tx = NoTx \/ (j.tx \in DOMAIN txs /\ txs[j.tx].refund = r)
                 /\ j.stage \in {"checkpoint", "submit"} =>
                      Unsent(p) /\ j.tx = job[p].tx
                 /\ j.stage \in {"finalize", "revoke", "mirror", "converge"} => Paid(r),
             UNCHANGED <<txs, market, sequence>>, abandons' \in 0..MaxAbandons
      PROVE  RefundInv'
  <2>1. TxsKept
    BY <1>1 DEF TxsKept
  <2>2. j.stage \in {"checkpoint", "submit"} => txs'[j.tx].state = "built"
    BY <1>0, <1>1 DEF CoreInv, JobIsSound, Unsent
  <2>6. TxStep(p, r)
    BY <1>0, <1>1, <2>1 DEF TxStep
  <2>7. JobStep(p, r, j)
    BY <1>1, <2>2 DEF JobStep
  <2>8. RestTyped
    BY <1>0, <1>1 DEF RestTyped, CoreInv, TypeOK
  <2>3. CoreInv' /\ ClaimsKept
    BY <1>0, <1>1, <2>6, <2>7, <2>8, ProcessStep
  <2>4. AppliedIsFinite' /\ MirroredOnceAfterPayment'
    BY <1>0, <1>1, <2>1, <2>3, MarketStays
  <2>5. QED
    BY <2>3, <2>4 DEF RefundInv, CoreInv
<1>2. ASSUME NEW p \in Processes, job[p].stage # "idle"
      PROVE  /\ job[p] \in Jobs /\ JobIsSound(p)
             /\ job[p].refund \in Refunds /\ claim[job[p].refund] # NoClaim
             /\ claim[job[p].refund] \in ClaimDocs
             /\ MayBecome(job[p].refund, claim[job[p].refund])
             /\ claim = [claim EXCEPT ![job[p].refund] = claim[job[p].refund]]
             /\ job[p].retryCount \in 0..MAX_SUBMIT_RETRIES
  <2>1. job[p] \in Jobs /\ JobIsSound(p)
    BY <1>0 DEF CoreInv
  <2>2. job[p].refund \in Refunds /\ claim[job[p].refund] # NoClaim
    BY <1>2, <2>1 DEF JobIsSound
  <2>3. QED
    BY <1>0, <2>1, <2>2, ClaimDoc DEF CoreInv, TypeOK, Jobs
\* A step to another stage that writes nothing.
<1>3. ASSUME NEW p \in Processes, job[p].stage # "idle", NEW s \in Stages, GoTo(p, s),
             s \in {"checkpoint", "submit"} => Unsent(p),
             s \in {"await", "query", "finalize"} =>
                 Unsent(p) \/ job[p].stage \in {"await", "query"},
             s \in {"finalize", "revoke", "mirror", "converge"} => Paid(job[p].refund),
             UNCHANGED <<claim, txs, market, sequence, abandons>>
      PROVE  RefundInv'
  <2> DEFINE j == [job[p] EXCEPT !.stage = s]
  <2>1. /\ j \in Jobs /\ j.stage = s /\ j.refund = job[p].refund /\ j.tx = job[p].tx
        /\ job' = [job EXCEPT ![p] = j]
    <3>1. job[p] \in Jobs
      BY <1>2, <1>3
    <3>2. QED
      BY <1>3, <3>1 DEF Jobs, GoTo
  <2> HIDE DEF j
  <2>2. claim' = [claim EXCEPT ![job[p].refund] = claim[job[p].refund]]
    BY <1>2, <1>3
  <2>3. Unsent(p) \/ job[p].stage \in {"await", "query"} =>
            job[p].tx \in DOMAIN txs /\ txs[job[p].tx].refund = job[p].refund
    BY <1>2, <1>3 DEF JobIsSound
  <2>4. QED
    BY <1>0, <1>1, <1>2, <1>3, <2>1, <2>2, <2>3 DEF Unsent
\* A step that writes a claim and ends the job.
<1>4. ASSUME NEW p \in Processes, job[p].stage # "idle",
             NEW d, MayBecome(job[p].refund, d), claim' = [claim EXCEPT ![job[p].refund] = d],
             EndJob(p), UNCHANGED <<txs, market, sequence>>, abandons' \in 0..MaxAbandons
      PROVE  RefundInv'
  <2>1. job' = [job EXCEPT ![p] = Idle] /\ Idle.stage = "idle"
    BY <1>4 DEF EndJob, Idle
  <2>2. QED
    BY <1>1, <1>2, <1>4, <2>1, IdleJob
\* A step that starts a job at the claim.
<1>5. ASSUME NEW p \in Processes, NEW r \in Refunds, claim[r] # NoClaim,
             NEW d, MayBecome(r, d), claim' = [claim EXCEPT ![r] = d],
             job' = [job EXCEPT ![p] = At(r, "claim")],
             UNCHANGED <<txs, market, sequence, abandons>>
      PROVE  RefundInv'
  BY <1>0, <1>1, <1>5, NewJob
\* A status is set by hand: no settlement and no new transaction hash.
<1>6. ASSUME NEW r \in Refunds, claim[r] # NoClaim,
             NEW s \in {"approved", "rejected", "submitting", "pending"},
             NEW n \in 0..(MAX_SUBMIT_RETRIES + 1),
             s # "rejected" => n <= MAX_SUBMIT_RETRIES,
             NEW since \in 0..Never
      PROVE  MayBecome(r, [claim[r] EXCEPT !.status = s, !.retryCount = n, !.age = 0,
                                           !.pendingSince = since])
  <2>1. claim[r] \in ClaimDocs /\ 0 \in 0..(STUCK_SUBMITTING + 1) /\ s \in Statuses
    BY <1>0, <1>6, ClaimDoc, RefundConstants DEF Statuses
  <2> DEFINE d == [claim[r] EXCEPT !.status = s, !.retryCount = n, !.age = 0,
                                   !.pendingSince = since]
  <2>2. /\ d \in ClaimDocs /\ d.status = s /\ d.retryCount = n
        /\ d.purchase = claim[r].purchase /\ d.txHash = claim[r].txHash
    BY <1>6, <2>1 DEF ClaimDocs
  <2> HIDE DEF d
  <2>3. MayBecome(r, d)
    BY <1>6, <2>2 DEF MayBecome
  <2>4. QED
    BY <2>3 DEF d
\* Administrators.
<1>7. ASSUME NEW r \in Refunds, NEW q \in Purchases, RequestRefund(r, q) PROVE RefundInv'
  <2> DEFINE d == [purchase |-> q, status |-> "requested", retryCount |-> 0,
                   txHash |-> NoTx, pendingSince |-> Never, age |-> 0,
                   entitlementRevoked |-> FALSE]
  <2>1. d \in ClaimDocs /\ d.txHash = NoTx /\ d.status = "requested" /\ d.retryCount = 0
    BY RefundConstants DEF ClaimDocs, Statuses, NoTx, Never
  <2>2. /\ claim[r] = NoClaim /\ claim' = [claim EXCEPT ![r] = d]
        /\ UNCHANGED <<market, chain, job, abandons>>
    BY <1>7 DEF RequestRefund
  <2> HIDE DEF d
  <2>3. /\ claim' \in [Refunds -> ClaimDocs \cup {NoClaim}] /\ claim'[r] = d /\ d # NoClaim
        /\ \A x \in Refunds \ {r} : claim'[x] = claim[x]
    BY <1>0, <2>1, <2>2, NoClaimIsNoDoc DEF CoreInv, TypeOK
  <2>4. ClaimsKept /\ TxsKept /\ \A t \in DOMAIN txs : claim[txs[t].refund] # NoClaim
                                              /\ txs[t].refund \in Refunds
    BY <1>0, <2>2, <2>3 DEF ClaimsKept, TxsKept, CoreInv, TxsAreOfClaims, Transactions
  <2>5. TypeOK'
    BY <1>0, <2>2, <2>3 DEF CoreInv, TypeOK
  <2>6. TxsAreOfClaims' /\ WithinBudget'
    BY <1>0, <2>1, <2>2, <2>3, <2>4, RefundConstants
       DEF CoreInv, TxsAreOfClaims, WithinBudget
  <2>7. (\A p \in Processes : JobIsSound(p)') /\ UnsentAreDistinct'
    BY <1>0, <2>2, <2>3 DEF CoreInv, JobIsSound, UnsentAreDistinct, Unsent, Finishing, Paid
  <2>8. SettledIsPaid'
    BY <1>0, <2>1, <2>2, <2>3 DEF CoreInv, SettledIsPaid, Status, Paid
  <2>9. AppliedIsFinite' /\ MirroredOnceAfterPayment'
    BY <1>0, <2>2, <2>4, MarketStays
  <2>10. QED
    BY <2>5, <2>6, <2>7, <2>8, <2>9 DEF RefundInv
<1>8. ASSUME NEW p \in Processes, NEW r \in Refunds, ApproveRefund(p, r) \/ RetryFailedRefund(p, r)
      PROVE  RefundInv'
  <2>1. claim[r] # NoClaim
    BY <1>8 DEF ApproveRefund, RetryFailedRefund, Status
  <2>2. claim[r] \in ClaimDocs /\ claim[r].retryCount \in 0..(MAX_SUBMIT_RETRIES + 1)
        /\ claim[r].pendingSince \in 0..Never /\ 0 \in 0..(MAX_SUBMIT_RETRIES + 1)
    BY <1>0, <2>1, ClaimDoc, RefundConstants DEF ClaimDocs
  <2>3. CASE ApproveRefund(p, r)
    <3> DEFINE d == [claim[r] EXCEPT !.status = "approved", !.age = 0]
    <3>1. claim[r].status = "requested" /\ claim[r].retryCount <= MAX_SUBMIT_RETRIES
      BY <1>0, <2>1, <2>3 DEF ApproveRefund, Status, CoreInv, WithinBudget
    <3>2. d = [claim[r] EXCEPT !.status = "approved", !.retryCount = claim[r].retryCount,
                               !.age = 0, !.pendingSince = claim[r].pendingSince]
      BY <2>2 DEF ClaimDocs
    <3>3. MayBecome(r, d)
      BY <1>6, <2>1, <2>2, <3>1, <3>2
    <3>4. claim' = [claim EXCEPT ![r] = d] /\ job' = [job EXCEPT ![p] = At(r, "claim")]
          /\ UNCHANGED <<txs, market, sequence, abandons>>
      BY <2>3 DEF ApproveRefund
    <3> HIDE DEF d
    <3>5. QED
      BY <1>5, <2>1, <3>3, <3>4
  <2>4. CASE RetryFailedRefund(p, r)
    <3> DEFINE d == [claim[r] EXCEPT !.status = "approved", !.retryCount = 0, !.age = 0]
    <3>1. 0 <= MAX_SUBMIT_RETRIES
      BY RefundConstants
    <3>2. d = [claim[r] EXCEPT !.status = "approved", !.retryCount = 0,
                               !.age = 0, !.pendingSince = claim[r].pendingSince]
      BY <2>2 DEF ClaimDocs
    <3>3. MayBecome(r, d)
      BY <1>6, <2>1, <2>2, <3>1, <3>2
    <3>4. claim' = [claim EXCEPT ![r] = d] /\ job' = [job EXCEPT ![p] = At(r, "claim")]
          /\ UNCHANGED <<txs, market, sequence, abandons>>
      BY <2>4 DEF RetryFailedRefund
    <3> HIDE DEF d
    <3>5. QED
      BY <1>5, <2>1, <3>3, <3>4
  <2>5. QED
    BY <1>8, <2>3, <2>4
<1>9. ASSUME NEW r \in Refunds, RejectRefund(r) PROVE RefundInv'
  <2> DEFINE d == [claim[r] EXCEPT !.status = "rejected", !.age = 0]
  <2>1. claim[r] # NoClaim /\ claim' = [claim EXCEPT ![r] = d]
        /\ UNCHANGED <<market, chain, job, abandons>>
    BY <1>9 DEF RejectRefund, Status
  <2>2. /\ d \in ClaimDocs /\ d.status = "rejected" /\ d.purchase = claim[r].purchase
        /\ d.txHash = claim[r].txHash
    <3>1. claim[r] \in ClaimDocs /\ 0 \in 0..(STUCK_SUBMITTING + 1) /\ "rejected" \in Statuses
      BY <1>0, <2>1, ClaimDoc, RefundConstants DEF Statuses
    <3>2. QED
      BY <3>1 DEF ClaimDocs
  <2> HIDE DEF d
  <2>3. /\ claim' \in [Refunds -> ClaimDocs \cup {NoClaim}] /\ claim'[r] = d /\ d # NoClaim
        /\ \A x \in Refunds \ {r} : claim'[x] = claim[x]
    BY <1>0, <2>1, <2>2, NoClaimIsNoDoc DEF CoreInv, TypeOK
  <2>4. ClaimsKept /\ TxsKept /\ \A t \in DOMAIN txs : txs[t].refund \in Refunds
    BY <1>0, <2>1, <2>2, <2>3 DEF ClaimsKept, TxsKept, Transactions
  <2>5. TypeOK'
    BY <1>0, <2>1, <2>3 DEF CoreInv, TypeOK
  <2>6. TxsAreOfClaims' /\ WithinBudget'
    BY <1>0, <2>1, <2>2, <2>3, <2>4 DEF CoreInv, TxsAreOfClaims, WithinBudget, ClaimsKept
  <2>7. (\A p \in Processes : JobIsSound(p)') /\ UnsentAreDistinct'
    BY <1>0, <2>1, <2>4
       DEF CoreInv, JobIsSound, UnsentAreDistinct, Unsent, Finishing, Paid, ClaimsKept
  <2>8. SettledIsPaid'
    BY <1>0, <2>1, <2>2, <2>3 DEF CoreInv, SettledIsPaid, Status, Paid
  <2>9. AppliedIsFinite' /\ MirroredOnceAfterPayment'
    BY <1>0, <2>1, <2>4, MarketStays
  <2>10. QED
    BY <2>5, <2>6, <2>7, <2>8, <2>9 DEF RefundInv
\* Steps that end a job, or hand one out, and write at most the claim.
<1>10. ASSUME NEW p \in Processes, NEW r \in Refunds, PollApproved(p, r) PROVE RefundInv'
  <2>1. claim[r] # NoClaim
    BY <1>10 DEF PollApproved, Status
  <2>2. MayBecome(r, claim[r]) /\ claim = [claim EXCEPT ![r] = claim[r]]
    BY <1>0, <2>1, ClaimDoc DEF CoreInv, TypeOK
  <2>3. claim' = [claim EXCEPT ![r] = claim[r]] /\ job' = [job EXCEPT ![p] = At(r, "claim")]
        /\ UNCHANGED <<txs, market, sequence, abandons>>
    BY <1>10, <2>2 DEF PollApproved
  <2>4. QED
    BY <1>5, <2>1, <2>2, <2>3
<1>11. ASSUME NEW p \in Processes, PreflightFails(p) \/ SubmissionBlocked(p) \/ ReconcileRetry(p)
       PROVE  RefundInv'
  <2>1. job[p].stage # "idle" /\ UNCHANGED <<txs, market, sequence, abandons>>
    BY <1>11 DEF PreflightFails, SubmissionBlocked, ReconcileRetry
  <2>2. PICK from : GiveBack(p, from)
    BY <1>11 DEF PreflightFails, SubmissionBlocked, ReconcileRetry
  <2> DEFINE r == job[p].refund
  <2>3. MayBecome(r, RetryOrFail(r, job[p].retryCount, from))
    BY <1>0, <1>2, <2>1, RetriedClaim
  <2>4. claim' = [claim EXCEPT ![r] = RetryOrFail(r, job[p].retryCount, from)] /\ EndJob(p)
    BY <2>2 DEF GiveBack
  <2> HIDE DEF r
  <2>5. abandons' \in 0..MaxAbandons
    BY <1>0, <2>1
  <2>6. QED
    BY <1>4, <2>1, <2>3, <2>4, <2>5 DEF r
<1>12. ASSUME NEW p \in Processes, Abandon(p) PROVE RefundInv'
  <2>1. job[p].stage # "idle" /\ EndJob(p) /\ UNCHANGED <<claim, txs, market, sequence>>
        /\ abandons' \in 0..MaxAbandons
    BY <1>0, <1>12, RefundConstants DEF Abandon
  <2>2. MayBecome(job[p].refund, claim[job[p].refund])
        /\ claim' = [claim EXCEPT ![job[p].refund] = claim[job[p].refund]]
    BY <1>2, <2>1
  <2>3. QED
    BY <1>4, <2>1, <2>2
<1>13. ASSUME NEW p \in Processes, ClaimForSubmission(p) PROVE RefundInv'
  <2> DEFINE r == job[p].refund
  <2>1. job[p].stage = "claim" /\ UNCHANGED <<txs, market, sequence, abandons>>
        /\ abandons' \in 0..MaxAbandons
    BY <1>0, <1>13 DEF ClaimForSubmission
  <2>2. /\ job[p] \in Jobs /\ r \in Refunds /\ claim[r] # NoClaim /\ claim[r] \in ClaimDocs
        /\ claim = [claim EXCEPT ![r] = claim[r]] /\ MayBecome(r, claim[r])
    BY <1>2, <2>1
  <2>3. CASE Status(r) = "approved"
    <3> DEFINE d == [claim[r] EXCEPT !.status = "submitting", !.age = 0]
               j == [job[p] EXCEPT !.stage = "preflight", !.retryCount = claim[r].retryCount]
    <3> HIDE DEF r
    <3>0. claim[r].status = "approved" /\ claim[r].retryCount <= MAX_SUBMIT_RETRIES
      BY <1>0, <2>2, <2>3 DEF Status, CoreInv, WithinBudget
    <3>1. claim[r].retryCount \in 0..MAX_SUBMIT_RETRIES
          /\ claim[r].retryCount \in 0..(MAX_SUBMIT_RETRIES + 1)
          /\ claim[r].pendingSince \in 0..Never
      BY <2>2, <3>0, RefundConstants DEF ClaimDocs
    <3>2. d = [claim[r] EXCEPT !.status = "submitting", !.retryCount = claim[r].retryCount,
                               !.age = 0, !.pendingSince = claim[r].pendingSince]
      BY <2>2 DEF ClaimDocs
    <3>3. MayBecome(r, d)
      <4> HIDE DEF d
      <4>1. MayBecome(r, [claim[r] EXCEPT !.status = "submitting",
                !.retryCount = claim[r].retryCount, !.age = 0,
                !.pendingSince = claim[r].pendingSince])
        BY <1>6, <2>2, <3>0, <3>1
      <4>2. QED
        BY <3>2, <4>1
    <3>4. j \in Jobs /\ j.stage = "preflight" /\ j.refund = r
      BY <2>2, <3>1 DEF Jobs, Stages, r
    <3>5. claim' = [claim EXCEPT ![r] = d] /\ job' = [job EXCEPT ![p] = j]
      BY <1>13, <2>3 DEF ClaimForSubmission, r
    <3> HIDE DEF d, j
    <3>6. QED
      BY <1>1, <2>1, <2>2, <3>3, <3>4, <3>5
  <2>4. CASE Status(r) # "approved"
    <3>1. EndJob(p) /\ claim' = [claim EXCEPT ![r] = claim[r]]
      BY <1>13, <2>2, <2>4 DEF ClaimForSubmission
    <3>2. QED
      BY <1>4, <2>1, <2>2, <3>1
  <2>5. QED
    BY <2>3, <2>4
<1>14. ASSUME NEW p \in Processes, RecordCheckpoint(p) PROVE RefundInv'
  <2> DEFINE r == job[p].refund
             d == [claim[r] EXCEPT !.txHash = job[p].tx, !.age = 0]
             j == [job[p] EXCEPT !.stage = "submit"]
  <2>1. job[p].stage = "checkpoint" /\ UNCHANGED <<txs, market, sequence, abandons>>
        /\ claim' = [claim EXCEPT ![r] = d] /\ job' = [job EXCEPT ![p] = j]
        /\ abandons' \in 0..MaxAbandons
    BY <1>0, <1>14 DEF RecordCheckpoint, GoTo
  <2>2. /\ job[p] \in Jobs /\ r \in Refunds /\ claim[r] # NoClaim /\ claim[r] \in ClaimDocs
        /\ MayBecome(r, claim[r]) /\ JobIsSound(p) /\ Unsent(p)
        /\ job[p].tx \in 0..MaxTx /\ 0 \in 0..(STUCK_SUBMITTING + 1)
    BY <1>2, <2>1, RefundConstants DEF Unsent, Jobs
  <2>3. job[p].tx \in DOMAIN txs /\ txs[job[p].tx].refund = r
    BY <2>1, <2>2 DEF JobIsSound
  <2>4. /\ d \in ClaimDocs /\ d.purchase = claim[r].purchase /\ d.txHash = job[p].tx
        /\ d.status = claim[r].status /\ d.retryCount = claim[r].retryCount
    BY <2>2 DEF ClaimDocs
  <2>5. j \in Jobs /\ j.stage = "submit" /\ j.refund = r /\ j.tx = job[p].tx
    BY <2>2 DEF Jobs, Stages
  <2> HIDE DEF d, j, r
  <2>6. MayBecome(r, d)
    BY <2>2, <2>3, <2>4 DEF MayBecome
  <2>7. QED
    BY <1>1, <2>1, <2>2, <2>3, <2>5, <2>6
<1>15. ASSUME NEW p \in Processes, SubmissionConfirmed(p) \/ QueryStatus(p) PROVE RefundInv'
  <2>1. job[p].stage \in {"await", "query"}
        /\ UNCHANGED <<claim, txs, market, sequence, abandons>>
    BY <1>15 DEF SubmissionConfirmed, QueryStatus
  <2>2. PICK s \in {"finalize", "retry", "poll"} :
            GoTo(p, s) /\ (s = "finalize" => txs[job[p].tx].state = "applied")
    BY <1>15 DEF SubmissionConfirmed, QueryStatus, NextStage
  <2>3. s = "finalize" => Paid(job[p].refund)
    BY <1>2, <2>1, <2>2 DEF JobIsSound, Paid
  <2>4. QED
    BY <1>3, <2>1, <2>2, <2>3 DEF Stages
<1>16. ASSUME NEW p \in Processes, SubmissionAmbiguous(p) \/ StillPending(p) PROVE RefundInv'
  <2> DEFINE r == job[p].refund
  <2>1. job[p].stage # "idle" /\ UNCHANGED <<txs, market, sequence>> /\ EndJob(p)
        /\ abandons' \in 0..MaxAbandons
    BY <1>0, <1>16 DEF SubmissionAmbiguous, StillPending
  <2>2. /\ job[p] \in Jobs /\ r \in Refunds /\ claim[r] # NoClaim /\ claim[r] \in ClaimDocs
        /\ MayBecome(r, claim[r]) /\ claim = [claim EXCEPT ![r] = claim[r]]
        /\ Status(r) = claim[r].status /\ 0 \in 0..Never
        /\ job[p].pendingSince \in 0..Never
        /\ claim[r].retryCount \in 0..(MAX_SUBMIT_RETRIES + 1)
    BY <1>2, <2>1, RefundConstants DEF Status, Jobs, ClaimDocs, Never
  <2>3. PICK since \in 0..Never :
            \/ claim' = [claim EXCEPT ![r] = claim[r]]
            \/ /\ claim[r].status \in {"submitting", "pending"}
               /\ claim' = [claim EXCEPT ![r] = [claim[r] EXCEPT !.status = "pending",
                                                   !.age = 0, !.pendingSince = since]]
    <3>1. CASE SubmissionAmbiguous(p)
      BY <2>2, <3>1 DEF SubmissionAmbiguous
    <3>2. CASE StillPending(p) /\ Status(r) \in {"submitting", "pending"}
      <4> DEFINE n == IF job[p].pendingSince = Never THEN 0 ELSE job[p].pendingSince
      <4>1. n \in 0..Never
        BY <2>2
      <4>2. claim' = [claim EXCEPT ![r].status = "pending", ![r].age = 0,
                                   ![r].pendingSince = n]
        BY <3>2 DEF StillPending
      <4> HIDE DEF n
      <4>3. claim' = [claim EXCEPT ![r] = [claim[r] EXCEPT !.status = "pending",
                                                   !.age = 0, !.pendingSince = n]]
        BY <1>0, <2>2, <4>2 DEF CoreInv, TypeOK
      <4>4. QED
        BY <2>2, <3>2, <4>1, <4>3
    <3>3. CASE StillPending(p) /\ Status(r) \notin {"submitting", "pending"}
      BY <2>2, <3>3 DEF StillPending
    <3>4. QED
      BY <1>16, <3>1, <3>2, <3>3
  <2>4. CASE claim' = [claim EXCEPT ![r] = claim[r]]
    BY <1>4, <2>1, <2>2, <2>4
  <2>5. CASE /\ claim[r].status \in {"submitting", "pending"}
             /\ claim' = [claim EXCEPT ![r] = [claim[r] EXCEPT !.status = "pending",
                                                   !.age = 0, !.pendingSince = since]]
    <3> DEFINE d == [claim[r] EXCEPT !.status = "pending", !.age = 0, !.pendingSince = since]
    <3>1. claim[r].retryCount <= MAX_SUBMIT_RETRIES
      BY <1>0, <2>2, <2>5 DEF CoreInv, WithinBudget
    <3>2. d = [claim[r] EXCEPT !.status = "pending", !.retryCount = claim[r].retryCount,
                               !.age = 0, !.pendingSince = since]
      BY <2>2 DEF ClaimDocs
    <3>3. MayBecome(r, d)
      BY <1>6, <2>2, <3>1, <3>2
    <3> HIDE DEF d
    <3>4. QED
      BY <1>4, <2>1, <2>2, <2>5, <3>3 DEF d
  <2>6. QED
    BY <2>3, <2>4, <2>5
<1>17. ASSUME NEW p \in Processes, Finalize(p) PROVE RefundInv'
  <2> DEFINE r == job[p].refund
             d == IF claim[r].status \in {"submitting", "pending"}
                  THEN [claim[r] EXCEPT !.status = "settled", !.age = 0, !.txHash = job[p].tx]
                  ELSE claim[r]
  <2>1. /\ job[p].stage = "finalize" /\ UNCHANGED <<txs, market, sequence, abandons>>
        /\ claim' = [claim EXCEPT ![r] = d] /\ abandons' \in 0..MaxAbandons
        /\ GoTo(p, "revoke") \/ EndJob(p)
    BY <1>0, <1>17 DEF Finalize
  <2>2. /\ job[p] \in Jobs /\ r \in Refunds /\ claim[r] # NoClaim /\ claim[r] \in ClaimDocs
        /\ MayBecome(r, claim[r]) /\ JobIsSound(p) /\ job[p].tx \in 0..MaxTx
        /\ 0 \in 0..(STUCK_SUBMITTING + 1)
    BY <1>2, <2>1, RefundConstants DEF Jobs
  <2>3. /\ Paid(r)
        /\ job[p].tx = NoTx \/ (job[p].tx \in DOMAIN txs /\ txs[job[p].tx].refund = r)
    BY <2>1, <2>2 DEF JobIsSound, Finishing
  <2>4. MayBecome(r, d)
    <3>1. CASE claim[r].status \in {"submitting", "pending"}
      <4>1. d = [claim[r] EXCEPT !.status = "settled", !.age = 0, !.txHash = job[p].tx]
        BY <3>1
      <4>2. /\ d \in ClaimDocs /\ d.purchase = claim[r].purchase /\ d.txHash = job[p].tx
            /\ d.retryCount = claim[r].retryCount
        BY <2>2, <4>1 DEF ClaimDocs, Statuses
      <4>3. claim[r].retryCount <= MAX_SUBMIT_RETRIES
        BY <2>2, <3>1 DEF MayBecome
      <4> HIDE DEF d, r
      <4>4. QED
        BY <2>3, <4>2, <4>3 DEF MayBecome
    <3>2. CASE claim[r].status \notin {"submitting", "pending"}
      BY <2>2, <3>2
    <3>3. QED
      BY <3>1, <3>2
  <2> HIDE DEF d
  <2>5. CASE EndJob(p)
    BY <1>4, <2>1, <2>4, <2>5
  <2>6. CASE GoTo(p, "revoke")
    <3> DEFINE j == [job[p] EXCEPT !.stage = "revoke"]
    <3>1. j \in Jobs /\ j.stage = "revoke" /\ j.refund = r /\ job' = [job EXCEPT ![p] = j]
      BY <2>2, <2>6 DEF Jobs, Stages, GoTo
    <3> HIDE DEF j, r
    <3>2. QED
      BY <1>1, <2>1, <2>2, <2>3, <2>4, <3>1
  <2>7. QED
    BY <2>1, <2>5, <2>6
\* A finisher writes to the purchase of a claim that was paid.
<1>18. ASSUME NEW p \in Processes, Finishing(p), NEW s \in {"mirror", "converge"}, GoTo(p, s),
              UNCHANGED <<claim, txs, sequence, abandons>>,
              access' \in [Purchases -> BOOLEAN], applied' \in [Purchases -> SUBSET Refunds],
              refunded' \in [Purchases -> Nat]
       PROVE  CoreInv' /\ ClaimsKept /\ TxsKept /\ Paid(job[p].refund)
  <2> DEFINE r == job[p].refund
             j == [job[p] EXCEPT !.stage = s]
  <2>1. /\ job[p].stage # "idle" /\ job[p] \in Jobs /\ r \in Refunds /\ claim[r] # NoClaim
        /\ MayBecome(r, claim[r]) /\ claim' = [claim EXCEPT ![r] = claim[r]]
        /\ Paid(r)
    BY <1>2, <1>18 DEF Finishing, JobIsSound
  <2>2. j \in Jobs /\ j.stage = s /\ j.refund = r /\ job' = [job EXCEPT ![p] = j]
    BY <1>18, <2>1 DEF Jobs, Stages, GoTo
  <2>3. TxsKept
    BY <1>18 DEF TxsKept
  <2> HIDE DEF j, r
  <2>6. TxStep(p, r)
    BY <1>0, <1>18, <2>3 DEF TxStep
  <2>7. JobStep(p, r, j)
    BY <1>18, <2>1, <2>2 DEF JobStep
  <2>8. RestTyped
    BY <1>0, <1>18 DEF RestTyped
  <2>4. CoreInv' /\ ClaimsKept
    BY <1>0, <1>18, <2>1, <2>2, <2>6, <2>7, <2>8, ProcessStep
  <2>5. QED
    BY <2>1, <2>3, <2>4 DEF r
<1>19. ASSUME NEW p \in Processes, RevokeAccess(p) PROVE RefundInv'
  <2> DEFINE q == PurchaseOf(job[p].refund)
  <2>1. /\ Finishing(p) /\ GoTo(p, "mirror")
        /\ UNCHANGED <<claim, txs, sequence, abandons, applied, refunded>>
        /\ access' = [access EXCEPT ![q] = FALSE]
    BY <1>19 DEF RevokeAccess, Finishing
  <2>2. /\ access' \in [Purchases -> BOOLEAN] /\ applied' \in [Purchases -> SUBSET Refunds]
        /\ refunded' \in [Purchases -> Nat]
        /\ \A x \in Purchases : x # q => access'[x] = access[x]
    BY <1>0, <2>1 DEF CoreInv, TypeOK
  <2>3. CoreInv' /\ ClaimsKept /\ TxsKept /\ Paid(job[p].refund)
    BY <1>18, <2>1, <2>2
  <2>4. PaymentsOf(q) # {}
    BY <2>3 DEF Paid, PaymentsOf
  <2> HIDE DEF q
  <2>5. NoRevocationBeforePayment'
    <3>1. \A x \in Purchases : PaymentsOf(x) # {} => PaymentsOf(x)' # {}
      BY <1>0, <2>3, PaymentsStay
    <3>2. QED
      BY <1>0, <2>1, <2>2, <2>4, <3>1
         DEF MirroredOnceAfterPayment, NoRevocationBeforePayment
  <2>6. AppliedIsFinite' /\ MirroredOnce'
    BY <1>0, <2>1 DEF AppliedIsFinite, MirroredOnceAfterPayment, MirroredOnce
  <2>7. QED
    BY <2>3, <2>5, <2>6 DEF RefundInv, CoreInv, MirroredOnceAfterPayment
<1>20. ASSUME NEW p \in Processes, MirrorOnPurchase(p) PROVE RefundInv'
  <2> DEFINE r == job[p].refund
             q == PurchaseOf(r)
  <2>1. /\ Finishing(p) /\ GoTo(p, "converge") /\ job[p].stage # "idle"
        /\ UNCHANGED <<claim, txs, sequence, abandons, access>>
    BY <1>20 DEF MirrorOnPurchase, Finishing
  <2>2. r \in Refunds /\ q \in Purchases
    BY <1>2, <2>1 DEF PurchaseOf, ClaimDocs
  <2>3. \/ UNCHANGED <<applied, refunded>>
        \/ /\ r \notin applied[q]
           /\ applied' = [applied EXCEPT ![q] = @ \cup {r}]
           /\ refunded' = [refunded EXCEPT ![q] = @ + 1]
    BY <1>20 DEF MirrorOnPurchase, NotYetApplied
  <2> HIDE DEF r, q
  <2>4. applied' \in [Purchases -> SUBSET Refunds] /\ refunded' \in [Purchases -> Nat]
        /\ \A x \in Purchases : x # q => applied'[x] = applied[x] /\ refunded'[x] = refunded[x]
    <3>1. applied \in [Purchases -> SUBSET Refunds] /\ refunded \in [Purchases -> Nat]
      BY <1>0 DEF CoreInv, TypeOK
    <3>2. applied[q] \cup {r} \in SUBSET Refunds /\ refunded[q] + 1 \in Nat
      BY <2>2, <3>1
    <3>3. CASE UNCHANGED <<applied, refunded>>
      BY <3>1, <3>3
    <3>4. CASE /\ applied' = [applied EXCEPT ![q] = @ \cup {r}]
               /\ refunded' = [refunded EXCEPT ![q] = @ + 1]
      BY <2>2, <3>1, <3>2, <3>4
    <3>5. QED
      BY <2>3, <3>3, <3>4
  <2>5. CoreInv' /\ ClaimsKept /\ TxsKept /\ Paid(job[p].refund)
    BY <1>0, <1>18, <2>1, <2>4 DEF CoreInv, TypeOK
  <2>6. PaymentsOf(q) # {}
    BY <2>5 DEF Paid, PaymentsOf, q, r
  <2>7. NoRevocationBeforePayment'
    <3>1. \A x \in Purchases : PaymentsOf(x) # {} => PaymentsOf(x)' # {}
      BY <1>0, <2>5, PaymentsStay
    <3>2. QED
      BY <1>0, <2>1, <2>4, <2>6, <3>1
         DEF MirroredOnceAfterPayment, NoRevocationBeforePayment
  <2>8. IsFiniteSet(applied'[q]) /\ refunded'[q] = Cardinality(applied'[q])
    <3>1. IsFiniteSet(applied[q]) /\ refunded[q] = Cardinality(applied[q])
      BY <1>0, <2>2 DEF AppliedIsFinite, MirroredOnceAfterPayment, MirroredOnce
    <3>2. CASE UNCHANGED <<applied, refunded>>
      BY <3>1, <3>2
    <3>3. CASE /\ r \notin applied[q]
               /\ applied' = [applied EXCEPT ![q] = @ \cup {r}]
               /\ refunded' = [refunded EXCEPT ![q] = @ + 1]
      <4>1. applied'[q] = applied[q] \cup {r} /\ refunded'[q] = refunded[q] + 1
        BY <1>0, <2>2, <3>3 DEF CoreInv, TypeOK
      <4>2. IsFiniteSet(applied[q] \cup {r})
            /\ Cardinality(applied[q] \cup {r}) = Cardinality(applied[q]) + 1
        BY <3>1, <3>3, FS_AddElement
      <4>3. QED
        BY <3>1, <4>1, <4>2
    <3>4. QED
      BY <2>3, <3>2, <3>3
  <2>9. AppliedIsFinite' /\ MirroredOnce'
    BY <1>0, <2>4, <2>8 DEF AppliedIsFinite, MirroredOnceAfterPayment, MirroredOnce
  <2>10. QED
    BY <2>5, <2>7, <2>9 DEF RefundInv, CoreInv, MirroredOnceAfterPayment
<1>21. ASSUME NEW p \in Processes, MarkConverged(p) PROVE RefundInv'
  <2> DEFINE r == job[p].refund
             d == [claim[r] EXCEPT !.entitlementRevoked = TRUE]
  <2>1. /\ job[p].stage # "idle" /\ UNCHANGED <<txs, market, sequence, abandons>>
        /\ claim' = [claim EXCEPT ![r] = d] /\ EndJob(p) /\ abandons' \in 0..MaxAbandons
    BY <1>0, <1>21 DEF MarkConverged
  <2>2. claim[r] \in ClaimDocs /\ MayBecome(r, claim[r])
    BY <1>2, <2>1
  <2>3. /\ d \in ClaimDocs /\ d.purchase = claim[r].purchase /\ d.txHash = claim[r].txHash
        /\ d.retryCount = claim[r].retryCount /\ d.status = claim[r].status
    BY <2>2 DEF ClaimDocs
  <2> HIDE DEF d
  <2>4. MayBecome(r, d)
    BY <2>2, <2>3 DEF MayBecome
  <2>5. QED
    BY <1>4, <2>1, <2>4
<1>22. ASSUME NEW p \in Processes, NEW r \in Refunds, StartReconcile(p, r) PROVE RefundInv'
  <2> DEFINE j == [stage |-> IF claim[r].status = "settled" THEN "finalize"
                             ELSE IF claim[r].txHash = NoTx THEN "retry" ELSE "query",
                   refund |-> r, retryCount |-> claim[r].retryCount, tx |-> claim[r].txHash,
                   pendingSince |-> claim[r].pendingSince, age |-> 0]
  <2>1. /\ claim[r] # NoClaim /\ claim[r].status \in {"pending", "submitting", "settled"}
        /\ job' = [job EXCEPT ![p] = j] /\ UNCHANGED <<claim, txs, market, sequence, abandons>>
        /\ abandons' \in 0..MaxAbandons
    BY <1>0, <1>22 DEF StartReconcile, AwaitsReconciliation
  <2>2. /\ claim[r] \in ClaimDocs /\ MayBecome(r, claim[r]) /\ Status(r) = claim[r].status
        /\ claim' = [claim EXCEPT ![r] = claim[r]]
    BY <1>0, <2>1, ClaimDoc DEF CoreInv, TypeOK
  <2>3. /\ claim[r].retryCount \in 0..MAX_SUBMIT_RETRIES /\ 0 \in 0..MaxJobTime
        /\ claim[r].txHash \in 0..MaxTx /\ claim[r].pendingSince \in 0..Never
    BY <2>1, <2>2, RefundConstants DEF MayBecome, ClaimDocs
  <2>4. /\ j \in Jobs /\ j.refund = r /\ j.tx = claim[r].txHash
        /\ j.stage \in {"finalize", "retry", "query"}
    BY <2>3 DEF Jobs, Stages
  <2>5. /\ j.stage = "finalize" => claim[r].status = "settled"
        /\ j.stage = "query" => claim[r].txHash # NoTx
    OBVIOUS
  <2>6. /\ j.stage = "finalize" => Paid(r)
        /\ claim[r].txHash # NoTx =>
               claim[r].txHash \in DOMAIN txs /\ txs[claim[r].txHash].refund = r
    BY <1>0, <2>1, <2>2, <2>5 DEF CoreInv, SettledIsPaid, TxsAreOfClaims
  <2> HIDE DEF j
  <2>7. QED
    BY <1>1, <2>1, <2>2, <2>4, <2>5, <2>6
\* Steps that change a transaction.
<1>23. ASSUME NEW t \in DOMAIN txs,
              NEW s \in {"built", "sent", "rejected", "applied", "failed"},
              txs' = [txs EXCEPT ![t].state = s], txs[t].state = "applied" => s = "applied"
       PROVE  /\ txs' \in Seq(Transactions) /\ Len(txs') <= MaxTx /\ DOMAIN txs' = DOMAIN txs
              /\ TxsKept /\ txs'[t].state = s
              /\ \A u \in DOMAIN txs : txs'[u].refund = txs[u].refund
              /\ \A u \in DOMAIN txs : u # t => txs'[u] = txs[u]
  <2> DEFINE e == [txs[t] EXCEPT !.state = s]
  <2>1. e \in Transactions /\ e.state = s /\ e.refund = txs[t].refund
    BY <1>0, <1>23 DEF Transactions
  <2>2. txs' = [txs EXCEPT ![t] = e]
    BY <1>23
  <2> HIDE DEF e
  <2>3. /\ txs' \in Seq(Transactions) /\ Len(txs') = Len(txs)
        /\ \A u \in 1..Len(txs) : txs'[u] = IF u = t THEN e ELSE txs[u]
    BY <1>0, <1>23, <2>1, <2>2, ExceptSeq
  <2>4. DOMAIN txs' = DOMAIN txs
    BY <1>0, <2>3, LenProperties
  <2>5. QED
    BY <1>0, <1>23, <2>1, <2>3, <2>4 DEF TxsKept
<1>24. ASSUME NEW p \in Processes, BuildTransaction(p) PROVE RefundInv'
  <2> DEFINE r == job[p].refund
             e == [refund |-> r, seq |-> sequence + 1, age |-> 0, state |-> "built"]
             j == [job[p] EXCEPT !.stage = "checkpoint", !.tx = Len(txs) + 1]
  <2>1. /\ job[p].stage = "preflight" /\ Len(txs) < MaxTx /\ txs' = Append(txs, e)
        /\ job' = [job EXCEPT ![p] = j] /\ UNCHANGED <<claim, market, sequence, abandons>>
    BY <1>24 DEF BuildTransaction
  <2>2. /\ job[p] \in Jobs /\ r \in Refunds /\ claim[r] # NoClaim
        /\ MayBecome(r, claim[r]) /\ claim' = [claim EXCEPT ![r] = claim[r]]
    BY <1>2, <2>1
  <2>3. e \in Transactions /\ e.state = "built" /\ e.refund = r
    BY <1>0, <2>2, RefundConstants DEF Transactions, CoreInv, TypeOK
  <2>4. /\ j \in Jobs /\ j.stage = "checkpoint" /\ j.refund = r /\ j.tx = Len(txs) + 1
    <3>1. Len(txs) + 1 \in 0..MaxTx
      BY <1>0, <2>1, RefundConstants
    <3>2. QED
      BY <2>2, <3>1 DEF Jobs, Stages
  <2> HIDE DEF e, j, r
  <2>5. /\ txs' \in Seq(Transactions) /\ Len(txs') = Len(txs) + 1
        /\ \A i \in 1..Len(txs) : txs'[i] = txs[i]
        /\ txs'[Len(txs) + 1] = e
    BY <1>0, <2>1, <2>3, AppendProperties
  <2>6. DOMAIN txs' = 1..(Len(txs) + 1) /\ Len(txs') <= MaxTx
    BY <1>0, <2>1, <2>5, LenProperties, RefundConstants
  <2>7. TxsKept
    BY <1>0, <2>5, <2>6 DEF TxsKept
  <2>8. /\ \A t \in DOMAIN txs' \ DOMAIN txs : txs'[t].refund = r
        /\ \A t \in DOMAIN txs : txs'[t].state = txs[t].state
        /\ j.tx \in DOMAIN txs' /\ j.tx \notin DOMAIN txs
        /\ txs'[j.tx].refund = r /\ txs'[j.tx].state = "built"
    BY <1>0, <2>3, <2>4, <2>5, <2>6
  <2>11. TxStep(p, r)
    BY <1>0, <2>5, <2>6, <2>7, <2>8 DEF TxStep
  <2>12. JobStep(p, r, j)
    BY <2>4, <2>8 DEF JobStep
  <2>9. CoreInv' /\ ClaimsKept
    BY <1>0, <1>a, <2>1, <2>2, <2>11, <2>12, ProcessStep
  <2>10. QED
    BY <1>0, <2>1, <2>7, <2>9, MarketStays DEF RefundInv, CoreInv
<1>25. ASSUME NEW p \in Processes, SendTransaction(p) PROVE RefundInv'
  <2> DEFINE r == job[p].refund
             t == job[p].tx
             j == [job[p] EXCEPT !.stage = "await"]
  <2>1. /\ job[p].stage = "submit" /\ txs' = [txs EXCEPT ![t].state = "sent"]
        /\ job' = [job EXCEPT ![p] = j] /\ UNCHANGED <<claim, market, sequence, abandons>>
    BY <1>25 DEF SendTransaction, GoTo
  <2>2. /\ job[p] \in Jobs /\ r \in Refunds /\ claim[r] # NoClaim /\ JobIsSound(p)
        /\ MayBecome(r, claim[r]) /\ claim' = [claim EXCEPT ![r] = claim[r]]
    BY <1>2, <2>1
  <2>3. t \in DOMAIN txs /\ txs[t].refund = r /\ txs[t].state = "built" /\ Unsent(p)
    BY <2>1, <2>2 DEF JobIsSound, Unsent
  <2>4. j \in Jobs /\ j.stage = "await" /\ j.refund = r /\ j.tx = t
    BY <2>2 DEF Jobs, Stages
  <2>5. /\ txs' \in Seq(Transactions) /\ Len(txs') <= MaxTx /\ DOMAIN txs' = DOMAIN txs
        /\ TxsKept
        /\ \A u \in DOMAIN txs : txs'[u].refund = txs[u].refund
        /\ \A u \in DOMAIN txs : u # t => txs'[u] = txs[u]
    BY <1>23, <2>1, <2>3
  <2> HIDE DEF j, r, t
  <2>6. /\ \A u \in DOMAIN txs : txs[u].state = "built" /\ txs'[u].state # "built" =>
               Unsent(p) /\ u = job[p].tx
        /\ \A u \in DOMAIN txs' \ DOMAIN txs : txs'[u].refund = r
        /\ j.tx \in DOMAIN txs' /\ txs'[j.tx].refund = r
    BY <2>3, <2>4, <2>5 DEF t
  <2>9. TxStep(p, r)
    BY <2>5, <2>6 DEF TxStep
  <2>10. JobStep(p, r, j)
    BY <2>4, <2>6 DEF JobStep
  <2>7. CoreInv' /\ ClaimsKept
    BY <1>0, <1>a, <2>1, <2>2, <2>9, <2>10, ProcessStep
  <2>8. QED
    BY <1>0, <2>1, <2>5, <2>7, MarketStays DEF RefundInv, CoreInv
<1>26. ASSUME NEW p \in Processes, SubmissionRejected(p) PROVE RefundInv'
  <2> DEFINE r == job[p].refund
             t == job[p].tx
             d == RetryOrFail(r, job[p].retryCount, {"submitting"})
  <2>1. /\ job[p].stage = "await" /\ txs' = [txs EXCEPT ![t].state = "rejected"]
        /\ txs[t].state = "sent" /\ job' = [job EXCEPT ![p] = Idle]
        /\ claim' = [claim EXCEPT ![r] = d] /\ UNCHANGED <<market, sequence, abandons>>
    BY <1>26 DEF SubmissionRejected, GiveBack, EndJob
  <2>2. /\ job[p] \in Jobs /\ r \in Refunds /\ claim[r] # NoClaim /\ JobIsSound(p)
        /\ MayBecome(r, d)
    BY <1>0, <1>2, <2>1, RetriedClaim
  <2>3. t \in DOMAIN txs
    BY <2>1, <2>2 DEF JobIsSound
  <2>4. /\ txs' \in Seq(Transactions) /\ Len(txs') <= MaxTx /\ DOMAIN txs' = DOMAIN txs
        /\ TxsKept
        /\ \A u \in DOMAIN txs : u # t => txs'[u] = txs[u]
    BY <1>23, <2>1, <2>3
  <2>5. Idle \in Jobs /\ Idle.stage = "idle"
    BY IdleJob DEF Idle
  <2> HIDE DEF d, r, t
  <2>6. /\ \A u \in DOMAIN txs : txs[u].state = "built" => txs'[u].state = "built"
        /\ \A u \in DOMAIN txs' \ DOMAIN txs : txs'[u].refund = r
    BY <2>1, <2>4
  <2>9. TxStep(p, r)
    BY <2>4, <2>6 DEF TxStep
  <2>10. JobStep(p, r, Idle)
    BY <2>5 DEF JobStep
  <2>7. CoreInv' /\ ClaimsKept
    BY <1>0, <1>a, <2>1, <2>2, <2>9, <2>10, ProcessStep
  <2>8. QED
    BY <1>0, <2>1, <2>4, <2>7, MarketStays DEF RefundInv, CoreInv
\* The ledger.
<1>27. ASSUME NEW t \in DOMAIN txs, ApplyTransaction(t) PROVE RefundInv'
  <2>1. PICK s \in {"applied", "failed"} : txs' = [txs EXCEPT ![t].state = s]
    BY <1>27 DEF ApplyTransaction
  <2>2. txs[t].state = "sent" /\ sequence' = sequence + 1
        /\ UNCHANGED <<claim, market, job, abandons>>
    BY <1>27 DEF ApplyTransaction, CanApply
  <2>3. /\ txs' \in Seq(Transactions) /\ Len(txs') <= MaxTx /\ DOMAIN txs' = DOMAIN txs
        /\ TxsKept
        /\ \A u \in DOMAIN txs : txs'[u].refund = txs[u].refund
        /\ \A u \in DOMAIN txs : u # t => txs'[u] = txs[u]
    BY <1>23, <2>1, <2>2
  <2>4. TypeOK'
    BY <1>0, <2>2, <2>3 DEF CoreInv, TypeOK
  <2>5. ClaimsKept /\ TxsAreOfClaims' /\ WithinBudget'
    BY <1>0, <2>2, <2>3 DEF ClaimsKept, CoreInv, TxsAreOfClaims, WithinBudget
  <2>6. SettledIsPaid'
    BY <1>0, <2>2, <2>3, StaysPaid DEF CoreInv, SettledIsPaid, Status
  <2>7. UnsentAreDistinct'
    BY <1>0, <2>2 DEF CoreInv, UnsentAreDistinct, Unsent
  <2>8. ASSUME NEW p \in Processes PROVE JobIsSound(p)'
    <3>1. JobIsSound(p) /\ job' = job /\ claim' = claim
      BY <1>0, <2>2 DEF CoreInv
    <3>2. Unsent(p) /\ job[p].stage # "idle" => txs'[job[p].tx].state = "built"
      BY <2>2, <2>3, <3>1 DEF JobIsSound
    <3>3. Paid(job[p].refund) => Paid(job[p].refund)'
      BY <2>3, <3>1, StaysPaid DEF Paid, TxsKept
    <3>4. QED
      BY <2>3, <3>1, <3>2, <3>3 DEF JobIsSound, Unsent, Finishing, Paid
  <2>9. AppliedIsFinite' /\ MirroredOnceAfterPayment'
    BY <1>0, <2>2, <2>3, <2>5, MarketStays
  <2>10. QED
    BY <2>4, <2>5, <2>6, <2>7, <2>8, <2>9 DEF RefundInv
\* Time.
<1>28. ASSUME Tick PROVE RefundInv'
  <2>1. UNCHANGED <<market, sequence, abandons>>
    BY <1>28 DEF Tick
  <2>2. \A n \in 0..Never : Since(n) \in 0..Never
    BY SinceStays
  <2>3. ASSUME NEW r \in Refunds, claim[r] # NoClaim
        PROVE  /\ claim'[r] \in ClaimDocs /\ claim'[r].purchase = claim[r].purchase
               /\ claim'[r].status = claim[r].status /\ claim'[r].txHash = claim[r].txHash
               /\ claim'[r].retryCount = claim[r].retryCount
    BY <1>0, <1>28, <2>3, AgedClaim
  <2>4. ASSUME NEW r \in Refunds, claim[r] = NoClaim PROVE claim'[r] = NoClaim
    BY <1>28, <2>4 DEF Tick
  <2>5. claim' \in [Refunds -> ClaimDocs \cup {NoClaim}]
    BY <1>28, <2>3, <2>4 DEF Tick
  <2>6. ASSUME NEW t \in DOMAIN txs
        PROVE  /\ txs'[t] \in Transactions /\ txs'[t].refund = txs[t].refund
               /\ txs'[t].state = txs[t].state
    <3>1. txs'[t] = IF txs[t].state \in {"built", "sent"}
                    THEN [txs[t] EXCEPT !.age = Older(@, TX_TIMEBOUND)] ELSE txs[t]
      BY <1>28 DEF Tick
    <3>2. txs[t] \in Transactions /\ Older(txs[t].age, TX_TIMEBOUND) \in 0..(TX_TIMEBOUND + 1)
      BY <1>0, RefundConstants DEF Transactions, Older
    <3>3. QED
      BY <3>1, <3>2 DEF Transactions
  <2>7. txs' \in Seq(Transactions) /\ DOMAIN txs' = DOMAIN txs /\ Len(txs') <= MaxTx
    <3>1. txs' \in [1..Len(txs) -> Transactions]
      BY <1>0, <1>28, <2>6 DEF Tick
    <3>2. txs' \in Seq(Transactions)
      BY <1>0, <3>1, SeqDef
    <3>3. Len(txs') = Len(txs)
      BY <1>0, <3>1, <3>2, LenProperties
    <3>4. QED
      BY <1>0, <3>1, <3>2, <3>3
  <2>8. ASSUME NEW p \in Processes
        PROVE  /\ job'[p] \in Jobs /\ job'[p].stage = job[p].stage
               /\ job[p].stage # "idle" =>
                      job'[p].refund = job[p].refund /\ job'[p].tx = job[p].tx
    <3>1. job[p] \in Jobs
      BY <1>0
    <3>2. CASE job[p].stage = "idle"
      BY <1>28, <3>2, IdleJob DEF Tick, Idle
    <3>3. CASE job[p].stage # "idle"
      <4>1. PICK n \in 0..MaxJobTime :
                job'[p] = [job[p] EXCEPT !.pendingSince = Since(@), !.age = n]
        <5>1. job'[p] = [job[p] EXCEPT !.pendingSince = Since(@),
                                       !.age = IF JobsMayStall THEN 0 ELSE @ + 1]
          BY <1>28, <3>3 DEF Tick
        <5>2. job[p].age < MaxJobTime
          BY <1>28, <3>3 DEF Tick
        <5>3. 0 \in 0..MaxJobTime /\ job[p].age + 1 \in 0..MaxJobTime
          BY <3>1, <5>2, RefundConstants DEF Jobs
        <5>4. QED
          BY <5>1, <5>3
      <4>2. Since(job[p].pendingSince) \in 0..Never
        BY <2>2, <3>1 DEF Jobs
      <4>3. QED
        BY <3>1, <4>1, <4>2 DEF Jobs
    <3>4. QED
      BY <3>2, <3>3
  <2>9. job' \in [Processes -> Jobs]
    BY <1>28, <2>8 DEF Tick
  <2>10. TypeOK'
    BY <1>0, <2>1, <2>5, <2>7, <2>9 DEF CoreInv, TypeOK
  <2>11. ClaimsKept /\ TxsKept
    BY <2>3, <2>6, <2>7, NoClaimIsNoDoc DEF ClaimsKept, TxsKept
  <2>12. TxsAreOfClaims'
    <3>1. \A t \in DOMAIN txs' : claim'[txs'[t].refund] # NoClaim
      <4> SUFFICES ASSUME NEW t \in DOMAIN txs PROVE claim'[txs'[t].refund] # NoClaim
        BY <2>7
      <4>1. txs[t].refund \in Refunds /\ claim[txs[t].refund] # NoClaim
        BY <1>0 DEF Transactions, CoreInv, TxsAreOfClaims
      <4>2. QED
        BY <2>6, <2>11, <4>1 DEF ClaimsKept
    <3>2. \A r \in Refunds : claim'[r] # NoClaim /\ claim'[r].txHash # NoTx =>
              claim'[r].txHash \in DOMAIN txs' /\ txs'[claim'[r].txHash].refund = r
      <4> SUFFICES ASSUME NEW r \in Refunds, claim'[r] # NoClaim, claim'[r].txHash # NoTx
                   PROVE  claim'[r].txHash \in DOMAIN txs' /\ txs'[claim'[r].txHash].refund = r
        OBVIOUS
      <4>1. claim[r] # NoClaim /\ claim'[r].txHash = claim[r].txHash
        BY <2>3, <2>4
      <4>2. claim[r].txHash \in DOMAIN txs /\ txs[claim[r].txHash].refund = r
        BY <1>0, <4>1 DEF CoreInv, TxsAreOfClaims
      <4>3. QED
        BY <2>6, <2>7, <4>1, <4>2
    <3>3. QED
      BY <3>1, <3>2 DEF TxsAreOfClaims
  <2>13. WithinBudget'
    BY <1>0, <2>3, <2>4 DEF CoreInv, WithinBudget
  <2>14. SettledIsPaid'
    <3>1. \A r \in Refunds : Status(r)' = "settled" => Status(r) = "settled"
      BY <2>3, <2>4 DEF Status
    <3>2. QED
      BY <1>0, <2>11, <3>1, StaysPaid DEF CoreInv, SettledIsPaid
  <2>15. UnsentAreDistinct'
    BY <1>0, <2>8 DEF CoreInv, UnsentAreDistinct, Unsent
  <2>16. ASSUME NEW p \in Processes PROVE JobIsSound(p)'
    <3>1. SUFFICES ASSUME job[p].stage # "idle" PROVE JobIsSound(p)'
      BY <2>8 DEF JobIsSound
    <3>2. /\ JobIsSound(p) /\ job'[p].stage = job[p].stage
          /\ job'[p].refund = job[p].refund /\ job'[p].tx = job[p].tx
      BY <1>0, <2>8, <3>1 DEF CoreInv
    <3>3. job[p].refund \in Refunds /\ claim'[job[p].refund] # NoClaim
      BY <2>11, <3>1, <3>2 DEF JobIsSound, ClaimsKept
    <3>4. /\ Unsent(p) \/ job[p].stage \in {"await", "query"} =>
                job[p].tx \in DOMAIN txs' /\ txs'[job[p].tx].refund = job[p].refund
          /\ job[p].stage = "finalize" => job[p].tx = NoTx
                \/ (job[p].tx \in DOMAIN txs' /\ txs'[job[p].tx].refund = job[p].refund)
          /\ Unsent(p) => txs'[job[p].tx].state = "built"
      BY <2>6, <2>7, <3>1, <3>2 DEF JobIsSound
    <3>5. Finishing(p) => Paid(job[p].refund)'
      BY <2>6, <2>7, <3>1, <3>2 DEF JobIsSound, Paid
    <3>6. QED
      BY <3>2, <3>3, <3>4, <3>5 DEF JobIsSound, Unsent, Finishing, Paid
  <2>17. AppliedIsFinite' /\ MirroredOnceAfterPayment'
    BY <1>0, <2>1, <2>11, MarketStays
  <2>18. QED
    BY <2>10, <2>12, <2>13, <2>14, <2>15, <2>16, <2>17 DEF RefundInv
<1>29. CASE UNCHANGED vars
  BY <1>0, <1>29 DEF vars, RefundInv, CoreInv, TypeOK, TxsAreOfClaims, WithinBudget,
     JobIsSound, UnsentAreDistinct, SettledIsPaid, AppliedIsFinite,
     MirroredOnceAfterPayment, NoRevocationBeforePayment, MirroredOnce, PaymentsOf,
     PurchaseOf, Unsent, Finishing, Paid, Status
<1>30. QED
  <2>1. Next => RefundInv'
    BY <1>7, <1>8, <1>9, <1>10, <1>11, <1>12, <1>13, <1>14, <1>15, <1>16, <1>17, <1>19,
       <1>20, <1>21, <1>22, <1>24, <1>25, <1>26, <1>27, <1>28
       DEF Next, AdminStep, WorkerStep, SubmissionStep, Processes
  <2>2. QED
    BY <1>29, <2>1

-----------------------------------------------------------------------------
(* The theorems. *)

LEMMA RefundInvHolds == Spec => []RefundInv
<1>1. Init => RefundInv
  <2> SUFFICES ASSUME Init PROVE RefundInv
    OBVIOUS
  <2>1. TypeOK
    BY RefundConstants, IdleJob, EmptySeq DEF Init, TypeOK
  <2>2. TxsAreOfClaims /\ WithinBudget /\ UnsentAreDistinct /\ SettledIsPaid
        /\ \A p \in Processes : JobIsSound(p)
    BY EmptySeq DEF Init, TxsAreOfClaims, WithinBudget, UnsentAreDistinct, SettledIsPaid,
       JobIsSound, Unsent, Status, Idle
  <2>3. AppliedIsFinite /\ MirroredOnceAfterPayment
    BY FS_EmptySet DEF Init, AppliedIsFinite, MirroredOnceAfterPayment,
       NoRevocationBeforePayment, MirroredOnce
  <2>4. QED
    BY <2>1, <2>2, <2>3 DEF RefundInv
<1>2. QED
  BY <1>1, StepKeepsRefunds, PTL DEF Spec

\* finalizeSettlement: however many processes finish a settlement, at once or
\* again after a crash, a purchase is revoked and marked refunded only after
\* its payment, and each refund is added to refundedAmount once.
THEOREM MirrorFollowsPayment == Spec => []MirroredOnceAfterPayment
<1>1. RefundInv => MirroredOnceAfterPayment
  BY DEF RefundInv
<1>2. QED
  BY <1>1, RefundInvHolds, PTL

\* The compare-and-sets of refundWorkflow.js: no retry, late answer, expired
\* claim or admin decision takes a settled refund back, or its convergence.
THEOREM SettledStaysSettled == Spec => SettledIsTerminal
<1> DEFINE Kept == \A r \in Refunds : Status(r) = "settled" =>
          /\ Status(r)' = "settled"
          /\ claim[r].entitlementRevoked => claim'[r].entitlementRevoked
<1>1. RefundInv /\ [Next]_vars => [Kept]_vars
  <2> SUFFICES ASSUME RefundInv, Next, NEW r \in Refunds, Status(r) = "settled"
               PROVE  /\ Status(r)' = "settled"
                      /\ claim[r].entitlementRevoked => claim'[r].entitlementRevoked
    OBVIOUS
  <2>1. /\ claim[r] # NoClaim /\ claim[r].status = "settled" /\ claim[r] \in ClaimDocs
        /\ claim \in [Refunds -> ClaimDocs \cup {NoClaim}]
    BY DEF Status, RefundInv, TypeOK
  \* Steps that write another claim, or nothing.
  <2>3. SUFFICES ASSUME claim'[r] # claim[r]
                 PROVE  /\ claim'[r] # NoClaim /\ claim'[r].status = "settled"
                        /\ claim[r].entitlementRevoked => claim'[r].entitlementRevoked
    BY <2>1 DEF Status
  <2>4. ASSUME NEW x \in Refunds, NEW q \in Purchases, RequestRefund(x, q) PROVE FALSE
    BY <2>1, <2>3, <2>4 DEF RequestRefund
  <2>5. ASSUME NEW x \in Refunds, RejectRefund(x) PROVE FALSE
    BY <2>1, <2>3, <2>5 DEF RejectRefund, Status
  <2>6. ASSUME NEW p \in Processes, NEW x \in Refunds,
               ApproveRefund(p, x) \/ RetryFailedRefund(p, x)
        PROVE  FALSE
    BY <2>1, <2>3, <2>6 DEF ApproveRefund, RetryFailedRefund, Status
  <2>7. ASSUME NEW p \in Processes,
               PreflightFails(p) \/ SubmissionBlocked(p) \/ ReconcileRetry(p)
                   \/ SubmissionRejected(p)
        PROVE  FALSE
    <3>1. PICK from : GiveBack(p, from) /\ "settled" \notin from
      BY <2>7 DEF PreflightFails, SubmissionBlocked, ReconcileRetry, SubmissionRejected
    <3>2. claim' = [claim EXCEPT ![job[p].refund] =
                        RetryOrFail(job[p].refund, job[p].retryCount, from)]
      BY <3>1 DEF GiveBack
    <3>3. RetryOrFail(r, job[p].retryCount, from) = claim[r]
      BY <2>1, <3>1 DEF RetryOrFail
    <3>4. QED
      BY <2>1, <2>3, <3>2, <3>3
  <2>8. ASSUME NEW p \in Processes, ClaimForSubmission(p) PROVE FALSE
    BY <2>1, <2>3, <2>8 DEF ClaimForSubmission, Status
  <2>9. ASSUME NEW p \in Processes, SubmissionAmbiguous(p) PROVE FALSE
    BY <2>1, <2>3, <2>9 DEF SubmissionAmbiguous
  <2>10. ASSUME NEW p \in Processes, StillPending(p) PROVE FALSE
    BY <2>1, <2>3, <2>10 DEF StillPending, Status
  <2>11. ASSUME NEW p \in Processes, Finalize(p) PROVE FALSE
    BY <2>1, <2>3, <2>11 DEF Finalize
  \* Steps that write this one.
  <2>12. ASSUME NEW p \in Processes, RecordCheckpoint(p)
         PROVE  /\ claim'[r] # NoClaim /\ claim'[r].status = "settled"
                /\ claim[r].entitlementRevoked => claim'[r].entitlementRevoked
    <3>1. /\ job[p].refund = r
          /\ claim'[r] = [claim[r] EXCEPT !.txHash = job[p].tx, !.age = 0]
      BY <2>1, <2>3, <2>12 DEF RecordCheckpoint
    <3>2. claim'[r].status = "settled"
          /\ claim'[r].entitlementRevoked = claim[r].entitlementRevoked
      BY <2>1, <3>1 DEF ClaimDocs
    <3>3. claim'[r] # NoClaim
      <4>1. job[p].tx \in 0..MaxTx /\ 0 \in 0..(STUCK_SUBMITTING + 1)
        BY RefundConstants DEF RefundInv, TypeOK, Jobs
      <4>2. claim'[r] \in ClaimDocs
        BY <2>1, <3>1, <4>1 DEF ClaimDocs
      <4>3. QED
        BY <4>2, NoClaimIsNoDoc
    <3>4. QED
      BY <3>2, <3>3
  <2>13. ASSUME NEW p \in Processes, MarkConverged(p)
         PROVE  /\ claim'[r] # NoClaim /\ claim'[r].status = "settled"
                /\ claim[r].entitlementRevoked => claim'[r].entitlementRevoked
    <3>1. claim'[r] = [claim[r] EXCEPT !.entitlementRevoked = TRUE]
      BY <2>1, <2>3, <2>13 DEF MarkConverged
    <3>2. claim'[r].status = "settled" /\ claim'[r] \in ClaimDocs /\ claim'[r].entitlementRevoked
      BY <2>1, <3>1 DEF ClaimDocs
    <3>3. QED
      BY <3>2, NoClaimIsNoDoc
  <2>14. ASSUME Tick
         PROVE  /\ claim'[r] # NoClaim /\ claim'[r].status = "settled"
                /\ claim[r].entitlementRevoked => claim'[r].entitlementRevoked
    BY <2>1, <2>14, AgedClaim, NoClaimIsNoDoc DEF RefundInv, CoreInv
  <2>15. ASSUME NEW p \in Processes,
                \/ \E x \in Refunds : PollApproved(p, x) \/ StartReconcile(p, x)
                \/ BuildTransaction(p) \/ SendTransaction(p) \/ SubmissionConfirmed(p)
                \/ RevokeAccess(p) \/ MirrorOnPurchase(p) \/ QueryStatus(p) \/ Abandon(p)
         PROVE  FALSE
    BY <2>3, <2>15 DEF PollApproved, StartReconcile, BuildTransaction, SendTransaction,
       SubmissionConfirmed, RevokeAccess, MirrorOnPurchase, QueryStatus, Abandon
  <2>16. ASSUME NEW t \in DOMAIN txs, ApplyTransaction(t) PROVE FALSE
    BY <2>3, <2>16 DEF ApplyTransaction
  <2>17. QED
    BY <2>4, <2>5, <2>6, <2>7, <2>8, <2>9, <2>10, <2>11, <2>12, <2>13, <2>14, <2>15, <2>16
       DEF Next, AdminStep, WorkerStep, SubmissionStep, Processes
<1>2. QED
  BY <1>1, RefundInvHolds, PTL DEF Spec, SettledIsTerminal
-----------------------------------------------------------------------------
(* Paid at most once. *)

\* One worker reconciles, and no process takes longer over a job than a claim
\* may stay in submitting before it is taken for abandoned.
PromptProcesses ==
    /\ \A p, q \in Workers : p = q
    /\ MaxJobTime <= STUCK_SUBMITTING

Released == {"requested", "approved", "failed", "rejected"}

\* Stages in which a process owns a claim's submission, or works on a claim
\* that it read some time ago.
SubmitStages == {"preflight", "checkpoint", "submit", "await"}
ReconcileStages == {"query", "retry", "poll"}

Submits(p, r) == job[p].stage \in SubmitStages /\ job[p].refund = r
Finalizes(p, r) == job[p].stage = "finalize" /\ job[p].refund = r
Reconciles(p, r) == job[p].stage \in ReconcileStages /\ job[p].refund = r

\* No process is about to send this transaction.
Unheld(t) == \A p \in Processes : ~(Unsent(p) /\ job[p].tx = t)

Resolved(t) == txs[t].state \in {"rejected", "applied", "failed"}

\* The transaction has moved no money and never will.
Dead(t) ==
    /\ txs[t].state # "applied"
    /\ \/ txs[t].state \in {"rejected", "failed"}
       \/ txs[t].age > TX_TIMEBOUND
       \/ txs[t].state = "built" /\ Unheld(t)

TxsOf(r) == {t \in DOMAIN txs : txs[t].refund = r}
AllDead(r) == \A t \in TxsOf(r) : Dead(t)

\* A claim has one submitter at a time, and has not been handed to anyone else.
SubmitterOwns(r) ==
    /\ \A p \in Processes : Submits(p, r) =>
          /\ Status(r) = "submitting"
          /\ claim[r].age <= job[p].age
          /\ job[p].stage \in {"submit", "await"} => job[p].tx = claim[r].txHash
    /\ \A p, q \in Processes : Submits(p, r) /\ Submits(q, r) => p = q

\* What is being finalized is the transaction the claim names.
FinalizesThePayment(r) ==
    \A p \in Processes : Finalizes(p, r) =>
        /\ \A q \in Processes : ~Submits(q, r)
        /\ Status(r) \in {"submitting", "pending"} =>
              job[p].tx = claim[r].txHash /\ txs[job[p].tx].state = "applied"

\* What the reconciling worker read still holds when it writes, or the claim
\* was settled in the meantime.
ReadIsCurrent(r) ==
    \A p \in Processes : Reconciles(p, r) =>
        /\ p \in Workers
        /\ \/ Status(r) \in {"pending", "settled"}
           \/ Status(r) = "submitting" /\ claim[r].age > STUCK_SUBMITTING
        /\ Status(r) # "settled" =>
              /\ job[p].tx = claim[r].txHash
              /\ job[p].pendingSince = claim[r].pendingSince
              /\ job[p].stage = "retry" => AllDead(r)

\* Only one transaction of a claim can have moved money or still may: the one
\* being built for it, and from the checkpoint on the one the claim names.
OneInFlight(r) ==
    /\ Status(r) \in Released => AllDead(r)
    /\ \A p \in Processes : Submits(p, r) =>
          /\ job[p].stage = "preflight" => AllDead(r)
          /\ job[p].stage = "checkpoint" =>
                \A t \in TxsOf(r) : t # job[p].tx => Dead(t)
    /\ \/ \E p \in Processes : Submits(p, r) /\ job[p].stage = "checkpoint"
       \/ \A t \in TxsOf(r) : t # claim[r].txHash => Dead(t)
    /\ Status(r) = "settled" =>
          claim[r].txHash # NoTx /\ txs[claim[r].txHash].state = "applied"

\* The transaction a claim names is as old as the wait for it, once it matters.
AgedWithClaim(r) ==
    claim[r].txHash # NoTx =>
        /\ Status(r) = "submitting" =>
              \/ Resolved(claim[r].txHash)
              \/ txs[claim[r].txHash].age > TX_TIMEBOUND
              \/ txs[claim[r].txHash].age >= claim[r].age
        /\ Status(r) = "pending" /\ claim[r].pendingSince # Never =>
              \/ Resolved(claim[r].txHash)
              \/ txs[claim[r].txHash].age > TX_TIMEBOUND
              \/ txs[claim[r].txHash].age >= claim[r].pendingSince

FlightSound(r) ==
    claim[r] # NoClaim =>
        /\ SubmitterOwns(r) /\ FinalizesThePayment(r) /\ ReadIsCurrent(r)
        /\ OneInFlight(r) /\ AgedWithClaim(r)

OneLiveClaim ==
    \A r, s \in Refunds :
        (/\ claim[r] # NoClaim /\ claim[r].status # "rejected"
         /\ claim[s] # NoClaim /\ claim[s].status # "rejected"
         /\ claim[r].purchase = claim[s].purchase) => r = s

PaymentInv == RefundInv /\ OneLiveClaim /\ \A r \in Refunds : FlightSound(r)

-----------------------------------------------------------------------------
(* What leaves a claim's payment alone. *)

WorkingStages == SubmitStages \cup ReconcileStages \cup {"finalize"}

LEMMA TypedState ==
    ASSUME RefundInv
    PROVE  /\ claim \in [Refunds -> ClaimDocs \cup {NoClaim}]
           /\ \A r \in Refunds : claim[r] # NoClaim => claim[r] \in ClaimDocs
           /\ job \in [Processes -> Jobs]
           /\ \A p \in Processes : JobIsSound(p)
           /\ txs \in Seq(Transactions) /\ DOMAIN txs = 1..Len(txs)
           /\ Len(txs) \in Nat /\ Len(txs) <= MaxTx
           /\ \A t \in DOMAIN txs : txs[t] \in Transactions /\ txs[t].refund \in Refunds
           /\ TxsAreOfClaims /\ UnsentAreDistinct /\ SettledIsPaid
<1>1. \A t \in DOMAIN txs : txs[t] \in Transactions
  BY ElementOfSeq, LenProperties DEF RefundInv, TypeOK
<1>2. \A t \in DOMAIN txs : txs[t].refund \in Refunds
  BY <1>1 DEF Transactions
<1>3. QED
  BY <1>1, <1>2, LenProperties DEF RefundInv, TypeOK

\* A claim stays sound if its document, its transactions and whoever works on
\* them stay; processes may leave, other than one that has built a transaction
\* and not recorded it.
LEMMA ClaimUntouched ==
    ASSUME RefundInv, RefundInv', NEW r \in Refunds, claim[r] # NoClaim, FlightSound(r),
           claim'[r] # NoClaim, claim'[r].status = claim[r].status,
           claim'[r].txHash = claim[r].txHash, claim'[r].age = claim[r].age,
           claim'[r].pendingSince = claim[r].pendingSince,
           TxsOf(r)' = TxsOf(r), \A t \in TxsOf(r) : txs'[t] = txs[t],
           \A p \in Processes : job'[p].stage \in WorkingStages /\ job'[p].refund = r =>
               job'[p] = job[p],
           \A p \in Processes : job[p].stage = "checkpoint" /\ job[p].refund = r =>
               job'[p] = job[p]
    PROVE  FlightSound(r)'
<1>1. /\ SubmitterOwns(r) /\ FinalizesThePayment(r) /\ ReadIsCurrent(r)
      /\ OneInFlight(r) /\ AgedWithClaim(r)
  BY DEF FlightSound
<1>2. Status(r)' = Status(r) /\ Status(r) = claim[r].status
  BY DEF Status
<1>3. \A p \in Processes :
        /\ Submits(p, r)' => Submits(p, r) /\ job'[p] = job[p]
        /\ Finalizes(p, r)' => Finalizes(p, r) /\ job'[p] = job[p]
        /\ Reconciles(p, r)' => Reconciles(p, r) /\ job'[p] = job[p]
  BY DEF Submits, Finalizes, Reconciles, WorkingStages
<1>4. \A t \in TxsOf(r) : Unheld(t) => Unheld(t)'
  <2> SUFFICES ASSUME NEW t \in TxsOf(r), NEW p \in Processes, Unsent(p)', job'[p].tx = t
               PROVE  Unsent(p) /\ job[p].tx = t
    BY DEF Unheld
  <2>1. txs'[t].refund = job'[p].refund /\ t \in TxsOf(r)'
    BY DEF RefundInv, JobIsSound, Unsent
  <2>2. job'[p].refund = r
    BY <2>1 DEF TxsOf
  <2>3. QED
    BY <2>2 DEF Unsent, WorkingStages, SubmitStages
<1>5. \A t \in TxsOf(r) : Dead(t) => Dead(t)'
  BY <1>4 DEF Dead
<1>6. AllDead(r) => AllDead(r)'
  BY <1>5 DEF AllDead
<1>7. claim[r].txHash # NoTx => claim[r].txHash \in TxsOf(r)
  BY TypedState DEF TxsAreOfClaims, TxsOf
<1>8. SubmitterOwns(r)'
  BY <1>1, <1>2, <1>3 DEF SubmitterOwns
<1>9. FinalizesThePayment(r)'
  <2> SUFFICES ASSUME NEW p \in Processes, Finalizes(p, r)'
               PROVE  /\ \A q \in Processes : ~Submits(q, r)'
                      /\ Status(r)' \in {"submitting", "pending"} =>
                            job'[p].tx = claim'[r].txHash /\ txs'[job'[p].tx].state = "applied"
    BY DEF FinalizesThePayment
  <2>1. /\ Finalizes(p, r) /\ job'[p] = job[p] /\ \A q \in Processes : ~Submits(q, r)
        /\ Status(r) \in {"submitting", "pending"} =>
              job[p].tx = claim[r].txHash /\ txs[job[p].tx].state = "applied"
    BY <1>1, <1>3 DEF FinalizesThePayment
  <2>2. job[p].tx # NoTx => job[p].tx \in TxsOf(r)
    BY <2>1, TypedState DEF Finalizes, JobIsSound, TxsOf
  <2>3. DOMAIN txs = 1..Len(txs) /\ Len(txs) \in Nat /\ job[p].tx \in 0..MaxTx
    BY TypedState DEF Jobs
  <2>4. CASE Status(r) \in {"submitting", "pending"} /\ job[p].tx = NoTx
    \* A finalizer of a claim in flight has a transaction of the ledger's.
    <3>1. Paid(r)
      BY <2>1, TypedState DEF JobIsSound, Finishing, Finalizes
    <3>2. PICK t \in TxsOf(r) : txs[t].state = "applied"
      BY <3>1 DEF Paid, TxsOf
    <3>3. ~Dead(t) /\ t # NoTx
      BY <2>3, <3>2 DEF Dead, TxsOf, NoTx
    <3>4. t = claim[r].txHash
      BY <1>1, <2>1, <3>3 DEF OneInFlight
    <3>5. QED
      BY <2>1, <2>4, <3>3, <3>4
  <2>5. CASE ~(Status(r) \in {"submitting", "pending"} /\ job[p].tx = NoTx)
    BY <1>2, <1>3, <2>1, <2>2, <2>5
  <2>6. QED
    BY <2>4, <2>5
<1>10. ReadIsCurrent(r)'
  BY <1>1, <1>2, <1>3, <1>6 DEF ReadIsCurrent
<1>11. OneInFlight(r)'
  <2>1. Status(r)' \in Released => AllDead(r)'
    BY <1>1, <1>2, <1>6 DEF OneInFlight
  <2>2. ASSUME NEW p \in Processes, Submits(p, r)'
        PROVE  /\ job'[p].stage = "preflight" => AllDead(r)'
               /\ job'[p].stage = "checkpoint" =>
                     \A t \in TxsOf(r)' : t # job'[p].tx => Dead(t)'
    BY <1>1, <1>3, <1>5, <1>6, <2>2 DEF OneInFlight
  <2>3. \/ \E p \in Processes : Submits(p, r)' /\ job'[p].stage = "checkpoint"
        \/ \A t \in TxsOf(r)' : t # claim'[r].txHash => Dead(t)'
    <3>1. CASE \E p \in Processes : Submits(p, r) /\ job[p].stage = "checkpoint"
      BY <3>1 DEF Submits
    <3>2. CASE \A t \in TxsOf(r) : t # claim[r].txHash => Dead(t)
      BY <1>5, <3>2
    <3>3. QED
      BY <1>1, <3>1, <3>2 DEF OneInFlight
  <2>4. Status(r)' = "settled" =>
            claim'[r].txHash # NoTx /\ txs'[claim'[r].txHash].state = "applied"
    BY <1>1, <1>2, <1>7 DEF OneInFlight
  <2>5. QED
    BY <2>1, <2>2, <2>3, <2>4 DEF OneInFlight
<1>12. AgedWithClaim(r)'
  BY <1>1, <1>2, <1>7 DEF AgedWithClaim, Resolved
<1>13. QED
  BY <1>8, <1>9, <1>10, <1>11, <1>12 DEF FlightSound

\* A step of p for the claim r.
StepFor(p, r) ==
    /\ \A x \in Refunds : x # r => claim'[x] = claim[x]
    /\ \A q \in Processes : q # p => job'[q] = job[q]
    /\ job[p].stage # "idle" => job[p].refund = r
    /\ job'[p].stage # "idle" => job'[p].refund = r
    /\ \A t \in DOMAIN txs : /\ t \in DOMAIN txs' /\ txs'[t].refund = txs[t].refund
                             /\ txs[t].refund # r => txs'[t] = txs[t]
    /\ \A t \in DOMAIN txs' \ DOMAIN txs : txs'[t].refund = r

LEMMA OthersUntouched ==
    ASSUME RefundInv, RefundInv', NEW p \in Processes, NEW r \in Refunds, StepFor(p, r),
           NEW x \in Refunds, x # r, FlightSound(x)
    PROVE  FlightSound(x)'
<1>1. claim'[x] = claim[x]
  BY DEF StepFor
<1>2. CASE claim[x] = NoClaim
  BY <1>1, <1>2 DEF FlightSound
<1>3. CASE claim[x] # NoClaim
  <2>1. TxsOf(x)' = TxsOf(x) /\ \A t \in TxsOf(x) : txs'[t] = txs[t]
    BY DEF StepFor, TxsOf
  <2>2. \A q \in Processes : job'[q].stage \in WorkingStages /\ job'[q].refund = x =>
               job'[q] = job[q]
    BY DEF StepFor, WorkingStages, SubmitStages, ReconcileStages
  <2>3. \A q \in Processes : job[q].stage = "checkpoint" /\ job[q].refund = x =>
               job'[q] = job[q]
    BY DEF StepFor
  <2>4. QED
    BY <1>1, <1>3, <2>1, <2>2, <2>3, ClaimUntouched
<1>4. QED
  BY <1>2, <1>3

Works(p, r) == job[p].stage \in WorkingStages /\ job[p].refund = r

FlightInv ==
    /\ RefundInv /\ PromptProcesses
    /\ \A r \in Refunds : FlightSound(r)

LEMMA WorkerStages ==
    \A p, r : Works(p, r) <=> Submits(p, r) \/ Finalizes(p, r) \/ Reconciles(p, r)
BY DEF Works, WorkingStages, Submits, Finalizes, Reconciles

LEMMA StageKinds ==
    \A p, r : /\ ~(Submits(p, r) /\ Finalizes(p, r))
              /\ ~(Submits(p, r) /\ Reconciles(p, r))
              /\ ~(Finalizes(p, r) /\ Reconciles(p, r))
BY DEF Submits, Finalizes, Reconciles, SubmitStages, ReconcileStages

\* Whoever submits a claim is alone on it.
LEMMA SubmitterIsAlone ==
    ASSUME FlightInv, NEW r \in Refunds, claim[r] # NoClaim,
           NEW p \in Processes, Submits(p, r)
    PROVE  \A q \in Processes : q # p => ~Works(q, r)
<1>1. /\ SubmitterOwns(r) /\ FinalizesThePayment(r) /\ ReadIsCurrent(r)
  BY DEF FlightInv, FlightSound
<1>2. \A q \in Processes : ~Finalizes(q, r)
  BY <1>1 DEF FinalizesThePayment
<1>3. \A q \in Processes : q # p => ~Submits(q, r)
  BY <1>1 DEF SubmitterOwns
<1>4. ASSUME NEW q \in Processes, Reconciles(q, r) PROVE FALSE
  <2>1. Status(r) = "submitting" /\ claim[r].age <= job[p].age
    BY <1>1 DEF SubmitterOwns
  <2>2. claim[r].age > STUCK_SUBMITTING
    BY <1>1, <1>4, <2>1 DEF ReadIsCurrent
  <2>3. claim[r].age \in Nat /\ job[p].age \in 0..MaxJobTime
    <3>1. claim[r] \in ClaimDocs /\ job[p] \in Jobs
      BY TypedState DEF FlightInv
    <3>2. QED
      BY <3>1, RefundConstants DEF ClaimDocs, Jobs
  <2>4. QED
    BY <2>1, <2>2, <2>3, RefundConstants DEF FlightInv, PromptProcesses
<1>5. QED
  BY <1>2, <1>3, <1>4, WorkerStages

\* The worker that reconciles a claim is alone on it but for finalizers.
LEMMA ReconcilerIsAlone ==
    ASSUME FlightInv, NEW r \in Refunds, claim[r] # NoClaim,
           NEW p \in Processes, Reconciles(p, r)
    PROVE  \A q \in Processes : q # p => ~Submits(q, r) /\ ~Reconciles(q, r)
<1>1. ReadIsCurrent(r)
  BY DEF FlightInv, FlightSound
<1>2. p \in Workers /\ \A q \in Processes : Reconciles(q, r) => q \in Workers
  BY <1>1 DEF ReadIsCurrent
<1>3. \A q \in Processes : Reconciles(q, r) => q = p
  BY <1>2 DEF FlightInv, PromptProcesses
<1>4. \A q \in Processes : ~Submits(q, r)
  BY SubmitterIsAlone, WorkerStages, StageKinds
<1>5. QED
  BY <1>3, <1>4

\* A payment of the claim is the transaction it names.
LEMMA PaymentIsNamed ==
    ASSUME FlightInv, NEW r \in Refunds, claim[r] # NoClaim,
           NEW t \in TxsOf(r), txs[t].state = "applied"
    PROVE  Status(r) \notin Released /\ ~AllDead(r) /\ t = claim[r].txHash /\ t # NoTx
<1>1. OneInFlight(r) /\ ~Dead(t)
  BY DEF FlightInv, FlightSound, Dead
<1>2. t \in DOMAIN txs /\ t # NoTx
  BY TypedState DEF FlightInv, TxsOf, NoTx
<1>3. Status(r) \notin Released /\ ~AllDead(r)
  BY <1>1 DEF OneInFlight, AllDead
<1>4. t = claim[r].txHash
  <2>1. CASE \A u \in TxsOf(r) : u # claim[r].txHash => Dead(u)
    BY <1>1, <2>1
  <2>2. CASE \E p \in Processes : Submits(p, r) /\ job[p].stage = "checkpoint"
    <3>1. PICK p \in Processes : Submits(p, r) /\ job[p].stage = "checkpoint"
      BY <2>2
    <3>2. t = job[p].tx
      BY <1>1, <3>1 DEF OneInFlight
    <3>3. txs[t].state = "built"
      BY <3>1, <3>2, TypedState DEF FlightInv, JobIsSound, Unsent
    <3>4. QED
      BY <3>3
  <2>3. QED
    BY <1>1, <2>1, <2>2 DEF OneInFlight
<1>5. QED
  BY <1>2, <1>3, <1>4

LEMMA FinalizedIsNamed ==
    ASSUME FlightInv, NEW r \in Refunds, claim[r] # NoClaim,
           NEW p \in Processes, Finalizes(p, r)
    PROVE  /\ Status(r) \notin Released /\ ~AllDead(r)
           /\ claim[r].txHash \in TxsOf(r) /\ txs[claim[r].txHash].state = "applied"
<1>1. Paid(r)
  BY TypedState DEF FlightInv, JobIsSound, Finishing, Finalizes
<1>2. PICK t \in TxsOf(r) : txs[t].state = "applied"
  BY <1>1 DEF Paid, TxsOf
<1>3. QED
  BY <1>2, PaymentIsNamed

\* Nobody works on a claim that may be paid anew, or not at all.
LEMMA ReleasedIsLeftAlone ==
    ASSUME FlightInv, NEW r \in Refunds, claim[r] # NoClaim, Status(r) \in Released
    PROVE  AllDead(r) /\ \A p \in Processes : ~Works(p, r)
<1>1. SubmitterOwns(r) /\ ReadIsCurrent(r) /\ OneInFlight(r)
  BY DEF FlightInv, FlightSound
<1>2. \A p \in Processes : ~Submits(p, r) /\ ~Reconciles(p, r)
  BY <1>1 DEF SubmitterOwns, ReadIsCurrent, Released
<1>3. \A p \in Processes : ~Finalizes(p, r)
  BY FinalizedIsNamed
<1>4. QED
  BY <1>1, <1>2, <1>3, WorkerStages DEF OneInFlight

LEMMA DeadStays ==
    ASSUME NEW t, Dead(t), txs'[t] = txs[t],
           \A q \in Processes : Unsent(q)' /\ job'[q].tx = t => Unsent(q) /\ job[q].tx = t
    PROVE  Dead(t)'
BY DEF Dead, Unheld

LEMMA ReleasedIsSound ==
    ASSUME NEW r \in Refunds, Status(r)' \in Released, AllDead(r)',
           \A p \in Processes : ~Works(p, r)'
    PROVE  FlightSound(r)'
<1>1. \A p \in Processes : ~Submits(p, r)' /\ ~Finalizes(p, r)' /\ ~Reconciles(p, r)'
  BY DEF Works, Submits, Finalizes, Reconciles, WorkingStages
<1>2. \A t \in TxsOf(r)' : Dead(t)'
  BY DEF AllDead
<1>3. QED
  BY <1>1, <1>2 DEF FlightSound, SubmitterOwns, FinalizesThePayment, ReadIsCurrent,
     OneInFlight, AgedWithClaim, Released

-----------------------------------------------------------------------------
(* Admin decisions. *)

LEMMA RequestIsSound ==
    ASSUME FlightInv, RefundInv', NEW r \in Refunds, NEW q \in Purchases, RequestRefund(r, q)
    PROVE  /\ \A x \in Refunds : FlightSound(x)'
           /\ OneLiveClaim => OneLiveClaim'
<1>1. PICK d : d = [purchase |-> q, status |-> "requested", retryCount |-> 0,
            txHash |-> NoTx, pendingSince |-> Never, age |-> 0, entitlementRevoked |-> FALSE]
  OBVIOUS
<1>2. d \in ClaimDocs /\ d.status = "requested" /\ d.purchase = q /\ d # NoClaim
  <2>1. 0 \in 0..(MAX_SUBMIT_RETRIES + 1) /\ NoTx \in 0..MaxTx /\ Never \in 0..Never
        /\ 0 \in 0..(STUCK_SUBMITTING + 1)
    BY RefundConstants DEF NoTx, Never
  <2>2. d \in ClaimDocs
    BY <1>1, <2>1 DEF ClaimDocs, Statuses
  <2>3. QED
    BY <1>1, <2>2, NoClaimIsNoDoc
<1>3. claim[r] = NoClaim /\ LiveClaims(q) = {} /\ job' = job /\ txs' = txs
  BY DEF RequestRefund, chain
<1>4. claim'[r] = d /\ \A x \in Refunds : x # r => claim'[x] = claim[x]
  BY <1>1, TypedState DEF FlightInv, RequestRefund
<1>5. ASSUME NEW x \in Refunds, x # r PROVE FlightSound(x)'
  <2>1. CASE claim[x] = NoClaim
    BY <1>4, <1>5, <2>1 DEF FlightSound
  <2>2. CASE claim[x] # NoClaim
    BY <1>3, <1>4, <1>5, <2>2, ClaimUntouched DEF FlightInv, TxsOf
  <2>3. QED
    BY <2>1, <2>2
<1>6. FlightSound(r)'
  <2>1. TxsOf(r) = {}
    BY <1>3, TypedState DEF FlightInv, TxsAreOfClaims, TxsOf
  <2>2. AllDead(r)'
    BY <1>3, <2>1 DEF AllDead, TxsOf
  <2>3. \A p \in Processes : ~Works(p, r)'
    BY <1>3, TypedState DEF FlightInv, JobIsSound, Works, WorkingStages, SubmitStages,
       ReconcileStages
  <2>4. Status(r)' \in Released
    BY <1>2, <1>4 DEF Status, Released
  <2>5. QED
    BY <2>2, <2>3, <2>4, ReleasedIsSound
<1>7. OneLiveClaim => OneLiveClaim'
  BY <1>2, <1>3, <1>4 DEF OneLiveClaim, LiveClaims
<1>8. QED
  BY <1>5, <1>6, <1>7

\* A decision on a claim nobody is paying leaves it one to pay or to refuse.
LEMMA DecisionIsSound ==
    ASSUME FlightInv, RefundInv', NEW r \in Refunds, claim[r] # NoClaim,
           Status(r) \in Released, Status(r)' \in Released,
           \A x \in Refunds : x # r => claim'[x] = claim[x], UNCHANGED txs,
           \A p \in Processes : \/ job'[p] = job[p]
                                \/ job[p].stage = "idle" /\ job'[p].stage = "claim"
    PROVE  \A x \in Refunds : FlightSound(x)'
<1>1. AllDead(r) /\ \A p \in Processes : ~Works(p, r)
  BY ReleasedIsLeftAlone
<1>2. \A p \in Processes : job'[p].stage \in WorkingStages => job'[p] = job[p]
  BY DEF WorkingStages, SubmitStages, ReconcileStages
<1>3. \A p \in Processes : Unsent(p)' => job'[p] = job[p]
  BY DEF Unsent
<1>4. FlightSound(r)'
  <2>1. AllDead(r)'
    BY <1>1, <1>3, DeadStays DEF AllDead, TxsOf, Unsent
  <2>2. \A p \in Processes : ~Works(p, r)'
    BY <1>1, <1>2 DEF Works
  <2>3. QED
    BY <2>1, <2>2, ReleasedIsSound
<1>5. ASSUME NEW x \in Refunds, x # r PROVE FlightSound(x)'
  <2>1. CASE claim[x] = NoClaim
    BY <1>5, <2>1 DEF FlightSound
  <2>2. CASE claim[x] # NoClaim
    <3>1. \A p \in Processes : job[p].stage = "checkpoint" => job'[p] = job[p]
      OBVIOUS
    <3>2. QED
      BY <1>2, <1>5, <2>2, <3>1, ClaimUntouched DEF FlightInv, TxsOf
  <2>3. QED
    BY <2>1, <2>2
<1>6. QED
  BY <1>4, <1>5

-----------------------------------------------------------------------------
(* The steps of processes. *)

\* A step for one claim leaves the payments sound if it leaves that claim's.
LEMMA StepForOne ==
    ASSUME FlightInv, RefundInv', NEW p \in Processes, NEW r \in Refunds,
           StepFor(p, r), FlightSound(r)'
    PROVE  \A x \in Refunds : FlightSound(x)'
BY OthersUntouched DEF FlightInv

\* p starts or ends work that is not the claim's payment.
LEMMA JobMoves ==
    ASSUME FlightInv, RefundInv', NEW p \in Processes, NEW r \in Refunds,
           claim[r] # NoClaim, StepFor(p, r), UNCHANGED txs,
           claim'[r] # NoClaim, claim'[r].status = claim[r].status,
           claim'[r].txHash = claim[r].txHash, claim'[r].age = claim[r].age,
           claim'[r].pendingSince = claim[r].pendingSince,
           job'[p].stage \notin WorkingStages, job[p].stage # "checkpoint"
    PROVE  \A x \in Refunds : FlightSound(x)'
<1>1. \A q \in Processes : job'[q].stage \in WorkingStages /\ job'[q].refund = r =>
               job'[q] = job[q]
  BY DEF StepFor
<1>2. \A q \in Processes : job[q].stage = "checkpoint" /\ job[q].refund = r =>
               job'[q] = job[q]
  BY DEF StepFor
<1>3. TxsOf(r)' = TxsOf(r) /\ \A t \in TxsOf(r) : txs'[t] = txs[t]
  BY DEF TxsOf
<1>4. FlightSound(r)'
  BY <1>1, <1>2, <1>3, ClaimUntouched DEF FlightInv
<1>5. QED
  BY <1>4, StepForOne

\* The job of a process that works on something.
LEMMA BusyJob ==
    ASSUME FlightInv, NEW p \in Processes, job[p].stage # "idle"
    PROVE  /\ job[p].refund \in Refunds /\ claim[job[p].refund] # NoClaim
           /\ claim[job[p].refund] \in ClaimDocs
           /\ Status(job[p].refund) = claim[job[p].refund].status
           /\ job[p].retryCount \in 0..MAX_SUBMIT_RETRIES
           /\ job[p].tx \in 0..MaxTx /\ job[p].age \in 0..MaxJobTime
<1>1. job[p].refund \in Refunds /\ claim[job[p].refund] # NoClaim /\ job[p] \in Jobs
  BY TypedState DEF FlightInv, JobIsSound
<1>2. QED
  BY <1>1, TypedState DEF FlightInv, Status, Jobs

LEMMA EndsJob ==
    ASSUME FlightInv, NEW p \in Processes, EndJob(p)
    PROVE  job'[p] = Idle /\ job'[p].stage = "idle"
           /\ \A q \in Processes : q # p => job'[q] = job[q]
BY TypedState DEF FlightInv, EndJob, Idle

LEMMA MovesJob ==
    ASSUME FlightInv, NEW p \in Processes, NEW s, GoTo(p, s)
    PROVE  /\ job'[p] = [job[p] EXCEPT !.stage = s] /\ job'[p].stage = s
           /\ job'[p].refund = job[p].refund /\ job'[p].tx = job[p].tx
           /\ job'[p].age = job[p].age /\ job'[p].pendingSince = job[p].pendingSince
           /\ \A q \in Processes : q # p => job'[q] = job[q]
<1>1. job[p] \in Jobs /\ job'[p] = [job[p] EXCEPT !.stage = s]
      /\ \A q \in Processes : q # p => job'[q] = job[q]
  BY TypedState DEF FlightInv, GoTo
<1>2. QED
  BY <1>1 DEF Jobs

\* What retryOrFail writes when the status is still the one it expects.
LEMMA GivenBack ==
    ASSUME FlightInv, RefundInv', NEW p \in Processes, job[p].stage # "idle",
           NEW from, GiveBack(p, from), NEW r, r = job[p].refund
    PROVE  /\ \A x \in Refunds : x # r => claim'[x] = claim[x]
           /\ job'[p].stage = "idle" /\ \A q \in Processes : q # p => job'[q] = job[q]
           /\ Status(r) \in from => Status(r)' \in Released
           /\ Status(r) \notin from => claim'[r] = claim[r]
<1>1. r \in Refunds /\ claim[r] # NoClaim /\ claim[r] \in ClaimDocs
      /\ Status(r) = claim[r].status
  BY BusyJob
<1>2. claim' = [claim EXCEPT ![r] = RetryOrFail(r, job[p].retryCount, from)] /\ EndJob(p)
  BY DEF GiveBack
<1>3. claim'[r] = RetryOrFail(r, job[p].retryCount, from)
      /\ \A x \in Refunds : x # r => claim'[x] = claim[x]
  BY <1>1, <1>2, TypedState DEF FlightInv
<1>4. ASSUME Status(r) \in from PROVE Status(r)' \in Released
  <2>1. claim'[r] # NoClaim
    <3>1. MayBecome(r, RetryOrFail(r, job[p].retryCount, from))
      BY <1>1, BusyJob, RetriedClaim DEF FlightInv, RefundInv, CoreInv
    <3>2. QED
      BY <1>3, <3>1, NoClaimIsNoDoc DEF MayBecome
  <2>2. claim'[r].status \in {"approved", "failed"}
    BY <1>1, <1>3, <1>4 DEF RetryOrFail, ClaimDocs
  <2>3. QED
    BY <2>1, <2>2 DEF Status, Released
<1>5. Status(r) \notin from => claim'[r] = claim[r]
  BY <1>1, <1>3 DEF RetryOrFail
<1>6. QED
  BY <1>2, <1>3, <1>4, <1>5, EndsJob

\* A process gives back a claim it is alone on, and none of whose transactions
\* can be applied any more.
LEMMA GiveBackIsSound ==
    ASSUME FlightInv, RefundInv', NEW p \in Processes, NEW r \in Refunds,
           claim[r] # NoClaim, StepFor(p, r), Status(r)' \in Released, AllDead(r)',
           \A q \in Processes : q # p => ~Works(q, r), job'[p].stage = "idle"
    PROVE  \A x \in Refunds : FlightSound(x)'
<1>1. \A q \in Processes : ~Works(q, r)'
  BY DEF StepFor, Works, WorkingStages, SubmitStages, ReconcileStages
<1>2. FlightSound(r)'
  BY <1>1, ReleasedIsSound
<1>3. QED
  BY <1>2, StepForOne

\* Transactions stay dead when only p's hold on one of them ends.
LEMMA AllStayDead ==
    ASSUME NEW p \in Processes, NEW r, AllDead(r), UNCHANGED txs,
           job'[p].stage \notin {"checkpoint", "submit"},
           \A q \in Processes : q # p => job'[q] = job[q]
    PROVE  AllDead(r)'
<1>1. \A q \in Processes : Unsent(q)' => job'[q] = job[q] /\ Unsent(q)
  BY DEF Unsent
<1>2. QED
  BY <1>1, DeadStays DEF AllDead, TxsOf

LEMMA PreflightFailsIsSound ==
    ASSUME FlightInv, RefundInv', NEW p \in Processes, PreflightFails(p)
    PROVE  \A x \in Refunds : FlightSound(x)'
<1>1. PICK r \in Refunds : r = job[p].refund /\ claim[r] # NoClaim /\ Submits(p, r)
  BY BusyJob DEF PreflightFails, Submits, SubmitStages
<1>2. job[p].stage = "preflight" /\ GiveBack(p, {"submitting"}) /\ UNCHANGED txs
  BY DEF PreflightFails, chain
<1>3. Status(r) = "submitting" /\ AllDead(r)
  BY <1>1, <1>2 DEF FlightInv, FlightSound, SubmitterOwns, OneInFlight
<1>4. /\ \A x \in Refunds : x # r => claim'[x] = claim[x]
      /\ job'[p].stage = "idle" /\ \A q \in Processes : q # p => job'[q] = job[q]
      /\ Status(r)' \in Released
  BY <1>1, <1>2, <1>3, GivenBack
<1>5. StepFor(p, r)
  BY <1>1, <1>2, <1>4 DEF StepFor
<1>6. AllDead(r)'
  BY <1>2, <1>3, <1>4, AllStayDead
<1>7. QED
  BY <1>1, <1>4, <1>5, <1>6, SubmitterIsAlone, GiveBackIsSound

\* The transaction a submitter has recorded, and all the others of its claim.
LEMMA SubmittedIsNamed ==
    ASSUME FlightInv, NEW p \in Processes, NEW r \in Refunds, claim[r] # NoClaim,
           Submits(p, r), job[p].stage \in {"submit", "await"}
    PROVE  /\ Status(r) = "submitting" /\ job[p].tx = claim[r].txHash
           /\ job[p].tx \in TxsOf(r)
           /\ \A t \in TxsOf(r) : t # job[p].tx => Dead(t)
           /\ \A q \in Processes : q # p => ~Works(q, r)
<1>1. SubmitterOwns(r) /\ OneInFlight(r)
  BY DEF FlightInv, FlightSound
<1>2. Status(r) = "submitting" /\ job[p].tx = claim[r].txHash
  BY <1>1 DEF SubmitterOwns
<1>3. \A q \in Processes : q # p => ~Works(q, r)
  BY SubmitterIsAlone
<1>4. ~\E q \in Processes : Submits(q, r) /\ job[q].stage = "checkpoint"
  BY <1>3, WorkerStages
<1>5. job[p].tx \in TxsOf(r)
  BY TypedState DEF FlightInv, JobIsSound, Unsent, Submits, TxsOf
<1>6. QED
  BY <1>1, <1>2, <1>3, <1>4, <1>5 DEF OneInFlight

LEMMA SubmissionBlockedIsSound ==
    ASSUME FlightInv, RefundInv', NEW p \in Processes, SubmissionBlocked(p)
    PROVE  \A x \in Refunds : FlightSound(x)'
<1>1. PICK r \in Refunds : r = job[p].refund /\ claim[r] # NoClaim /\ Submits(p, r)
  BY BusyJob DEF SubmissionBlocked, Submits, SubmitStages
<1>2. job[p].stage = "submit" /\ GiveBack(p, {"submitting"}) /\ UNCHANGED txs
  BY DEF SubmissionBlocked, chain
<1>3. PICK t \in TxsOf(r) : t = job[p].tx
  BY <1>1, <1>2, SubmittedIsNamed
<1>4. /\ Status(r) = "submitting" /\ \A u \in TxsOf(r) : u # t => Dead(u)
      /\ \A q \in Processes : q # p => ~Works(q, r)
  BY <1>1, <1>2, <1>3, SubmittedIsNamed
<1>5. /\ \A x \in Refunds : x # r => claim'[x] = claim[x]
      /\ job'[p].stage = "idle" /\ \A q \in Processes : q # p => job'[q] = job[q]
      /\ Status(r)' \in Released
  BY <1>1, <1>2, <1>4, GivenBack
<1>6. StepFor(p, r)
  BY <1>1, <1>2, <1>5 DEF StepFor
<1>7. \A q \in Processes : Unsent(q)' => job'[q] = job[q] /\ Unsent(q)
  BY <1>5 DEF Unsent
<1>8. Dead(t)'
  <2>1. txs[t].state = "built"
    BY <1>2, <1>3, TypedState DEF FlightInv, JobIsSound, Unsent
  <2>2. \A q \in Processes : Unsent(q)' => job'[q].tx # t
    BY <1>2, <1>3, <1>5, <1>7, TypedState DEF FlightInv, UnsentAreDistinct, Unsent
  <2>3. QED
    BY <1>2, <2>1, <2>2 DEF Dead, Unheld
<1>9. \A u \in TxsOf(r) : u # t => Dead(u)'
  BY <1>2, <1>4, <1>7, DeadStays
<1>10. AllDead(r)'
  BY <1>2, <1>8, <1>9 DEF AllDead, TxsOf
<1>11. QED
  BY <1>1, <1>4, <1>5, <1>6, <1>10, GiveBackIsSound

LEMMA SubmissionRejectedIsSound ==
    ASSUME FlightInv, RefundInv', NEW p \in Processes, SubmissionRejected(p)
    PROVE  \A x \in Refunds : FlightSound(x)'
<1>1. PICK r \in Refunds : r = job[p].refund /\ claim[r] # NoClaim /\ Submits(p, r)
  BY BusyJob DEF SubmissionRejected, Submits, SubmitStages
<1>2. job[p].stage = "await" /\ GiveBack(p, {"submitting"})
  BY DEF SubmissionRejected
<1>3. PICK t \in TxsOf(r) : t = job[p].tx
  BY <1>1, <1>2, SubmittedIsNamed
<1>4. /\ Status(r) = "submitting" /\ \A u \in TxsOf(r) : u # t => Dead(u)
      /\ \A q \in Processes : q # p => ~Works(q, r)
  BY <1>1, <1>2, <1>3, SubmittedIsNamed
<1>5. /\ \A x \in Refunds : x # r => claim'[x] = claim[x]
      /\ job'[p].stage = "idle" /\ \A q \in Processes : q # p => job'[q] = job[q]
      /\ Status(r)' \in Released
  BY <1>1, <1>2, <1>4, GivenBack
<1>6. /\ txs' = [txs EXCEPT ![t].state = "rejected"] /\ t \in DOMAIN txs
      /\ txs[t] \in Transactions /\ txs[t].refund = r
  BY <1>3, TypedState DEF FlightInv, SubmissionRejected, TxsOf
<1>7. /\ DOMAIN txs' = DOMAIN txs /\ txs'[t].state = "rejected" /\ txs'[t].refund = r
      /\ \A u \in DOMAIN txs : u # t => txs'[u] = txs[u]
  BY <1>6 DEF Transactions
<1>8. StepFor(p, r)
  BY <1>1, <1>5, <1>6, <1>7 DEF StepFor
<1>9. \A q \in Processes : Unsent(q)' => job'[q] = job[q] /\ Unsent(q)
  BY <1>5 DEF Unsent
<1>10. TxsOf(r)' = TxsOf(r)
  BY <1>6, <1>7 DEF TxsOf
<1>11. \A u \in TxsOf(r) : u # t => Dead(u)'
  BY <1>4, <1>7, <1>9, DeadStays DEF TxsOf
<1>12. Dead(t)'
  BY <1>7 DEF Dead
<1>13. AllDead(r)'
  BY <1>10, <1>11, <1>12 DEF AllDead
<1>14. QED
  BY <1>1, <1>4, <1>5, <1>8, <1>13, GiveBackIsSound

LEMMA ReconcileRetryIsSound ==
    ASSUME FlightInv, RefundInv', NEW p \in Processes, ReconcileRetry(p)
    PROVE  \A x \in Refunds : FlightSound(x)'
<1>1. PICK r \in Refunds : r = job[p].refund /\ claim[r] # NoClaim /\ Reconciles(p, r)
  BY BusyJob DEF ReconcileRetry, Reconciles, ReconcileStages
<1>2. job[p].stage = "retry" /\ GiveBack(p, {"submitting", "pending"}) /\ UNCHANGED txs
  BY DEF ReconcileRetry, chain
<1>3. /\ \A x \in Refunds : x # r => claim'[x] = claim[x]
      /\ job'[p].stage = "idle" /\ \A q \in Processes : q # p => job'[q] = job[q]
      /\ Status(r) \in {"submitting", "pending"} => Status(r)' \in Released
      /\ Status(r) \notin {"submitting", "pending"} => claim'[r] = claim[r]
  BY <1>1, <1>2, GivenBack
<1>4. StepFor(p, r)
  BY <1>1, <1>2, <1>3 DEF StepFor
<1>5. CASE Status(r) \in {"submitting", "pending"}
  <2>1. AllDead(r)
    BY <1>1, <1>2, <1>5 DEF FlightInv, FlightSound, ReadIsCurrent
  <2>2. AllDead(r)'
    BY <1>2, <1>3, <2>1, AllStayDead
  <2>3. \A q \in Processes : q # p => ~Works(q, r)
    BY <1>1, <2>1, ReconcilerIsAlone, FinalizedIsNamed, WorkerStages
  <2>4. QED
    BY <1>1, <1>3, <1>4, <1>5, <2>2, <2>3, GiveBackIsSound
<1>6. CASE Status(r) \notin {"submitting", "pending"}
  <2>1. job'[p].stage \notin WorkingStages /\ job[p].stage # "checkpoint"
    BY <1>2, <1>3 DEF WorkingStages, SubmitStages, ReconcileStages
  <2>2. claim'[r] = claim[r]
    BY <1>3, <1>6
  <2>3. QED
    BY <1>1, <1>2, <1>4, <2>1, <2>2, JobMoves
<1>7. QED
  BY <1>5, <1>6

LEMMA PollIsSound ==
    ASSUME FlightInv, RefundInv', NEW p \in Processes, NEW r \in Refunds, PollApproved(p, r)
    PROVE  \A x \in Refunds : FlightSound(x)'
<1>1. /\ claim[r] # NoClaim /\ job[p].stage = "idle" /\ claim' = claim
      /\ UNCHANGED txs /\ job' = [job EXCEPT ![p] = At(r, "claim")]
  BY DEF PollApproved, Status, chain
<1>2. /\ job'[p].stage = "claim" /\ job'[p].refund = r
      /\ \A q \in Processes : q # p => job'[q] = job[q]
  BY <1>1, NewJob, TypedState DEF FlightInv
<1>3. StepFor(p, r)
  BY <1>1, <1>2 DEF StepFor
<1>4. job'[p].stage \notin WorkingStages /\ job[p].stage # "checkpoint"
  BY <1>1, <1>2 DEF WorkingStages, SubmitStages, ReconcileStages
<1>5. QED
  BY <1>1, <1>3, <1>4, JobMoves

\* The compare-and-set on approved makes one process the submitter.
LEMMA ClaimForSubmissionIsSound ==
    ASSUME FlightInv, RefundInv', NEW p \in Processes, ClaimForSubmission(p)
    PROVE  \A x \in Refunds : FlightSound(x)'
<1>1. PICK r \in Refunds : r = job[p].refund /\ claim[r] # NoClaim /\ claim[r] \in ClaimDocs
                           /\ Status(r) = claim[r].status
  BY BusyJob DEF ClaimForSubmission
<1>2. job[p].stage = "claim" /\ UNCHANGED txs
  BY DEF ClaimForSubmission, chain
<1>3. CASE Status(r) # "approved"
  <2>1. claim' = claim /\ EndJob(p)
    BY <1>1, <1>3 DEF ClaimForSubmission
  <2>2. job'[p].stage = "idle" /\ \A q \in Processes : q # p => job'[q] = job[q]
    BY <2>1, EndsJob
  <2>3. StepFor(p, r)
    BY <1>1, <1>2, <2>1, <2>2 DEF StepFor
  <2>4. job'[p].stage \notin WorkingStages /\ job[p].stage # "checkpoint"
    BY <1>2, <2>2 DEF WorkingStages, SubmitStages, ReconcileStages
  <2>5. QED
    BY <1>1, <1>2, <2>1, <2>3, <2>4, JobMoves
<1>4. CASE Status(r) = "approved"
  <2>1. /\ claim' = [claim EXCEPT ![r].status = "submitting", ![r].age = 0]
        /\ job' = [job EXCEPT ![p].stage = "preflight", ![p].retryCount = claim[r].retryCount]
    BY <1>1, <1>4 DEF ClaimForSubmission
  <2>2. /\ claim'[r] = [claim[r] EXCEPT !.status = "submitting", !.age = 0]
        /\ \A x \in Refunds : x # r => claim'[x] = claim[x]
    BY <2>1, TypedState DEF FlightInv
  <2>3. /\ claim'[r].status = "submitting" /\ claim'[r].age = 0
        /\ claim'[r].txHash = claim[r].txHash
    BY <1>1, <2>2 DEF ClaimDocs
  <2>4. job[p] \in Jobs /\ \A q \in Processes : q # p => job'[q] = job[q]
    BY <2>1, TypedState DEF FlightInv
  <2>5. /\ job'[p].stage = "preflight" /\ job'[p].refund = r /\ job'[p].age = job[p].age
        /\ job[p].age \in Nat
    BY <1>1, <2>1, <2>4, TypedState, RefundConstants DEF FlightInv, Jobs
  <2>6. StepFor(p, r)
    BY <1>1, <1>2, <2>2, <2>4, <2>5 DEF StepFor
  <2>7. claim'[r] # NoClaim
    BY <1>2, <2>5 DEF RefundInv, JobIsSound
  <2>8. Status(r)' = "submitting"
    BY <2>3, <2>7 DEF Status
  <2>9. AllDead(r) /\ \A q \in Processes : ~Works(q, r)
    BY <1>1, <1>4, ReleasedIsLeftAlone DEF Released
  <2>10. \A q \in Processes : /\ Submits(q, r)' <=> q = p
                              /\ ~Finalizes(q, r)' /\ ~Reconciles(q, r)'
    BY <2>4, <2>5, <2>9 DEF Works, Submits, Finalizes, Reconciles, WorkingStages,
       SubmitStages, ReconcileStages
  <2>11. \A q \in Processes : Unsent(q)' => job'[q] = job[q] /\ Unsent(q)
    BY <2>4, <2>5 DEF Unsent
  <2>12. AllDead(r)' /\ \A t \in TxsOf(r)' : Dead(t)'
    BY <1>2, <2>9, <2>11, DeadStays DEF AllDead, TxsOf
  <2>13. SubmitterOwns(r)'
    BY <2>3, <2>5, <2>8, <2>10 DEF SubmitterOwns
  <2>14. OneInFlight(r)'
    BY <2>5, <2>8, <2>10, <2>12 DEF OneInFlight, Released
  <2>15. FinalizesThePayment(r)' /\ ReadIsCurrent(r)'
    BY <2>10 DEF FinalizesThePayment, ReadIsCurrent
  <2>16. AgedWithClaim(r)'
    <3>1. SUFFICES ASSUME claim'[r].txHash # NoTx
                   PROVE  txs'[claim'[r].txHash].age >= claim'[r].age
      BY <2>8 DEF AgedWithClaim
    <3>2. PICK t : t = claim[r].txHash
      OBVIOUS
    <3>3. t \in DOMAIN txs
      BY <1>1, <2>3, <3>1, <3>2, TypedState DEF FlightInv, TxsAreOfClaims
    <3>4. txs[t].age \in Nat
      <4>1. txs[t] \in Transactions
        BY <3>3, TypedState DEF FlightInv
      <4>2. QED
        BY <4>1, RefundConstants DEF Transactions
    <3>5. QED
      BY <1>2, <2>3, <3>2, <3>4
  <2>17. FlightSound(r)'
    BY <2>13, <2>14, <2>15, <2>16 DEF FlightSound
  <2>18. QED
    BY <2>6, <2>17, StepForOne
<1>5. QED
  BY <1>3, <1>4

LEMMA BuildIsSound ==
    ASSUME FlightInv, RefundInv', NEW p \in Processes, BuildTransaction(p)
    PROVE  \A x \in Refunds : FlightSound(x)'
<1>1. PICK r \in Refunds : r = job[p].refund /\ claim[r] # NoClaim /\ Submits(p, r)
  BY BusyJob DEF BuildTransaction, Submits, SubmitStages
<1>2. PICK n : n = Len(txs) + 1
  OBVIOUS
<1>3. PICK e : e = [refund |-> r, seq |-> sequence + 1, age |-> 0, state |-> "built"]
  OBVIOUS
<1>4. /\ job[p].stage = "preflight" /\ claim' = claim /\ txs' = Append(txs, e)
      /\ job' = [job EXCEPT ![p].stage = "checkpoint", ![p].tx = n]
  BY <1>1, <1>2, <1>3 DEF BuildTransaction
<1>5. /\ DOMAIN txs' = DOMAIN txs \cup {n} /\ n \notin DOMAIN txs
      /\ txs'[n] = e /\ \A t \in DOMAIN txs : txs'[t] = txs[t]
  BY <1>2, <1>4, TypedState, AppendProperties DEF FlightInv
<1>6. e.refund = r
  BY <1>3
<1>7. /\ job'[p].stage = "checkpoint" /\ job'[p].tx = n /\ job'[p].refund = r
      /\ job'[p].age = job[p].age
      /\ \A q \in Processes : q # p => job'[q] = job[q]
  BY <1>1, <1>4, TypedState DEF FlightInv, Jobs
<1>8. StepFor(p, r)
  BY <1>1, <1>4, <1>5, <1>6, <1>7 DEF StepFor
<1>9. /\ Status(r) = "submitting" /\ AllDead(r) /\ claim[r].age <= job[p].age
      /\ AgedWithClaim(r)
  BY <1>1, <1>4 DEF FlightInv, FlightSound, SubmitterOwns, OneInFlight
<1>10. \A q \in Processes : /\ Submits(q, r)' <=> q = p
                            /\ ~Finalizes(q, r)' /\ ~Reconciles(q, r)'
  <2>1. \A q \in Processes : q # p => ~Works(q, r)
    BY <1>1, SubmitterIsAlone
  <2>2. QED
    BY <1>7, <2>1 DEF Works, Submits, Finalizes, Reconciles, WorkingStages,
       SubmitStages, ReconcileStages
<1>11. Status(r)' = "submitting"
  BY <1>4, <1>9 DEF Status
<1>12. TxsOf(r)' = TxsOf(r) \cup {n} /\ TxsOf(r) \subseteq DOMAIN txs
  BY <1>5, <1>6 DEF TxsOf
<1>13. \A t \in TxsOf(r) : Dead(t)'
  <2>1. \A q \in Processes : q # p /\ Unsent(q)' => job'[q] = job[q] /\ Unsent(q)
    BY <1>7 DEF Unsent
  <2>2. \A t \in TxsOf(r) : t # n /\ txs'[t] = txs[t]
    BY <1>5, <1>12
  <2>3. QED
    BY <1>7, <1>9, <2>1, <2>2, DeadStays DEF AllDead
<1>14. SubmitterOwns(r)'
  BY <1>4, <1>7, <1>9, <1>10, <1>11 DEF SubmitterOwns
<1>15. OneInFlight(r)'
  BY <1>7, <1>10, <1>11, <1>12, <1>13 DEF OneInFlight, Released
<1>16. FinalizesThePayment(r)' /\ ReadIsCurrent(r)'
  BY <1>10 DEF FinalizesThePayment, ReadIsCurrent
<1>17. AgedWithClaim(r)'
  <2>1. claim[r].txHash # NoTx => claim[r].txHash \in DOMAIN txs
    BY <1>1, TypedState DEF FlightInv, TxsAreOfClaims
  <2>2. QED
    BY <1>4, <1>5, <1>9, <1>11, <2>1 DEF AgedWithClaim, Resolved
<1>18. FlightSound(r)'
  BY <1>14, <1>15, <1>16, <1>17 DEF FlightSound
<1>19. QED
  BY <1>8, <1>18, StepForOne

LEMMA RecordCheckpointIsSound ==
    ASSUME FlightInv, RefundInv', NEW p \in Processes, RecordCheckpoint(p)
    PROVE  \A x \in Refunds : FlightSound(x)'
<1>1. PICK r \in Refunds : r = job[p].refund /\ claim[r] # NoClaim /\ Submits(p, r)
                           /\ claim[r] \in ClaimDocs
  BY BusyJob DEF RecordCheckpoint, Submits, SubmitStages
<1>2. PICK t : t = job[p].tx
  OBVIOUS
<1>3. job[p].stage = "checkpoint" /\ GoTo(p, "submit") /\ UNCHANGED txs
  BY DEF RecordCheckpoint, chain
<1>4. /\ claim'[r] = [claim[r] EXCEPT !.txHash = t, !.age = 0]
      /\ \A x \in Refunds : x # r => claim'[x] = claim[x]
  BY <1>1, <1>2, TypedState DEF FlightInv, RecordCheckpoint
<1>5. /\ claim'[r].txHash = t /\ claim'[r].age = 0
      /\ claim'[r].status = claim[r].status
  BY <1>1, <1>4 DEF ClaimDocs
<1>6. /\ job'[p].stage = "submit" /\ job'[p].tx = t /\ job'[p].refund = r
      /\ job'[p].age = job[p].age
      /\ \A q \in Processes : q # p => job'[q] = job[q]
  BY <1>1, <1>2, <1>3, MovesJob
<1>7. StepFor(p, r)
  BY <1>1, <1>3, <1>4, <1>6 DEF StepFor
<1>8. claim'[r] # NoClaim
  BY <1>6 DEF RefundInv, JobIsSound
<1>9. Status(r)' = "submitting"
  BY <1>1, <1>5, <1>8 DEF FlightInv, FlightSound, SubmitterOwns, Status
<1>10. \A u \in TxsOf(r) : u # t => Dead(u)
  BY <1>1, <1>2, <1>3 DEF FlightInv, FlightSound, OneInFlight
<1>11. \A q \in Processes : /\ Submits(q, r)' <=> q = p
                            /\ ~Finalizes(q, r)' /\ ~Reconciles(q, r)'
  <2>1. \A q \in Processes : q # p => ~Works(q, r)
    BY <1>1, SubmitterIsAlone
  <2>2. QED
    BY <1>6, <2>1 DEF Works, Submits, Finalizes, Reconciles, WorkingStages,
       SubmitStages, ReconcileStages
<1>12. \A u \in TxsOf(r)' : u # t => Dead(u)'
  <2>1. \A q \in Processes : Unsent(q)' => Unsent(q) /\ job'[q].tx = job[q].tx
    BY <1>2, <1>3, <1>6 DEF Unsent
  <2>2. QED
    BY <1>3, <1>10, <2>1, DeadStays DEF TxsOf
<1>13. SubmitterOwns(r)'
  <2>1. job[p].age \in Nat
    BY <1>3, BusyJob, RefundConstants
  <2>2. QED
    BY <1>5, <1>6, <1>9, <1>11, <2>1 DEF SubmitterOwns
<1>14. OneInFlight(r)'
  BY <1>5, <1>6, <1>9, <1>11, <1>12 DEF OneInFlight, Released
<1>15. FinalizesThePayment(r)' /\ ReadIsCurrent(r)'
  BY <1>11 DEF FinalizesThePayment, ReadIsCurrent
<1>16. AgedWithClaim(r)'
  <2>1. t \in DOMAIN txs
    BY <1>2, <1>3, TypedState DEF FlightInv, JobIsSound, Unsent
  <2>2. txs[t] \in Transactions
    BY <2>1, TypedState DEF FlightInv
  <2>3. txs[t].age \in Nat
    BY <2>2, RefundConstants DEF Transactions
  <2>4. QED
    BY <1>3, <1>5, <1>9, <2>3 DEF AgedWithClaim
<1>17. FlightSound(r)'
  BY <1>13, <1>14, <1>15, <1>16 DEF FlightSound
<1>18. QED
  BY <1>7, <1>17, StepForOne

LEMMA SendIsSound ==
    ASSUME FlightInv, RefundInv', NEW p \in Processes, SendTransaction(p)
    PROVE  \A x \in Refunds : FlightSound(x)'
<1>1. PICK r \in Refunds : r = job[p].refund /\ claim[r] # NoClaim /\ Submits(p, r)
  BY BusyJob DEF SendTransaction, Submits, SubmitStages
<1>2. job[p].stage = "submit" /\ GoTo(p, "await") /\ claim' = claim
  BY DEF SendTransaction
<1>3. PICK t \in TxsOf(r) : t = job[p].tx
  BY <1>1, <1>2, SubmittedIsNamed
<1>4. /\ Status(r) = "submitting" /\ t = claim[r].txHash
      /\ \A u \in TxsOf(r) : u # t => Dead(u)
      /\ \A q \in Processes : q # p => ~Works(q, r)
  BY <1>1, <1>2, <1>3, SubmittedIsNamed
<1>5. /\ txs' = [txs EXCEPT ![t].state = "sent"] /\ t \in DOMAIN txs
      /\ txs[t] \in Transactions /\ txs[t].refund = r /\ txs[t].state = "built"
  BY <1>2, <1>3, TypedState DEF FlightInv, SendTransaction, TxsOf, JobIsSound, Unsent
<1>6. /\ DOMAIN txs' = DOMAIN txs /\ txs'[t].refund = r /\ txs'[t].age = txs[t].age
      /\ \A u \in DOMAIN txs : u # t => txs'[u] = txs[u]
  BY <1>5 DEF Transactions
<1>7. /\ job'[p].stage = "await" /\ job'[p].tx = t /\ job'[p].refund = r
      /\ job'[p].age = job[p].age
      /\ \A q \in Processes : q # p => job'[q] = job[q]
  BY <1>1, <1>2, <1>3, MovesJob
<1>8. StepFor(p, r)
  BY <1>1, <1>2, <1>5, <1>6, <1>7 DEF StepFor
<1>9. Status(r)' = "submitting"
  BY <1>2, <1>4 DEF Status
<1>10. \A q \in Processes : /\ Submits(q, r)' <=> q = p
                            /\ ~Finalizes(q, r)' /\ ~Reconciles(q, r)'
  BY <1>4, <1>7 DEF Works, Submits, Finalizes, Reconciles, WorkingStages,
       SubmitStages, ReconcileStages
<1>11. \A u \in TxsOf(r)' : u # t => Dead(u)'
  <2>1. \A q \in Processes : Unsent(q)' => Unsent(q) /\ job'[q] = job[q]
    BY <1>7 DEF Unsent
  <2>2. QED
    BY <1>4, <1>5, <1>6, <2>1, DeadStays DEF TxsOf
<1>12. SubmitterOwns(r)'
  <2>1. claim[r].age <= job[p].age
    BY <1>1 DEF FlightInv, FlightSound, SubmitterOwns
  <2>2. QED
    BY <1>2, <1>4, <1>7, <1>9, <1>10, <2>1 DEF SubmitterOwns
<1>13. OneInFlight(r)'
  BY <1>2, <1>4, <1>7, <1>9, <1>10, <1>11 DEF OneInFlight, Released
<1>14. FinalizesThePayment(r)' /\ ReadIsCurrent(r)'
  BY <1>10 DEF FinalizesThePayment, ReadIsCurrent
<1>15. AgedWithClaim(r)'
  <2>1. t # NoTx => txs[t].age > TX_TIMEBOUND \/ txs[t].age >= claim[r].age
    BY <1>1, <1>4, <1>5 DEF FlightInv, FlightSound, AgedWithClaim, Resolved
  <2>2. QED
    BY <1>2, <1>4, <1>6, <1>9, <2>1 DEF AgedWithClaim
<1>16. FlightSound(r)'
  BY <1>12, <1>13, <1>14, <1>15 DEF FlightSound
<1>17. QED
  BY <1>8, <1>16, StepForOne

LEMMA ConfirmedIsSound ==
    ASSUME FlightInv, RefundInv', NEW p \in Processes, SubmissionConfirmed(p)
    PROVE  \A x \in Refunds : FlightSound(x)'
<1>1. PICK r \in Refunds : r = job[p].refund /\ claim[r] # NoClaim /\ Submits(p, r)
  BY BusyJob DEF SubmissionConfirmed, Submits, SubmitStages
<1>2. /\ job[p].stage = "await" /\ GoTo(p, "finalize") /\ claim' = claim /\ txs' = txs
      /\ txs[job[p].tx].state = "applied"
  BY DEF SubmissionConfirmed, chain
<1>3. PICK t \in TxsOf(r) : t = job[p].tx
  BY <1>1, <1>2, SubmittedIsNamed
<1>4. /\ Status(r) = "submitting" /\ t = claim[r].txHash
      /\ \A u \in TxsOf(r) : u # t => Dead(u)
      /\ \A q \in Processes : q # p => ~Works(q, r)
  BY <1>1, <1>2, <1>3, SubmittedIsNamed
<1>5. /\ job'[p].stage = "finalize" /\ job'[p].tx = t /\ job'[p].refund = r
      /\ \A q \in Processes : q # p => job'[q] = job[q]
  BY <1>1, <1>2, <1>3, MovesJob
<1>6. StepFor(p, r)
  BY <1>1, <1>2, <1>5 DEF StepFor
<1>7. Status(r)' = "submitting"
  BY <1>2, <1>4 DEF Status
<1>8. \A q \in Processes : /\ Finalizes(q, r)' <=> q = p
                           /\ ~Submits(q, r)' /\ ~Reconciles(q, r)'
  BY <1>4, <1>5 DEF Works, Submits, Finalizes, Reconciles, WorkingStages,
       SubmitStages, ReconcileStages
<1>9. \A u \in TxsOf(r)' : u # t => Dead(u)'
  <2>1. \A q \in Processes : Unsent(q)' => Unsent(q) /\ job'[q] = job[q]
    BY <1>5 DEF Unsent
  <2>2. QED
    BY <1>2, <1>4, <2>1, DeadStays DEF TxsOf
<1>10. FinalizesThePayment(r)'
  BY <1>2, <1>3, <1>4, <1>5, <1>8 DEF FinalizesThePayment
<1>11. OneInFlight(r)'
  BY <1>2, <1>4, <1>7, <1>8, <1>9 DEF OneInFlight, Released
<1>12. SubmitterOwns(r)' /\ ReadIsCurrent(r)'
  BY <1>8 DEF SubmitterOwns, ReadIsCurrent
<1>13. AgedWithClaim(r)'
  BY <1>2, <1>3, <1>4, <1>7 DEF AgedWithClaim, Resolved
<1>14. FlightSound(r)'
  BY <1>10, <1>11, <1>12, <1>13 DEF FlightSound
<1>15. QED
  BY <1>6, <1>14, StepForOne

LEMMA AmbiguousIsSound ==
    ASSUME FlightInv, RefundInv', NEW p \in Processes, SubmissionAmbiguous(p)
    PROVE  \A x \in Refunds : FlightSound(x)'
<1>1. PICK r \in Refunds : r = job[p].refund /\ claim[r] # NoClaim /\ Submits(p, r)
                           /\ claim[r] \in ClaimDocs /\ Status(r) = claim[r].status
  BY BusyJob DEF SubmissionAmbiguous, Submits, SubmitStages
<1>2. job[p].stage = "await" /\ EndJob(p) /\ txs' = txs
  BY DEF SubmissionAmbiguous, chain
<1>3. PICK t \in TxsOf(r) : t = job[p].tx
  BY <1>1, <1>2, SubmittedIsNamed
<1>4. /\ Status(r) = "submitting" /\ t = claim[r].txHash
      /\ \A u \in TxsOf(r) : u # t => Dead(u)
      /\ \A q \in Processes : q # p => ~Works(q, r)
  BY <1>1, <1>2, <1>3, SubmittedIsNamed
<1>5. /\ claim'[r] = [claim[r] EXCEPT !.status = "pending", !.age = 0, !.pendingSince = 0]
      /\ \A x \in Refunds : x # r => claim'[x] = claim[x]
  BY <1>1, <1>4, TypedState DEF FlightInv, SubmissionAmbiguous
<1>6. /\ claim'[r].status = "pending" /\ claim'[r].pendingSince = 0
      /\ claim'[r].txHash = t
  BY <1>1, <1>4, <1>5 DEF ClaimDocs
<1>7. job'[p].stage = "idle" /\ \A q \in Processes : q # p => job'[q] = job[q]
  BY <1>2, EndsJob
<1>8. StepFor(p, r)
  BY <1>1, <1>2, <1>5, <1>7 DEF StepFor
<1>9. Status(r)' \notin Released \cup {"submitting", "settled"}
  <2>1. claim[r] \in ClaimDocs /\ 0 \in 0..(STUCK_SUBMITTING + 1) /\ 0 \in 0..Never
    BY <1>1, RefundConstants DEF Never
  <2>2. claim'[r] \in ClaimDocs
    BY <1>5, <2>1 DEF ClaimDocs, Statuses
  <2>3. QED
    BY <1>6, <2>2, NoClaimIsNoDoc DEF Status, Released
<1>10. \A q \in Processes : ~Finalizes(q, r)' /\ ~Submits(q, r)' /\ ~Reconciles(q, r)'
  BY <1>4, <1>7 DEF Works, Submits, Finalizes, Reconciles, WorkingStages,
       SubmitStages, ReconcileStages
<1>11. \A u \in TxsOf(r)' : u # t => Dead(u)'
  <2>1. \A q \in Processes : Unsent(q)' => Unsent(q) /\ job'[q] = job[q]
    BY <1>7 DEF Unsent
  <2>2. QED
    BY <1>2, <1>4, <2>1, DeadStays DEF TxsOf
<1>12. OneInFlight(r)'
  BY <1>6, <1>9, <1>10, <1>11 DEF OneInFlight
<1>13. SubmitterOwns(r)' /\ FinalizesThePayment(r)' /\ ReadIsCurrent(r)'
  BY <1>10 DEF SubmitterOwns, FinalizesThePayment, ReadIsCurrent
<1>14. AgedWithClaim(r)'
  <2>1. txs[t] \in Transactions
    BY <1>3, TypedState DEF FlightInv, TxsOf
  <2>2. txs[t].age \in Nat
    BY <2>1, RefundConstants DEF Transactions
  <2>3. QED
    BY <1>2, <1>6, <1>9, <2>2 DEF AgedWithClaim
<1>15. FlightSound(r)'
  BY <1>12, <1>13, <1>14 DEF FlightSound
<1>16. QED
  BY <1>8, <1>15, StepForOne

-----------------------------------------------------------------------------
(* finalizeSettlement and reconcileRefund. *)

LEMMA FinalizeIsSound ==
    ASSUME FlightInv, RefundInv', NEW p \in Processes, Finalize(p)
    PROVE  \A x \in Refunds : FlightSound(x)'
<1>1. PICK r \in Refunds : r = job[p].refund /\ claim[r] # NoClaim /\ Finalizes(p, r)
                           /\ claim[r] \in ClaimDocs /\ Status(r) = claim[r].status
  BY BusyJob DEF Finalize, Finalizes
<1>2. PICK t : t = job[p].tx
  OBVIOUS
<1>3. job[p].stage = "finalize" /\ txs' = txs
  BY DEF Finalize, chain
<1>4. /\ job'[p].stage \in {"revoke", "idle"} /\ (job'[p].stage # "idle" => job'[p].refund = r)
      /\ \A q \in Processes : q # p => job'[q] = job[q]
  <2>1. GoTo(p, "revoke") \/ EndJob(p)
    BY DEF Finalize
  <2>2. QED
    BY <1>1, <2>1, MovesJob, EndsJob
<1>5. \A x \in Refunds : x # r => claim'[x] = claim[x]
  BY <1>1, TypedState DEF FlightInv, Finalize
<1>6. StepFor(p, r)
  BY <1>1, <1>3, <1>4, <1>5 DEF StepFor
<1>7. CASE Status(r) \notin {"submitting", "pending"}
  <2>1. claim'[r] = claim[r]
    BY <1>1, <1>7, TypedState DEF FlightInv, Finalize
  <2>2. job'[p].stage \notin WorkingStages /\ job[p].stage # "checkpoint"
    BY <1>3, <1>4 DEF WorkingStages, SubmitStages, ReconcileStages
  <2>3. QED
    BY <1>1, <1>3, <1>6, <2>1, <2>2, JobMoves
<1>8. CASE Status(r) \in {"submitting", "pending"}
  <2>1. /\ t = claim[r].txHash /\ txs[t].state = "applied"
        /\ \A q \in Processes : ~Submits(q, r)
    BY <1>1, <1>2, <1>8 DEF FlightInv, FlightSound, FinalizesThePayment
  <2>2. t \in TxsOf(r) /\ t # NoTx
    BY <1>1, <2>1, FinalizedIsNamed, PaymentIsNamed
  <2>3. claim'[r] = [claim[r] EXCEPT !.status = "settled", !.age = 0, !.txHash = t]
    BY <1>1, <1>2, <1>8, TypedState DEF FlightInv, Finalize
  <2>4. claim'[r].status = "settled" /\ claim'[r].txHash = t
    BY <1>1, <2>3 DEF ClaimDocs
  <2>5. claim'[r] # NoClaim
    BY <2>2, <1>3 DEF RefundInv, TxsAreOfClaims, TxsOf
  <2>6. Status(r)' = "settled"
    BY <2>4, <2>5 DEF Status
  <2>7. \A q \in Processes : /\ ~Submits(q, r)'
                             /\ Reconciles(q, r)' => Reconciles(q, r)
    BY <1>4, <2>1 DEF Submits, Reconciles, SubmitStages, ReconcileStages
  <2>8. \A u \in TxsOf(r)' : u # t => Dead(u)'
    <3>1. \A q \in Processes : Unsent(q)' => Unsent(q) /\ job'[q] = job[q]
      BY <1>4 DEF Unsent
    <3>2. \A u \in TxsOf(r) : u # t => Dead(u)
      BY <1>1, <2>1 DEF FlightInv, FlightSound, OneInFlight
    <3>3. QED
      BY <1>3, <3>1, <3>2, DeadStays DEF TxsOf
  <2>9. OneInFlight(r)'
    BY <1>3, <2>1, <2>2, <2>4, <2>6, <2>7, <2>8 DEF OneInFlight, Released
  <2>10. SubmitterOwns(r)' /\ FinalizesThePayment(r)'
    BY <2>6, <2>7 DEF SubmitterOwns, FinalizesThePayment
  <2>11. ReadIsCurrent(r)'
    BY <1>1, <2>6, <2>7 DEF FlightInv, FlightSound, ReadIsCurrent
  <2>12. AgedWithClaim(r)'
    BY <2>6 DEF AgedWithClaim
  <2>13. FlightSound(r)'
    BY <2>9, <2>10, <2>11, <2>12 DEF FlightSound
  <2>14. QED
    BY <1>6, <2>13, StepForOne
<1>9. QED
  BY <1>7, <1>8

LEMMA ConvergenceIsSound ==
    ASSUME FlightInv, RefundInv', NEW p \in Processes,
           RevokeAccess(p) \/ MirrorOnPurchase(p) \/ MarkConverged(p)
    PROVE  \A x \in Refunds : FlightSound(x)'
<1>1. PICK r \in Refunds : r = job[p].refund /\ claim[r] # NoClaim /\ claim[r] \in ClaimDocs
  BY BusyJob DEF RevokeAccess, MirrorOnPurchase, MarkConverged
<1>2. /\ job[p].stage \in {"revoke", "mirror", "converge"} /\ txs' = txs
      /\ EndJob(p) \/ GoTo(p, "mirror") \/ GoTo(p, "converge")
  BY DEF RevokeAccess, MirrorOnPurchase, MarkConverged, chain
<1>3. /\ job'[p].stage \in {"mirror", "converge", "idle"}
      /\ job'[p].stage # "idle" => job'[p].refund = r
      /\ \A q \in Processes : q # p => job'[q] = job[q]
  BY <1>1, <1>2, MovesJob, EndsJob
<1>4. /\ claim'[r] \in {claim[r], [claim[r] EXCEPT !.entitlementRevoked = TRUE]}
      /\ \A x \in Refunds : x # r => claim'[x] = claim[x]
  BY <1>1, TypedState DEF FlightInv, RevokeAccess, MirrorOnPurchase, MarkConverged
<1>5. /\ claim'[r] \in ClaimDocs /\ claim'[r].status = claim[r].status
      /\ claim'[r].txHash = claim[r].txHash /\ claim'[r].age = claim[r].age
      /\ claim'[r].pendingSince = claim[r].pendingSince
  BY <1>1, <1>4 DEF ClaimDocs
<1>6. StepFor(p, r)
  BY <1>1, <1>2, <1>3, <1>4 DEF StepFor
<1>7. job'[p].stage \notin WorkingStages /\ job[p].stage # "checkpoint"
  BY <1>2, <1>3 DEF WorkingStages, SubmitStages, ReconcileStages
<1>8. QED
  BY <1>1, <1>2, <1>5, <1>6, <1>7, JobMoves, NoClaimIsNoDoc

\* A claim that waits for reconciliation has no submitter any more.
LEMMA StuckIsUnsubmitted ==
    ASSUME FlightInv, NEW r \in Refunds, claim[r] # NoClaim, AwaitsReconciliation(claim[r])
    PROVE  /\ \A q \in Processes : ~Submits(q, r)
           /\ \A t \in TxsOf(r) : t # claim[r].txHash => Dead(t)
<1>1. SubmitterOwns(r) /\ OneInFlight(r) /\ Status(r) = claim[r].status
  BY DEF FlightInv, FlightSound, Status
<1>2. ASSUME NEW q \in Processes, Submits(q, r) PROVE FALSE
  <2>1. claim[r].age > STUCK_SUBMITTING /\ claim[r].age <= job[q].age
    BY <1>1, <1>2 DEF SubmitterOwns, AwaitsReconciliation
  <2>2. claim[r] \in ClaimDocs /\ job[q] \in Jobs
    BY TypedState DEF FlightInv
  <2>3. claim[r].age \in Nat /\ job[q].age \in 0..MaxJobTime
    BY <2>2, RefundConstants DEF ClaimDocs, Jobs
  <2>4. QED
    BY <2>1, <2>3, RefundConstants DEF FlightInv, PromptProcesses
<1>3. QED
  BY <1>1, <1>2 DEF OneInFlight

LEMMA StartReconcileIsSound ==
    ASSUME FlightInv, RefundInv', NEW p \in Workers, NEW r \in Refunds, StartReconcile(p, r)
    PROVE  \A x \in Refunds : FlightSound(x)'
<1>1. /\ p \in Processes /\ job[p].stage = "idle" /\ claim[r] # NoClaim
      /\ AwaitsReconciliation(claim[r]) /\ claim' = claim /\ txs' = txs
  BY DEF StartReconcile, Processes, chain
<1>2. PICK j : j = [stage |-> IF claim[r].status = "settled" THEN "finalize"
                              ELSE IF claim[r].txHash = NoTx THEN "retry" ELSE "query",
                    refund |-> r, retryCount |-> claim[r].retryCount,
                    tx |-> claim[r].txHash, pendingSince |-> claim[r].pendingSince,
                    age |-> 0]
  OBVIOUS
<1>3. job'[p] = j /\ \A q \in Processes : q # p => job'[q] = job[q]
  BY <1>1, <1>2, TypedState DEF FlightInv, StartReconcile
<1>4. /\ j.refund = r /\ j.tx = claim[r].txHash /\ j.pendingSince = claim[r].pendingSince
      /\ j.stage \in {"finalize", "retry", "query"}
      /\ j.stage = "finalize" <=> claim[r].status = "settled"
      /\ j.stage = "retry" => claim[r].txHash = NoTx
  BY <1>2
<1>5. StepFor(p, r)
  BY <1>1, <1>3, <1>4 DEF StepFor
<1>6. Status(r)' = Status(r) /\ Status(r) = claim[r].status
  BY <1>1 DEF Status
<1>7. /\ \A q \in Processes : ~Submits(q, r)
      /\ \A t \in TxsOf(r) : t # claim[r].txHash => Dead(t)
  BY <1>1, StuckIsUnsubmitted
<1>8. \A q \in Processes :
        /\ ~Submits(q, r)'
        /\ q # p /\ Finalizes(q, r)' => Finalizes(q, r) /\ job'[q] = job[q]
        /\ q # p /\ Reconciles(q, r)' => Reconciles(q, r) /\ job'[q] = job[q]
  BY <1>3, <1>4, <1>7 DEF Submits, Finalizes, Reconciles, SubmitStages
<1>9. \A q \in Processes : Unsent(q)' => Unsent(q) /\ job'[q] = job[q]
  BY <1>3, <1>4 DEF Unsent
<1>10. TxsOf(r)' = TxsOf(r) /\ \A t \in TxsOf(r) : Dead(t) => Dead(t)'
  BY <1>1, <1>9, DeadStays DEF TxsOf
<1>11. AllDead(r) => AllDead(r)'
  BY <1>10 DEF AllDead
<1>12. FinalizesThePayment(r)'
  <2>1. FinalizesThePayment(r)
    BY <1>1 DEF FlightInv, FlightSound
  <2>2. QED
    BY <1>1, <1>3, <1>4, <1>6, <1>8, <2>1 DEF FinalizesThePayment, Finalizes
<1>13. ReadIsCurrent(r)'
  <2>1. ReadIsCurrent(r)
    BY <1>1 DEF FlightInv, FlightSound
  <2>2. j.stage = "retry" => AllDead(r)'
    <3>1. \A t \in TxsOf(r) : t # NoTx
      BY TypedState DEF FlightInv, TxsOf, NoTx
    <3>2. QED
      BY <1>4, <1>7, <1>11, <3>1 DEF AllDead
  <2>3. \/ Status(r) \in {"pending", "settled"}
        \/ Status(r) = "submitting" /\ claim[r].age > STUCK_SUBMITTING
    BY <1>1, <1>6 DEF AwaitsReconciliation
  <2>4. ASSUME NEW q \in Processes, q # p, Reconciles(q, r)'
        PROVE  /\ q \in Workers
               /\ Status(r) # "settled" =>
                   /\ job'[q].tx = claim[r].txHash
                   /\ job'[q].pendingSince = claim[r].pendingSince
                   /\ job'[q].stage = "retry" => AllDead(r)'
    BY <1>8, <1>11, <2>1, <2>4 DEF ReadIsCurrent
  <2>5. QED
    BY <1>1, <1>3, <1>4, <1>6, <2>2, <2>3, <2>4 DEF ReadIsCurrent
<1>14. OneInFlight(r)'
  <2>1. OneInFlight(r)
    BY <1>1 DEF FlightInv, FlightSound
  <2>2. QED
    BY <1>1, <1>6, <1>7, <1>8, <1>10, <1>11, <2>1 DEF OneInFlight
<1>15. AgedWithClaim(r)'
  <2>1. AgedWithClaim(r)
    BY <1>1 DEF FlightInv, FlightSound
  <2>2. QED
    BY <1>1, <1>6, <2>1 DEF AgedWithClaim, Resolved
<1>16. SubmitterOwns(r)'
  BY <1>8 DEF SubmitterOwns
<1>17. FlightSound(r)'
  BY <1>12, <1>13, <1>14, <1>15, <1>16 DEF FlightSound
<1>18. QED
  BY <1>1, <1>5, <1>17, StepForOne

\* A transaction that the network has not resolved by the time its claim is
\* given up on is past its time bound.
LEMMA ExpiredWithClaim ==
    ASSUME FlightInv, NEW r \in Refunds, claim[r] # NoClaim, claim[r].txHash # NoTx,
           \/ Status(r) = "submitting" /\ claim[r].age > STUCK_SUBMITTING
           \/ /\ Status(r) = "pending" /\ claim[r].pendingSince # Never
              /\ claim[r].pendingSince > PENDING_TIMEOUT
    PROVE  Resolved(claim[r].txHash) \/ txs[claim[r].txHash].age > TX_TIMEBOUND
<1>1. AgedWithClaim(r) /\ claim[r] \in ClaimDocs
  BY TypedState DEF FlightInv, FlightSound
<1>2. PICK t : t = claim[r].txHash
  OBVIOUS
<1>3. t \in DOMAIN txs
  BY <1>2, TypedState DEF FlightInv, TxsAreOfClaims
<1>4. txs[t] \in Transactions
  BY <1>3, TypedState DEF FlightInv
<1>5. txs[t].age \in Nat /\ claim[r].age \in Nat /\ claim[r].pendingSince \in Nat
  BY <1>1, <1>4, RefundConstants DEF Transactions, ClaimDocs, Never
<1>6. \/ Resolved(t) \/ txs[t].age > TX_TIMEBOUND
      \/ Status(r) = "submitting" /\ txs[t].age >= claim[r].age
      \/ Status(r) = "pending" /\ txs[t].age >= claim[r].pendingSince
  BY <1>1, <1>2 DEF AgedWithClaim
<1>7. QED
  BY <1>2, <1>5, <1>6, RefundConstants, TimeBoundsExpireFirst

LEMMA QueryIsSound ==
    ASSUME FlightInv, RefundInv', NEW p \in Processes, QueryStatus(p)
    PROVE  \A x \in Refunds : FlightSound(x)'
<1>1. PICK r \in Refunds : r = job[p].refund /\ claim[r] # NoClaim /\ Reconciles(p, r)
  BY BusyJob DEF QueryStatus, Reconciles, ReconcileStages
<1>2. PICK t : t = job[p].tx
  OBVIOUS
<1>3. PICK s : s = NextStage(txs[t].state, job[p].pendingSince)
  OBVIOUS
<1>4. job[p].stage = "query" /\ claim' = claim /\ txs' = txs /\ GoTo(p, s)
  BY <1>2, <1>3 DEF QueryStatus, chain
<1>5. t \in TxsOf(r) /\ txs[t] \in Transactions /\ t # NoTx
  BY <1>1, <1>2, <1>4, TypedState DEF FlightInv, JobIsSound, TxsOf, NoTx
<1>6. /\ s \in {"finalize", "retry", "poll"}
      /\ s = "finalize" => txs[t].state = "applied"
      /\ s = "retry" => \/ txs[t].state = "failed"
                        \/ /\ txs[t].state \notin {"applied", "failed"}
                           /\ job[p].pendingSince # Never
                           /\ job[p].pendingSince > PENDING_TIMEOUT
  BY <1>3 DEF NextStage
<1>7. /\ job'[p].stage = s /\ job'[p].tx = t /\ job'[p].refund = r
      /\ job'[p].pendingSince = job[p].pendingSince
      /\ \A q \in Processes : q # p => job'[q] = job[q]
  BY <1>1, <1>2, <1>4, MovesJob
<1>8. StepFor(p, r)
  BY <1>1, <1>4, <1>7 DEF StepFor
<1>9. Status(r)' = Status(r)
  BY <1>4 DEF Status
<1>10. \A q \in Processes : q # p => ~Submits(q, r) /\ ~Reconciles(q, r)
  BY <1>1, ReconcilerIsAlone
<1>11. \A q \in Processes :
        /\ ~Submits(q, r)'
        /\ q # p /\ Finalizes(q, r)' => Finalizes(q, r) /\ job'[q] = job[q]
        /\ Reconciles(q, r)' => q = p
  BY <1>6, <1>7, <1>10 DEF Submits, Finalizes, Reconciles, SubmitStages
<1>12. /\ p \in Workers
       /\ \/ Status(r) \in {"pending", "settled"}
          \/ Status(r) = "submitting" /\ claim[r].age > STUCK_SUBMITTING
       /\ Status(r) # "settled" =>
              t = claim[r].txHash /\ job[p].pendingSince = claim[r].pendingSince
  BY <1>1, <1>2 DEF FlightInv, FlightSound, ReadIsCurrent
<1>13. \A u \in TxsOf(r) : u # claim[r].txHash => Dead(u)
  <2>1. ~\E q \in Processes : Submits(q, r) /\ job[q].stage = "checkpoint"
    BY <1>1, <1>10, StageKinds
  <2>2. QED
    BY <1>1, <2>1 DEF FlightInv, FlightSound, OneInFlight
<1>14. \A q \in Processes : Unsent(q)' => Unsent(q) /\ job'[q] = job[q]
  BY <1>6, <1>7 DEF Unsent
<1>15. TxsOf(r)' = TxsOf(r) /\ \A u \in TxsOf(r) : Dead(u) => Dead(u)'
  BY <1>4, <1>14, DeadStays DEF TxsOf
<1>16. FinalizesThePayment(r)'
  <2>1. FinalizesThePayment(r)
    BY <1>1 DEF FlightInv, FlightSound
  <2>2. QED
    BY <1>4, <1>6, <1>7, <1>9, <1>11, <1>12, <2>1 DEF FinalizesThePayment, Finalizes
<1>17. ReadIsCurrent(r)'
  <2>1. ASSUME Status(r) # "settled", s = "retry" PROVE AllDead(r)'
    <3>1. CASE txs[t].state = "failed"
      BY <1>12, <1>13, <1>15, <2>1, <3>1 DEF AllDead, Dead
    <3>2. CASE txs[t].state # "failed"
      <4>1. /\ txs[t].state \notin {"applied", "failed"}
            /\ claim[r].pendingSince # Never /\ claim[r].pendingSince > PENDING_TIMEOUT
        BY <1>6, <1>12, <2>1, <3>2
      <4>2. Resolved(t) \/ txs[t].age > TX_TIMEBOUND
        BY <1>1, <1>5, <1>12, <2>1, <4>1, ExpiredWithClaim
      <4>3. Dead(t)
        BY <4>1, <4>2 DEF Dead, Resolved
      <4>4. QED
        BY <1>12, <1>13, <1>15, <2>1, <4>3 DEF AllDead
    <3>3. QED
      BY <3>1, <3>2
  <2>2. QED
    BY <1>4, <1>7, <1>9, <1>11, <1>12, <2>1 DEF ReadIsCurrent
<1>18. OneInFlight(r)'
  <2>1. Status(r) \notin Released
    BY <1>12 DEF Released
  <2>2. Status(r) = "settled" =>
            claim[r].txHash # NoTx /\ txs[claim[r].txHash].state = "applied"
    BY <1>1 DEF FlightInv, FlightSound, OneInFlight
  <2>3. QED
    BY <1>4, <1>9, <1>11, <1>13, <1>15, <2>1, <2>2 DEF OneInFlight
<1>19. AgedWithClaim(r)'
  <2>1. AgedWithClaim(r)
    BY <1>1 DEF FlightInv, FlightSound
  <2>2. QED
    BY <1>4, <1>9, <2>1 DEF AgedWithClaim, Resolved
<1>20. SubmitterOwns(r)'
  BY <1>11 DEF SubmitterOwns
<1>21. FlightSound(r)'
  BY <1>16, <1>17, <1>18, <1>19, <1>20 DEF FlightSound
<1>22. QED
  BY <1>8, <1>21, StepForOne

LEMMA StillPendingIsSound ==
    ASSUME FlightInv, RefundInv', NEW p \in Processes, StillPending(p)
    PROVE  \A x \in Refunds : FlightSound(x)'
<1>1. PICK r \in Refunds : r = job[p].refund /\ claim[r] # NoClaim /\ Reconciles(p, r)
                           /\ claim[r] \in ClaimDocs /\ Status(r) = claim[r].status
  BY BusyJob DEF StillPending, Reconciles, ReconcileStages
<1>2. job[p].stage = "poll" /\ EndJob(p) /\ txs' = txs
  BY DEF StillPending, chain
<1>3. job'[p].stage = "idle" /\ \A q \in Processes : q # p => job'[q] = job[q]
  BY <1>2, EndsJob
<1>4. \A x \in Refunds : x # r => claim'[x] = claim[x]
  BY <1>1, TypedState DEF FlightInv, StillPending
<1>5. StepFor(p, r)
  BY <1>1, <1>2, <1>3, <1>4 DEF StepFor
<1>6. CASE Status(r) \notin {"submitting", "pending"}
  <2>1. claim'[r] = claim[r]
    BY <1>1, <1>6 DEF StillPending
  <2>2. job'[p].stage \notin WorkingStages /\ job[p].stage # "checkpoint"
    BY <1>2, <1>3 DEF WorkingStages, SubmitStages, ReconcileStages
  <2>3. QED
    BY <1>1, <1>2, <1>5, <2>1, <2>2, JobMoves
<1>7. CASE Status(r) \in {"submitting", "pending"}
  <2>1. PICK since : since = IF job[p].pendingSince = Never THEN 0 ELSE job[p].pendingSince
    OBVIOUS
  <2>2. claim'[r] = [claim[r] EXCEPT !.status = "pending", !.age = 0, !.pendingSince = since]
    BY <1>1, <1>7, <2>1, TypedState DEF FlightInv, StillPending
  <2>3. /\ claim'[r].status = "pending" /\ claim'[r].pendingSince = since
        /\ claim'[r].txHash = claim[r].txHash
    BY <1>1, <2>2 DEF ClaimDocs
  <2>4. Status(r)' = "pending"
    <3>1. since \in 0..Never
      <4>1. job[p] \in Jobs
        BY TypedState DEF FlightInv
      <4>2. QED
        BY <2>1, <4>1, RefundConstants DEF Jobs, Never
    <3>2. claim'[r] \in ClaimDocs
      <4>1. 0 \in 0..(STUCK_SUBMITTING + 1)
        BY RefundConstants
      <4>2. QED
        BY <1>1, <2>2, <3>1, <4>1 DEF ClaimDocs, Statuses
    <3>3. QED
      BY <2>3, <3>2, NoClaimIsNoDoc DEF Status
  <2>5. \A q \in Processes : q # p => ~Submits(q, r) /\ ~Reconciles(q, r)
    BY <1>1, ReconcilerIsAlone
  <2>6. \A q \in Processes :
          /\ ~Submits(q, r)' /\ ~Reconciles(q, r)'
          /\ Finalizes(q, r)' => Finalizes(q, r) /\ job'[q] = job[q]
    BY <1>3, <2>5 DEF Submits, Finalizes, Reconciles, SubmitStages, ReconcileStages
  <2>7. /\ \/ Status(r) = "pending"
           \/ Status(r) = "submitting" /\ claim[r].age > STUCK_SUBMITTING
        /\ job[p].pendingSince = claim[r].pendingSince
    BY <1>1, <1>7 DEF FlightInv, FlightSound, ReadIsCurrent
  <2>8. \A u \in TxsOf(r)' : u # claim[r].txHash => Dead(u)'
    <3>1. ~\E q \in Processes : Submits(q, r) /\ job[q].stage = "checkpoint"
      BY <1>1, <2>5, StageKinds
    <3>2. \A u \in TxsOf(r) : u # claim[r].txHash => Dead(u)
      BY <1>1, <3>1 DEF FlightInv, FlightSound, OneInFlight
    <3>3. \A q \in Processes : Unsent(q)' => Unsent(q) /\ job'[q] = job[q]
      BY <1>3 DEF Unsent
    <3>4. QED
      BY <1>2, <3>2, <3>3, DeadStays DEF TxsOf
  <2>9. OneInFlight(r)'
    BY <2>3, <2>4, <2>6, <2>8 DEF OneInFlight, Released
  <2>10. SubmitterOwns(r)' /\ ReadIsCurrent(r)'
    BY <2>6 DEF SubmitterOwns, ReadIsCurrent
  <2>11. FinalizesThePayment(r)'
    BY <1>1, <1>2, <1>7, <2>3, <2>4, <2>6 DEF FlightInv, FlightSound, FinalizesThePayment
  <2>12. AgedWithClaim(r)'
    <3>1. SUFFICES ASSUME claim[r].txHash # NoTx
                   PROVE  \/ Resolved(claim[r].txHash)
                          \/ txs[claim[r].txHash].age > TX_TIMEBOUND
                          \/ txs[claim[r].txHash].age >= since
      BY <1>2, <2>3, <2>4 DEF AgedWithClaim, Resolved
    <3>2. CASE Status(r) = "submitting"
      BY <1>1, <2>7, <3>1, <3>2, ExpiredWithClaim
    <3>3. CASE Status(r) = "pending" /\ claim[r].pendingSince # Never
      BY <1>1, <2>1, <2>7, <3>1, <3>3 DEF FlightInv, FlightSound, AgedWithClaim
    <3>4. CASE Status(r) = "pending" /\ claim[r].pendingSince = Never
      <4>1. PICK t : t = claim[r].txHash
        OBVIOUS
      <4>2. txs[t] \in Transactions
        BY <1>1, <3>1, <4>1, TypedState DEF FlightInv, TxsAreOfClaims
      <4>3. txs[t].age \in Nat
        BY <4>2, RefundConstants DEF Transactions
      <4>4. since = 0
        BY <2>1, <2>7, <3>4
      <4>5. QED
        BY <4>1, <4>3, <4>4
    <3>5. QED
      BY <1>7, <3>2, <3>3, <3>4
  <2>13. FlightSound(r)'
    BY <2>9, <2>10, <2>11, <2>12 DEF FlightSound
  <2>14. QED
    BY <1>5, <2>13, StepForOne
<1>8. QED
  BY <1>6, <1>7

\* A process that dies between building and recording leaves a transaction that
\* nobody will send.
LEMMA AbandonIsSound ==
    ASSUME FlightInv, RefundInv', NEW p \in Processes, Abandon(p)
    PROVE  \A x \in Refunds : FlightSound(x)'
<1>1. PICK r \in Refunds : r = job[p].refund /\ claim[r] # NoClaim
  BY BusyJob DEF Abandon
<1>2. EndJob(p) /\ claim' = claim /\ txs' = txs
  BY DEF Abandon, chain
<1>3. job'[p].stage = "idle" /\ \A q \in Processes : q # p => job'[q] = job[q]
  BY <1>2, EndsJob
<1>4. StepFor(p, r)
  BY <1>1, <1>2, <1>3 DEF StepFor
<1>5. CASE job[p].stage # "checkpoint"
  <2>1. job'[p].stage \notin WorkingStages
    BY <1>3 DEF WorkingStages, SubmitStages, ReconcileStages
  <2>2. QED
    BY <1>1, <1>2, <1>4, <1>5, <2>1, JobMoves
<1>6. CASE job[p].stage = "checkpoint"
  <2>1. Submits(p, r)
    BY <1>1, <1>6 DEF Submits, SubmitStages
  <2>2. \A q \in Processes : q # p => ~Works(q, r)
    BY <1>1, <2>1, SubmitterIsAlone
  <2>3. \A q \in Processes : ~Submits(q, r)' /\ ~Finalizes(q, r)' /\ ~Reconciles(q, r)'
    BY <1>3, <2>2 DEF Works, Submits, Finalizes, Reconciles, WorkingStages, SubmitStages,
       ReconcileStages
  <2>4. Status(r)' = "submitting"
    BY <1>1, <1>2, <2>1 DEF FlightInv, FlightSound, SubmitterOwns, Status
  <2>5. PICK t : t = job[p].tx
    OBVIOUS
  <2>6. \A u \in TxsOf(r) : u # t => Dead(u)
    BY <1>1, <1>6, <2>1, <2>5 DEF FlightInv, FlightSound, OneInFlight
  <2>7. \A q \in Processes : Unsent(q)' => Unsent(q) /\ job'[q] = job[q] /\ job'[q].tx # t
    BY <1>3, <1>6, <2>5, TypedState DEF FlightInv, UnsentAreDistinct, Unsent
  <2>8. Dead(t)'
    <3>1. txs[t].state = "built"
      BY <1>6, <2>5, TypedState DEF FlightInv, JobIsSound, Unsent
    <3>2. QED
      BY <1>2, <2>7, <3>1 DEF Dead, Unheld
  <2>9. \A u \in TxsOf(r)' : Dead(u)'
    BY <1>2, <2>6, <2>7, <2>8, DeadStays DEF TxsOf
  <2>10. OneInFlight(r)'
    BY <2>3, <2>4, <2>9 DEF OneInFlight, Released
  <2>11. SubmitterOwns(r)' /\ FinalizesThePayment(r)' /\ ReadIsCurrent(r)'
    BY <2>3 DEF SubmitterOwns, FinalizesThePayment, ReadIsCurrent
  <2>12. AgedWithClaim(r)'
    <3>1. AgedWithClaim(r) /\ Status(r) = Status(r)'
      BY <1>1, <1>2 DEF FlightInv, FlightSound, Status
    <3>2. QED
      BY <1>2, <3>1 DEF AgedWithClaim, Resolved
  <2>13. FlightSound(r)'
    BY <2>10, <2>11, <2>12 DEF FlightSound
  <2>14. QED
    BY <1>4, <2>13, StepForOne
<1>7. QED
  BY <1>5, <1>6

-----------------------------------------------------------------------------
(* The ledger and time. *)

LEMMA ApplyIsSound ==
    ASSUME FlightInv, RefundInv', NEW t \in DOMAIN txs, ApplyTransaction(t)
    PROVE  \A x \in Refunds : FlightSound(x)'
<1>1. PICK o \in {"applied", "failed"} : txs' = [txs EXCEPT ![t].state = o]
  BY DEF ApplyTransaction
<1>2. claim' = claim /\ job' = job /\ CanApply(t)
  BY DEF ApplyTransaction
<1>3. txs[t] \in Transactions /\ txs[t].refund \in Refunds
  BY TypedState DEF FlightInv
<1>4. /\ DOMAIN txs' = DOMAIN txs /\ txs'[t].state = o /\ txs'[t].refund = txs[t].refund
      /\ txs'[t].age = txs[t].age
      /\ \A u \in DOMAIN txs : u # t => txs'[u] = txs[u]
  BY <1>1, <1>3 DEF Transactions
<1>5. PICK r \in Refunds : r = txs[t].refund
  BY <1>3
<1>6. ASSUME NEW x \in Refunds, x # r PROVE FlightSound(x)'
  <2>1. CASE claim[x] = NoClaim
    BY <1>2, <2>1 DEF FlightSound
  <2>2. CASE claim[x] # NoClaim
    <3>1. TxsOf(x)' = TxsOf(x) /\ \A u \in TxsOf(x) : txs'[u] = txs[u]
      BY <1>4, <1>5, <1>6 DEF TxsOf
    <3>2. QED
      BY <1>2, <2>2, <3>1, ClaimUntouched DEF FlightInv
  <2>3. QED
    BY <2>1, <2>2
<1>7. FlightSound(r)'
  <2>1. claim[r] # NoClaim /\ t \in TxsOf(r)
    BY <1>5, TypedState DEF FlightInv, TxsAreOfClaims, TxsOf
  <2>2. /\ SubmitterOwns(r) /\ FinalizesThePayment(r) /\ ReadIsCurrent(r)
        /\ OneInFlight(r) /\ AgedWithClaim(r)
    BY <2>1 DEF FlightInv, FlightSound
  <2>3. ~Dead(t) /\ txs[t].state = "sent"
    <3>1. txs[t].age \in Nat
      BY <1>3, RefundConstants DEF Transactions
    <3>2. QED
      BY <1>2, <3>1, RefundConstants DEF CanApply, Dead
  <2>4. Status(r)' = Status(r) /\ Status(r) = claim[r].status
    BY <1>2, <2>1 DEF Status
  <2>5. ~AllDead(r)
    BY <2>1, <2>3 DEF AllDead
  <2>6. \A q \in Processes : Submits(q, r) => job[q].stage # "checkpoint"
    <3>1. SUFFICES ASSUME NEW q \in Processes, Submits(q, r), job[q].stage = "checkpoint"
                   PROVE  FALSE
      OBVIOUS
    <3>2. t = job[q].tx
      BY <2>1, <2>2, <2>3, <3>1 DEF OneInFlight
    <3>3. txs[t].state = "built"
      BY <3>1, <3>2, TypedState DEF FlightInv, JobIsSound, Unsent
    <3>4. QED
      BY <2>3, <3>3
  <2>7. t = claim[r].txHash /\ \A u \in TxsOf(r) : u # t => Dead(u)
    BY <2>1, <2>2, <2>3, <2>6 DEF OneInFlight
  <2>8. /\ \A q \in Processes : /\ Submits(q, r)' <=> Submits(q, r)
                                /\ Finalizes(q, r)' <=> Finalizes(q, r)
                                /\ Reconciles(q, r)' <=> Reconciles(q, r)
        /\ \A q \in Processes : Unsent(q)' <=> Unsent(q)
    BY <1>2 DEF Submits, Finalizes, Reconciles, Unsent
  <2>9. TxsOf(r)' = TxsOf(r) /\ TxsOf(r) \subseteq DOMAIN txs
    BY <1>4 DEF TxsOf
  <2>10. \A u \in TxsOf(r)' : u # t => Dead(u)'
    BY <1>2, <1>4, <2>7, <2>8, <2>9, DeadStays
  \* Nobody finalizes or has settled a claim whose transaction is undecided.
  <2>11. (\A q \in Processes : ~Finalizes(q, r)) /\ Status(r) # "settled"
    BY <2>1, <2>2, <2>3, <2>7, FinalizedIsNamed DEF OneInFlight
  <2>12. SubmitterOwns(r)'
    BY <1>2, <2>2, <2>4, <2>8 DEF SubmitterOwns
  <2>13. FinalizesThePayment(r)'
    BY <2>8, <2>11 DEF FinalizesThePayment
  <2>14. ReadIsCurrent(r)'
    BY <1>2, <2>2, <2>4, <2>5, <2>8, <2>11 DEF ReadIsCurrent
  <2>15. OneInFlight(r)'
    <3>1. Status(r) \notin Released
      BY <2>2, <2>5 DEF OneInFlight
    <3>2. \A q \in Processes : Submits(q, r) => job[q].stage \notin {"preflight", "checkpoint"}
      BY <2>2, <2>5, <2>6 DEF OneInFlight
    <3>3. QED
      BY <1>2, <2>4, <2>7, <2>8, <2>10, <2>11, <3>1, <3>2 DEF OneInFlight
  <2>16. AgedWithClaim(r)'
    BY <1>2, <1>4, <2>7 DEF AgedWithClaim, Resolved
  <2>17. QED
    BY <2>12, <2>13, <2>14, <2>15, <2>16 DEF FlightSound
<1>8. QED
  BY <1>6, <1>7

\* Time: claims, transactions and jobs grow old together.
LEMMA TickIsSound ==
    ASSUME FlightInv, RefundInv', Tick
    PROVE  \A x \in Refunds : FlightSound(x)'
<1>1. /\ claim' = [r \in Refunds |->
             IF claim[r] = NoClaim THEN NoClaim
             ELSE [claim[r] EXCEPT
                    !.age = IF claim[r].status = "submitting"
                            THEN Older(@, STUCK_SUBMITTING) ELSE @,
                    !.pendingSince = Since(@)]]
      /\ txs' = [t \in DOMAIN txs |->
             IF txs[t].state \in {"built", "sent"}
             THEN [txs[t] EXCEPT !.age = Older(@, TX_TIMEBOUND)]
             ELSE txs[t]]
      /\ job' = [p \in Processes |->
             IF job[p].stage = "idle" THEN Idle
             ELSE [job[p] EXCEPT !.pendingSince = Since(@),
                                 !.age = IF JobsMayStall THEN 0 ELSE @ + 1]]
  BY DEF Tick
<1>2. ~JobsMayStall
  BY RefundConstants DEF FlightInv, PromptProcesses, JobsMayStall
<1>3. ASSUME NEW p \in Processes
      PROVE  /\ job'[p].stage = job[p].stage
             /\ job[p].stage # "idle" =>
                  /\ job'[p].refund = job[p].refund /\ job'[p].tx = job[p].tx
                  /\ job'[p].pendingSince = Since(job[p].pendingSince)
                  /\ job'[p].age = job[p].age + 1 /\ job[p].age \in Nat
  <2>1. job[p] \in Jobs
    BY TypedState DEF FlightInv
  <2>2. CASE job[p].stage = "idle"
    BY <1>1, <2>2 DEF Idle
  <2>3. CASE job[p].stage # "idle"
    <3>1. job'[p] = [job[p] EXCEPT !.pendingSince = Since(@), !.age = @ + 1]
      BY <1>1, <1>2, <2>3
    <3>2. QED
      BY <2>1, <3>1, RefundConstants DEF Jobs
  <2>4. QED
    BY <2>2, <2>3
<1>4. /\ DOMAIN txs' = DOMAIN txs
      /\ \A t \in DOMAIN txs :
           /\ txs'[t].state = txs[t].state /\ txs'[t].refund = txs[t].refund
           /\ txs[t].age \in Nat /\ txs'[t].age \in Nat
           /\ txs'[t].age >= txs[t].age
           /\ \/ Resolved(t) \/ txs'[t].age > TX_TIMEBOUND
              \/ txs'[t].age = txs[t].age + 1
  <2>1. DOMAIN txs' = DOMAIN txs
    BY <1>1
  <2>2. SUFFICES ASSUME NEW t \in DOMAIN txs
                 PROVE  /\ txs'[t].state = txs[t].state /\ txs'[t].refund = txs[t].refund
                        /\ txs[t].age \in Nat /\ txs'[t].age \in Nat
                        /\ txs'[t].age >= txs[t].age
                        /\ \/ Resolved(t) \/ txs'[t].age > TX_TIMEBOUND
                           \/ txs'[t].age = txs[t].age + 1
    BY <2>1
  <2>3. txs[t] \in Transactions
    BY TypedState DEF FlightInv
  <2>4. txs[t].age \in Nat
    BY <2>3, RefundConstants DEF Transactions
  <2>5. CASE txs[t].state \in {"built", "sent"}
    <3>1. txs'[t] = [txs[t] EXCEPT !.age = Older(@, TX_TIMEBOUND)]
      BY <1>1, <2>5
    <3>2. /\ txs'[t].state = txs[t].state /\ txs'[t].refund = txs[t].refund
          /\ txs'[t].age = Older(txs[t].age, TX_TIMEBOUND)
      BY <2>3, <3>1 DEF Transactions
    <3>3. QED
      BY <2>4, <3>2, RefundConstants DEF Older
  <2>6. CASE txs[t].state \notin {"built", "sent"}
    <3>1. txs'[t] = txs[t]
      BY <1>1, <2>6
    <3>2. Resolved(t)
      BY <2>3, <2>6 DEF Resolved, Transactions
    <3>3. QED
      BY <2>4, <3>1, <3>2
  <2>7. QED
    BY <2>5, <2>6
<1>5. \A q \in Processes : /\ Unsent(q)' <=> Unsent(q)
                           /\ Unsent(q) => job'[q].tx = job[q].tx
  BY <1>3 DEF Unsent
<1>6. \A t \in DOMAIN txs : Dead(t) => Dead(t)'
  <2>1. \A t : Unheld(t) => Unheld(t)'
    BY <1>5 DEF Unheld
  <2>2. ASSUME NEW t \in DOMAIN txs, Dead(t) PROVE Dead(t)'
    <3>1. txs[t].age > TX_TIMEBOUND => txs'[t].age > TX_TIMEBOUND
      BY <1>4, RefundConstants
    <3>2. QED
      BY <1>4, <2>1, <2>2, <3>1 DEF Dead
  <2>3. QED
    BY <2>2
<1>7. SUFFICES ASSUME NEW r \in Refunds, claim[r] # NoClaim PROVE FlightSound(r)'
  BY <1>1 DEF FlightSound
<1>8. /\ SubmitterOwns(r) /\ FinalizesThePayment(r) /\ ReadIsCurrent(r)
      /\ OneInFlight(r) /\ AgedWithClaim(r)
  BY <1>7 DEF FlightInv, FlightSound
<1>9. claim[r] \in ClaimDocs /\ claim[r].age \in Nat /\ claim[r].pendingSince \in Nat
  <2>1. claim[r] \in ClaimDocs
    BY <1>7, TypedState DEF FlightInv
  <2>2. QED
    BY <2>1, RefundConstants DEF ClaimDocs, Never
<1>10. /\ claim'[r].status = claim[r].status /\ claim'[r].txHash = claim[r].txHash
       /\ claim'[r].pendingSince = Since(claim[r].pendingSince)
       /\ claim[r].status = "submitting" =>
              claim'[r].age = Older(claim[r].age, STUCK_SUBMITTING)
  <2>1. claim'[r] = [claim[r] EXCEPT
                       !.age = IF claim[r].status = "submitting"
                               THEN Older(@, STUCK_SUBMITTING) ELSE @,
                       !.pendingSince = Since(@)]
    BY <1>1, <1>7
  <2>2. QED
    BY <1>9, <2>1 DEF ClaimDocs
<1>11. claim'[r] # NoClaim
  BY <1>7, <1>9, AgedClaim, NoClaimIsNoDoc DEF FlightInv, RefundInv, CoreInv
<1>12. Status(r)' = Status(r) /\ Status(r) = claim[r].status
  BY <1>7, <1>10, <1>11 DEF Status
<1>13. \A q \in Processes :
         /\ Submits(q, r)' <=> Submits(q, r)
         /\ Finalizes(q, r)' <=> Finalizes(q, r)
         /\ Reconciles(q, r)' <=> Reconciles(q, r)
  BY <1>3 DEF Submits, Finalizes, Reconciles, SubmitStages, ReconcileStages
<1>14. \A q \in Processes : Submits(q, r) \/ Finalizes(q, r) \/ Reconciles(q, r) =>
         /\ job'[q].stage = job[q].stage /\ job'[q].tx = job[q].tx
         /\ job'[q].pendingSince = Since(job[q].pendingSince)
         /\ job'[q].age = job[q].age + 1 /\ job[q].age \in Nat
  BY <1>3 DEF Submits, Finalizes, Reconciles, SubmitStages, ReconcileStages
<1>15. TxsOf(r)' = TxsOf(r) /\ TxsOf(r) \subseteq DOMAIN txs
  BY <1>4 DEF TxsOf
<1>16. AllDead(r) => AllDead(r)'
  BY <1>6, <1>15 DEF AllDead
<1>17. claim[r].txHash # NoTx => claim[r].txHash \in DOMAIN txs
  BY <1>7, TypedState DEF FlightInv, TxsAreOfClaims
<1>18. SubmitterOwns(r)'
  <2>1. ASSUME NEW q \in Processes, Submits(q, r) PROVE claim'[r].age <= job'[q].age
    <3>1. Status(r) = "submitting" /\ claim[r].age <= job[q].age
      BY <1>8, <2>1 DEF SubmitterOwns
    <3>2. QED
      BY <1>9, <1>10, <1>12, <1>14, <2>1, <3>1, RefundConstants DEF Older
  <2>2. QED
    BY <1>8, <1>10, <1>12, <1>13, <1>14, <2>1 DEF SubmitterOwns
<1>19. FinalizesThePayment(r)'
  <2>1. SUFFICES ASSUME NEW q \in Processes, Finalizes(q, r),
                        Status(r) \in {"submitting", "pending"}
                 PROVE  job'[q].tx = claim'[r].txHash /\ txs'[job'[q].tx].state = "applied"
    BY <1>8, <1>12, <1>13 DEF FinalizesThePayment
  <2>2. job[q].tx = claim[r].txHash
    BY <1>8, <2>1 DEF FinalizesThePayment
  <2>3. PICK t \in TxsOf(r) : t = claim[r].txHash /\ txs[t].state = "applied"
    BY <1>7, <2>1, FinalizedIsNamed
  <2>4. QED
    BY <1>4, <1>10, <1>14, <1>15, <2>1, <2>2, <2>3
<1>20. ReadIsCurrent(r)'
  <2>1. SUFFICES ASSUME NEW q \in Processes, Reconciles(q, r)
                 PROVE  /\ q \in Workers
                        /\ \/ Status(r)' \in {"pending", "settled"}
                           \/ Status(r)' = "submitting" /\ claim'[r].age > STUCK_SUBMITTING
                        /\ Status(r)' # "settled" =>
                            /\ job'[q].tx = claim'[r].txHash
                            /\ job'[q].pendingSince = claim'[r].pendingSince
                            /\ job'[q].stage = "retry" => AllDead(r)'
    BY <1>13 DEF ReadIsCurrent
  <2>2. /\ q \in Workers
        /\ \/ Status(r) \in {"pending", "settled"}
           \/ Status(r) = "submitting" /\ claim[r].age > STUCK_SUBMITTING
        /\ Status(r) # "settled" =>
            /\ job[q].tx = claim[r].txHash
            /\ job[q].pendingSince = claim[r].pendingSince
            /\ job[q].stage = "retry" => AllDead(r)
    BY <1>8, <2>1 DEF ReadIsCurrent
  <2>3. Status(r) = "submitting" /\ claim[r].age > STUCK_SUBMITTING =>
            claim'[r].age > STUCK_SUBMITTING
    BY <1>9, <1>10, <1>12, RefundConstants DEF Older
  <2>4. QED
    BY <1>10, <1>12, <1>14, <1>16, <2>1, <2>2, <2>3
<1>21. OneInFlight(r)'
  <2>1. ASSUME NEW q \in Processes, Submits(q, r)
        PROVE  /\ job'[q].stage = "preflight" => AllDead(r)'
               /\ job'[q].stage = "checkpoint" =>
                     \A t \in TxsOf(r)' : t # job'[q].tx => Dead(t)'
    BY <1>6, <1>8, <1>14, <1>15, <1>16, <2>1 DEF OneInFlight
  <2>2. \/ \E q \in Processes : Submits(q, r)' /\ job'[q].stage = "checkpoint"
        \/ \A t \in TxsOf(r)' : t # claim'[r].txHash => Dead(t)'
    <3>1. CASE \E q \in Processes : Submits(q, r) /\ job[q].stage = "checkpoint"
      BY <1>13, <1>14, <3>1
    <3>2. CASE \A t \in TxsOf(r) : t # claim[r].txHash => Dead(t)
      BY <1>6, <1>10, <1>15, <3>2
    <3>3. QED
      BY <1>8, <3>1, <3>2 DEF OneInFlight
  <2>3. Status(r)' = "settled" =>
            claim'[r].txHash # NoTx /\ txs'[claim'[r].txHash].state = "applied"
    BY <1>4, <1>8, <1>10, <1>12, <1>17 DEF OneInFlight
  <2>4. Status(r)' \in Released => AllDead(r)'
    BY <1>8, <1>12, <1>16 DEF OneInFlight
  <2>5. QED
    BY <1>13, <2>1, <2>2, <2>3, <2>4 DEF OneInFlight
<1>22. AgedWithClaim(r)'
  <2>1. SUFFICES ASSUME claim[r].txHash # NoTx PROVE AgedWithClaim(r)'
    BY <1>10 DEF AgedWithClaim
  <2>2. PICK t \in DOMAIN txs : t = claim[r].txHash
    BY <1>17, <2>1
  <2>3. /\ Resolved(t) => Resolved(t)'
        /\ txs[t].age > TX_TIMEBOUND => txs'[t].age > TX_TIMEBOUND
    BY <1>4, <2>2, RefundConstants DEF Resolved
  <2>4. Status(r) = "submitting" =>
            Resolved(t)' \/ txs'[t].age > TX_TIMEBOUND \/ txs'[t].age >= claim'[r].age
    <3>1. SUFFICES ASSUME Status(r) = "submitting"
                   PROVE  Resolved(t)' \/ txs'[t].age > TX_TIMEBOUND
                              \/ txs'[t].age >= claim'[r].age
      OBVIOUS
    <3>2. Resolved(t) \/ txs[t].age > TX_TIMEBOUND \/ txs[t].age >= claim[r].age
      BY <1>8, <2>1, <2>2, <3>1 DEF AgedWithClaim
    <3>3. claim'[r].age \in {claim[r].age, claim[r].age + 1}
      BY <1>10, <1>12, <3>1 DEF Older
    <3>4. Resolved(t) \/ txs'[t].age > TX_TIMEBOUND \/ txs'[t].age = txs[t].age + 1
      BY <1>4, <2>2
    <3>5. txs[t].age \in Nat
      BY <1>4, <2>2
    <3>6. QED
      BY <1>9, <2>3, <3>2, <3>3, <3>4, <3>5, RefundConstants
  <2>5. Status(r) = "pending" /\ claim'[r].pendingSince # Never =>
            Resolved(t)' \/ txs'[t].age > TX_TIMEBOUND
                \/ txs'[t].age >= claim'[r].pendingSince
    <3>1. SUFFICES ASSUME Status(r) = "pending", claim'[r].pendingSince # Never
                   PROVE  Resolved(t)' \/ txs'[t].age > TX_TIMEBOUND
                              \/ txs'[t].age >= claim'[r].pendingSince
      OBVIOUS
    <3>2. claim[r].pendingSince # Never
      BY <1>10, <3>1 DEF Since
    <3>3. Resolved(t) \/ txs[t].age > TX_TIMEBOUND \/ txs[t].age >= claim[r].pendingSince
      BY <1>8, <2>1, <2>2, <3>1, <3>2 DEF AgedWithClaim
    <3>4. claim'[r].pendingSince \in {claim[r].pendingSince, claim[r].pendingSince + 1}
      BY <1>10, <3>2 DEF Since, Older
    <3>5. Resolved(t) \/ txs'[t].age > TX_TIMEBOUND \/ txs'[t].age = txs[t].age + 1
      BY <1>4, <2>2
    <3>6. txs[t].age \in Nat
      BY <1>4, <2>2
    <3>7. QED
      BY <1>9, <2>3, <3>3, <3>4, <3>5, <3>6, RefundConstants
  <2>6. QED
    BY <1>10, <1>12, <2>2, <2>4, <2>5 DEF AgedWithClaim
<1>23. QED
  BY <1>18, <1>19, <1>20, <1>21, <1>22 DEF FlightSound

-----------------------------------------------------------------------------
(* One live claim per purchase, and the theorems. *)

\* A claim keeps its purchase, and once rejected it stays rejected.
LEMMA ClaimGoesOn ==
    ASSUME RefundInv, Next, NEW r \in Refunds, claim[r] # NoClaim
    PROVE  /\ claim'[r].purchase = claim[r].purchase
           /\ claim[r].status = "rejected" => claim'[r].status = "rejected"
<1>1. /\ claim[r] \in ClaimDocs /\ Status(r) = claim[r].status
      /\ claim \in [Refunds -> ClaimDocs \cup {NoClaim}]
  BY TypedState DEF Status
<1> DEFINE Goal == /\ claim'[r].purchase = claim[r].purchase
                   /\ claim[r].status = "rejected" => claim'[r].status = "rejected"
<1>2. CASE claim'[r] = claim[r]
  BY <1>2
<1>3. CASE claim'[r] # claim[r]
  <2>1. ASSUME NEW x \in Refunds, NEW q \in Purchases, RequestRefund(x, q) PROVE Goal
    BY <1>1, <1>3, <2>1 DEF RequestRefund
  <2>2. ASSUME NEW x \in Refunds, RejectRefund(x) PROVE Goal
    <3>1. claim'[r] = [claim[r] EXCEPT !.status = "rejected", !.age = 0]
      BY <1>1, <1>3, <2>2 DEF RejectRefund
    <3>2. QED
      BY <1>1, <3>1 DEF ClaimDocs
  <2>3. ASSUME NEW p \in Processes, NEW x \in Refunds, ApproveRefund(p, x) PROVE Goal
    <3>1. claim'[r] = [claim[r] EXCEPT !.status = "approved", !.age = 0]
          /\ Status(r) = "requested"
      BY <1>1, <1>3, <2>3 DEF ApproveRefund
    <3>2. QED
      BY <1>1, <3>1 DEF ClaimDocs
  <2>4. ASSUME NEW p \in Processes, NEW x \in Refunds, RetryFailedRefund(p, x) PROVE Goal
    <3>1. claim'[r] = [claim[r] EXCEPT !.status = "approved", !.retryCount = 0, !.age = 0]
          /\ Status(r) = "failed"
      BY <1>1, <1>3, <2>4 DEF RetryFailedRefund
    <3>2. QED
      BY <1>1, <3>1 DEF ClaimDocs
  <2>5. ASSUME NEW p \in Processes,
               PreflightFails(p) \/ SubmissionBlocked(p) \/ ReconcileRetry(p)
                   \/ SubmissionRejected(p)
        PROVE  Goal
    <3>1. PICK from : GiveBack(p, from) /\ "rejected" \notin from
      BY <2>5 DEF PreflightFails, SubmissionBlocked, ReconcileRetry, SubmissionRejected
    <3>2. PICK n : n = job[p].retryCount
      OBVIOUS
    <3>3. claim'[r] = RetryOrFail(r, n, from)
      BY <1>1, <1>3, <3>1, <3>2 DEF GiveBack
    <3>4. claim'[r] \in {claim[r],
              [claim[r] EXCEPT !.status = "failed", !.retryCount = n + 1, !.age = 0],
              [claim[r] EXCEPT !.status = "approved", !.retryCount = n + 1, !.age = 0,
                               !.txHash = NoTx]}
          /\ claim[r].status # "rejected"
      BY <1>3, <3>1, <3>3 DEF RetryOrFail
    <3>5. QED
      BY <1>1, <3>4 DEF ClaimDocs
  <2>6. ASSUME NEW p \in Processes, ClaimForSubmission(p) PROVE Goal
    <3>1. claim'[r] = [claim[r] EXCEPT !.status = "submitting", !.age = 0]
          /\ Status(r) = "approved"
      BY <1>1, <1>3, <2>6 DEF ClaimForSubmission
    <3>2. QED
      BY <1>1, <3>1 DEF ClaimDocs
  <2>7. ASSUME NEW p \in Processes, RecordCheckpoint(p) PROVE Goal
    <3>1. claim'[r] = [claim[r] EXCEPT !.txHash = job[p].tx, !.age = 0]
      BY <1>1, <1>3, <2>7 DEF RecordCheckpoint
    <3>2. QED
      BY <1>1, <3>1 DEF ClaimDocs
  <2>8. ASSUME NEW p \in Processes, SubmissionAmbiguous(p) PROVE Goal
    <3>1. claim'[r] = [claim[r] EXCEPT !.status = "pending", !.age = 0, !.pendingSince = 0]
          /\ claim[r].status = "submitting"
      BY <1>1, <1>3, <2>8 DEF SubmissionAmbiguous
    <3>2. QED
      BY <1>1, <3>1 DEF ClaimDocs
  <2>9. ASSUME NEW p \in Processes, Finalize(p) PROVE Goal
    <3>1. claim'[r] = [claim[r] EXCEPT !.status = "settled", !.age = 0, !.txHash = job[p].tx]
          /\ claim[r].status \in {"submitting", "pending"}
      BY <1>1, <1>3, <2>9 DEF Finalize
    <3>2. QED
      BY <1>1, <3>1 DEF ClaimDocs
  <2>10. ASSUME NEW p \in Processes, MarkConverged(p) PROVE Goal
    <3>1. claim'[r] = [claim[r] EXCEPT !.entitlementRevoked = TRUE]
      BY <1>1, <1>3, <2>10 DEF MarkConverged
    <3>2. QED
      BY <1>1, <3>1 DEF ClaimDocs
  <2>11. ASSUME NEW p \in Processes, StillPending(p) PROVE Goal
    <3>1. PICK n : n = IF job[p].pendingSince = Never THEN 0 ELSE job[p].pendingSince
      OBVIOUS
    <3>2. claim'[r] = [claim[r] EXCEPT !.status = "pending", !.age = 0, !.pendingSince = n]
          /\ Status(r) \in {"submitting", "pending"}
      BY <1>1, <1>3, <2>11, <3>1 DEF StillPending
    <3>3. QED
      BY <1>1, <3>2 DEF ClaimDocs
  <2>12. ASSUME Tick PROVE Goal
    BY <2>12, AgedClaim DEF RefundInv, CoreInv
  <2>13. ASSUME NEW p \in Processes,
                \/ \E x \in Refunds : PollApproved(p, x) \/ StartReconcile(p, x)
                \/ BuildTransaction(p) \/ SendTransaction(p) \/ SubmissionConfirmed(p)
                \/ RevokeAccess(p) \/ MirrorOnPurchase(p) \/ QueryStatus(p) \/ Abandon(p)
         PROVE  FALSE
    BY <1>3, <2>13 DEF PollApproved, StartReconcile, BuildTransaction, SendTransaction,
       SubmissionConfirmed, RevokeAccess, MirrorOnPurchase, QueryStatus, Abandon
  <2>14. ASSUME NEW t \in DOMAIN txs, ApplyTransaction(t) PROVE FALSE
    BY <1>3, <2>14 DEF ApplyTransaction
  <2>15. QED
    BY <2>1, <2>2, <2>3, <2>4, <2>5, <2>6, <2>7, <2>8, <2>9, <2>10, <2>11, <2>12, <2>13,
       <2>14 DEF Next, AdminStep, WorkerStep, SubmissionStep, Processes
<1>4. QED
  BY <1>2, <1>3

\* A claim begins by being requested.
LEMMA ClaimBegins ==
    ASSUME RefundInv, Next, NEW r \in Refunds, claim[r] = NoClaim,
           ~\E q \in Purchases : RequestRefund(r, q)
    PROVE  claim'[r] = NoClaim
<1>1. \A p \in Processes : job[p].stage # "idle" => job[p].refund # r
  BY TypedState DEF JobIsSound
<1>2. claim \in [Refunds -> ClaimDocs \cup {NoClaim}]
  BY TypedState
<1>3. ASSUME NEW x \in Refunds, NEW q \in Purchases, RequestRefund(x, q) PROVE claim'[r] = NoClaim
  BY <1>3, <1>2 DEF RequestRefund
<1>4. ASSUME NEW p \in Processes, NEW x \in Refunds,
             ApproveRefund(p, x) \/ RetryFailedRefund(p, x)
      PROVE  claim'[r] = NoClaim
  BY <1>2, <1>4 DEF ApproveRefund, RetryFailedRefund, Status
<1>5. ASSUME NEW p \in Processes,
             \/ PreflightFails(p) \/ SubmissionBlocked(p) \/ ReconcileRetry(p)
             \/ SubmissionRejected(p)
      PROVE  claim'[r] = NoClaim
  BY <1>2, <1>1, <1>5 DEF PreflightFails, SubmissionBlocked, ReconcileRetry, SubmissionRejected,
     GiveBack
<1>6. ASSUME NEW p \in Processes,
             \/ ClaimForSubmission(p) \/ RecordCheckpoint(p) \/ SubmissionAmbiguous(p)
             \/ Finalize(p) \/ MarkConverged(p) \/ StillPending(p)
      PROVE  claim'[r] = NoClaim
  BY <1>2, <1>1, <1>6 DEF ClaimForSubmission, RecordCheckpoint, SubmissionAmbiguous, Finalize,
     MarkConverged, StillPending
<1>7. ASSUME Tick PROVE claim'[r] = NoClaim
  BY <1>7 DEF Tick
<1>8. ASSUME NEW p \in Processes,
                \/ \E x \in Refunds : PollApproved(p, x) \/ StartReconcile(p, x)
                \/ BuildTransaction(p) \/ SendTransaction(p) \/ SubmissionConfirmed(p)
                \/ RevokeAccess(p) \/ MirrorOnPurchase(p) \/ QueryStatus(p) \/ Abandon(p)
      PROVE  claim'[r] = NoClaim
  BY <1>8 DEF PollApproved, StartReconcile, BuildTransaction, SendTransaction,
     SubmissionConfirmed, RevokeAccess, MirrorOnPurchase, QueryStatus, Abandon
<1>9. ASSUME NEW t \in DOMAIN txs, ApplyTransaction(t) PROVE claim'[r] = NoClaim
  BY <1>9 DEF ApplyTransaction
<1>10. QED
  <2>1. AdminStep => claim'[r] = NoClaim
    <3>1. ASSUME NEW x \in Refunds, RejectRefund(x) PROVE claim'[r] = NoClaim
      BY <1>2, <3>1 DEF RejectRefund, Status
    <3>2. QED
      BY <1>3, <1>4, <3>1 DEF AdminStep, Processes
  <2>2. \A p \in Processes : WorkerStep(p) \/ SubmissionStep(p) \/ Abandon(p) =>
            claim'[r] = NoClaim
    BY <1>5, <1>6, <1>8 DEF WorkerStep, SubmissionStep
  <2>3. QED
    BY <1>7, <1>9, <2>1, <2>2 DEF Next, Processes

LEMMA OneLiveClaimStays ==
    ASSUME FlightInv, RefundInv', OneLiveClaim, Next
    PROVE  OneLiveClaim'
<1>1. CASE \E r \in Refunds, q \in Purchases : RequestRefund(r, q)
  BY <1>1, RequestIsSound
<1>2. CASE ~\E r \in Refunds, q \in Purchases : RequestRefund(r, q)
  <2>1. \A r \in Refunds : claim[r] = NoClaim => claim'[r] = NoClaim
    BY <1>2, ClaimBegins DEF FlightInv
  <2>2. \A r \in Refunds : claim[r] # NoClaim =>
            /\ claim'[r].purchase = claim[r].purchase
            /\ claim[r].status = "rejected" => claim'[r].status = "rejected"
    BY ClaimGoesOn DEF FlightInv
  <2>3. QED
    BY <2>1, <2>2 DEF OneLiveClaim
<1>3. QED
  BY <1>1, <1>2

LEMMA PaymentInvStays ==
    ASSUME PromptProcesses, PaymentInv, [Next]_vars
    PROVE  PaymentInv'
<1>1. FlightInv /\ OneLiveClaim /\ RefundInv'
  BY StepKeepsRefunds DEF PaymentInv, FlightInv
<1>2. CASE UNCHANGED vars
  <2>1. claim' = claim /\ job' = job /\ txs' = txs
    BY <1>2 DEF vars
  <2>2. OneLiveClaim'
    BY <1>1, <2>1 DEF OneLiveClaim
  <2>3. ASSUME NEW r \in Refunds PROVE FlightSound(r)'
    <3>1. CASE claim[r] = NoClaim
      BY <2>1, <3>1 DEF FlightSound
    <3>2. CASE claim[r] # NoClaim
      BY <1>1, <2>1, <3>2, ClaimUntouched DEF FlightInv, TxsOf
    <3>3. QED
      BY <3>1, <3>2
  <2>4. QED
    BY <1>1, <2>2, <2>3 DEF PaymentInv
<1>3. CASE Next
  <2>1. OneLiveClaim'
    BY <1>1, <1>3, OneLiveClaimStays
  <2> DEFINE Sound == \A x \in Refunds : FlightSound(x)'
  <2>2. ASSUME NEW r \in Refunds, NEW q \in Purchases, RequestRefund(r, q) PROVE Sound
    BY <1>1, <2>2, RequestIsSound
  <2>3. ASSUME NEW r \in Refunds, RejectRefund(r) PROVE Sound
    <3>1. claim[r] # NoClaim /\ Status(r) \in Released
      BY <2>3 DEF RejectRefund, Status, Released
    <3>2. claim[r] \in ClaimDocs
      BY <1>1, <3>1, TypedState DEF FlightInv
    <3>3. claim'[r] = [claim[r] EXCEPT !.status = "rejected", !.age = 0]
          /\ \A x \in Refunds : x # r => claim'[x] = claim[x]
      BY <1>1, <2>3, TypedState DEF FlightInv, RejectRefund
    <3>4. claim'[r].status = "rejected" /\ claim'[r] # NoClaim
      <4>1. 0 \in 0..(STUCK_SUBMITTING + 1)
        BY RefundConstants
      <4>2. claim'[r] \in ClaimDocs
        BY <3>2, <3>3, <4>1 DEF ClaimDocs, Statuses
      <4>3. QED
        BY <3>2, <3>3, <4>2, NoClaimIsNoDoc DEF ClaimDocs
    <3>5. Status(r)' \in Released
      BY <3>4 DEF Status, Released
    <3>6. job' = job /\ txs' = txs
      BY <2>3 DEF RejectRefund, chain
    <3>7. QED
      BY <1>1, <3>1, <3>3, <3>5, <3>6, DecisionIsSound
  <2>4. ASSUME NEW p \in Routes, NEW r \in Refunds,
               ApproveRefund(p, r) \/ RetryFailedRefund(p, r)
        PROVE  Sound
    <3>1. claim[r] # NoClaim /\ Status(r) \in Released /\ p \in Processes
      BY <2>4 DEF ApproveRefund, RetryFailedRefund, Status, Released, Processes
    <3>2. claim[r] \in ClaimDocs
      BY <1>1, <3>1, TypedState DEF FlightInv
    <3>3. claim'[r] \in {[claim[r] EXCEPT !.status = "approved", !.age = 0],
                         [claim[r] EXCEPT !.status = "approved", !.retryCount = 0, !.age = 0]}
          /\ \A x \in Refunds : x # r => claim'[x] = claim[x]
      BY <1>1, <2>4, TypedState DEF FlightInv, ApproveRefund, RetryFailedRefund
    <3>4. claim'[r].status = "approved" /\ claim'[r] # NoClaim
      <4>1. 0 \in 0..(STUCK_SUBMITTING + 1) /\ 0 \in 0..(MAX_SUBMIT_RETRIES + 1)
        BY RefundConstants
      <4>2. claim'[r] \in ClaimDocs
        BY <3>2, <3>3, <4>1 DEF ClaimDocs, Statuses
      <4>3. QED
        BY <3>2, <3>3, <4>2, NoClaimIsNoDoc DEF ClaimDocs
    <3>5. Status(r)' \in Released
      BY <3>4 DEF Status, Released
    <3>6. /\ job[p].stage = "idle" /\ job' = [job EXCEPT ![p] = At(r, "claim")]
          /\ txs' = txs
      BY <2>4 DEF ApproveRefund, RetryFailedRefund, chain
    <3>7. \A q \in Processes : \/ job'[q] = job[q]
                               \/ job[q].stage = "idle" /\ job'[q].stage = "claim"
      BY <1>1, <3>1, <3>6, NewJob, TypedState DEF FlightInv
    <3>8. QED
      BY <1>1, <3>1, <3>3, <3>5, <3>6, <3>7, DecisionIsSound
  <2>5. ASSUME NEW p \in Processes, NEW r \in Refunds, PollApproved(p, r) PROVE Sound
    BY <1>1, <2>5, PollIsSound
  <2>6. ASSUME NEW p \in Workers, NEW r \in Refunds, StartReconcile(p, r) PROVE Sound
    BY <1>1, <2>6, StartReconcileIsSound
  <2>7. ASSUME NEW p \in Processes, SubmissionStep(p) PROVE Sound
    BY <1>1, <2>7, ClaimForSubmissionIsSound, PreflightFailsIsSound, BuildIsSound,
       RecordCheckpointIsSound, SubmissionBlockedIsSound, SendIsSound, ConfirmedIsSound,
       SubmissionRejectedIsSound, AmbiguousIsSound, FinalizeIsSound, ConvergenceIsSound
       DEF SubmissionStep
  <2>8. ASSUME NEW p \in Processes, QueryStatus(p) \/ ReconcileRetry(p) \/ StillPending(p)
        PROVE  Sound
    BY <1>1, <2>8, QueryIsSound, ReconcileRetryIsSound, StillPendingIsSound
  <2>9. ASSUME NEW p \in Processes, Abandon(p) PROVE Sound
    BY <1>1, <2>9, AbandonIsSound
  <2>10. ASSUME NEW t \in DOMAIN txs, ApplyTransaction(t) PROVE Sound
    BY <1>1, <2>10, ApplyIsSound
  <2>11. ASSUME Tick PROVE Sound
    BY <1>1, <2>11, TickIsSound
  <2>12. Sound
    BY <1>3, <2>2, <2>3, <2>4, <2>5, <2>6, <2>7, <2>8, <2>9, <2>10, <2>11
       DEF Next, AdminStep, WorkerStep, Processes
  <2>13. QED
    BY <1>1, <2>1, <2>12 DEF PaymentInv
<1>4. QED
  BY <1>2, <1>3

LEMMA PaymentInvHolds ==
    ASSUME PromptProcesses
    PROVE  Spec => []PaymentInv
<1>1. Init => OneLiveClaim /\ \A r \in Refunds : FlightSound(r)
  BY DEF Init, OneLiveClaim, FlightSound
<1>2. RefundInv /\ OneLiveClaim /\ (\A r \in Refunds : FlightSound(r)) => PaymentInv
  BY DEF PaymentInv
<1>3. PaymentInv /\ [Next]_vars => PaymentInv'
  BY PaymentInvStays
<1>4. QED
  BY <1>1, <1>2, <1>3, RefundInvHolds, PTL DEF Spec

\* What the submitter checkpoints, the ambiguous answers it parks and the ages
\* it waits for are for: with one worker and no job longer than a claim may
\* stay in submitting, a claim is settled only by the payment it names, and is
\* retried, failed or rejected only when no transaction of it can move money.
THEOREM ClaimsAgreeWithLedger ==
    ASSUME PromptProcesses
    PROVE  Spec => []ClaimsMatchLedger
<1>1. PaymentInv => ClaimsMatchLedger
  <2> SUFFICES ASSUME PaymentInv PROVE ClaimsMatchLedger
    OBVIOUS
  <2>1. FlightInv /\ TypeOK
    BY DEF PaymentInv, FlightInv, RefundInv
  <2>2. SettledHashIsThePayment
    <3>1. SUFFICES ASSUME NEW r \in Refunds, Status(r) = "settled"
                   PROVE  /\ claim[r].txHash # NoTx
                          /\ txs[claim[r].txHash].state = "applied"
                          /\ txs[claim[r].txHash].refund = r
      BY DEF SettledHashIsThePayment
    <3>2. claim[r] # NoClaim
      BY <3>1 DEF Status
    <3>3. claim[r].txHash # NoTx /\ txs[claim[r].txHash].state = "applied"
      BY <2>1, <3>1, <3>2 DEF FlightInv, FlightSound, OneInFlight
    <3>4. QED
      BY <2>1, <3>2, <3>3, TypedState DEF FlightInv, TxsAreOfClaims
  <2>3. NothingInFlightWhenReleased
    <3>1. SUFFICES ASSUME NEW r \in Refunds, NEW t \in DOMAIN txs, txs[t].refund = r,
                          Status(r) \in {"approved", "failed", "rejected"}
                   PROVE  txs[t].state # "applied" /\ ~CanApply(t)
      BY DEF NothingInFlightWhenReleased
    <3>2. claim[r] # NoClaim /\ Status(r) \in Released
      BY <3>1 DEF Status, Released
    <3>3. Dead(t)
      BY <2>1, <3>1, <3>2, ReleasedIsLeftAlone DEF AllDead, TxsOf
    <3>4. txs[t] \in Transactions
      BY <2>1, TypedState DEF FlightInv
    <3>5. txs[t].age \in Nat
      BY <3>4, RefundConstants DEF Transactions
    <3>6. QED
      BY <3>3, <3>5, RefundConstants DEF Dead, CanApply
  <2>4. QED
    BY <2>1, <2>2, <2>3 DEF ClaimsMatchLedger
<1>2. QED
  BY <1>1, PaymentInvHolds, PTL

\* "One effective refund per purchase, ever": with one worker and no job longer
\* than a claim may stay in submitting, the ledger applies at most one payment
\* for a purchase, whatever the admins do, however many of their requests run
\* inline, and wherever processes crash.
THEOREM RefundedAtMostOnce ==
    ASSUME PromptProcesses
    PROVE  Spec => []PaidAtMostOnce
<1>1. PaymentInv => PaidAtMostOnce
  <2> SUFFICES ASSUME PaymentInv, NEW q \in Purchases
               PROVE  Cardinality(PaymentsOf(q)) <= 1
    BY DEF PaidAtMostOnce
  <2>1. FlightInv /\ OneLiveClaim
    BY DEF PaymentInv, FlightInv
  <2>2. ASSUME NEW t \in PaymentsOf(q), NEW u \in PaymentsOf(q) PROVE t = u
    <3>1. /\ t \in DOMAIN txs /\ txs[t].state = "applied" /\ claim[txs[t].refund].purchase = q
          /\ u \in DOMAIN txs /\ txs[u].state = "applied" /\ claim[txs[u].refund].purchase = q
      BY DEF PaymentsOf, PurchaseOf
    <3>2. PICK r \in Refunds : r = txs[t].refund /\ claim[r] # NoClaim
      BY <2>1, <3>1, TypedState DEF FlightInv, TxsAreOfClaims
    <3>3. PICK s \in Refunds : s = txs[u].refund /\ claim[s] # NoClaim
      BY <2>1, <3>1, TypedState DEF FlightInv, TxsAreOfClaims
    <3>4. t \in TxsOf(r) /\ u \in TxsOf(s)
      BY <3>1, <3>2, <3>3 DEF TxsOf
    <3>5. t = claim[r].txHash /\ Status(r) \notin Released
      BY <2>1, <3>1, <3>2, <3>4, PaymentIsNamed
    <3>6. u = claim[s].txHash /\ Status(s) \notin Released
      BY <2>1, <3>1, <3>3, <3>4, PaymentIsNamed
    <3>7. r = s
      BY <2>1, <3>1, <3>2, <3>3, <3>5, <3>6 DEF OneLiveClaim, Status, Released
    <3>8. QED
      BY <3>5, <3>6, <3>7
  <2>3. CASE PaymentsOf(q) = {}
    BY <2>3, FS_EmptySet
  <2>4. CASE PaymentsOf(q) # {}
    <3>1. PICK t \in PaymentsOf(q) : PaymentsOf(q) = {t}
      BY <2>2, <2>4
    <3>2. Cardinality({t}) = 1
      BY FS_Singleton
    <3>3. QED
      BY <3>1, <3>2
  <2>5. QED
    BY <2>3, <2>4
<1>2. QED
  BY <1>1, PaymentInvHolds, PTL
=============================================================================
