----------------------------- MODULE Scholarship -----------------------------
(***************************************************************************)
(* Scholarship credits of the purchase-manager contract: grants issued to  *)
(* learners, their aggregate balance, and the redemption that draws grants *)
(* down, earliest expiry first, in exchange for an entitlement.            *)
(*                                                                         *)
(* An entry point is one atomic action, except redeem_scholarship_credits: *)
(* the loop of consume_scholarship_credits is taken one iteration per step *)
(* (variable redeeming), and nothing else runs until it is done.           *)
(***************************************************************************)
EXTENDS Integers, Sequences, FiniteSets, FiniteSetsExt

CONSTANTS
    Learners,
    Materials,
    Issuers,
    Amounts,                        \* credits one grant may carry
    Costs,                          \* credit costs a material may have
    MAX_ACTIVE_SCHOLARSHIP_GRANTS,
    MaxGrants,                      \* bound: grant ids are 0..MaxGrants-1
    MaxLedger,                      \* bound on the ledger sequence number
    None                            \* an absent storage entry or Option::None

ASSUME ScholarshipConstants ==
    /\ Amounts \subseteq Nat \ {0}
    /\ Costs \subseteq Nat \ {0}
    /\ MAX_ACTIVE_SCHOLARSHIP_GRANTS \in Nat \ {0}
    /\ MaxGrants \in Nat \ {0}
    /\ MaxLedger \in Nat
    /\ IsFiniteSet(Materials)
    /\ None \notin Int \cup Learners

VARIABLES
    ledger,       \* env.ledger().sequence()
    issuers,      \* DataKey::ScholarshipIssuer
    cost,         \* DataKey::ScholarshipCreditCost(material)
    on_sale,      \* the registry's Active and not paused
    nonce,        \* DataKey::ScholarshipGrantNonce
    grant,        \* DataKey::ScholarshipGrant(grant_id)
    list,         \* DataKey::ScholarshipGrantsForLearner(learner)
    balance,      \* DataKey::ScholarshipBalance(learner)
    entitled,     \* DataKey::Entitlement, as (learner, material) pairs
    redemption,   \* DataKey::ScholarshipRedemption: its credits_used
    redeeming,    \* the running consume_scholarship_credits loop
    revoked       \* history: credits taken back from each learner

vars == <<ledger, issuers, cost, on_sale, nonce, grant, list, balance, entitled,
          redemption, redeeming, revoked>>

platformVars == <<issuers, cost, on_sale>>
grantVars == <<nonce, grant, list, balance, revoked>>
accessVars == <<entitled, redemption>>

GrantIds == 0..(MaxGrants - 1)
Expiries == 1..(MaxLedger + 1)

ScholarshipCreditGrant ==
    [learner : Learners, total_credits : Amounts, remaining_credits : Nat,
     expires_at : Expiries \cup {None}, active : BOOLEAN]

\* An absent grant is none of the values a stored grant can have.
ASSUME NoneIsNoGrant == None \notin ScholarshipCreditGrant

NotRedeeming == [learner |-> None, material |-> None, ids |-> <<>>, left |-> 0]

TypeOK ==
    /\ ledger \in 0..MaxLedger
    /\ issuers \subseteq Issuers
    /\ cost \in [Materials -> Costs \cup {None}]
    /\ on_sale \subseteq Materials
    /\ nonce \in 0..MaxGrants
    /\ grant \in [GrantIds -> ScholarshipCreditGrant \cup {None}]
    /\ list \in [Learners -> Seq(GrantIds)]
    /\ balance \in [Learners -> Nat]
    /\ entitled \subseteq Learners \X Materials
    /\ redemption \in [Learners \X Materials -> Nat]
    /\ redeeming.left \in Nat
    /\ revoked \in [Learners -> Nat]

Init ==
    /\ ledger = 0
    /\ issuers = {}
    /\ cost = [m \in Materials |-> None]
    /\ on_sale = Materials
    /\ nonce = 0
    /\ grant = [g \in GrantIds |-> None]
    /\ list = [l \in Learners |-> <<>>]
    /\ balance = [l \in Learners |-> 0]
    /\ entitled = {}
    /\ redemption = [k \in Learners \X Materials |-> 0]
    /\ redeeming = NotRedeeming
    /\ revoked = [l \in Learners |-> 0]

Idle == redeeming = NotRedeeming

-----------------------------------------------------------------------------
(* Grants. *)

Grants == {g \in GrantIds : grant[g] # None}

Expired(g) == grant[g].expires_at # None /\ grant[g].expires_at <= ledger

Spendable(g) ==
    grant[g].active /\ grant[g].remaining_credits > 0 /\ ~Expired(g)

Credits(G) ==
    SumFunction([g \in GrantIds |->
                    IF g \in G THEN grant[g].remaining_credits ELSE 0])

\* The grants in a learner's stored list.
StoredGrants(l) == {list[l][i] : i \in DOMAIN list[l]}

\* The grants compute_scholarship_balance adds up.
SpendableGrants(l) == {g \in StoredGrants(l) : Spendable(g)}

\* remove_grant_from_learner: the ids kept after n iterations of its loop.
Without(ids, g) ==
    LET kept[n \in 0..Len(ids)] ==
          IF n = 0 THEN <<>>
          ELSE IF ids[n] # g THEN Append(kept[n - 1], ids[n])
               ELSE kept[n - 1]
    IN kept[Len(ids)]

IssueScholarshipCredits(issuer, l, amount, expires_at) ==
    /\ Idle
    /\ issuer \in issuers
    /\ expires_at # None => expires_at > ledger
    /\ Len(list[l]) < MAX_ACTIVE_SCHOLARSHIP_GRANTS
    /\ nonce < MaxGrants
    /\ nonce' = nonce + 1
    /\ grant' = [grant EXCEPT ![nonce] =
                   [learner |-> l, total_credits |-> amount,
                    remaining_credits |-> amount, expires_at |-> expires_at,
                    active |-> TRUE]]
    /\ list' = [list EXCEPT ![l] = Append(@, nonce)]
    /\ balance' = [balance EXCEPT ![l] = @ + amount]
    /\ UNCHANGED <<ledger, platformVars, accessVars, redeeming, revoked>>

\* Mutant: what is taken off the balance is the size of the grant.
WholeGrant(g) == grant[g].total_credits
CreditsToRevoke(g) == grant[g].remaining_credits

\* Called by the grant's issuer or an administrator.
RevokeScholarshipGrant(g) ==
    LET l == grant[g].learner IN
    /\ Idle
    /\ g \in Grants
    /\ grant[g].active /\ grant[g].remaining_credits > 0
    /\ grant' = [grant EXCEPT ![g].remaining_credits = 0, ![g].active = FALSE]
    /\ balance' = [balance EXCEPT ![l] = @ - CreditsToRevoke(g)]
    /\ list' = [list EXCEPT ![l] = Without(@, g)]
    /\ revoked' = [revoked EXCEPT ![l] = @ + grant[g].remaining_credits]
    /\ UNCHANGED <<ledger, platformVars, nonce, accessVars, redeeming>>

-----------------------------------------------------------------------------
(* redeem_scholarship_credits. *)

\* Mutant: the check uses the stored aggregate, expired grants included.
StoredBalanceSuffices(l, m) == balance[l] >= cost[m]

BalanceSuffices(l, m) == Credits(SpendableGrants(l)) >= cost[m]

RedeemBegin(l, m) ==
    /\ Idle
    /\ redemption[<<l, m>>] = 0
    /\ <<l, m>> \notin entitled
    /\ m \in on_sale
    /\ cost[m] # None
    /\ BalanceSuffices(l, m)
    /\ redeeming' = [learner |-> l, material |-> m, ids |-> list[l],
                     left |-> cost[m]]
    /\ UNCHANGED <<ledger, platformVars, grantVars, accessVars>>

\* Mutant: a grant without expiry goes before the others.
NoneIsEarliest(this, best) ==
    best # None /\ (this = None \/ this < best)

\* Does a grant with this expiry displace the best one found so far?
Dominates(this, best) ==
    this # None /\ (best = None \/ this < best)

\* The scan over the ids read before the loop: the first grant in list order
\* among those that expire earliest.
BestIdx(ids) ==
    LET candidates == {i \in DOMAIN ids : Spendable(ids[i])} IN
      Min({i \in candidates : \A j \in candidates :
             ~Dominates(grant[ids[j]].expires_at, grant[ids[i]].expires_at)})

Take(left, remaining) == IF left < remaining THEN left ELSE remaining

AfterDraw(g, take) == grant[g].remaining_credits - take

ConsumeStep ==
    LET g == redeeming.ids[BestIdx(redeeming.ids)]
        take == Take(redeeming.left, grant[g].remaining_credits)
        rest == AfterDraw(g, take)
    IN
    /\ redeeming.left > 0
    /\ \E i \in DOMAIN redeeming.ids : Spendable(redeeming.ids[i])
    /\ grant' = [grant EXCEPT ![g].remaining_credits = rest,
                              ![g].active = (rest # 0)]
    /\ list' = IF rest = 0
               THEN [list EXCEPT ![redeeming.learner] = Without(@, g)]
               ELSE list
    /\ redeeming' = [redeeming EXCEPT !.left = @ - take]
    /\ UNCHANGED <<ledger, platformVars, nonce, balance, accessVars, revoked>>

RedeemFinish ==
    LET l == redeeming.learner
        m == redeeming.material
    IN
    /\ ~Idle
    /\ redeeming.left = 0
    /\ balance' = [balance EXCEPT ![l] = @ - cost[m]]
    /\ entitled' = entitled \cup {<<l, m>>}
    /\ redemption' = [redemption EXCEPT ![<<l, m>>] = cost[m]]
    /\ redeeming' = NotRedeeming
    /\ UNCHANGED <<ledger, platformVars, nonce, grant, list, revoked>>

-----------------------------------------------------------------------------
(* The administrator, the creators, other purchases and the network. *)

SetScholarshipIssuer(issuer, enabled) ==
    /\ Idle
    /\ issuers' = IF enabled THEN issuers \cup {issuer} ELSE issuers \ {issuer}
    /\ UNCHANGED <<ledger, cost, on_sale, grantVars, accessVars, redeeming>>

SetScholarshipCreditCost(m, credit_cost) ==
    /\ Idle
    /\ cost' = [cost EXCEPT ![m] = credit_cost]
    /\ UNCHANGED <<ledger, issuers, on_sale, grantVars, accessVars, redeeming>>

SetMaterialOnSale(m, v) ==
    /\ Idle
    /\ on_sale' = IF v THEN on_sale \cup {m} ELSE on_sale \ {m}
    /\ UNCHANGED <<ledger, issuers, cost, grantVars, accessVars, redeeming>>

\* A purchase grants the same entitlement and its refund takes it away; an
\* entitlement redeemed for credits has no escrow and is never refunded.
PurchaseOrRefund(l, m) ==
    /\ Idle
    /\ redemption[<<l, m>>] = 0
    /\ entitled' = IF <<l, m>> \in entitled THEN entitled \ {<<l, m>>}
                                            ELSE entitled \cup {<<l, m>>}
    /\ UNCHANGED <<ledger, platformVars, grantVars, redemption, redeeming>>

CloseLedger ==
    /\ Idle
    /\ ledger < MaxLedger
    /\ ledger' = ledger + 1
    /\ UNCHANGED <<platformVars, grantVars, accessVars, redeeming>>

PlatformStep ==
    \/ \E i \in Issuers, v \in BOOLEAN : SetScholarshipIssuer(i, v)
    \/ \E m \in Materials :
         \/ \E c \in Costs : SetScholarshipCreditCost(m, c)
         \/ \E v \in BOOLEAN : SetMaterialOnSale(m, v)
    \/ CloseLedger

LearnerStep(l) ==
    \/ \E m \in Materials : RedeemBegin(l, m) \/ PurchaseOrRefund(l, m)
    \/ \E i \in Issuers, n \in Amounts, e \in Expiries \cup {None} :
         IssueScholarshipCredits(i, l, n, e)

Next ==
    \/ \E l \in Learners : LearnerStep(l)
    \/ \E g \in GrantIds : RevokeScholarshipGrant(g)
    \/ ConsumeStep \/ RedeemFinish
    \/ PlatformStep

Spec == Init /\ [][Next]_vars

-----------------------------------------------------------------------------
(* Properties. *)

GrantsOf(l) == {g \in Grants : grant[g].learner = l}

\* Credits the running loop has drawn but not yet taken off the aggregate.
Drawn(l) ==
    IF redeeming.learner = l THEN cost[redeeming.material] - redeeming.left
    ELSE 0

\* The aggregate that issuing, revoking and redeeming update one after the
\* other with the grants is always the sum of what the learner's grants hold,
\* expired ones included.
BalanceMatchesGrants ==
    \A l \in Learners : balance[l] = Credits(GrantsOf(l)) + Drawn(l)

\* A learner's list names each grant that can still be drawn or revoked once,
\* and no other: the bound on its length bounds the loops over it, and no
\* grant falls out of reach.
ListIsOpenGrants ==
    \A l \in Learners :
      /\ StoredGrants(l) = {g \in GrantsOf(l) : grant[g].active}
      /\ Cardinality(StoredGrants(l)) = Len(list[l])
      /\ \A g \in GrantsOf(l) : grant[g].active <=> grant[g].remaining_credits > 0

\* The loop of consume_scholarship_credits, once entered, never runs out of
\* spendable credits: the error inside it is unreachable, so the redemption
\* checked against compute_scholarship_balance is always completed.
RedemptionIsCovered ==
    ~Idle => Credits(SpendableGrants(redeeming.learner)) >= redeeming.left

\* What the loop of a redemption depends on: a list that names every open
\* grant once, and enough spendable credits in it.
GrantsCoverRedemption == ListIsOpenGrants /\ RedemptionIsCovered

\* Credits ever issued to a learner, and the ones recorded as used.
Issued(l) ==
    SumFunction([g \in GrantIds |->
                    IF g \in GrantsOf(l) THEN grant[g].total_credits ELSE 0])
Redeemed(l) == SumFunction([m \in Materials |-> redemption[<<l, m>>]])

\* No credit is created or lost: what was issued to a learner is what is left,
\* what was revoked and what the redemptions record as used.
CreditsConserved ==
    \A l \in Learners :
      Issued(l) = Credits(GrantsOf(l)) + revoked[l] + Drawn(l) + Redeemed(l)

\* The three representations of a learner's credits - the grants, the stored
\* aggregate and what redemptions and revocations account for - are well typed
\* and add up to each other after every call of the contract.
CreditsAddUp == TypeOK /\ BalanceMatchesGrants /\ CreditsConserved

DrawnOn(g) ==
    /\ redeeming.left > redeeming'.left
    /\ g \in Grants
    /\ grant'[g].remaining_credits < grant[g].remaining_credits

\* "Credits are consumed earliest-expiry-first": a grant is drawn on only
\* while it is spendable and no spendable grant of the learner expires before
\* it; a grant without expiry is drawn on last.
EarliestExpiryFirst ==
    [][\A g \in GrantIds : DrawnOn(g) =>
         /\ Spendable(g) /\ grant[g].learner = redeeming.learner
         /\ \A h \in GrantsOf(redeeming.learner) :
              Spendable(h) /\ grant[h].expires_at # None =>
                /\ grant[g].expires_at # None
                /\ grant[g].expires_at <= grant[h].expires_at]_vars

=============================================================================
