--------------------------- MODULE PurchaseManager ---------------------------
(***************************************************************************)
(* The settlement core of the Soroban contract                             *)
(* soroban/contracts/purchase-manager: checkout, bulk licences, escrow,    *)
(* disputes, refunds and scholarship redemption, together with the part of *)
(* material-registry that checkout reads (price, sale-terms version,       *)
(* whether a material is on sale).                                         *)
(*                                                                         *)
(* A contract call is one transaction: it either returns Ok and commits,   *)
(* or returns Err (or traps in a token transfer) and leaves no trace. Each *)
(* action below is therefore the successful outcome of one entry point,    *)
(* its guard the conjunction of that entry point's checks.  The one        *)
(* exception is refund_bulk_purchase, whose loop is taken one iteration    *)
(* per step (variable batch); nothing else runs in between.                *)
(***************************************************************************)
EXTENDS Integers, Sequences, FiniteSets, FiniteSetsExt

CONSTANTS
    Buyers,                      \* addresses that buy, receive or redeem
    Materials,                   \* registered material ids
    Assets,                      \* payment token contracts
    Prices,                      \* amounts a creator may quote
    FeeRates,                    \* effective fee rates (config or tier), bps
    BASIS_POINTS,
    ESCROW_LOCK_PERIOD_LEDGERS,
    DISPUTE_WINDOW_LEDGERS,
    MAX_BULK_LICENSE_RECIPIENTS,
    MAX_MAINTENANCE_BATCH,
    QuoteTtl,                    \* QUOTE_TTL_SECONDS, counted in ledgers
    MaxPurchases,                \* bound: purchase ids are 0..MaxPurchases-1
    MaxLedger,                   \* bound on the ledger sequence number
    MaxVersion,                  \* bound on the sale-terms version
    NoRecord                     \* an absent storage entry

\* The constants of lib.rs 11-55, and the fee bound MAX_PLATFORM_FEE_BPS.
ASSUME ConstantsAssumption ==
    /\ BASIS_POINTS \in Nat \ {0}
    /\ FeeRates \subseteq 0..BASIS_POINTS /\ FeeRates # {}
    /\ Prices \subseteq Nat \ {0} /\ Prices # {}
    /\ DISPUTE_WINDOW_LEDGERS \in Nat
    /\ ESCROW_LOCK_PERIOD_LEDGERS \in Nat
    /\ DISPUTE_WINDOW_LEDGERS <= ESCROW_LOCK_PERIOD_LEDGERS
    /\ MAX_BULK_LICENSE_RECIPIENTS \in Nat \ {0}
    /\ MAX_MAINTENANCE_BATCH \in Nat \ {0}
    /\ QuoteTtl \in Nat
    /\ MaxPurchases \in Nat \ {0} /\ MaxLedger \in Nat
    /\ MaxVersion \in Nat \ {0}

VARIABLES
    ledger,        \* env.ledger().sequence() (timestamps advance with it)
    config,        \* PlatformConfig and the AllowedAsset entries
    sale,          \* the registry's MaterialSaleState and SaleTermsVersion
    quote,         \* DataKey::Quote((buyer, material))
    checkout,      \* DataKey::PendingCheckout((buyer, material))
    nonce,         \* DataKey::PurchaseNonce
    escrow,        \* DataKey::Escrow(purchase_id)
    settlement,    \* DataKey::Settlement(purchase_id), its state
    dispute,       \* DataKey::Dispute(purchase_id)
    buyerOf,       \* DataKey::PurchaseBuyer(purchase_id)
    entitlement,   \* DataKey::Entitlement((material, buyer))
    bulk,          \* DataKey::BulkPurchase((purchaser, material))
    redeemed,      \* DataKey::ScholarshipRedemption((learner, material))
    pool,          \* the contract's own balance of each asset
    batch,         \* the running refund_bulk_purchase loop
    reissued       \* history: ids that two purchases were recorded under

vars == <<ledger, config, sale, quote, checkout, nonce, escrow, settlement,
          dispute, buyerOf, entitlement, bulk, redeemed, pool, batch, reissued>>

marketVars == <<config, sale>>
checkoutVars == <<quote, checkout>>

PurchaseIds == 0..(MaxPurchases - 1)
Resolutions == {"Unresolved", "RefundBuyer", "ReleaseToCreator"}
SettlementStates == {"Pending", "Released", "Disputed", "Refunded", "Expired"}
Terminal == {"Released", "Refunded", "Expired"}

ASSUME NoRecordAssumption ==
    /\ NoRecord \notin Buyers /\ NoRecord \notin PurchaseIds
    /\ NoRecord \notin SettlementStates

EscrowRecord ==
    [material : Materials, asset : Assets, seller_net : Nat,
     purchase_ledger : 0..MaxLedger, claimed : BOOLEAN]
DisputeRecord == [opener : Buyers, resolution : Resolutions]
QuoteRecord ==
    [asset : Assets, amount : Nat, version : 0..MaxVersion, expires_at : Nat]
SaleRecord ==
    [on_sale : BOOLEAN, version : 0..MaxVersion, price : [Assets -> Prices \cup {0}]]
\* What checkout sees of a material that is not registered.
NotRegistered == [on_sale |-> FALSE, version |-> 0, price |-> [a \in Assets |-> 0]]

ASSUME NoRecordIsNoRecord ==
    NoRecord \notin EscrowRecord /\ NoRecord \notin DisputeRecord /\
    NoRecord \notin QuoteRecord

TypeOK ==
    /\ ledger \in 0..MaxLedger
    /\ config \in [paused : BOOLEAN, fee_bps : FeeRates, allowed : SUBSET Assets]
    /\ sale \in [Materials -> SaleRecord]
    /\ quote \in [Buyers \X Materials -> QuoteRecord \cup {NoRecord}]
    /\ checkout \subseteq Buyers \X Materials
    /\ nonce \in 0..MaxPurchases
    /\ escrow \in [PurchaseIds -> EscrowRecord \cup {NoRecord}]
    /\ settlement \in [PurchaseIds -> SettlementStates \cup {NoRecord}]
    /\ dispute \in [PurchaseIds -> DisputeRecord \cup {NoRecord}]
    /\ buyerOf \in [PurchaseIds -> Buyers \cup {NoRecord}]
    /\ entitlement \in [Materials \X Buyers ->
                         [active : BOOLEAN, purchase_id : PurchaseIds \cup {NoRecord}]]
    /\ bulk \in [Buyers \X Materials -> [first : PurchaseIds, count : Nat]]
    /\ redeemed \subseteq Buyers \X Materials
    /\ pool \in [Assets -> Nat]
    /\ batch \in [next : Nat, left : Nat]
    /\ reissued \subseteq PurchaseIds

Init ==
    /\ ledger = 0
    /\ config \in [paused : {FALSE}, fee_bps : FeeRates, allowed : {Assets}]
    /\ sale = [m \in Materials |-> NotRegistered]
    /\ quote = [k \in Buyers \X Materials |-> NoRecord]
    /\ checkout = {}
    /\ nonce = 0
    /\ escrow = [p \in PurchaseIds |-> NoRecord]
    /\ settlement = [p \in PurchaseIds |-> NoRecord]
    /\ dispute = [p \in PurchaseIds |-> NoRecord]
    /\ buyerOf = [p \in PurchaseIds |-> NoRecord]
    /\ entitlement = [k \in Materials \X Buyers |->
                       [active |-> FALSE, purchase_id |-> NoRecord]]
    /\ bulk = [k \in Buyers \X Materials |-> [first |-> 0, count |-> 0]]
    /\ redeemed = {}
    /\ pool = [a \in Assets |-> 0]
    /\ batch = [next |-> 0, left |-> 0]
    /\ reissued = {}

Idle == batch.left = 0

-----------------------------------------------------------------------------
(* Helpers shared by the entry points. *)

HasEntitlement(m, b) == entitlement[<<m, b>>].active

PlatformFee(gross, bps) == (gross * bps) \div BASIS_POINTS

\* Mutant: the fee and the price are swapped.
SellerNetSwapped(gross, bps) == PlatformFee(gross, bps) - gross
SellerNet(gross, bps) == gross - PlatformFee(gross, bps)

NewEscrow(m, a, gross) ==
    [material |-> m, asset |-> a,
     seller_net |-> SellerNet(gross, config.fee_bps),
     purchase_ledger |-> ledger, claimed |-> FALSE]

\* The contract can transfer seller_net out of its own balance.
Covered(e) == pool[e.asset] >= e.seller_net

\* Mutant: the escrow is paid but not marked claimed.
ClaimForgotten(p) == escrow
ClaimEscrow(p) == [escrow EXCEPT ![p].claimed = TRUE]

PayFromPool(p) ==
    [pool EXCEPT ![escrow[p].asset] = @ - escrow[p].seller_net]

\* Ids of this write that already carry a purchase.
Reissue(ids) == reissued \cup {p \in ids : settlement[p] # NoRecord}

-----------------------------------------------------------------------------
(* Checkout. *)

\* validate_checkout: the checks shared by purchase and simulate_purchase.
\* A price of 0 stands for a missing or non-positive registry quote.
CanCheckout(b, m, a) ==
    /\ ~config.paused
    /\ a \in config.allowed
    /\ ~HasEntitlement(m, b)
    /\ <<b, m>> \notin checkout
    /\ sale[m].on_sale
    /\ sale[m].price[a] > 0
    /\ quote[<<b, m>>] # NoRecord =>
          /\ quote[<<b, m>>].asset = a
          /\ quote[<<b, m>>].amount = sale[m].price[a]
          /\ quote[<<b, m>>].version = sale[m].version
          /\ ledger <= quote[<<b, m>>].expires_at

Purchase(b, m, a) ==
    /\ Idle
    /\ CanCheckout(b, m, a)
    /\ nonce < MaxPurchases
    /\ nonce' = nonce + 1
    /\ LET e == NewEscrow(m, a, sale[m].price[a]) IN
         /\ pool' = [pool EXCEPT ![a] = @ + e.seller_net]
         /\ escrow' = [escrow EXCEPT ![nonce] = e]
    /\ settlement' = [settlement EXCEPT ![nonce] = "Pending"]
    /\ buyerOf' = [buyerOf EXCEPT ![nonce] = b]
    /\ entitlement' = [entitlement EXCEPT ![<<m, b>>] =
                         [active |-> TRUE, purchase_id |-> nonce]]
    /\ checkout' = checkout \ {<<b, m>>}
    /\ quote' = [quote EXCEPT ![<<b, m>>] = NoRecord]
    /\ reissued' = Reissue({nonce})
    /\ UNCHANGED <<ledger, marketVars, dispute, bulk, redeemed, batch>>

RecordQuote(b, m, a) ==
    /\ Idle
    /\ sale[m].price[a] > 0
    /\ quote' = [quote EXCEPT ![<<b, m>>] =
                   [asset |-> a, amount |-> sale[m].price[a],
                    version |-> sale[m].version,
                    expires_at |-> ledger + QuoteTtl]]
    /\ UNCHANGED <<ledger, marketVars, checkout, nonce, escrow, settlement,
                   dispute, buyerOf, entitlement, bulk, redeemed, pool, batch,
                   reissued>>

BeginCheckout(b, m) ==
    /\ Idle
    /\ <<b, m>> \notin checkout
    /\ checkout' = checkout \cup {<<b, m>>}
    /\ UNCHANGED <<ledger, marketVars, quote, nonce, escrow, settlement,
                   dispute, buyerOf, entitlement, bulk, redeemed, pool, batch,
                   reissued>>

CancelCheckout(b, m) ==
    /\ Idle
    /\ checkout' = checkout \ {<<b, m>>}
    /\ UNCHANGED <<ledger, marketVars, quote, nonce, escrow, settlement,
                   dispute, buyerOf, entitlement, bulk, redeemed, pool, batch,
                   reissued>>

-----------------------------------------------------------------------------
(* Bulk licences: the purchaser pays for a list of distinct recipients.      *)

RecipientLists ==
    {l \in UNION {[1..n -> Buyers] : n \in 1..MAX_BULK_LICENSE_RECIPIENTS} :
        \A i, j \in DOMAIN l : l[i] = l[j] => i = j}

\* Mutant: recipients who already have access are not refused.
RecipientsUnchecked(m, l) == TRUE
RecipientsFree(m, l) == \A i \in DOMAIN l : ~HasEntitlement(m, l[i])

\* Mutant: only one unit is transferred.
OneUnitFunded(n, gross) == SellerNet(gross, config.fee_bps)
\* The fee of a bulk sale is taken once, on the aggregate amount.
TotalSellerNet(n, gross) == SellerNet(n * gross, config.fee_bps)

PurchaseBulkLicenses(purchaser, m, a, l) ==
    LET n == Len(l)
        first == nonce
        ids == first..(first + n - 1)
    IN
    /\ Idle
    /\ ~config.paused
    /\ a \in config.allowed
    /\ sale[m].on_sale
    /\ sale[m].price[a] > 0
    /\ RecipientsFree(m, l)
    /\ first + n <= MaxPurchases
    \* get_and_increment_purchase_nonce runs once for the whole list.
    /\ nonce' = nonce + 1
    /\ pool' = [pool EXCEPT ![a] = @ + TotalSellerNet(n, sale[m].price[a])]
    /\ escrow' = [p \in PurchaseIds |->
                    IF p \in ids THEN NewEscrow(m, a, sale[m].price[a])
                                 ELSE escrow[p]]
    /\ settlement' = [p \in PurchaseIds |->
                        IF p \in ids THEN "Pending" ELSE settlement[p]]
    /\ buyerOf' = [p \in PurchaseIds |->
                     IF p \in ids THEN l[p - first + 1] ELSE buyerOf[p]]
    /\ entitlement' =
         [k \in Materials \X Buyers |->
            IF k[1] = m /\ \E i \in 1..n : l[i] = k[2]
            THEN [active |-> TRUE,
                  purchase_id |-> first + (CHOOSE i \in 1..n : l[i] = k[2]) - 1]
            ELSE entitlement[k]]
    /\ bulk' = [bulk EXCEPT ![<<purchaser, m>>] = [first |-> first, count |-> n]]
    /\ reissued' = Reissue(ids)
    /\ UNCHANGED <<ledger, marketVars, checkoutVars, dispute, redeemed, batch>>

-----------------------------------------------------------------------------
(* Release of escrow. Whoever calls is one of the payout recipients stored   *)
(* in the escrow record, of which there is always at least one.              *)

\* Mutant: any age of the escrow will do.
LockIgnored(p) == ledger >= escrow[p].purchase_ledger
LockExpired(p) ==
    ledger >= escrow[p].purchase_ledger + ESCROW_LOCK_PERIOD_LEDGERS

WithdrawPayouts(p) ==
    /\ Idle
    /\ escrow[p] # NoRecord
    /\ ~escrow[p].claimed
    /\ settlement[p] = "Pending"
    /\ LockExpired(p)
    /\ Covered(escrow[p])
    /\ pool' = PayFromPool(p)
    /\ escrow' = ClaimEscrow(p)
    /\ settlement' = [settlement EXCEPT ![p] = "Released"]
    /\ UNCHANGED <<ledger, marketVars, checkoutVars, nonce, dispute, buyerOf,
                   entitlement, bulk, redeemed, batch, reissued>>

-----------------------------------------------------------------------------
(* Refunds and disputes. *)

\* perform_single_refund returns refunded = true exactly when all of these hold.
Refundable(p) ==
    /\ settlement[p] = "Pending"
    /\ escrow[p] # NoRecord
    /\ ~escrow[p].claimed
    /\ buyerOf[p] # NoRecord
    /\ HasEntitlement(escrow[p].material, buyerOf[p])
    /\ Covered(escrow[p])

\* Mutant: the refund leaves the access.
EntitlementKept(m, b) == entitlement
RevokeEntitlement(m, b) == [entitlement EXCEPT ![<<m, b>>].active = FALSE]

PerformSingleRefund(p) ==
    /\ Refundable(p)
    /\ pool' = PayFromPool(p)
    /\ escrow' = ClaimEscrow(p)
    /\ entitlement' = RevokeEntitlement(escrow[p].material, buyerOf[p])
    /\ settlement' = [settlement EXCEPT ![p] = "Refunded"]

\* refund_purchase and refund_purchase_to_buyer (admin): the latter ignores
\* its buyer argument.
RefundPurchase(p) ==
    /\ Idle
    /\ PerformSingleRefund(p)
    /\ UNCHANGED <<ledger, marketVars, checkoutVars, nonce, dispute, buyerOf,
                   bulk, redeemed, batch, reissued>>

\* Mutant: a settled purchase can be disputed.
DisputeAnyState(b, p) ==
    /\ escrow[p] # NoRecord
    /\ HasEntitlement(escrow[p].material, b)
    /\ dispute[p] = NoRecord
    /\ settlement[p] # NoRecord
    /\ ledger < escrow[p].purchase_ledger + DISPUTE_WINDOW_LEDGERS
\* The caller needs an active entitlement for the material of p; that it was
\* granted by p is not checked.
CanDispute(b, p) ==
    /\ escrow[p] # NoRecord
    /\ HasEntitlement(escrow[p].material, b)
    /\ dispute[p] = NoRecord
    /\ settlement[p] = "Pending"
    /\ ledger < escrow[p].purchase_ledger + DISPUTE_WINDOW_LEDGERS

OpenDispute(b, p) ==
    /\ Idle
    /\ CanDispute(b, p)
    /\ dispute' = [dispute EXCEPT ![p] =
                     [opener |-> b, resolution |-> "Unresolved"]]
    /\ settlement' = [settlement EXCEPT ![p] = "Disputed"]
    /\ UNCHANGED <<ledger, marketVars, checkoutVars, nonce, escrow, buyerOf,
                   entitlement, bulk, redeemed, pool, batch, reissued>>

ResolveDispute(p, resolution) ==
    /\ Idle
    /\ dispute[p] # NoRecord
    /\ dispute[p].resolution = "Unresolved"
    /\ settlement[p] = "Disputed"
    /\ escrow[p] # NoRecord
    /\ IF resolution = "RefundBuyer"
       THEN PerformSingleRefund(p)
       ELSE /\ resolution = "ReleaseToCreator"
            /\ Covered(escrow[p])
            /\ pool' = PayFromPool(p)
            /\ escrow' = ClaimEscrow(p)
            /\ settlement' = [settlement EXCEPT ![p] = "Released"]
            /\ UNCHANGED entitlement
    /\ dispute' = [dispute EXCEPT ![p].resolution = resolution]
    /\ UNCHANGED <<ledger, marketVars, checkoutVars, nonce, buyerOf, bulk,
                   redeemed, batch, reissued>>

\* refund_bulk_purchase, called by an admin or the purchaser, starts its loop
\* over the ids of the stored bulk record ...
RefundBulkBegin(purchaser, m, limit) ==
    /\ Idle
    /\ bulk[<<purchaser, m>>].count > 0
    /\ limit <= MAX_MAINTENANCE_BATCH /\ limit <= bulk[<<purchaser, m>>].count
    /\ batch' = [next |-> bulk[<<purchaser, m>>].first, left |-> limit]
    /\ UNCHANGED <<ledger, marketVars, checkoutVars, nonce, escrow, settlement,
                   dispute, buyerOf, entitlement, bulk, redeemed, pool,
                   reissued>>

\* ... and each iteration refunds the next id or skips it.
RefundBulkStep ==
    /\ ~Idle
    /\ batch' = [next |-> batch.next + 1, left |-> batch.left - 1]
    /\ IF batch.next \in PurchaseIds /\ Refundable(batch.next)
       THEN PerformSingleRefund(batch.next)
       ELSE UNCHANGED <<pool, escrow, entitlement, settlement>>
    /\ UNCHANGED <<ledger, marketVars, checkoutVars, nonce, dispute, buyerOf,
                   bulk, redeemed, reissued>>

-----------------------------------------------------------------------------
(* Scholarship redemption grants an entitlement under a purchase id of its   *)
(* own, with a settlement but no escrow. Whether the learner has the credits *)
(* is the business of the scholarship grants and left open here.             *)

RedeemScholarshipCredits(b, m) ==
    /\ Idle
    /\ <<b, m>> \notin redeemed
    /\ ~HasEntitlement(m, b)
    /\ sale[m].on_sale
    /\ nonce < MaxPurchases
    /\ nonce' = nonce + 1
    /\ entitlement' = [entitlement EXCEPT ![<<m, b>>] =
                         [active |-> TRUE, purchase_id |-> nonce]]
    /\ settlement' = [settlement EXCEPT ![nonce] = "Pending"]
    /\ buyerOf' = [buyerOf EXCEPT ![nonce] = b]
    /\ redeemed' = redeemed \cup {<<b, m>>}
    /\ reissued' = Reissue({nonce})
    /\ UNCHANGED <<ledger, marketVars, checkoutVars, escrow, dispute, bulk,
                   pool, batch>>

-----------------------------------------------------------------------------
(* The platform administrator, the creators and the network. *)

contractVars == <<checkoutVars, nonce, escrow, settlement, dispute, buyerOf,
                  entitlement, bulk, redeemed, pool, batch, reissued>>

\* pause, unpause, update_platform_fee, set_creator_tier, set_asset_allowed.
SetPaused(v) ==
    /\ Idle
    /\ config' = [config EXCEPT !.paused = v]
    /\ UNCHANGED <<ledger, sale, contractVars>>

SetFeeRate(bps) ==
    /\ Idle
    /\ config' = [config EXCEPT !.fee_bps = bps]
    /\ UNCHANGED <<ledger, sale, contractVars>>

SetAssetAllowed(a, enabled) ==
    /\ Idle
    /\ config' = [config EXCEPT !.allowed =
                    IF enabled THEN @ \cup {a} ELSE @ \ {a}]
    /\ UNCHANGED <<ledger, sale, contractVars>>

\* The registry as checkout sees it: a material is registered once, at version
\* 1; update_sale_terms brings a new version with every new price;
\* set_material_status and its wrappers put it on or off sale. Marketplace shows
\* that material-registry does no more than this.
RegisterMaterial(m, price) ==
    /\ Idle
    /\ sale[m].version = 0
    /\ \E a \in Assets : price[a] > 0
    /\ sale' = [sale EXCEPT ![m] = [on_sale |-> TRUE, version |-> 1,
                                    price |-> price]]
    /\ UNCHANGED <<ledger, config, contractVars>>

NewSaleTerms(m, price) ==
    [on_sale |-> sale[m].on_sale, version |-> sale[m].version + 1, price |-> price]

UpdateSaleTerms(m, price) ==
    /\ Idle
    /\ sale[m].version \in 1..(MaxVersion - 1)
    /\ \E a \in Assets : price[a] > 0
    /\ sale' = [sale EXCEPT ![m] = NewSaleTerms(m, price)]
    /\ UNCHANGED <<ledger, config, contractVars>>

SetMaterialOnSale(m, v) ==
    /\ Idle
    /\ sale[m].version > 0
    /\ sale' = [sale EXCEPT ![m].on_sale = v]
    /\ UNCHANGED <<ledger, config, contractVars>>

CloseLedger ==
    /\ Idle
    /\ ledger < MaxLedger
    /\ ledger' = ledger + 1
    /\ UNCHANGED <<marketVars, contractVars>>

BuyerStep(b) ==
    \E m \in Materials :
      \/ \E a \in Assets : Purchase(b, m, a) \/ RecordQuote(b, m, a)
      \/ BeginCheckout(b, m) \/ CancelCheckout(b, m)
      \/ RedeemScholarshipCredits(b, m)
      \/ \E a \in Assets : \E l \in RecipientLists :
            PurchaseBulkLicenses(b, m, a, l)
      \/ \E limit \in 1..MAX_BULK_LICENSE_RECIPIENTS :
            RefundBulkBegin(b, m, limit)

SettlementStep(p) ==
    \/ WithdrawPayouts(p)
    \/ RefundPurchase(p)
    \/ \E b \in Buyers : OpenDispute(b, p)
    \/ \E r \in Resolutions : ResolveDispute(p, r)

AdminStep ==
    \/ \E v \in BOOLEAN : SetPaused(v)
    \/ \E bps \in FeeRates : SetFeeRate(bps)
    \/ \E a \in Assets, v \in BOOLEAN : SetAssetAllowed(a, v)

RegistryStep ==
    \E m \in Materials :
      \/ \E price \in [Assets -> Prices \cup {0}] :
           RegisterMaterial(m, price) \/ UpdateSaleTerms(m, price)
      \/ \E v \in BOOLEAN : SetMaterialOnSale(m, v)

MarketStep == AdminStep \/ RegistryStep \/ CloseLedger

Next ==
    \/ \E b \in Buyers : BuyerStep(b)
    \/ \E p \in PurchaseIds : SettlementStep(p)
    \/ RefundBulkStep
    \/ MarketStep

Spec == Init /\ [][Next]_vars

-----------------------------------------------------------------------------
(* Properties. purchase_bulk_licenses takes one nonce for a list of ids, so  *)
(* the next purchase can land on an id already in use (see the README); what *)
(* the contract promises per purchase is stated up to the first time that    *)
(* happens.                                                                  *)

Fresh == reissued = {}

Live(p) == settlement[p] \in {"Pending", "Disputed", "Released"}

EscrowAgrees(p) ==
    /\ escrow[p] = NoRecord =>
         settlement[p] \in {NoRecord, "Pending"} /\ dispute[p] = NoRecord
    /\ escrow[p] # NoRecord =>
         /\ escrow[p].claimed <=> settlement[p] \in Terminal
         /\ settlement[p] # NoRecord
    /\ settlement[p] = "Disputed" <=>
         dispute[p] # NoRecord /\ dispute[p].resolution = "Unresolved"

\* The escrow's claimed flag and the settlement state, written separately by
\* withdraw_payouts, resolve_dispute and perform_single_refund, never disagree:
\* funds are held exactly while the purchase is pending or disputed, a dispute
\* is open exactly while the settlement says so, and a scholarship purchase,
\* which has no escrow, is never settled.
SettlementMatchesEscrow == Fresh => \A p \in PurchaseIds : EscrowAgrees(p)

GrantsAccess(p) ==
    Live(p) /\ escrow[p] # NoRecord =>
      /\ buyerOf[p] \in Buyers
      /\ entitlement[<<escrow[p].material, buyerOf[p]>>] =
           [active |-> TRUE, purchase_id |-> p]

\* A paid purchase that was not refunded keeps its buyer's access: nothing that
\* happens to other purchases revokes it, and no second live purchase of the
\* same material by the same buyer can exist (the entitlement names one id).
LivePurchaseGrantsAccess == Fresh => \A p \in PurchaseIds : GrantsAccess(p)

Backed(m, b) ==
    HasEntitlement(m, b) =>
      LET p == entitlement[<<m, b>>].purchase_id IN
        /\ p \in PurchaseIds
        /\ buyerOf[p] = b
        /\ Live(p)
        /\ escrow[p] # NoRecord => escrow[p].material = m

\* Access is never held without a purchase behind it: an active entitlement
\* names a purchase of that buyer, for that material, that was not refunded.
EntitlementBacked == Fresh => \A m \in Materials, b \in Buyers : Backed(m, b)

\* What the contract still owes of asset a for purchase p.
Due(p, a) ==
    IF escrow[p] # NoRecord /\ escrow[p].asset = a /\ ~escrow[p].claimed
    THEN escrow[p].seller_net ELSE 0

Owed(a) == SumFunction([p \in PurchaseIds |-> Due(p, a)])

\* The largest bulk sale on record; 1 if every sale was of one unit.
LargestBulk == Max({1} \cup {bulk[k].count : k \in DOMAIN bulk})

\* No purchase, refund, release or dispute pays from what belongs to another
\* purchase: of each asset the contract holds what it still owes, which is the
\* seller_net of every unclaimed escrow.  The one exception is a bulk sale,
\* whose fee is rounded down per recipient in the escrows and once for the sale
\* in the transfer; it leaves the contract short by less than one unit of the
\* asset per recipient.
Solvent ==
    Fresh => \A a \in Assets : Owed(a) - pool[a] \in 0..(LargestBulk - 1)

\* A recorded quote whose sale-terms version is still current shows the price
\* the registry charges for that asset, whatever the creator did in between.
QuoteShowsCurrentPrice ==
    \A b \in Buyers, m \in Materials :
      quote[<<b, m>>] # NoRecord /\ quote[<<b, m>>].version = sale[m].version =>
        quote[<<b, m>>].amount = sale[m].price[quote[<<b, m>>].asset]

\* A settled purchase stays settled as it is.
TerminalIsFinal ==
    [][Fresh' => \A p \in PurchaseIds :
                   settlement[p] \in Terminal => settlement'[p] = settlement[p]]_vars

\* Escrow goes to the creator without an administrator only once the buyer can
\* no longer open a dispute.
NoReleaseInDisputeWindow ==
    [][\A p \in PurchaseIds :
         settlement[p] = "Pending" /\ settlement'[p] = "Released" =>
           ledger >= escrow[p].purchase_ledger + DISPUTE_WINDOW_LEDGERS]_vars

-----------------------------------------------------------------------------
(* The abstract specification that this one implements. *)

\* Where the money of purchase p is.  No step of EscrowSettlement leads one
\* purchase to "void": it stands for an escrow and a settlement that disagree.
CustodyOf(p) ==
    CASE ~Fresh -> "void"
      [] Fresh /\ escrow[p] = NoRecord -> "none"
      [] Fresh /\ escrow[p] # NoRecord ->
           IF escrow[p].claimed
           THEN IF settlement[p] = "Released" THEN "paid_out"
                ELSE IF settlement[p] = "Refunded" THEN "paid_back" ELSE "void"
           ELSE IF settlement[p] = "Pending" THEN "held"
                ELSE IF settlement[p] = "Disputed" THEN "frozen" ELSE "void"

\* The buyer's entitlement to the material is active and names purchase p.
GivesAccess(p) ==
    /\ Fresh
    /\ escrow[p] # NoRecord
    /\ buyerOf[p] # NoRecord
    /\ entitlement[<<escrow[p].material, buyerOf[p]>>] =
         [active |-> TRUE, purchase_id |-> p]

Abstract == INSTANCE EscrowSettlement WITH
    Purchases <- PurchaseIds,
    custody <- [p \in PurchaseIds |-> CustodyOf(p)],
    access <- {p \in PurchaseIds : GivesAccess(p)}

\* The contract implements EscrowSettlement: the money of each purchase is paid
\* exactly once and to one side, and access is granted and revoked in the same
\* call that takes or returns the money, although escrow, settlement, dispute
\* and entitlement are separate storage entries.
ImplementsSettlement == Abstract!Spec

=============================================================================
