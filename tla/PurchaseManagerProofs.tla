----------------------- MODULE PurchaseManagerProofs -----------------------
(***************************************************************************)
(* Proofs about PurchaseManager, for every set of buyers, materials and    *)
(* assets, every fee schedule and any number of purchases, and about the   *)
(* registry contract beside it.                                            *)
(*                                                                         *)
(* TypeOK is inductive by itself.  What the records of one purchase say    *)
(* about each other (Agreement) is inductive together with TypeOK as long  *)
(* as no purchase id is issued twice.  Solvent needs that a bulk sale      *)
(* blocks the next nonce, and the facts of FiniteSums about what is owed   *)
(* in all.  The quote theorem needs that a quote's version never exceeds   *)
(* the registry's.  PurchaseManager implements EscrowSettlement: four      *)
(* storage entries of a purchase, written by six entry points, amount to   *)
(* one place where its money is and one answer to whether it gives access. *)
(* Last, the two contracts of Marketplace together implement               *)
(* PurchaseManager, so that what is proved of it holds of them, and the    *)
(* registry keeps invariants of its own.                                   *)
(***************************************************************************)
EXTENDS Marketplace, FiniteSums, TLAPS

\* A rate at most s keeps a product at most s times the amount.
LEMMA ScaledBound ==
    ASSUME NEW g \in Nat, NEW r \in Nat, NEW s \in Nat, r <= s
    PROVE  g * r \in Nat /\ g * r <= g * s
  OBVIOUS

\* Rounding down a quotient stays within the exact bound.
LEMMA DivisionBound ==
    ASSUME NEW x \in Nat, NEW g \in Nat, NEW d \in Nat \ {0}, x <= g * d
    PROVE  x \div d \in 0..g
<1>1. x \div d \in Nat
  OBVIOUS
<1>2. d * (x \div d) <= x
  OBVIOUS
<1>3. QED
  BY <1>1, <1>2

\* The platform fee never exceeds the gross price: the seller's share that
\* purchase computes by checked subtraction is never negative.
LEMMA SellerNetIsNat ==
    ASSUME NEW gross \in Nat, NEW bps \in FeeRates
    PROVE  SellerNet(gross, bps) \in Nat
<1>1. bps \in 0..BASIS_POINTS /\ BASIS_POINTS \in Nat \ {0}
  BY ConstantsAssumption
<1>2. gross * bps \in Nat /\ gross * bps <= gross * BASIS_POINTS
  BY <1>1, ScaledBound
<1>3. (gross * bps) \div BASIS_POINTS \in 0..gross
  BY <1>1, <1>2, DivisionBound
<1>4. QED
  BY <1>3 DEF SellerNet, PlatformFee

-----------------------------------------------------------------------------
\* The escrow purchase writes is well formed, for one unit or for many.
LEMMA NewEscrowType ==
    ASSUME TypeOK, NEW m \in Materials, NEW a \in Assets
    PROVE  /\ sale[m].price[a] \in Nat
           /\ NewEscrow(m, a, sale[m].price[a]) \in EscrowRecord
           /\ NewEscrow(m, a, sale[m].price[a]).seller_net \in Nat
           /\ \A n \in Nat : TotalSellerNet(n, sale[m].price[a]) \in Nat
<1>0. sale[m].price \in [Assets -> Prices \cup {0}] /\ config.fee_bps \in FeeRates
  BY DEF TypeOK, SaleRecord
<1>1. sale[m].price[a] \in Nat /\ config.fee_bps \in FeeRates
  <2>1. \A q \in Prices \cup {0} : q \in Nat
    BY ConstantsAssumption
  <2>2. sale[m].price[a] \in Prices \cup {0}
    BY <1>0
  <2>3. QED
    BY <2>1, <2>2, <1>0
<1>2. SellerNet(sale[m].price[a], config.fee_bps) \in Nat
  BY <1>1, SellerNetIsNat
<1>3. \A n \in Nat : n * sale[m].price[a] \in Nat
  BY <1>1
<1>4. \A n \in Nat : SellerNet(n * sale[m].price[a], config.fee_bps) \in Nat
  BY <1>1, <1>3, SellerNetIsNat
<1>5. ledger \in 0..MaxLedger
  BY DEF TypeOK
<1>6. NewEscrow(m, a, sale[m].price[a]) \in EscrowRecord
  BY <1>2, <1>5 DEF NewEscrow, EscrowRecord
<1>7. QED
  BY <1>1, <1>2, <1>4, <1>6 DEF NewEscrow, TotalSellerNet

\* initialize leaves well-typed storage.
LEMMA InitTypeOK == Init => TypeOK
<1> SUFFICES ASSUME Init PROVE TypeOK
  OBVIOUS
<1>1. config \in [paused : BOOLEAN, fee_bps : FeeRates, allowed : SUBSET Assets]
  BY DEF Init
<1>2. sale \in [Materials -> SaleRecord]
  <2>1. 0 \in 0..MaxVersion
    BY ConstantsAssumption
  <2>2. NotRegistered \in SaleRecord
    BY <2>1 DEF NotRegistered, SaleRecord
  <2>3. QED
    BY <2>2 DEF Init
<1>3. 0 \in PurchaseIds /\ 0 \in 0..MaxPurchases /\ 0 \in 0..MaxLedger
  BY ConstantsAssumption DEF PurchaseIds
<1>4. QED
  BY <1>1, <1>2, <1>3 DEF Init, TypeOK

\* purchase keeps storage well typed.
LEMMA PurchaseTypeOK ==
    ASSUME TypeOK, NEW b \in Buyers, NEW m \in Materials, NEW a \in Assets,
           Purchase(b, m, a)
    PROVE  TypeOK'
<1>1. nonce \in PurchaseIds
  BY ConstantsAssumption DEF TypeOK, Purchase, PurchaseIds
<1> DEFINE e == NewEscrow(m, a, sale[m].price[a])
<1>2. e \in EscrowRecord /\ e.seller_net \in Nat
  BY NewEscrowType
<1> HIDE DEF e
<1>3. pool' \in [Assets -> Nat]
  BY <1>2 DEF TypeOK, Purchase, e
<1>4. escrow' \in [PurchaseIds -> EscrowRecord \cup {NoRecord}]
  BY <1>1, <1>2 DEF TypeOK, Purchase, e
<1>5. /\ settlement' \in [PurchaseIds -> SettlementStates \cup {NoRecord}]
      /\ buyerOf' \in [PurchaseIds -> Buyers \cup {NoRecord}]
      /\ nonce' \in 0..MaxPurchases
  BY <1>1, ConstantsAssumption DEF TypeOK, Purchase, SettlementStates
<1>6. entitlement' \in [Materials \X Buyers ->
          [active : BOOLEAN, purchase_id : PurchaseIds \cup {NoRecord}]]
  BY <1>1 DEF TypeOK, Purchase
<1>7. /\ quote' \in [Buyers \X Materials -> QuoteRecord \cup {NoRecord}]
      /\ checkout' \subseteq Buyers \X Materials
  BY DEF TypeOK, Purchase
<1>8. reissued' \subseteq PurchaseIds
  BY <1>1 DEF TypeOK, Purchase, Reissue
<1>9. QED
  BY <1>3, <1>4, <1>5, <1>6, <1>7, <1>8 DEF TypeOK, Purchase, marketVars

\* A recipient list is a non-empty function from positions to distinct buyers.
LEMMA RecipientListsType ==
    ASSUME NEW l \in RecipientLists
    PROVE  /\ Len(l) \in Nat \ {0}
           /\ l \in [1..Len(l) -> Buyers]
           /\ \A i, j \in 1..Len(l) : l[i] = l[j] => i = j
<1>1. PICK n \in 1..MAX_BULK_LICENSE_RECIPIENTS : l \in [1..n -> Buyers]
  BY DEF RecipientLists
<1>2. n \in Nat \ {0}
  BY ConstantsAssumption
<1>3. l \in Seq(Buyers) /\ Len(l) = n
  BY <1>1, <1>2
<1>4. \A i, j \in DOMAIN l : l[i] = l[j] => i = j
  BY DEF RecipientLists
<1>5. QED
  BY <1>1, <1>2, <1>3, <1>4

\* purchase_bulk_licenses keeps storage well typed.
LEMMA PurchaseBulkTypeOK ==
    ASSUME TypeOK, NEW b \in Buyers, NEW m \in Materials, NEW a \in Assets,
           NEW l \in RecipientLists, PurchaseBulkLicenses(b, m, a, l)
    PROVE  TypeOK'
<1> DEFINE n == Len(l)
           ids == nonce..(nonce + n - 1)
           e == NewEscrow(m, a, sale[m].price[a])
           t == TotalSellerNet(n, sale[m].price[a])
<1>1. n \in Nat \ {0} /\ l \in [1..n -> Buyers]
  BY RecipientListsType
<1>2. nonce \in Nat /\ nonce + n <= MaxPurchases
  BY DEF TypeOK, PurchaseBulkLicenses
<1> HIDE DEF n
<1>3. /\ nonce \in PurchaseIds
      /\ nonce' \in 0..MaxPurchases
      /\ ids \subseteq PurchaseIds
      /\ \A p \in ids : p - nonce + 1 \in 1..n
      /\ \A i \in 1..n : nonce + i - 1 \in PurchaseIds
  BY <1>1, <1>2, ConstantsAssumption DEF PurchaseIds, PurchaseBulkLicenses
<1>4. e \in EscrowRecord /\ t \in Nat
  BY <1>1, NewEscrowType
<1> HIDE DEF e, t
<1>5. pool' \in [Assets -> Nat]
  BY <1>4 DEF TypeOK, PurchaseBulkLicenses, t, n
<1>6. escrow' \in [PurchaseIds -> EscrowRecord \cup {NoRecord}]
  BY <1>4 DEF TypeOK, PurchaseBulkLicenses, e
<1>7. settlement' \in [PurchaseIds -> SettlementStates \cup {NoRecord}]
  BY DEF TypeOK, PurchaseBulkLicenses, SettlementStates
<1>8. buyerOf' \in [PurchaseIds -> Buyers \cup {NoRecord}]
  <2>1. buyerOf' = [p \in PurchaseIds |->
                      IF p \in ids THEN l[p - nonce + 1] ELSE buyerOf[p]]
    BY DEF PurchaseBulkLicenses, n
  <2>2. QED
    BY <2>1, <1>1, <1>3 DEF TypeOK
<1>9. entitlement' \in [Materials \X Buyers ->
          [active : BOOLEAN, purchase_id : PurchaseIds \cup {NoRecord}]]
  <2> DEFINE pos(k) == CHOOSE i \in 1..n : l[i] = k[2]
  <2>1. entitlement' = [k \in Materials \X Buyers |->
            IF k[1] = m /\ \E i \in 1..n : l[i] = k[2]
            THEN [active |-> TRUE, purchase_id |-> nonce + pos(k) - 1]
            ELSE entitlement[k]]
    BY DEF PurchaseBulkLicenses, n
  <2>2. \A k \in Materials \X Buyers :
           (\E i \in 1..n : l[i] = k[2]) => pos(k) \in 1..n
    OBVIOUS
  <2> HIDE DEF pos
  <2>3. QED
    BY <2>1, <2>2, <1>3 DEF TypeOK
<1>10. bulk' \in [Buyers \X Materials -> [first : PurchaseIds, count : Nat]]
  BY <1>1, <1>3 DEF TypeOK, PurchaseBulkLicenses, n
<1>11. reissued' \subseteq PurchaseIds
  BY <1>3 DEF TypeOK, PurchaseBulkLicenses, Reissue, n
<1>12. QED
  BY <1>3, <1>5, <1>6, <1>7, <1>8, <1>9, <1>10, <1>11
     DEF TypeOK, PurchaseBulkLicenses, marketVars, checkoutVars

\* Paying a covered escrow out of the pool and marking it claimed.
LEMMA PayoutType ==
    ASSUME TypeOK, NEW p \in PurchaseIds, escrow[p] # NoRecord, Covered(escrow[p])
    PROVE  /\ escrow[p] \in EscrowRecord
           /\ PayFromPool(p) \in [Assets -> Nat]
           /\ ClaimEscrow(p) \in [PurchaseIds -> EscrowRecord \cup {NoRecord}]
<1>1. escrow[p] \in EscrowRecord
  BY DEF TypeOK
<1>2. /\ escrow[p].asset \in Assets /\ escrow[p].seller_net \in Nat
      /\ [escrow[p] EXCEPT !.claimed = TRUE] \in EscrowRecord
  BY <1>1 DEF EscrowRecord
<1>3. PayFromPool(p) \in [Assets -> Nat]
  BY <1>2 DEF TypeOK, PayFromPool, Covered
<1>4. ClaimEscrow(p) \in [PurchaseIds -> EscrowRecord \cup {NoRecord}]
  BY <1>2 DEF TypeOK, ClaimEscrow
<1>5. QED
  BY <1>1, <1>3, <1>4

\* perform_single_refund keeps what it writes well typed.
LEMMA SingleRefundType ==
    ASSUME TypeOK, NEW p \in PurchaseIds, PerformSingleRefund(p)
    PROVE  /\ pool' \in [Assets -> Nat]
           /\ escrow' \in [PurchaseIds -> EscrowRecord \cup {NoRecord}]
           /\ entitlement' \in [Materials \X Buyers ->
                [active : BOOLEAN, purchase_id : PurchaseIds \cup {NoRecord}]]
           /\ settlement' \in [PurchaseIds -> SettlementStates \cup {NoRecord}]
<1>1. escrow[p] # NoRecord /\ Covered(escrow[p])
  BY DEF PerformSingleRefund, Refundable
<1>2. /\ pool' \in [Assets -> Nat]
      /\ escrow' \in [PurchaseIds -> EscrowRecord \cup {NoRecord}]
  BY <1>1, PayoutType DEF PerformSingleRefund
<1>3. entitlement' \in [Materials \X Buyers ->
        [active : BOOLEAN, purchase_id : PurchaseIds \cup {NoRecord}]]
  <2> DEFINE k == <<escrow[p].material, buyerOf[p]>>
  <2>1. \A j \in Materials \X Buyers :
          [entitlement[j] EXCEPT !.active = FALSE] \in
             [active : BOOLEAN, purchase_id : PurchaseIds \cup {NoRecord}]
    <3>1. TAKE j \in Materials \X Buyers
    <3>2. entitlement[j] \in
             [active : BOOLEAN, purchase_id : PurchaseIds \cup {NoRecord}]
      BY DEF TypeOK
    <3>3. QED
      BY <3>2
  <2>2. entitlement' = [entitlement EXCEPT ![k] =
                          [entitlement[k] EXCEPT !.active = FALSE]]
    BY DEF PerformSingleRefund, RevokeEntitlement
  <2>3. QED
    BY <2>1, <2>2 DEF TypeOK
<1>4. settlement' \in [PurchaseIds -> SettlementStates \cup {NoRecord}]
  BY DEF TypeOK, PerformSingleRefund, SettlementStates
<1>5. QED
  BY <1>2, <1>3, <1>4

\* So do withdraw_payouts, the refunds and both dispute calls.
LEMMA SettlementStepTypeOK ==
    ASSUME TypeOK, NEW p \in PurchaseIds, SettlementStep(p)
    PROVE  TypeOK'
<1>1. CASE WithdrawPayouts(p)
  <2>1. /\ pool' \in [Assets -> Nat]
        /\ escrow' \in [PurchaseIds -> EscrowRecord \cup {NoRecord}]
    BY <1>1, PayoutType DEF WithdrawPayouts
  <2>2. settlement' \in [PurchaseIds -> SettlementStates \cup {NoRecord}]
    BY <1>1 DEF TypeOK, WithdrawPayouts, SettlementStates
  <2>3. QED
    BY <1>1, <2>1, <2>2 DEF TypeOK, WithdrawPayouts, marketVars, checkoutVars
<1>2. CASE RefundPurchase(p)
  BY <1>2, SingleRefundType DEF TypeOK, RefundPurchase, marketVars, checkoutVars
<1>3. ASSUME NEW b \in Buyers, OpenDispute(b, p)
      PROVE  TypeOK'
  <2>1. dispute' \in [PurchaseIds -> DisputeRecord \cup {NoRecord}]
    BY <1>3 DEF TypeOK, OpenDispute, DisputeRecord, Resolutions
  <2>2. settlement' \in [PurchaseIds -> SettlementStates \cup {NoRecord}]
    BY <1>3 DEF TypeOK, OpenDispute, SettlementStates
  <2>3. QED
    BY <1>3, <2>1, <2>2 DEF TypeOK, OpenDispute, marketVars, checkoutVars
<1>4. ASSUME NEW r \in Resolutions, ResolveDispute(p, r)
      PROVE  TypeOK'
  <2>1. dispute' \in [PurchaseIds -> DisputeRecord \cup {NoRecord}]
    <3>1. dispute[p] \in DisputeRecord
      BY <1>4 DEF TypeOK, ResolveDispute
    <3>2. [dispute[p] EXCEPT !.resolution = r] \in DisputeRecord
      BY <3>1 DEF DisputeRecord
    <3>3. dispute' = [dispute EXCEPT ![p] = [dispute[p] EXCEPT !.resolution = r]]
      BY <1>4 DEF TypeOK, ResolveDispute
    <3>4. QED
      BY <3>2, <3>3 DEF TypeOK
  <2>2. /\ pool' \in [Assets -> Nat]
        /\ escrow' \in [PurchaseIds -> EscrowRecord \cup {NoRecord}]
        /\ entitlement' \in [Materials \X Buyers ->
             [active : BOOLEAN, purchase_id : PurchaseIds \cup {NoRecord}]]
        /\ settlement' \in [PurchaseIds -> SettlementStates \cup {NoRecord}]
    <3>1. CASE r = "RefundBuyer"
      BY <1>4, <3>1, SingleRefundType DEF ResolveDispute
    <3>2. CASE r # "RefundBuyer"
      <4>1. /\ pool' \in [Assets -> Nat]
            /\ escrow' \in [PurchaseIds -> EscrowRecord \cup {NoRecord}]
        BY <1>4, <3>2, PayoutType DEF ResolveDispute
      <4>2. QED
        BY <1>4, <3>2, <4>1 DEF TypeOK, ResolveDispute, SettlementStates
    <3>3. QED
      BY <3>1, <3>2
  <2>3. QED
    BY <1>4, <2>1, <2>2 DEF TypeOK, ResolveDispute, marketVars, checkoutVars
<1>5. QED
  BY <1>1, <1>2, <1>3, <1>4 DEF SettlementStep

\* redeem_scholarship_credits keeps storage well typed.
LEMMA RedeemTypeOK ==
    ASSUME TypeOK, NEW b \in Buyers, NEW m \in Materials,
           RedeemScholarshipCredits(b, m)
    PROVE  TypeOK'
<1>1. nonce \in PurchaseIds /\ nonce' \in 0..MaxPurchases
  BY ConstantsAssumption DEF TypeOK, RedeemScholarshipCredits, PurchaseIds
<1>2. /\ settlement' \in [PurchaseIds -> SettlementStates \cup {NoRecord}]
      /\ buyerOf' \in [PurchaseIds -> Buyers \cup {NoRecord}]
  BY <1>1 DEF TypeOK, RedeemScholarshipCredits, SettlementStates
<1>3. entitlement' \in [Materials \X Buyers ->
        [active : BOOLEAN, purchase_id : PurchaseIds \cup {NoRecord}]]
  BY <1>1 DEF TypeOK, RedeemScholarshipCredits
<1>4. redeemed' \subseteq Buyers \X Materials /\ reissued' \subseteq PurchaseIds
  BY <1>1 DEF TypeOK, RedeemScholarshipCredits, Reissue
<1>5. QED
  BY <1>1, <1>2, <1>3, <1>4
     DEF TypeOK, RedeemScholarshipCredits, marketVars, checkoutVars

\* Every call a buyer makes keeps storage well typed.
LEMMA BuyerStepTypeOK ==
    ASSUME TypeOK, NEW b \in Buyers, BuyerStep(b)
    PROVE  TypeOK'
<1>1. PICK m \in Materials :
        \/ \E a \in Assets : Purchase(b, m, a) \/ RecordQuote(b, m, a)
        \/ BeginCheckout(b, m) \/ CancelCheckout(b, m)
        \/ RedeemScholarshipCredits(b, m)
        \/ \E a \in Assets : \E l \in RecipientLists :
              PurchaseBulkLicenses(b, m, a, l)
        \/ \E limit \in 1..MAX_BULK_LICENSE_RECIPIENTS :
              RefundBulkBegin(b, m, limit)
  BY DEF BuyerStep
<1>2. ASSUME NEW a \in Assets, RecordQuote(b, m, a) PROVE TypeOK'
  <2>1. sale[m].price[a] \in Nat
    BY NewEscrowType
  <2>2. sale[m].version \in 0..MaxVersion /\ ledger + QuoteTtl \in Nat
    BY ConstantsAssumption DEF TypeOK, SaleRecord
  <2>3. quote' \in [Buyers \X Materials -> QuoteRecord \cup {NoRecord}]
    BY <1>2, <2>1, <2>2 DEF TypeOK, RecordQuote, QuoteRecord
  <2>4. QED
    BY <1>2, <2>3 DEF TypeOK, RecordQuote, marketVars
<1>3. CASE BeginCheckout(b, m)
  BY <1>3 DEF TypeOK, BeginCheckout, marketVars
<1>4. CASE CancelCheckout(b, m)
  BY <1>4 DEF TypeOK, CancelCheckout, marketVars
<1>5. ASSUME NEW limit \in 1..MAX_BULK_LICENSE_RECIPIENTS,
             RefundBulkBegin(b, m, limit)
      PROVE  TypeOK'
  <2>1. bulk[<<b, m>>].first \in Nat /\ limit \in Nat
    BY ConstantsAssumption DEF TypeOK, PurchaseIds
  <2>2. batch' \in [next : Nat, left : Nat]
    BY <1>5, <2>1 DEF RefundBulkBegin
  <2>3. QED
    BY <1>5, <2>2 DEF TypeOK, RefundBulkBegin, marketVars, checkoutVars
<1>6. QED
  BY <1>1, <1>2, <1>3, <1>4, <1>5, PurchaseTypeOK, PurchaseBulkTypeOK, RedeemTypeOK

\* An iteration of refund_bulk_purchase keeps storage well typed.
LEMMA RefundBulkStepTypeOK ==
    ASSUME TypeOK, RefundBulkStep
    PROVE  TypeOK'
<1>1. batch' \in [next : Nat, left : Nat]
  <2>1. batch.next \in Nat /\ batch.left \in Nat
    BY DEF TypeOK
  <2>2. batch.left # 0
    BY DEF RefundBulkStep, Idle
  <2>3. QED
    BY <2>1, <2>2 DEF RefundBulkStep
<1>2. /\ pool' \in [Assets -> Nat]
      /\ escrow' \in [PurchaseIds -> EscrowRecord \cup {NoRecord}]
      /\ entitlement' \in [Materials \X Buyers ->
           [active : BOOLEAN, purchase_id : PurchaseIds \cup {NoRecord}]]
      /\ settlement' \in [PurchaseIds -> SettlementStates \cup {NoRecord}]
  <2>1. CASE batch.next \in PurchaseIds /\ Refundable(batch.next)
    BY <2>1, SingleRefundType DEF RefundBulkStep
  <2>2. CASE ~(batch.next \in PurchaseIds /\ Refundable(batch.next))
    BY <2>2 DEF TypeOK, RefundBulkStep
  <2>3. QED
    BY <2>1, <2>2
<1>3. QED
  BY <1>1, <1>2 DEF TypeOK, RefundBulkStep, marketVars, checkoutVars

\* Calls of administrators and creators keep storage well typed.
LEMMA MarketStepTypeOK ==
    ASSUME TypeOK, MarketStep
    PROVE  TypeOK'
<1>1. ASSUME NEW v \in BOOLEAN, SetPaused(v) PROVE TypeOK'
  BY <1>1 DEF TypeOK, SetPaused, contractVars, checkoutVars
<1>2. ASSUME NEW bps \in FeeRates, SetFeeRate(bps) PROVE TypeOK'
  BY <1>2 DEF TypeOK, SetFeeRate, contractVars, checkoutVars
<1>3. ASSUME NEW a \in Assets, NEW v \in BOOLEAN, SetAssetAllowed(a, v)
      PROVE  TypeOK'
  <2>1. config' \in [paused : BOOLEAN, fee_bps : FeeRates, allowed : SUBSET Assets]
    BY <1>3 DEF TypeOK, SetAssetAllowed
  <2>2. QED
    BY <1>3, <2>1 DEF TypeOK, SetAssetAllowed, contractVars, checkoutVars
<1>4. ASSUME NEW m \in Materials, NEW price \in [Assets -> Prices \cup {0}],
             UpdateSaleTerms(m, price)
      PROVE  TypeOK'
  <2> DEFINE P == [Assets -> Prices \cup {0}]
             t == NewSaleTerms(m, price)
  <2>1. sale[m].version + 1 \in 0..MaxVersion
    BY <1>4, ConstantsAssumption DEF TypeOK, SaleRecord, UpdateSaleTerms
  <2>2. sale' = [sale EXCEPT ![m] = t]
    BY <1>4 DEF TypeOK, UpdateSaleTerms
  <2>3. SaleRecord = [on_sale : BOOLEAN, version : 0..MaxVersion, price : P]
    BY DEF SaleRecord
  <2>4. sale \in [Materials -> SaleRecord] /\ price \in P
    BY DEF TypeOK
  <2> HIDE DEF P
  <2>5. t \in SaleRecord
    BY <2>1, <2>3, <2>4 DEF NewSaleTerms
  <2> HIDE DEF t
  <2>6. sale' \in [Materials -> SaleRecord]
    BY <2>2, <2>4, <2>5
  <2>7. QED
    BY <1>4, <2>6 DEF TypeOK, UpdateSaleTerms, contractVars, checkoutVars
<1>5. ASSUME NEW m \in Materials, NEW v \in BOOLEAN, SetMaterialOnSale(m, v)
      PROVE  TypeOK'
  <2> DEFINE P == [Assets -> Prices \cup {0}]
             t == [sale[m] EXCEPT !.on_sale = v]
  <2>1. sale' = [sale EXCEPT ![m] = t]
    BY <1>5 DEF SetMaterialOnSale
  <2>2. SaleRecord = [on_sale : BOOLEAN, version : 0..MaxVersion, price : P]
    BY DEF SaleRecord
  <2>3. sale \in [Materials -> SaleRecord]
    BY DEF TypeOK
  <2> HIDE DEF P
  <2>4. t \in SaleRecord
    BY <2>2, <2>3
  <2> HIDE DEF t
  <2>5. sale' \in [Materials -> SaleRecord]
    BY <2>1, <2>3, <2>4
  <2>6. QED
    BY <1>5, <2>5 DEF TypeOK, SetMaterialOnSale, contractVars, checkoutVars
<1>6. ASSUME NEW m \in Materials, NEW price \in [Assets -> Prices \cup {0}],
             RegisterMaterial(m, price)
      PROVE  TypeOK'
  <2>1. [on_sale |-> TRUE, version |-> 1, price |-> price] \in SaleRecord
    BY ConstantsAssumption DEF SaleRecord
  <2>2. sale' \in [Materials -> SaleRecord]
    BY <1>6, <2>1 DEF TypeOK, RegisterMaterial
  <2>3. QED
    BY <1>6, <2>2 DEF TypeOK, RegisterMaterial, contractVars, checkoutVars
<1>7. CASE CloseLedger
  BY <1>7, ConstantsAssumption
     DEF TypeOK, CloseLedger, marketVars, contractVars, checkoutVars
<1>8. QED
  BY <1>1, <1>2, <1>3, <1>4, <1>5, <1>6, <1>7
     DEF MarketStep, AdminStep, RegistryStep

\* A step that changes nothing keeps storage well typed.
LEMMA StutterTypeOK ==
    ASSUME TypeOK, UNCHANGED vars
    PROVE  TypeOK'
  BY DEF TypeOK, vars

\* Type correctness of the contract's storage: ids, amounts and balances stay
\* in range whatever is called (in particular no escrow is ever negative and
\* the contract never pays more than it holds).
THEOREM TypeCorrect == Spec => []TypeOK
<1>1. Init => TypeOK
  BY InitTypeOK
<1>2. TypeOK /\ [Next]_vars => TypeOK'
  BY BuyerStepTypeOK, SettlementStepTypeOK, RefundBulkStepTypeOK,
     MarketStepTypeOK, StutterTypeOK DEF Next
<1>3. QED
  BY <1>1, <1>2, PTL DEF Spec

-----------------------------------------------------------------------------
(* The three safety invariants support one another: a refund must revoke the *)
(* right entitlement (GrantsAccess), which holds because no other live       *)
(* purchase shares it (Backed), and money moves only where escrow and        *)
(* settlement agree (EscrowAgrees). None is inductive alone; together with   *)
(* TypeOK they are.                                                          *)

Agreement ==
    /\ \A p \in PurchaseIds : EscrowAgrees(p) /\ GrantsAccess(p)
    /\ \A m \in Materials, b \in Buyers : Backed(m, b)

coreVars == <<escrow, settlement, dispute, buyerOf, entitlement>>

\* Agreement only depends on the records of purchases.
LEMMA AgreementUnchanged ==
    ASSUME Agreement, UNCHANGED coreVars
    PROVE  Agreement'
  BY DEF Agreement, coreVars, EscrowAgrees, GrantsAccess, Backed, Live, HasEntitlement

\* A purchase under an id that carries none: what agreement says of it.
LEMMA FreshId ==
    ASSUME TypeOK, Agreement, NEW q \in PurchaseIds, settlement[q] = NoRecord
    PROVE  /\ escrow[q] = NoRecord
           /\ dispute[q] = NoRecord
           /\ \A m \in Materials, b \in Buyers :
                HasEntitlement(m, b) => entitlement[<<m, b>>].purchase_id # q
<1>1. NoRecord \notin SettlementStates
  BY NoRecordAssumption
<1>2. escrow[q] = NoRecord /\ dispute[q] = NoRecord
  BY DEF Agreement, EscrowAgrees
<1>3. ~Live(q)
  BY <1>1 DEF Live, SettlementStates
<1>4. QED
  BY <1>2, <1>3 DEF Agreement, Backed

\* Granting (m, b) under a fresh id q, with an escrow for m or with none.
LEMMA GrantAgreement ==
    ASSUME TypeOK, Agreement, NEW q \in PurchaseIds, settlement[q] = NoRecord,
           NEW m \in Materials, NEW b \in Buyers, ~HasEntitlement(m, b),
           NEW e \in EscrowRecord \cup {NoRecord},
           e # NoRecord => e.material = m /\ e.claimed = FALSE,
           escrow' = [escrow EXCEPT ![q] = e],
           settlement' = [settlement EXCEPT ![q] = "Pending"],
           buyerOf' = [buyerOf EXCEPT ![q] = b],
           entitlement' = [entitlement EXCEPT ![<<m, b>>] =
                             [active |-> TRUE, purchase_id |-> q]],
           dispute' = dispute
    PROVE  Agreement'
<1>1. /\ escrow[q] = NoRecord /\ dispute[q] = NoRecord
      /\ \A mm \in Materials, bb \in Buyers :
           HasEntitlement(mm, bb) => entitlement[<<mm, bb>>].purchase_id # q
  BY FreshId
<1>2. ASSUME NEW p \in PurchaseIds PROVE EscrowAgrees(p)'
  <2>1. CASE p = q
    BY <2>1, <1>1, NoRecordAssumption
       DEF TypeOK, EscrowAgrees, Terminal, SettlementStates
  <2>2. CASE p # q
    <3>1. escrow'[p] = escrow[p] /\ settlement'[p] = settlement[p]
      BY <2>2 DEF TypeOK
    <3>2. QED
      BY <3>1 DEF Agreement, EscrowAgrees
  <2>3. QED
    BY <2>1, <2>2
<1>3. ASSUME NEW p \in PurchaseIds PROVE GrantsAccess(p)'
  <2>1. CASE p = q
    BY <2>1 DEF TypeOK, GrantsAccess
  <2>2. CASE p # q
    <3>1. SUFFICES ASSUME Live(p), escrow[p] # NoRecord
                   PROVE  GrantsAccess(p)'
      BY <2>2 DEF TypeOK, GrantsAccess, Live
    <3>2. /\ buyerOf[p] \in Buyers
          /\ entitlement[<<escrow[p].material, buyerOf[p]>>] =
               [active |-> TRUE, purchase_id |-> p]
      BY <3>1 DEF Agreement, GrantsAccess
    <3>3. <<escrow[p].material, buyerOf[p]>> # <<m, b>>
      BY <3>2 DEF HasEntitlement
    <3>4. QED
      BY <2>2, <3>2, <3>3 DEF TypeOK, GrantsAccess
  <2>3. QED
    BY <2>1, <2>2
<1>4. ASSUME NEW mm \in Materials, NEW bb \in Buyers PROVE Backed(mm, bb)'
  <2>1. CASE mm = m /\ bb = b
    BY <2>1 DEF TypeOK, Backed, Live, HasEntitlement
  <2>2. CASE ~(mm = m /\ bb = b)
    <3>1. entitlement'[<<mm, bb>>] = entitlement[<<mm, bb>>]
      BY <2>2 DEF TypeOK
    <3>2. SUFFICES ASSUME HasEntitlement(mm, bb) PROVE Backed(mm, bb)'
      BY <3>1 DEF Backed, HasEntitlement
    <3> DEFINE p == entitlement[<<mm, bb>>].purchase_id
    <3>3. /\ p \in PurchaseIds /\ buyerOf[p] = bb /\ Live(p)
          /\ escrow[p] # NoRecord => escrow[p].material = mm
          /\ p # q
      BY <1>1, <3>2 DEF Agreement, Backed
    <3>4. /\ buyerOf'[p] = bb /\ settlement'[p] = settlement[p]
          /\ escrow'[p] = escrow[p]
      BY <3>3 DEF TypeOK
    <3>5. QED
      BY <3>1, <3>3, <3>4 DEF Backed, Live, HasEntitlement
  <2>3. QED
    BY <2>1, <2>2
<1>5. QED
  BY <1>2, <1>3, <1>4 DEF Agreement

\* Paying an undisputed escrow to the creator.
LEMMA ReleaseAgreement ==
    ASSUME TypeOK, Agreement, NEW q \in PurchaseIds, escrow[q] # NoRecord,
           settlement[q] \in {"Pending", "Disputed"},
           escrow' = ClaimEscrow(q),
           settlement' = [settlement EXCEPT ![q] = "Released"],
           \/ settlement[q] = "Pending" /\ dispute' = dispute
           \/ dispute' = [dispute EXCEPT ![q].resolution = "ReleaseToCreator"]
                /\ dispute[q] # NoRecord,
           UNCHANGED <<buyerOf, entitlement>>
    PROVE  Agreement'
<1>1. escrow[q] \in EscrowRecord
  BY DEF TypeOK
<1>2. \A p \in PurchaseIds :
        /\ escrow[p] # NoRecord => escrow'[p] # NoRecord
                                    /\ escrow'[p].material = escrow[p].material
        /\ escrow[p] = NoRecord => escrow'[p] = NoRecord
        /\ p # q => escrow'[p] = escrow[p] /\ settlement'[p] = settlement[p]
                      /\ dispute'[p] = dispute[p]
        /\ Live(p)' = Live(p)
  <2>1. ASSUME NEW p \in PurchaseIds, p # q
        PROVE  escrow'[p] = escrow[p] /\ settlement'[p] = settlement[p]
                 /\ dispute'[p] = dispute[p]
    BY <2>1 DEF TypeOK, ClaimEscrow
  <2>2. escrow'[q] = [escrow[q] EXCEPT !.claimed = TRUE]
    BY DEF TypeOK, ClaimEscrow
  <2>3. escrow'[q] \in EscrowRecord /\ escrow'[q].material = escrow[q].material
    BY <1>1, <2>2 DEF EscrowRecord
  <2>4. escrow'[q] # NoRecord
    BY <2>3, NoRecordIsNoRecord
  <2>5. settlement'[q] = "Released"
    BY DEF TypeOK
  <2>6. Live(q)' = Live(q)
    BY <2>5 DEF Live
  <2>7. QED
    BY <2>1, <2>3, <2>4, <2>6 DEF Live
<1>3. /\ escrow'[q].claimed = TRUE
      /\ settlement'[q] = "Released"
      /\ ~(dispute'[q] # NoRecord /\ dispute'[q].resolution = "Unresolved")
  BY <1>1 DEF TypeOK, ClaimEscrow, EscrowRecord, Agreement, EscrowAgrees, DisputeRecord
<1>4. ASSUME NEW p \in PurchaseIds PROVE EscrowAgrees(p)' /\ GrantsAccess(p)'
  <2>1. EscrowAgrees(p)'
    <3>1. CASE p = q
      BY <3>1, <1>2, <1>3, NoRecordAssumption
         DEF EscrowAgrees, Terminal, SettlementStates
    <3>2. CASE p # q
      BY <3>2, <1>2 DEF Agreement, EscrowAgrees
    <3>3. QED
      BY <3>1, <3>2
  <2>2. GrantsAccess(p)'
    BY <1>2 DEF Agreement, GrantsAccess
  <2>3. QED
    BY <2>1, <2>2
<1>5. ASSUME NEW m \in Materials, NEW b \in Buyers PROVE Backed(m, b)'
  BY <1>2 DEF Agreement, Backed, HasEntitlement
<1>6. QED
  BY <1>4, <1>5 DEF Agreement

\* perform_single_refund keeps agreement: the entitlement it revokes is the
\* one of the purchase it refunds.
LEMMA RefundAgreement ==
    ASSUME TypeOK, Agreement, NEW q \in PurchaseIds, PerformSingleRefund(q),
           UNCHANGED <<dispute, buyerOf>>
    PROVE  Agreement'
<1> DEFINE m == escrow[q].material
           b == buyerOf[q]
<1>1. /\ escrow[q] \in EscrowRecord /\ escrow[q] # NoRecord
      /\ settlement[q] = "Pending"
      /\ b \in Buyers /\ m \in Materials
  BY DEF TypeOK, PerformSingleRefund, Refundable, EscrowRecord
<1>2. entitlement[<<m, b>>] = [active |-> TRUE, purchase_id |-> q]
  BY <1>1 DEF Agreement, GrantsAccess, Live
<1>3. /\ settlement' = [settlement EXCEPT ![q] = "Refunded"]
      /\ escrow' = [escrow EXCEPT ![q].claimed = TRUE]
      /\ entitlement' = [entitlement EXCEPT ![<<m, b>>].active = FALSE]
  BY DEF PerformSingleRefund, ClaimEscrow, RevokeEntitlement
<1>4. \A p \in PurchaseIds : p # q =>
        escrow'[p] = escrow[p] /\ settlement'[p] = settlement[p]
  BY <1>3 DEF TypeOK
<1>5. /\ escrow'[q] # NoRecord /\ escrow'[q].claimed = TRUE
      /\ settlement'[q] = "Refunded"
  <2>1. escrow'[q] = [escrow[q] EXCEPT !.claimed = TRUE]
    BY <1>3 DEF TypeOK
  <2>2. escrow'[q] \in EscrowRecord /\ escrow'[q].claimed = TRUE
    BY <1>1, <2>1 DEF EscrowRecord
  <2>3. QED
    BY <1>3, <2>2, NoRecordIsNoRecord DEF TypeOK
<1>6. /\ \A k \in Materials \X Buyers :
           k # <<m, b>> => entitlement'[k] = entitlement[k]
      /\ entitlement'[<<m, b>>].active = FALSE
  BY <1>1, <1>3 DEF TypeOK
<1> HIDE DEF m, b
<1>7. ASSUME NEW p \in PurchaseIds PROVE EscrowAgrees(p)'
  <2>1. CASE p = q
    <3>1. ~(dispute[q] # NoRecord /\ dispute[q].resolution = "Unresolved")
      BY <1>1 DEF Agreement, EscrowAgrees
    <3>2. QED
      BY <2>1, <3>1, <1>5, NoRecordAssumption
         DEF EscrowAgrees, Terminal, SettlementStates
  <2>2. CASE p # q
    BY <2>2, <1>4 DEF Agreement, EscrowAgrees
  <2>3. QED
    BY <2>1, <2>2
<1>8. ASSUME NEW p \in PurchaseIds PROVE GrantsAccess(p)'
  <2>1. CASE p = q
    BY <2>1, <1>5 DEF GrantsAccess, Live
  <2>2. CASE p # q
    <3>1. SUFFICES ASSUME Live(p), escrow[p] # NoRecord
                   PROVE  GrantsAccess(p)'
      BY <2>2, <1>4 DEF GrantsAccess, Live
    <3> DEFINE k == <<escrow[p].material, buyerOf[p]>>
    <3>2. buyerOf[p] \in Buyers /\ escrow[p].material \in Materials
          /\ entitlement[k] = [active |-> TRUE, purchase_id |-> p]
      BY <3>1 DEF Agreement, GrantsAccess, TypeOK, EscrowRecord
    <3>3. k # <<m, b>>
      BY <3>2, <1>2, <2>2
    <3>4. entitlement'[k] = entitlement[k]
      BY <3>2, <3>3, <1>6
    <3>5. QED
      BY <2>2, <1>4, <3>2, <3>4 DEF GrantsAccess
  <2>3. QED
    BY <2>1, <2>2
<1>9. ASSUME NEW mm \in Materials, NEW bb \in Buyers PROVE Backed(mm, bb)'
  <2>1. CASE <<mm, bb>> = <<m, b>>
    BY <2>1, <1>6 DEF Backed, HasEntitlement
  <2>2. CASE <<mm, bb>> # <<m, b>>
    <3>1. entitlement'[<<mm, bb>>] = entitlement[<<mm, bb>>]
      BY <2>2, <1>6
    <3>2. SUFFICES ASSUME HasEntitlement(mm, bb) PROVE Backed(mm, bb)'
      BY <3>1 DEF Backed, HasEntitlement
    <3> DEFINE p == entitlement[<<mm, bb>>].purchase_id
    <3>3. /\ p \in PurchaseIds /\ buyerOf[p] = bb /\ Live(p)
          /\ escrow[p] # NoRecord => escrow[p].material = mm
      BY <3>2 DEF Agreement, Backed
    <3>4. p # q
      BY <3>3, <2>2, <1>1 DEF m, b
    <3>5. QED
      BY <3>1, <3>3, <3>4, <1>4 DEF Backed, Live, HasEntitlement
  <2>3. QED
    BY <2>1, <2>2
<1>10. QED
  BY <1>7, <1>8, <1>9 DEF Agreement

\* open_dispute keeps agreement.
LEMMA OpenDisputeAgreement ==
    ASSUME TypeOK, Agreement, NEW q \in PurchaseIds, NEW b \in Buyers,
           OpenDispute(b, q)
    PROVE  Agreement'
<1>1. /\ escrow[q] # NoRecord /\ settlement[q] = "Pending"
      /\ settlement' = [settlement EXCEPT ![q] = "Disputed"]
      /\ dispute' = [dispute EXCEPT ![q] =
                       [opener |-> b, resolution |-> "Unresolved"]]
      /\ UNCHANGED <<escrow, buyerOf, entitlement>>
  BY DEF OpenDispute, CanDispute
<1>2. /\ settlement'[q] = "Disputed"
      /\ dispute'[q] = [opener |-> b, resolution |-> "Unresolved"]
      /\ dispute'[q] \in DisputeRecord
  BY <1>1 DEF TypeOK, DisputeRecord, Resolutions
<1>3. \A p \in PurchaseIds :
        /\ p # q => settlement'[p] = settlement[p] /\ dispute'[p] = dispute[p]
        /\ Live(p)' = Live(p)
  BY <1>1, <1>2 DEF TypeOK, Live
<1>4. ASSUME NEW p \in PurchaseIds PROVE EscrowAgrees(p)'
  <2>1. CASE p = q
    <3>1. dispute'[q] # NoRecord
      BY <1>2, NoRecordIsNoRecord
    <3>2. ~escrow[q].claimed
      BY <1>1 DEF Agreement, EscrowAgrees, Terminal
    <3>3. QED
      BY <2>1, <1>1, <1>2, <3>1, <3>2, NoRecordAssumption
         DEF EscrowAgrees, Terminal, SettlementStates
  <2>2. CASE p # q
    BY <2>2, <1>1, <1>3 DEF Agreement, EscrowAgrees
  <2>3. QED
    BY <2>1, <2>2
<1>5. ASSUME NEW p \in PurchaseIds PROVE GrantsAccess(p)'
  BY <1>1, <1>3 DEF Agreement, GrantsAccess
<1>6. ASSUME NEW m \in Materials, NEW bb \in Buyers PROVE Backed(m, bb)'
  BY <1>1, <1>3 DEF Agreement, Backed, HasEntitlement
<1>7. QED
  BY <1>4, <1>5, <1>6 DEF Agreement

\* purchase_bulk_licenses keeps agreement when none of its ids was in use:
\* its recipients are distinct and had no entitlement before.
LEMMA BulkAgreement ==
    ASSUME TypeOK, Agreement, NEW b \in Buyers, NEW m \in Materials,
           NEW a \in Assets, NEW l \in RecipientLists,
           PurchaseBulkLicenses(b, m, a, l), reissued' = {}
    PROVE  Agreement'
<1> DEFINE n == Len(l)
           ids == nonce..(nonce + n - 1)
           e == NewEscrow(m, a, sale[m].price[a])
           pos(bb) == CHOOSE i \in 1..n : l[i] = bb
<1>1. /\ n \in Nat \ {0} /\ l \in [1..n -> Buyers]
      /\ \A i, j \in 1..n : l[i] = l[j] => i = j
  BY RecipientListsType
<1>2. nonce \in Nat /\ nonce + n <= MaxPurchases
  BY DEF TypeOK, PurchaseBulkLicenses
<1>3. /\ escrow' = [p \in PurchaseIds |-> IF p \in ids THEN e ELSE escrow[p]]
      /\ settlement' = [p \in PurchaseIds |->
                          IF p \in ids THEN "Pending" ELSE settlement[p]]
      /\ buyerOf' = [p \in PurchaseIds |->
                       IF p \in ids THEN l[p - nonce + 1] ELSE buyerOf[p]]
      /\ entitlement' =
           [k \in Materials \X Buyers |->
              IF k[1] = m /\ \E i \in 1..n : l[i] = k[2]
              THEN [active |-> TRUE, purchase_id |-> nonce + pos(k[2]) - 1]
              ELSE entitlement[k]]
      /\ dispute' = dispute
  BY DEF PurchaseBulkLicenses
<1>4. \A i \in 1..n : ~HasEntitlement(m, l[i])
  BY <1>1 DEF PurchaseBulkLicenses, RecipientsFree
<1>5. \A p \in ids : settlement[p] = NoRecord
  BY DEF PurchaseBulkLicenses, Reissue
<1> HIDE DEF n
<1>6. /\ ids \subseteq PurchaseIds
      /\ \A p \in ids : p - nonce + 1 \in 1..n
      /\ \A i \in 1..n : nonce + i - 1 \in ids /\ nonce + i - 1 - nonce + 1 = i
      /\ \A p \in ids : nonce + (p - nonce + 1) - 1 = p
  BY <1>1, <1>2, ConstantsAssumption DEF PurchaseIds
<1>7. \A i \in 1..n : pos(l[i]) = i
  BY <1>1
<1>8. \A p \in ids :
        /\ escrow[p] = NoRecord /\ dispute[p] = NoRecord
        /\ \A mm \in Materials, bb \in Buyers :
             HasEntitlement(mm, bb) => entitlement[<<mm, bb>>].purchase_id # p
  BY <1>5, <1>6, FreshId
<1>9. e \in EscrowRecord /\ e # NoRecord /\ e.material = m /\ e.claimed = FALSE
  BY NewEscrowType, NoRecordIsNoRecord DEF NewEscrow
<1> HIDE DEF e, pos
<1>10. \A i \in 1..n : entitlement'[<<m, l[i]>>] =
                          [active |-> TRUE, purchase_id |-> nonce + i - 1]
  BY <1>1, <1>3, <1>7
<1>11. \A mm \in Materials, bb \in Buyers :
         HasEntitlement(mm, bb) =>
           entitlement'[<<mm, bb>>] = entitlement[<<mm, bb>>]
  BY <1>3, <1>4
<1> HIDE DEF ids
<1>12. \A p \in PurchaseIds :
         /\ p \in ids => /\ escrow'[p] = e /\ settlement'[p] = "Pending"
                         /\ buyerOf'[p] = l[p - nonce + 1]
         /\ p \notin ids => /\ escrow'[p] = escrow[p]
                            /\ settlement'[p] = settlement[p]
                            /\ buyerOf'[p] = buyerOf[p]
  BY <1>3
<1>13. ASSUME NEW p \in PurchaseIds PROVE EscrowAgrees(p)'
  <2>1. CASE p \in ids
    BY <2>1, <1>3, <1>8, <1>9, <1>12, NoRecordAssumption
       DEF EscrowAgrees, Terminal, SettlementStates
  <2>2. CASE p \notin ids
    BY <2>2, <1>3, <1>12 DEF Agreement, EscrowAgrees
  <2>3. QED
    BY <2>1, <2>2
<1>14. ASSUME NEW p \in PurchaseIds PROVE GrantsAccess(p)'
  <2>1. CASE p \in ids
    <3>1. p - nonce + 1 \in 1..n /\ nonce + (p - nonce + 1) - 1 = p
      BY <2>1, <1>6
    <3>2. QED
      BY <2>1, <3>1, <1>1, <1>9, <1>10, <1>12 DEF GrantsAccess
  <2>2. CASE p \notin ids
    <3>1. SUFFICES ASSUME Live(p), escrow[p] # NoRecord
                   PROVE  GrantsAccess(p)'
      BY <2>2, <1>12 DEF GrantsAccess, Live
    <3>2. /\ buyerOf[p] \in Buyers /\ escrow[p].material \in Materials
          /\ entitlement[<<escrow[p].material, buyerOf[p]>>] =
               [active |-> TRUE, purchase_id |-> p]
      BY <3>1 DEF Agreement, GrantsAccess, TypeOK, EscrowRecord
    <3>3. entitlement'[<<escrow[p].material, buyerOf[p]>>] =
               [active |-> TRUE, purchase_id |-> p]
      BY <3>2, <1>11 DEF HasEntitlement
    <3>4. QED
      BY <2>2, <3>2, <3>3, <1>12 DEF GrantsAccess
  <2>3. QED
    BY <2>1, <2>2
<1>15. ASSUME NEW mm \in Materials, NEW bb \in Buyers PROVE Backed(mm, bb)'
  <2>1. CASE HasEntitlement(mm, bb)
    <3> DEFINE p == entitlement[<<mm, bb>>].purchase_id
    <3>1. /\ p \in PurchaseIds /\ buyerOf[p] = bb /\ Live(p)
          /\ escrow[p] # NoRecord => escrow[p].material = mm
      BY <2>1 DEF Agreement, Backed
    <3>2. p \notin ids
      BY <2>1, <1>8
    <3>3. entitlement'[<<mm, bb>>] = entitlement[<<mm, bb>>]
      BY <2>1, <1>11
    <3>4. QED
      BY <3>1, <3>2, <3>3, <1>12 DEF Backed, Live, HasEntitlement
  <2>2. CASE ~HasEntitlement(mm, bb) /\ mm = m /\ \E i \in 1..n : l[i] = bb
    <3>1. PICK i \in 1..n : l[i] = bb
      BY <2>2
    <3> DEFINE p == nonce + i - 1
    <3>2. p \in ids /\ p \in PurchaseIds /\ p - nonce + 1 = i
      <4>1. p \in ids
        BY <1>6
      <4>2. p - nonce + 1 = i
        BY <1>1, <1>2
      <4>3. QED
        BY <4>1, <4>2, <1>6
    <3>3. entitlement'[<<mm, bb>>] = [active |-> TRUE, purchase_id |-> p]
      BY <2>2, <3>1, <1>10
    <3> HIDE DEF p
    <3>4. /\ buyerOf'[p] = bb /\ settlement'[p] = "Pending"
          /\ escrow'[p].material = mm
      BY <2>2, <3>1, <3>2, <1>9, <1>12
    <3>5. entitlement'[<<mm, bb>>].purchase_id = p
      BY <3>3
    <3>6. QED
      BY <3>2, <3>4, <3>5 DEF Backed, Live
  <2>3. CASE ~HasEntitlement(mm, bb) /\ ~(mm = m /\ \E i \in 1..n : l[i] = bb)
    <3>1. entitlement'[<<mm, bb>>] = entitlement[<<mm, bb>>]
      BY <2>3, <1>3
    <3>2. QED
      BY <2>3, <3>1 DEF Backed, HasEntitlement
  <2>4. QED
    BY <2>1, <2>2, <2>3
<1>16. QED
  BY <1>13, <1>14, <1>15 DEF Agreement

\* One step keeps agreement as long as it reissues no id.
LEMMA NextAgreement ==
    ASSUME TypeOK, Agreement, [Next]_vars, Fresh'
    PROVE  Agreement'
<1>1. ASSUME NEW b \in Buyers, NEW m \in Materials, NEW a \in Assets,
             Purchase(b, m, a)
      PROVE  Agreement'
  <2>1. nonce \in PurchaseIds
    BY <1>1, ConstantsAssumption DEF TypeOK, Purchase, PurchaseIds
  <2>2. settlement[nonce] = NoRecord
    BY <1>1, <2>1 DEF Purchase, Fresh, Reissue
  <2> DEFINE e == NewEscrow(m, a, sale[m].price[a])
  <2>3. e \in EscrowRecord /\ e.material = m /\ e.claimed = FALSE
    BY NewEscrowType DEF NewEscrow
  <2>4. ~HasEntitlement(m, b)
    BY <1>1 DEF Purchase, CanCheckout
  <2>5. /\ escrow' = [escrow EXCEPT ![nonce] = e]
        /\ settlement' = [settlement EXCEPT ![nonce] = "Pending"]
        /\ buyerOf' = [buyerOf EXCEPT ![nonce] = b]
        /\ entitlement' = [entitlement EXCEPT ![<<m, b>>] =
                             [active |-> TRUE, purchase_id |-> nonce]]
        /\ dispute' = dispute
    BY <1>1 DEF Purchase
  <2> HIDE DEF e
  <2>6. QED
    BY <2>1, <2>2, <2>3, <2>4, <2>5, GrantAgreement
<1>2. ASSUME NEW b \in Buyers, NEW m \in Materials, RedeemScholarshipCredits(b, m)
      PROVE  Agreement'
  <2>1. nonce \in PurchaseIds
    BY <1>2, ConstantsAssumption DEF TypeOK, RedeemScholarshipCredits, PurchaseIds
  <2>2. settlement[nonce] = NoRecord
    BY <1>2, <2>1 DEF RedeemScholarshipCredits, Fresh, Reissue
  <2>3. ~HasEntitlement(m, b)
    BY <1>2 DEF RedeemScholarshipCredits
  <2>4. escrow[nonce] = NoRecord
    BY <2>1, <2>2, FreshId
  <2>5. /\ escrow' = [escrow EXCEPT ![nonce] = NoRecord]
        /\ settlement' = [settlement EXCEPT ![nonce] = "Pending"]
        /\ buyerOf' = [buyerOf EXCEPT ![nonce] = b]
        /\ entitlement' = [entitlement EXCEPT ![<<m, b>>] =
                             [active |-> TRUE, purchase_id |-> nonce]]
        /\ dispute' = dispute
    BY <1>2, <2>1, <2>4 DEF TypeOK, RedeemScholarshipCredits
  <2>6. QED
    BY <2>1, <2>2, <2>3, <2>5, GrantAgreement
<1>3. ASSUME NEW b \in Buyers, BuyerStep(b) PROVE Agreement'
  <2>1. PICK m \in Materials :
          \/ \E a \in Assets : Purchase(b, m, a) \/ RecordQuote(b, m, a)
          \/ BeginCheckout(b, m) \/ CancelCheckout(b, m)
          \/ RedeemScholarshipCredits(b, m)
          \/ \E a \in Assets : \E l \in RecipientLists :
                PurchaseBulkLicenses(b, m, a, l)
          \/ \E limit \in 1..MAX_BULK_LICENSE_RECIPIENTS :
                RefundBulkBegin(b, m, limit)
    BY <1>3 DEF BuyerStep
  <2>2. ASSUME NEW a \in Assets, RecordQuote(b, m, a) PROVE Agreement'
    BY <2>2, AgreementUnchanged DEF RecordQuote, coreVars
  <2>3. CASE BeginCheckout(b, m) \/ CancelCheckout(b, m)
    BY <2>3, AgreementUnchanged DEF BeginCheckout, CancelCheckout, coreVars
  <2>4. ASSUME NEW limit \in 1..MAX_BULK_LICENSE_RECIPIENTS,
               RefundBulkBegin(b, m, limit)
        PROVE  Agreement'
    BY <2>4, AgreementUnchanged DEF RefundBulkBegin, coreVars
  <2>5. QED
    BY <2>1, <2>2, <2>3, <2>4, <1>1, <1>2, BulkAgreement DEF Fresh
<1>4. ASSUME NEW p \in PurchaseIds, SettlementStep(p) PROVE Agreement'
  <2>1. CASE WithdrawPayouts(p)
    BY <2>1, ReleaseAgreement DEF WithdrawPayouts
  <2>2. CASE RefundPurchase(p)
    BY <2>2, RefundAgreement DEF RefundPurchase
  <2>3. ASSUME NEW r \in Resolutions, ResolveDispute(p, r) PROVE Agreement'
    <3>1. r # "RefundBuyer"
      BY <2>3 DEF ResolveDispute, PerformSingleRefund, Refundable
    <3>2. QED
      BY <2>3, <3>1, ReleaseAgreement DEF ResolveDispute
  <2>4. QED
    BY <1>4, <2>1, <2>2, <2>3, OpenDisputeAgreement DEF SettlementStep
<1>5. CASE RefundBulkStep
  <2>1. CASE batch.next \in PurchaseIds /\ Refundable(batch.next)
    BY <1>5, <2>1, RefundAgreement DEF RefundBulkStep
  <2>2. CASE ~(batch.next \in PurchaseIds /\ Refundable(batch.next))
    BY <1>5, <2>2, AgreementUnchanged DEF RefundBulkStep, coreVars
  <2>3. QED
    BY <2>1, <2>2
<1>6. CASE MarketStep
  <2>1. UNCHANGED coreVars
    BY <1>6 DEF MarketStep, AdminStep, RegistryStep, SetPaused, SetFeeRate,
         SetAssetAllowed, RegisterMaterial, UpdateSaleTerms, SetMaterialOnSale,
         CloseLedger, contractVars, coreVars
  <2>2. QED
    BY <2>1, AgreementUnchanged
<1>7. CASE UNCHANGED vars
  BY <1>7, AgreementUnchanged DEF vars, coreVars
<1>8. QED
  BY <1>3, <1>4, <1>5, <1>6, <1>7 DEF Next

\* The history variable only grows: a step into a fresh state leaves one.
LEMMA FreshBackwards ==
    ASSUME [Next]_vars, Fresh'
    PROVE  Fresh
<1>1. ASSUME NEW b \in Buyers, BuyerStep(b) PROVE reissued \subseteq reissued'
  <2>1. ASSUME NEW m \in Materials, NEW a \in Assets,
               Purchase(b, m, a) \/ RecordQuote(b, m, a)
        PROVE  reissued \subseteq reissued'
    BY <2>1 DEF Purchase, RecordQuote, Reissue
  <2>2. ASSUME NEW m \in Materials,
               \/ BeginCheckout(b, m) \/ CancelCheckout(b, m)
               \/ RedeemScholarshipCredits(b, m)
        PROVE  reissued \subseteq reissued'
    BY <2>2 DEF BeginCheckout, CancelCheckout, RedeemScholarshipCredits, Reissue
  <2>3. ASSUME NEW m \in Materials, NEW a \in Assets, NEW l \in RecipientLists,
               PurchaseBulkLicenses(b, m, a, l)
        PROVE  reissued \subseteq reissued'
    BY <2>3 DEF PurchaseBulkLicenses, Reissue
  <2>4. ASSUME NEW m \in Materials, NEW limit \in 1..MAX_BULK_LICENSE_RECIPIENTS,
               RefundBulkBegin(b, m, limit)
        PROVE  reissued \subseteq reissued'
    BY <2>4 DEF RefundBulkBegin
  <2>5. QED
    BY <1>1, <2>1, <2>2, <2>3, <2>4 DEF BuyerStep
<1>2. ASSUME NEW p \in PurchaseIds, SettlementStep(p) PROVE reissued' = reissued
  BY <1>2 DEF SettlementStep, WithdrawPayouts, RefundPurchase, OpenDispute,
       ResolveDispute
<1>3. CASE RefundBulkStep
  BY <1>3 DEF RefundBulkStep, Fresh
<1>4. CASE MarketStep
  BY <1>4 DEF MarketStep, AdminStep, RegistryStep, SetPaused, SetFeeRate,
       SetAssetAllowed, RegisterMaterial, UpdateSaleTerms, SetMaterialOnSale,
       CloseLedger, contractVars, Fresh
<1>5. CASE UNCHANGED vars
  BY <1>5 DEF vars, Fresh
<1>6. QED
  BY <1>1, <1>2, <1>3, <1>4, <1>5 DEF Next, Fresh

\* Initially there is no purchase to disagree about.
LEMMA InitAgreement == Init => Agreement
  BY NoRecordAssumption DEF Init, Agreement, EscrowAgrees, GrantsAccess, Backed,
     Live, HasEntitlement, SettlementStates

\* Agreement holds in every reachable state in which no id was reissued.
THEOREM AgreementHolds == Spec => [](Fresh => Agreement)
<1>1. Init => (Fresh => Agreement)
  BY InitAgreement
<1>2. TypeOK /\ (Fresh => Agreement) /\ [Next]_vars => (Fresh => Agreement)'
  BY NextAgreement, FreshBackwards
<1>3. QED
  BY <1>1, <1>2, TypeCorrect, PTL DEF Spec

\* withdraw_payouts, resolve_dispute and the refunds keep the claimed flag of an
\* escrow and the settlement state in step, for any number of buyers,
\* materials, purchases and recipients of a bulk sale.
THEOREM SettlementAndEscrowAgree == Spec => []SettlementMatchesEscrow
<1>1. (Fresh => Agreement) => SettlementMatchesEscrow
  BY DEF Agreement, SettlementMatchesEscrow
<1>2. QED
  BY <1>1, AgreementHolds, PTL

\* A purchase that was paid and not refunded keeps its buyer's access.
THEOREM PaidPurchaseKeepsAccess == Spec => []LivePurchaseGrantsAccess
<1>1. (Fresh => Agreement) => LivePurchaseGrantsAccess
  BY DEF Agreement, LivePurchaseGrantsAccess
<1>2. QED
  BY <1>1, AgreementHolds, PTL

\* Nobody holds access without a purchase, by them and not refunded, behind it.
THEOREM AccessIsBacked == Spec => []EntitlementBacked
<1>1. (Fresh => Agreement) => EntitlementBacked
  BY DEF Agreement, EntitlementBacked
<1>2. QED
  BY <1>1, AgreementHolds, PTL

-----------------------------------------------------------------------------
(* Solvency.  What the contract holds of an asset is what it owes, until a   *)
(* bulk sale of n > 1 licences leaves it short by less than n; after such a  *)
(* sale the next nonce is taken, so that no other sale follows it without    *)
(* reissuing an id.  Only that second fact makes Solvent inductive: two bulk *)
(* sales could be short by more than the larger of them.                     *)

LargestBulkIs(n) ==
    /\ n \in Nat \ {0}
    /\ \A k \in Buyers \X Materials : bulk[k].count <= n
    /\ n = 1 \/ \E k \in Buyers \X Materials : bulk[k].count = n

Books(n) ==
    /\ LargestBulkIs(n)
    /\ \A a \in Assets : Owed(a) - pool[a] \in 0..(n - 1)
    /\ n > 1 => nonce \in PurchaseIds /\ settlement[nonce] # NoRecord

BooksInv == Fresh => \E n \in Nat : Books(n)

\* The number LargestBulkIs speaks of is LargestBulk.
LEMMA LargestBulkUnique ==
    ASSUME TypeOK, NEW n \in Nat, LargestBulkIs(n)
    PROVE  LargestBulk = n
<1> DEFINE S == {1} \cup {bulk[k].count : k \in DOMAIN bulk}
<1>1. DOMAIN bulk = Buyers \X Materials
  BY DEF TypeOK
<1>2. n \in S /\ \A x \in S : n >= x
  BY <1>1 DEF LargestBulkIs
<1>3. \A k \in Buyers \X Materials : bulk[k].count \in Nat
  BY DEF TypeOK
<1>4. \A x \in S : x \in Int
  BY <1>1, <1>3
<1> HIDE DEF S
<1>5. \A y \in S : (\A x \in S : y >= x) => y = n
  BY <1>2, <1>4
<1>6. Max(S) = n
  BY <1>2, <1>5 DEF Max
<1> QED
  BY <1>6 DEF LargestBulk, S

\* What is owed for one purchase is a number of units.
LEMMA DueType ==
    ASSUME TypeOK, NEW a \in Assets
    PROVE  [p \in PurchaseIds |-> Due(p, a)] \in [PurchaseIds -> Int]
<1>1. ASSUME NEW p \in PurchaseIds PROVE Due(p, a) \in Int
  <2>1. CASE escrow[p] = NoRecord
    BY <2>1 DEF Due
  <2>2. CASE escrow[p] # NoRecord
    <3>1. escrow[p] \in EscrowRecord
      BY <2>2 DEF TypeOK
    <3>2. escrow[p].seller_net \in Nat
      BY <3>1 DEF EscrowRecord
    <3> QED
      BY <3>2 DEF Due
  <2> QED
    BY <2>1, <2>2
<1> QED
  BY <1>1

\* There are finitely many purchase ids, and the debt is a whole number.
LEMMA OwedType ==
    ASSUME TypeOK, NEW a \in Assets
    PROVE  /\ IsFiniteSet(PurchaseIds)
           /\ Owed(a) = SumFunctionOnSet([p \in PurchaseIds |-> Due(p, a)], PurchaseIds)
           /\ Owed(a) \in Int
<1>1. IsFiniteSet(PurchaseIds)
  BY FS_Interval, ConstantsAssumption DEF PurchaseIds
<1>2. Owed(a) = SumFunctionOnSet([p \in PurchaseIds |-> Due(p, a)], PurchaseIds)
  BY DEF Owed, SumFunction
<1>3. PurchaseIds \in SUBSET PurchaseIds
  OBVIOUS
<1>4. SumFunctionOnSet([p \in PurchaseIds |-> Due(p, a)], PurchaseIds) \in Int
  BY <1>1, <1>3, DueType, SumType
<1> QED
  BY <1>1, <1>2, <1>4

\* A step that writes one escrow changes the debt by what it changes there.
LEMMA OwedChange ==
    ASSUME TypeOK, TypeOK', NEW a \in Assets, NEW q \in PurchaseIds,
           \A p \in PurchaseIds : p # q => escrow'[p] = escrow[p]
    PROVE  Owed(a)' = Owed(a) - Due(q, a) + Due(q, a)'
<1> DEFINE f == [p \in PurchaseIds |-> Due(p, a)]
           g == [p \in PurchaseIds |-> Due(p, a)']
<1>1. f \in [PurchaseIds -> Int]
  BY DueType
<1>2. g \in [PurchaseIds -> Int]
  <2>1. ASSUME NEW p \in PurchaseIds PROVE Due(p, a)' \in Int
    <3>1. escrow'[p] # NoRecord => escrow'[p] \in EscrowRecord
      BY DEF TypeOK
    <3>2. escrow'[p] # NoRecord => escrow'[p].seller_net \in Nat
      BY <3>1 DEF EscrowRecord
    <3> QED
      BY <3>2 DEF Due
  <2> QED
    BY <2>1
<1>3. Owed(a) = SumFunctionOnSet(f, PurchaseIds)
  BY OwedType
<1>4. Owed(a)' = SumFunctionOnSet(g, PurchaseIds)
  BY DEF Owed, SumFunction
<1>5. \A p \in PurchaseIds : p # q => f[p] = g[p]
  BY DEF Due
<1>6. f[q] = Due(q, a) /\ g[q] = Due(q, a)'
  OBVIOUS
<1>7. IsFiniteSet(PurchaseIds)
  BY OwedType
<1> HIDE DEF f, g
<1>8. SumFunctionOnSet(g, PurchaseIds) = SumFunctionOnSet(f, PurchaseIds) - f[q] + g[q]
  BY <1>1, <1>2, <1>5, <1>7, SumChangeOne
<1> QED
  BY <1>3, <1>4, <1>6, <1>8

\* Products over a positive number compare as their factors do.
LEMMA CancelFactor ==
    ASSUME NEW x \in Int, NEW y \in Int, NEW d \in Nat \ {0}, x * d < y * d
    PROVE  x < y
<1>1. ASSUME y <= x PROVE FALSE
  <2>1. PICK k \in Nat : x = y + k
    BY <1>1
  <2>2. x * d = y * d + k * d
    BY <2>1
  <2>3. k * d \in Nat /\ y * d \in Int
    BY <2>1
  <2> QED
    BY <2>2, <2>3
<1> QED
  BY <1>1

\* Rounding c quotients down one by one loses less than c against rounding
\* their sum down once.
LEMMA RoundedSum ==
    ASSUME NEW x \in Nat, NEW d \in Nat \ {0}, NEW c \in Nat \ {0}
    PROVE  (c * x) \div d - c * (x \div d) \in 0..(c - 1)
<1>1. PICK q \in Nat : q = x \div d
  OBVIOUS
<1>2. d * q <= x /\ x < d * q + d
  BY <1>1
<1>3. PICK y \in Nat : y = c * x
  OBVIOUS
<1>4. PICK s \in Nat : s = y \div d
  OBVIOUS
<1>5. d * s <= y /\ y < d * s + d
  BY <1>4
<1>6. PICK w \in Nat : w = c * q
  OBVIOUS
<1>7. c * (d * q) <= c * x /\ c * x < c * (d * q + d)
  BY <1>2
<1>8. c * (d * q) = w * d /\ c * (d * q + d) = (w + c) * d
  BY <1>6
<1>9. s * d = d * s /\ (s + 1) * d = d * s + d
  OBVIOUS
<1>10. w * d < (s + 1) * d /\ s * d < (w + c) * d
  BY <1>3, <1>5, <1>7, <1>8, <1>9
<1>11. w < s + 1 /\ s < w + c
  BY <1>10, CancelFactor
<1> QED
  BY <1>1, <1>3, <1>4, <1>6, <1>11

\* A bulk sale funds the escrows of its c recipients but for less than c units:
\* the fee is rounded down once in the transfer and once in each escrow.
LEMMA BulkShortfall ==
    ASSUME NEW g \in Nat, NEW c \in Nat \ {0}, config.fee_bps \in FeeRates
    PROVE  c * SellerNet(g, config.fee_bps) - TotalSellerNet(c, g) \in 0..(c - 1)
<1>0. config.fee_bps \in 0..BASIS_POINTS /\ BASIS_POINTS \in Nat
  BY ConstantsAssumption
<1>1. PICK r \in Nat : r = config.fee_bps
  BY <1>0
<1>2. PICK d \in Nat \ {0} : d = BASIS_POINTS
  BY ConstantsAssumption
<1>3. PICK x \in Nat : x = g * r
  OBVIOUS
<1>4. (c * g) * r = c * x
  BY <1>3
<1>5. SellerNet(g, config.fee_bps) = g - x \div d
  BY <1>1, <1>2, <1>3 DEF SellerNet, PlatformFee
<1>6. TotalSellerNet(c, g) = c * g - (c * x) \div d
  BY <1>1, <1>2, <1>4 DEF TotalSellerNet, SellerNet, PlatformFee
<1>7. (c * x) \div d - c * (x \div d) \in 0..(c - 1)
  BY RoundedSum
<1>8. PICK q \in Nat : q = x \div d
  OBVIOUS
<1>9. PICK s \in Nat : s = (c * x) \div d
  OBVIOUS
<1>10. c * (g - q) = c * g - c * q
  OBVIOUS
<1>11. c * g \in Nat /\ c * q \in Nat
  OBVIOUS
<1> QED
  BY <1>5, <1>6, <1>7, <1>8, <1>9, <1>10, <1>11

-----------------------------------------------------------------------------
(* The steps. *)

\* A step that moves no money and makes no sale keeps the books.
LEMMA BooksKept ==
    ASSUME TypeOK, NEW n \in Nat, Books(n),
           UNCHANGED <<bulk, nonce>>,
           \A a \in Assets : Owed(a)' - pool'[a] = Owed(a) - pool[a],
           \A p \in PurchaseIds : settlement[p] # NoRecord => settlement'[p] # NoRecord
    PROVE  Books(n)'
<1>1. LargestBulkIs(n)'
  BY DEF Books, LargestBulkIs
<1>2. \A a \in Assets : Owed(a)' - pool'[a] \in 0..(n - 1)
  BY DEF Books
<1>3. n > 1 => nonce' \in PurchaseIds /\ settlement'[nonce'] # NoRecord
  BY DEF Books
<1> QED
  BY <1>1, <1>2, <1>3 DEF Books

\* Paying out one escrow takes as much from the pool as it was owed.
LEMMA PayoutBooks ==
    ASSUME TypeOK, TypeOK', NEW q \in PurchaseIds, escrow[q] # NoRecord,
           ~escrow[q].claimed,
           pool' = PayFromPool(q), escrow' = ClaimEscrow(q)
    PROVE  \A a \in Assets : Owed(a)' - pool'[a] = Owed(a) - pool[a]
<1>1. /\ escrow[q] \in EscrowRecord
      /\ escrow'[q] = [escrow[q] EXCEPT !.claimed = TRUE]
      /\ \A p \in PurchaseIds : p # q => escrow'[p] = escrow[p]
  BY DEF TypeOK, ClaimEscrow
<1>2. escrow[q].asset \in Assets /\ escrow[q].seller_net \in Nat
  BY <1>1 DEF EscrowRecord
<1>3. escrow'[q].claimed
  BY <1>1 DEF EscrowRecord
<1>4. ASSUME NEW a \in Assets
      PROVE  Owed(a)' - pool'[a] = Owed(a) - pool[a]
  <2>1. Owed(a)' = Owed(a) - Due(q, a) + Due(q, a)'
    BY <1>1, OwedChange
  <2>2. Due(q, a)' = 0
    BY <1>3 DEF Due
  <2>3. Due(q, a) = IF escrow[q].asset = a THEN escrow[q].seller_net ELSE 0
    BY DEF Due
  <2>4. pool'[a] = IF escrow[q].asset = a THEN pool[a] - escrow[q].seller_net
                                           ELSE pool[a]
    BY <1>2 DEF TypeOK, PayFromPool
  <2>5. Owed(a) \in Int
    BY OwedType
  <2>6. pool[a] \in Nat
    BY DEF TypeOK
  <2> QED
    BY <1>2, <2>1, <2>2, <2>3, <2>4, <2>5, <2>6
<1> QED
  BY <1>4

\* A sale is only possible under the next nonce, so not after a bulk sale of
\* two or more.
LEMMA NoSaleAfterBulk ==
    ASSUME NEW n \in Nat, Books(n), settlement[nonce] = NoRecord
    PROVE  n = 1
  BY DEF Books, LargestBulkIs

\* purchase pays in what it comes to owe.
LEMMA PurchaseBooks ==
    ASSUME TypeOK, TypeOK', Agreement, NEW n \in Nat, Books(n), reissued' = {},
           NEW b \in Buyers, NEW m \in Materials, NEW a \in Assets,
           Purchase(b, m, a)
    PROVE  Books(n)'
<1> DEFINE e == NewEscrow(m, a, sale[m].price[a])
<1>1. PICK q \in PurchaseIds : q = nonce
  BY ConstantsAssumption DEF TypeOK, Purchase, PurchaseIds
<1>2. settlement[q] = NoRecord
  BY <1>1 DEF Purchase, Reissue
<1>3. escrow[q] = NoRecord
  BY <1>2, FreshId
<1>4. n = 1
  BY <1>1, <1>2, NoSaleAfterBulk
<1>5. e \in EscrowRecord /\ e.asset = a /\ e.claimed = FALSE /\ e.seller_net \in Nat
  BY NewEscrowType DEF NewEscrow
<1>6. /\ pool' = [pool EXCEPT ![a] = @ + e.seller_net]
      /\ escrow' = [escrow EXCEPT ![q] = e]
      /\ bulk' = bulk
  BY <1>1 DEF Purchase
<1>7. e # NoRecord
  BY <1>5, NoRecordIsNoRecord
<1>8. PICK x : x = e
  OBVIOUS
<1>9. PICK net \in Nat : net = e.seller_net
  BY <1>5
<1> HIDE DEF e
<1>10. escrow'[q] = x /\ \A p \in PurchaseIds : p # q => escrow'[p] = escrow[p]
  BY <1>6, <1>8 DEF TypeOK
<1>11. x # NoRecord /\ x.asset = a /\ x.claimed = FALSE /\ x.seller_net = net
  BY <1>5, <1>7, <1>8, <1>9
<1>12. pool' = [pool EXCEPT ![a] = @ + net]
  BY <1>6, <1>9
<1>13. ASSUME NEW c \in Assets
       PROVE  Owed(c)' - pool'[c] = Owed(c) - pool[c]
  <2>1. Owed(c)' = Owed(c) - Due(q, c) + Due(q, c)'
    BY <1>10, OwedChange
  <2>2. Due(q, c) = 0
    BY <1>3 DEF Due
  <2>3. Due(q, c)' = IF a = c THEN net ELSE 0
    BY <1>10, <1>11 DEF Due
  <2>4. Owed(c) \in Int
    BY OwedType
  <2>5. pool[c] \in Nat /\ pool'[c] = IF a = c THEN pool[c] + net ELSE pool[c]
    BY <1>12 DEF TypeOK
  <2> QED
    BY <2>1, <2>2, <2>3, <2>4, <2>5
<1>14. LargestBulkIs(n)'
  BY <1>6 DEF Books, LargestBulkIs
<1> QED
  BY <1>4, <1>13, <1>14 DEF Books

\* purchase_bulk_licenses comes to owe more than it pays in, by less than one
\* unit per recipient.
LEMMA BulkBooks ==
    ASSUME TypeOK, TypeOK', Agreement, NEW n \in Nat, Books(n), reissued' = {},
           NEW b \in Buyers, NEW m \in Materials, NEW a \in Assets,
           NEW l \in RecipientLists, PurchaseBulkLicenses(b, m, a, l)
    PROVE  Books(Len(l))'
<1>1. PICK c \in Nat \ {0} : c = Len(l)
  BY RecipientListsType
<1>2. PICK first \in Nat : first = nonce
  BY DEF TypeOK
<1> DEFINE ids == first..(first + c - 1)
           e == NewEscrow(m, a, sale[m].price[a])
<1>3. first + c <= MaxPurchases
  BY <1>1, <1>2 DEF PurchaseBulkLicenses
<1>4. /\ ids \subseteq PurchaseIds
      /\ IsFiniteSet(ids) /\ Cardinality(ids) = c
      /\ first \in ids
  BY <1>3, FS_Interval, ConstantsAssumption DEF PurchaseIds
<1>5. /\ escrow' = [p \in PurchaseIds |-> IF p \in ids THEN e ELSE escrow[p]]
      /\ settlement' = [p \in PurchaseIds |->
                          IF p \in ids THEN "Pending" ELSE settlement[p]]
      /\ pool' = [pool EXCEPT ![a] = @ + TotalSellerNet(c, sale[m].price[a])]
      /\ bulk' = [bulk EXCEPT ![<<b, m>>] = [first |-> first, count |-> c]]
      /\ nonce' = first + 1
  BY <1>1, <1>2 DEF PurchaseBulkLicenses
<1>6. \A p \in ids : settlement[p] = NoRecord
  BY <1>1, <1>2 DEF PurchaseBulkLicenses, Reissue
<1>7. \A p \in ids : escrow[p] = NoRecord
  BY <1>4, <1>6, FreshId
<1>8. n = 1
  BY <1>2, <1>4, <1>6, NoSaleAfterBulk
<1>9. /\ e \in EscrowRecord /\ e.asset = a /\ e.claimed = FALSE
      /\ e.seller_net = SellerNet(sale[m].price[a], config.fee_bps)
      /\ e.seller_net \in Nat
      /\ sale[m].price[a] \in Nat
      /\ TotalSellerNet(c, sale[m].price[a]) \in Nat
  BY NewEscrowType DEF NewEscrow
<1>10. e # NoRecord
  BY <1>9, NoRecordIsNoRecord
<1>11. PICK net \in Nat : net = e.seller_net
  BY <1>9
<1>12. PICK total \in Nat : total = TotalSellerNet(c, sale[m].price[a])
  BY <1>9
<1>13. c * net - total \in 0..(c - 1)
  BY <1>9, <1>11, <1>12, BulkShortfall DEF TypeOK
<1>14. PICK x : x = e
  OBVIOUS
<1>15. x # NoRecord /\ x.asset = a /\ x.claimed = FALSE /\ x.seller_net = net
  BY <1>9, <1>10, <1>11, <1>14
<1>16. \A p \in PurchaseIds : escrow'[p] = IF p \in ids THEN x ELSE escrow[p]
  BY <1>5, <1>14
<1>17. pool' = [pool EXCEPT ![a] = @ + total]
  BY <1>5, <1>12
<1> HIDE DEF e, ids
<1>18. ASSUME NEW k \in Assets
       PROVE  Owed(k)' - pool'[k] \in 0..(c - 1)
  <2> DEFINE f == [p \in PurchaseIds |-> Due(p, k)]
             g == [p \in PurchaseIds |-> Due(p, k)']
             v == IF a = k THEN net ELSE 0
  <2>1. f \in [PurchaseIds -> Int]
    BY DueType
  <2>2. \A p \in PurchaseIds : g[p] = IF p \in ids THEN f[p] + v ELSE f[p]
    <3>1. ASSUME NEW p \in ids PROVE Due(p, k)' = v /\ Due(p, k) = 0
      BY <1>4, <1>7, <1>15, <1>16 DEF Due
    <3>2. ASSUME NEW p \in PurchaseIds, p \notin ids PROVE Due(p, k)' = Due(p, k)
      BY <1>16, <3>2 DEF Due
    <3>3. v \in Int /\ 0 + v = v
      OBVIOUS
    <3> QED
      BY <3>1, <3>2, <3>3
  <2>3. v \in Int
    OBVIOUS
  <2>4. g = [p \in PurchaseIds |-> g[p]]
    OBVIOUS
  <2>5. Owed(k)' = SumFunctionOnSet(g, PurchaseIds)
    BY DEF Owed, SumFunction
  <2> HIDE DEF f, g, v
  <2>6. g \in [PurchaseIds -> Int]
    BY <2>1, <2>2, <2>3, <2>4
  <2>7. SumFunctionOnSet(g, PurchaseIds) =
          SumFunctionOnSet(f, PurchaseIds) + Cardinality(ids) * v
    <3>1. IsFiniteSet(PurchaseIds) /\ ids \in SUBSET PurchaseIds
      BY <1>4, OwedType
    <3> QED
      BY <2>1, <2>2, <2>3, <2>6, <3>1, SumAddBlock
  <2>8. Owed(k)' = Owed(k) + c * v
    BY <1>4, <2>5, <2>7, OwedType DEF f
  <2>9. Owed(k) - pool[k] = 0 /\ Owed(k) \in Int
    <3>1. Owed(k) - pool[k] \in 0..(1 - 1)
      BY <1>8 DEF Books
    <3>2. Owed(k) \in Int
      BY OwedType
    <3> QED
      BY <3>1, <3>2
  <2>10. pool[k] \in Nat /\ pool'[k] = IF a = k THEN pool[k] + total ELSE pool[k]
    BY <1>17 DEF TypeOK
  <2>11. CASE a = k
    <3>1. c * v = c * net /\ c * net \in Nat
      BY <2>11 DEF v
    <3> QED
      BY <1>13, <2>8, <2>9, <2>10, <2>11, <3>1
  <2>12. CASE a # k
    <3>1. c * v = 0
      BY <2>12 DEF v
    <3> QED
      BY <2>8, <2>9, <2>10, <2>12, <3>1
  <2> QED
    BY <2>11, <2>12
<1>19. LargestBulkIs(c)'
  <2>1. /\ bulk'[<<b, m>>].count = c
        /\ \A k \in Buyers \X Materials : k # <<b, m>> => bulk'[k] = bulk[k]
    BY <1>5 DEF TypeOK
  <2>2. \A k \in Buyers \X Materials : bulk[k].count <= 1
    BY <1>8 DEF Books, LargestBulkIs
  <2>3. \A k \in Buyers \X Materials : bulk[k].count \in Nat
    BY DEF TypeOK
  <2>4. \A k \in Buyers \X Materials : bulk'[k].count <= c
    <3>1. TAKE k \in Buyers \X Materials
    <3>2. CASE k = <<b, m>>
      BY <2>1, <3>2
    <3>3. CASE k # <<b, m>>
      <4>1. bulk'[k].count = bulk[k].count
        BY <2>1, <3>3
      <4> QED
        BY <2>2, <2>3, <4>1
    <3> QED
      BY <3>2, <3>3
  <2> QED
    BY <2>1, <2>4 DEF LargestBulkIs
<1>20. c > 1 => nonce' \in PurchaseIds /\ settlement'[nonce'] # NoRecord
  <2>1. c > 1 => nonce' \in ids
    BY <1>5 DEF ids
  <2>2. "Pending" # NoRecord
    BY NoRecordAssumption DEF SettlementStates
  <2> QED
    BY <1>4, <1>5, <2>1, <2>2
<1>21. Books(c)'
  BY <1>18, <1>19, <1>20 DEF Books
<1> QED
  BY <1>1, <1>21

\* What a step does to the books when it reissues no id.
LEMMA NextBooks ==
    ASSUME TypeOK, TypeOK', Agreement, [Next]_vars, Fresh', NEW n \in Nat, Books(n)
    PROVE  \E k \in Nat : Books(k)'
<1>1. ASSUME UNCHANGED <<escrow, settlement, nonce, bulk, pool>> PROVE Books(n)'
  BY <1>1 DEF Books, LargestBulkIs, Owed, Due
<1>2. ASSUME NEW b \in Buyers, BuyerStep(b) PROVE \E k \in Nat : Books(k)'
  <2>1. PICK m \in Materials :
          \/ \E a \in Assets : Purchase(b, m, a) \/ RecordQuote(b, m, a)
          \/ BeginCheckout(b, m) \/ CancelCheckout(b, m)
          \/ RedeemScholarshipCredits(b, m)
          \/ \E a \in Assets : \E l \in RecipientLists :
                PurchaseBulkLicenses(b, m, a, l)
          \/ \E limit \in 1..MAX_BULK_LICENSE_RECIPIENTS :
                RefundBulkBegin(b, m, limit)
    BY <1>2 DEF BuyerStep
  <2>2. ASSUME NEW a \in Assets, Purchase(b, m, a) PROVE Books(n)'
    BY <2>2, PurchaseBooks DEF Fresh
  <2>3. CASE \/ \E a \in Assets : RecordQuote(b, m, a)
             \/ BeginCheckout(b, m) \/ CancelCheckout(b, m)
             \/ \E limit \in 1..MAX_BULK_LICENSE_RECIPIENTS :
                   RefundBulkBegin(b, m, limit)
    BY <2>3, <1>1 DEF RecordQuote, BeginCheckout, CancelCheckout, RefundBulkBegin
  <2>4. ASSUME RedeemScholarshipCredits(b, m) PROVE Books(n)'
    <3>1. nonce \in PurchaseIds
      BY <2>4, ConstantsAssumption DEF TypeOK, RedeemScholarshipCredits, PurchaseIds
    <3>2. settlement[nonce] = NoRecord
      BY <2>4, <3>1 DEF RedeemScholarshipCredits, Fresh, Reissue
    <3>3. n = 1
      BY <3>2, NoSaleAfterBulk
    <3>4. UNCHANGED <<escrow, bulk, pool>>
      BY <2>4 DEF RedeemScholarshipCredits
    <3>5. LargestBulkIs(n)' /\ \A a \in Assets : Owed(a)' - pool'[a] \in 0..(n - 1)
      BY <3>4 DEF Books, LargestBulkIs, Owed, Due
    <3> QED
      BY <3>3, <3>5 DEF Books
  <2>5. ASSUME NEW a \in Assets, NEW l \in RecipientLists,
               PurchaseBulkLicenses(b, m, a, l)
        PROVE  \E k \in Nat : Books(k)'
    <3>1. PICK k \in Nat : k = Len(l)
      BY RecipientListsType
    <3>2. Books(Len(l))'
      BY <2>5, BulkBooks DEF Fresh
    <3> QED
      BY <3>1, <3>2
  <2> QED
    BY <2>1, <2>2, <2>3, <2>4, <2>5
<1>3. ASSUME NEW p \in PurchaseIds, escrow[p] # NoRecord, ~escrow[p].claimed,
             pool' = PayFromPool(p), escrow' = ClaimEscrow(p),
             NEW s \in {"Released", "Refunded"},
             settlement' = [settlement EXCEPT ![p] = s], UNCHANGED <<bulk, nonce>>
      PROVE  Books(n)'
  <2>1. \A a \in Assets : Owed(a)' - pool'[a] = Owed(a) - pool[a]
    BY <1>3, PayoutBooks
  <2>2. s # NoRecord
    BY NoRecordAssumption DEF SettlementStates
  <2>3. \A q \in PurchaseIds : settlement[q] # NoRecord => settlement'[q] # NoRecord
    BY <1>3, <2>2 DEF TypeOK
  <2> QED
    BY <1>3, <2>1, <2>3, BooksKept
<1>4. ASSUME NEW p \in PurchaseIds, PerformSingleRefund(p), UNCHANGED <<bulk, nonce>>
      PROVE  Books(n)'
  BY <1>3, <1>4 DEF PerformSingleRefund, Refundable
<1>5. ASSUME NEW p \in PurchaseIds, SettlementStep(p) PROVE Books(n)'
  <2>1. CASE WithdrawPayouts(p)
    BY <2>1, <1>3 DEF WithdrawPayouts
  <2>2. CASE RefundPurchase(p)
    BY <2>2, <1>4 DEF RefundPurchase
  <2>3. ASSUME NEW b \in Buyers, OpenDispute(b, p) PROVE Books(n)'
    <3>1. \A q \in PurchaseIds : settlement[q] # NoRecord => settlement'[q] # NoRecord
      <4>1. "Disputed" # NoRecord
        BY NoRecordAssumption DEF SettlementStates
      <4> QED
        BY <2>3, <4>1 DEF TypeOK, OpenDispute
    <3>2. UNCHANGED <<escrow, pool, bulk, nonce>>
      BY <2>3 DEF OpenDispute
    <3>3. \A a \in Assets : Owed(a)' - pool'[a] = Owed(a) - pool[a]
      BY <3>2 DEF Owed, Due
    <3> QED
      BY <3>1, <3>2, <3>3, BooksKept
  <2>4. ASSUME NEW r \in Resolutions, ResolveDispute(p, r) PROVE Books(n)'
    <3>1. UNCHANGED <<bulk, nonce>> /\ escrow[p] # NoRecord
      BY <2>4 DEF ResolveDispute
    <3>2. CASE r = "RefundBuyer"
      BY <2>4, <3>1, <3>2, <1>4 DEF ResolveDispute
    <3>3. CASE r # "RefundBuyer"
      <4>1. settlement[p] = "Disputed" /\ ~escrow[p].claimed
        BY <2>4, <3>1 DEF ResolveDispute, Agreement, EscrowAgrees, Terminal
      <4> QED
        BY <2>4, <3>1, <3>3, <4>1, <1>3 DEF ResolveDispute
    <3> QED
      BY <3>2, <3>3
  <2> QED
    BY <1>5, <2>1, <2>2, <2>3, <2>4 DEF SettlementStep
<1>6. CASE RefundBulkStep
  BY <1>6, <1>1, <1>4 DEF RefundBulkStep
<1>7. CASE MarketStep \/ UNCHANGED vars
  BY <1>7, <1>1 DEF MarketStep, AdminStep, RegistryStep, SetPaused, SetFeeRate,
     SetAssetAllowed, RegisterMaterial, UpdateSaleTerms, SetMaterialOnSale,
     CloseLedger, contractVars, vars
<1> QED
  BY <1>2, <1>5, <1>6, <1>7 DEF Next

\* Nothing is owed and nothing held at first.
LEMMA InitBooks == Init => Books(1)
<1> SUFFICES ASSUME Init PROVE Books(1)
  OBVIOUS
<1>1. LargestBulkIs(1)
  BY DEF Init, LargestBulkIs
<1>2. ASSUME NEW a \in Assets PROVE Owed(a) = 0
  <2> DEFINE f == [p \in PurchaseIds |-> Due(p, a)]
  <2>1. \A p \in PurchaseIds : f[p] = 0
    BY DEF Init, Due
  <2>2. IsFiniteSet(PurchaseIds)
    BY FS_Interval, ConstantsAssumption DEF PurchaseIds
  <2>3. Owed(a) = SumFunctionOnSet(f, PurchaseIds)
    BY DEF Owed, SumFunction
  <2> HIDE DEF f
  <2> QED
    BY <2>1, <2>2, <2>3, SumOfZeros
<1>3. \A a \in Assets : Owed(a) - pool[a] \in 0..(1 - 1)
  BY <1>2 DEF Init
<1> QED
  BY <1>1, <1>3 DEF Books

\* Whatever is bought, refunded, released or disputed, the contract holds what it
\* owes but for the rounding of one bulk sale, until an id is reissued.
THEOREM ContractIsSolvent == Spec => []Solvent
<1>1. Init => BooksInv
  BY InitBooks DEF BooksInv
<1>2. TypeOK /\ TypeOK' /\ (Fresh => Agreement) /\ BooksInv /\ [Next]_vars
        => BooksInv'
  BY NextBooks, FreshBackwards DEF BooksInv
<1>3. TypeOK /\ BooksInv => Solvent
  BY LargestBulkUnique DEF BooksInv, Books, Solvent
<1> QED
  BY <1>1, <1>2, <1>3, TypeCorrect, AgreementHolds, PTL DEF Spec

-----------------------------------------------------------------------------
(* Action properties. *)

\* Which settlement states a step can lead to, and from where.
LEMMA SettlementChanges ==
    ASSUME TypeOK, [Next]_vars, NEW p \in PurchaseIds,
           settlement'[p] # settlement[p]
    PROVE  \/ reissued' # {} /\ settlement'[p] = "Pending"
           \/ settlement[p] = NoRecord
           \/ settlement[p] = "Disputed"
           \/ settlement[p] = "Pending" /\ settlement'[p] # "Released"
           \/ settlement[p] = "Pending" /\ LockExpired(p) /\ escrow[p] # NoRecord
<1>1. ASSUME NEW b \in Buyers, BuyerStep(b)
      PROVE  settlement[p] # NoRecord =>
               p \in reissued' /\ settlement'[p] = "Pending"
  <2>1. ASSUME NEW m \in Materials, NEW a \in Assets, Purchase(b, m, a)
        PROVE  settlement[p] # NoRecord =>
               p \in reissued' /\ settlement'[p] = "Pending"
    BY <2>1 DEF TypeOK, Purchase, Reissue
  <2>2. ASSUME NEW m \in Materials, RedeemScholarshipCredits(b, m)
        PROVE  settlement[p] # NoRecord =>
               p \in reissued' /\ settlement'[p] = "Pending"
    BY <2>2 DEF TypeOK, RedeemScholarshipCredits, Reissue
  <2>3. ASSUME NEW m \in Materials, NEW a \in Assets, NEW l \in RecipientLists,
               PurchaseBulkLicenses(b, m, a, l)
        PROVE  settlement[p] # NoRecord =>
               p \in reissued' /\ settlement'[p] = "Pending"
    BY <2>3 DEF TypeOK, PurchaseBulkLicenses, Reissue
  <2>4. QED
    BY <1>1, <2>1, <2>2, <2>3 DEF BuyerStep, RecordQuote, BeginCheckout,
       CancelCheckout, RefundBulkBegin
<1>2. ASSUME NEW q \in PurchaseIds, PerformSingleRefund(q)
      PROVE  settlement[p] = "Pending" /\ settlement'[p] # "Released"
  BY <1>2 DEF TypeOK, PerformSingleRefund, Refundable
<1>3. ASSUME NEW q \in PurchaseIds, SettlementStep(q)
      PROVE  \/ settlement[p] = "Disputed"
             \/ settlement[p] = "Pending" /\ settlement'[p] # "Released"
             \/ settlement[p] = "Pending" /\ LockExpired(p) /\ escrow[p] # NoRecord
  <2>1. CASE WithdrawPayouts(q)
    BY <2>1 DEF TypeOK, WithdrawPayouts
  <2>2. CASE RefundPurchase(q)
    BY <2>2, <1>2 DEF RefundPurchase
  <2>3. ASSUME NEW b \in Buyers, OpenDispute(b, q)
        PROVE  settlement[p] = "Pending" /\ settlement'[p] # "Released"
    BY <2>3 DEF TypeOK, OpenDispute, CanDispute
  <2>4. ASSUME NEW r \in Resolutions, ResolveDispute(q, r)
        PROVE  settlement[p] = "Disputed"
    BY <2>4, <1>2 DEF TypeOK, ResolveDispute, PerformSingleRefund, Refundable
  <2>5. QED
    BY <1>3, <2>1, <2>2, <2>3, <2>4 DEF SettlementStep
<1>4. CASE RefundBulkStep
  BY <1>4, <1>2 DEF RefundBulkStep
<1>5. CASE MarketStep \/ UNCHANGED vars
  BY <1>5 DEF MarketStep, AdminStep, RegistryStep, SetPaused, SetFeeRate,
     SetAssetAllowed, RegisterMaterial, UpdateSaleTerms, SetMaterialOnSale,
     CloseLedger, contractVars, vars
<1>6. QED
  BY <1>1, <1>3, <1>4, <1>5 DEF Next

\* A settled purchase stays as it was settled, whatever is called afterwards.
THEOREM SettledIsFinal == Spec => TerminalIsFinal
<1>1. TypeOK /\ [Next]_vars =>
        [Fresh' => \A p \in PurchaseIds :
           settlement[p] \in Terminal => settlement'[p] = settlement[p]]_vars
  BY SettlementChanges, NoRecordAssumption DEF Fresh, Terminal, SettlementStates
<1>2. QED
  BY <1>1, TypeCorrect, PTL DEF Spec, TerminalIsFinal

\* withdraw_payouts cannot run while open_dispute still could.
THEOREM ReleaseAfterWindow == Spec => NoReleaseInDisputeWindow
<1>1. ASSUME TypeOK, [Next]_vars, NEW p \in PurchaseIds,
             settlement[p] = "Pending", settlement'[p] = "Released"
      PROVE  ledger >= escrow[p].purchase_ledger + DISPUTE_WINDOW_LEDGERS
  <2>1. LockExpired(p) /\ escrow[p] # NoRecord
    BY <1>1, SettlementChanges, NoRecordAssumption DEF SettlementStates
  <2>2. escrow[p] \in EscrowRecord
    BY <1>1, <2>1 DEF TypeOK
  <2>3. escrow[p].purchase_ledger \in 0..MaxLedger /\ ledger \in 0..MaxLedger
    BY <1>1, <2>2 DEF TypeOK, EscrowRecord
  <2>4. QED
    BY <2>1, <2>3, ConstantsAssumption DEF LockExpired
<1>2. TypeOK /\ [Next]_vars =>
        [\A p \in PurchaseIds :
           settlement[p] = "Pending" /\ settlement'[p] = "Released" =>
             ledger >= escrow[p].purchase_ledger + DISPUTE_WINDOW_LEDGERS]_vars
  BY <1>1
<1>3. QED
  BY <1>2, TypeCorrect, PTL DEF Spec, NoReleaseInDisputeWindow

-----------------------------------------------------------------------------
(* Quotes. QuoteShowsCurrentPrice needs that a recorded version is never     *)
(* ahead of the registry's: otherwise a later update could catch up with it. *)

QuoteInv ==
    \A k \in Buyers \X Materials :
      quote[k] # NoRecord =>
        /\ quote[k].version <= sale[k[2]].version
        /\ quote[k].version = sale[k[2]].version =>
             quote[k].amount = sale[k[2]].price[quote[k].asset]

\* Every call preserves that versions grow with each change of price.
LEMMA NextQuoteInv ==
    ASSUME TypeOK, TypeOK', QuoteInv, [Next]_vars
    PROVE  QuoteInv'
<1>1. CASE UNCHANGED <<quote, sale>>
  BY <1>1 DEF QuoteInv
<1>2. ASSUME NEW b \in Buyers, NEW m \in Materials, NEW a \in Assets,
             Purchase(b, m, a)
      PROVE  QuoteInv'
  BY <1>2 DEF TypeOK, QuoteInv, Purchase, marketVars
<1>3. ASSUME NEW b \in Buyers, NEW m \in Materials, NEW a \in Assets,
             RecordQuote(b, m, a)
      PROVE  QuoteInv'
  <2>1. sale' = sale /\ sale[m].version \in Int
    BY <1>3 DEF TypeOK, SaleRecord, RecordQuote, marketVars
  <2>2. ASSUME NEW k \in Buyers \X Materials, quote'[k] # NoRecord
        PROVE  /\ quote'[k].version <= sale'[k[2]].version
               /\ quote'[k].version = sale'[k[2]].version =>
                    quote'[k].amount = sale'[k[2]].price[quote'[k].asset]
    <3>1. CASE k = <<b, m>>
      <4>1. k[2] = m
        BY <3>1
      <4>2. quote'[k] = [asset |-> a, amount |-> sale[m].price[a],
                         version |-> sale[m].version,
                         expires_at |-> ledger + QuoteTtl]
        BY <1>3, <3>1 DEF TypeOK, RecordQuote
      <4>3. QED
        BY <2>1, <4>1, <4>2
    <3>2. CASE k # <<b, m>>
      BY <1>3, <2>1, <2>2, <3>2 DEF TypeOK, QuoteInv, RecordQuote
    <3>3. QED
      BY <3>1, <3>2
  <2>3. QED
    BY <2>2 DEF QuoteInv
<1>4. ASSUME NEW m \in Materials, NEW price \in [Assets -> Prices \cup {0}],
             RegisterMaterial(m, price) \/ UpdateSaleTerms(m, price)
      PROVE  QuoteInv'
  <2>1. quote' = quote
    BY <1>4 DEF RegisterMaterial, UpdateSaleTerms, contractVars, checkoutVars
  <2>2. /\ sale'[m].version = sale[m].version + 1
        /\ \A mm \in Materials : mm # m => sale'[mm] = sale[mm]
    <3>1. CASE RegisterMaterial(m, price)
      BY <3>1 DEF TypeOK, SaleRecord, RegisterMaterial
    <3>2. CASE UpdateSaleTerms(m, price)
      BY <3>2 DEF TypeOK, UpdateSaleTerms, NewSaleTerms
    <3>3. QED
      BY <1>4, <3>1, <3>2
  <2>3. ASSUME NEW k \in Buyers \X Materials, quote[k] # NoRecord
        PROVE  /\ quote[k].version <= sale'[k[2]].version
               /\ quote[k].version = sale'[k[2]].version =>
                    quote[k].amount = sale'[k[2]].price[quote[k].asset]
    <3>1. CASE k[2] = m
      <4>1. quote[k].version <= sale[m].version
        BY <2>3, <3>1 DEF QuoteInv
      <4>2. quote[k].version \in Int /\ sale[m].version \in Int
        BY <2>3 DEF TypeOK, QuoteRecord, SaleRecord
      <4>3. QED
        BY <3>1, <4>1, <4>2, <2>2
    <3>2. CASE k[2] # m
      BY <2>2, <2>3, <3>2 DEF QuoteInv
    <3>3. QED
      BY <3>1, <3>2
  <2>4. QED
    BY <2>1, <2>3 DEF QuoteInv
<1>5. ASSUME NEW m \in Materials, NEW v \in BOOLEAN, SetMaterialOnSale(m, v)
      PROVE  QuoteInv'
  <2>1. quote' = quote
    BY <1>5 DEF SetMaterialOnSale, contractVars, checkoutVars
  <2>2. \A mm \in Materials : sale'[mm].version = sale[mm].version
                                /\ sale'[mm].price = sale[mm].price
    BY <1>5 DEF TypeOK, SaleRecord, SetMaterialOnSale
  <2>3. QED
    BY <2>1, <2>2 DEF QuoteInv
<1>6. ASSUME NEW b \in Buyers, BuyerStep(b) PROVE QuoteInv'
  <2>1. ASSUME NEW m \in Materials,
               \/ BeginCheckout(b, m) \/ CancelCheckout(b, m)
               \/ RedeemScholarshipCredits(b, m)
        PROVE  QuoteInv'
    BY <1>1, <2>1 DEF BeginCheckout, CancelCheckout, RedeemScholarshipCredits,
       marketVars, checkoutVars
  <2>2. ASSUME NEW m \in Materials, NEW a \in Assets, NEW l \in RecipientLists,
               PurchaseBulkLicenses(b, m, a, l)
        PROVE  QuoteInv'
    BY <1>1, <2>2 DEF PurchaseBulkLicenses, marketVars, checkoutVars
  <2>3. ASSUME NEW m \in Materials, NEW limit \in 1..MAX_BULK_LICENSE_RECIPIENTS,
               RefundBulkBegin(b, m, limit)
        PROVE  QuoteInv'
    BY <1>1, <2>3 DEF RefundBulkBegin, marketVars, checkoutVars
  <2>4. QED
    BY <1>2, <1>3, <1>6, <2>1, <2>2, <2>3 DEF BuyerStep
<1>7. ASSUME NEW p \in PurchaseIds, SettlementStep(p) PROVE QuoteInv'
  BY <1>1, <1>7 DEF SettlementStep, WithdrawPayouts, RefundPurchase, OpenDispute,
     ResolveDispute, marketVars, checkoutVars
<1>8. CASE RefundBulkStep
  BY <1>1, <1>8 DEF RefundBulkStep, marketVars, checkoutVars
<1>9. CASE MarketStep
  BY <1>1, <1>4, <1>5, <1>9 DEF MarketStep, AdminStep, RegistryStep, SetPaused,
     SetFeeRate, SetAssetAllowed, CloseLedger, marketVars, contractVars,
     checkoutVars
<1>10. CASE UNCHANGED vars
  BY <1>1, <1>10 DEF vars
<1>11. QED
  BY <1>6, <1>7, <1>8, <1>9, <1>10 DEF Next

\* While the version a buyer's quote was recorded under is current, the quote
\* shows the price the registry charges.
THEOREM QuotesBindThePrice == Spec => []QuoteShowsCurrentPrice
<1>1. Init => QuoteInv
  BY DEF Init, QuoteInv
<1>2. TypeOK /\ TypeOK' /\ QuoteInv /\ [Next]_vars => QuoteInv'
  BY NextQuoteInv
<1>3. QuoteInv => QuoteShowsCurrentPrice
  <2>1. SUFFICES ASSUME QuoteInv, NEW b \in Buyers, NEW m \in Materials,
                        quote[<<b, m>>] # NoRecord,
                        quote[<<b, m>>].version = sale[m].version
                 PROVE  quote[<<b, m>>].amount = sale[m].price[quote[<<b, m>>].asset]
    BY DEF QuoteShowsCurrentPrice
  <2>2. <<b, m>> \in Buyers \X Materials /\ <<b, m>>[2] = m
    OBVIOUS
  <2>3. QED
    BY <2>1, <2>2 DEF QuoteInv
<1>4. QED
  BY <1>1, <1>2, <1>3, TypeCorrect, PTL DEF Spec

-----------------------------------------------------------------------------
(* The refinement mapping, where the records of a purchase agree.            *)

Phase(state) ==
    IF state = "Pending" THEN "held"
    ELSE IF state = "Disputed" THEN "frozen"
    ELSE IF state = "Released" THEN "paid_out"
    ELSE IF state = "Refunded" THEN "paid_back" ELSE "void"

View(p) ==
    /\ CustodyOf(p) = IF escrow[p] = NoRecord THEN "none" ELSE Phase(settlement[p])
    /\ GivesAccess(p) <=> escrow[p] # NoRecord /\ Live(p)

ViewInv == Fresh => \A p \in PurchaseIds : View(p)

\* The settlement state alone tells where the money is, and whether there is
\* access: the claimed flag and the entitlement follow it.
LEMMA AgreementGivesView ==
    ASSUME TypeOK, Fresh => Agreement
    PROVE  ViewInv
<1> SUFFICES ASSUME Fresh, NEW p \in PurchaseIds PROVE View(p)
  BY DEF ViewInv
<1>1. EscrowAgrees(p) /\ GrantsAccess(p)
  BY DEF Agreement
<1>2. CASE escrow[p] = NoRecord
  BY <1>2 DEF View, CustodyOf, GivesAccess
<1>3. CASE escrow[p] # NoRecord
  <2>1. /\ escrow[p] \in EscrowRecord
        /\ settlement[p] \in SettlementStates
        /\ escrow[p].claimed <=> settlement[p] \in Terminal
        /\ escrow[p].claimed \in BOOLEAN
    BY <1>1, <1>3 DEF TypeOK, EscrowAgrees, EscrowRecord
  <2>2. CustodyOf(p) = Phase(settlement[p])
    BY <1>3, <2>1 DEF CustodyOf, Phase, Terminal, SettlementStates
  <2>3. Live(p) => GivesAccess(p)
    BY <1>1, <1>3, NoRecordAssumption DEF GrantsAccess, GivesAccess
  <2>4. ASSUME GivesAccess(p) PROVE Live(p)
    <3> DEFINE m == escrow[p].material
               b == buyerOf[p]
    <3>1. m \in Materials /\ b \in Buyers
      BY <2>1, <2>4 DEF TypeOK, EscrowRecord, GivesAccess
    <3>2. entitlement[<<m, b>>] = [active |-> TRUE, purchase_id |-> p]
      BY <2>4 DEF GivesAccess
    <3>3. HasEntitlement(m, b) /\ entitlement[<<m, b>>].purchase_id = p
      BY <3>2 DEF HasEntitlement
    <3>4. Backed(m, b)
      BY <3>1 DEF Agreement
    <3>5. QED
      BY <3>3, <3>4 DEF Backed
  <2>5. QED
    BY <1>3, <2>2, <2>3, <2>4 DEF View
<1>4. QED
  BY <1>2, <1>3

-----------------------------------------------------------------------------
(* What a step does to the records of each purchase.                         *)

Same(p) ==
    /\ escrow'[p] = NoRecord <=> escrow[p] = NoRecord
    /\ escrow[p] # NoRecord => settlement'[p] = settlement[p]

Opens(S) ==
    \A p \in PurchaseIds :
      IF p \in S
      THEN escrow[p] = NoRecord /\ escrow'[p] # NoRecord /\ settlement'[p] = "Pending"
      ELSE Same(p)

Moves(q, from, to) ==
    /\ escrow[q] # NoRecord /\ escrow'[q] # NoRecord
    /\ settlement[q] \in from /\ settlement'[q] = to
    /\ \A p \in PurchaseIds \ {q} : Same(p)

RecordsMove ==
    \/ \E S \in SUBSET PurchaseIds : Opens(S)
    \/ \E q \in PurchaseIds :
         \/ Moves(q, {"Pending"}, "Disputed")
         \/ Moves(q, {"Pending", "Disputed"}, "Released")
         \/ Moves(q, {"Pending"}, "Refunded")

\* Nothing happens to any purchase.
LEMMA RecordsStay ==
    ASSUME \A p \in PurchaseIds : Same(p)
    PROVE  RecordsMove
<1>1. Opens({})
  BY DEF Opens
<1>2. QED
  BY <1>1 DEF RecordsMove

\* Marking an escrow claimed leaves an escrow.
LEMMA ClaimedEscrow ==
    ASSUME TypeOK, NEW q \in PurchaseIds, escrow[q] # NoRecord,
           escrow' = ClaimEscrow(q)
    PROVE  /\ escrow'[q] # NoRecord
           /\ \A p \in PurchaseIds \ {q} : escrow'[p] = escrow[p]
<1>1. escrow[q] \in EscrowRecord
  BY DEF TypeOK
<1>2. escrow'[q] = [escrow[q] EXCEPT !.claimed = TRUE]
  BY DEF ClaimEscrow, TypeOK
<1>3. escrow'[q] \in EscrowRecord
  BY <1>1, <1>2 DEF EscrowRecord
<1>4. QED
  BY <1>3, NoRecordIsNoRecord DEF ClaimEscrow, TypeOK

LEMMA RefundMoves ==
    ASSUME TypeOK, NEW q \in PurchaseIds, PerformSingleRefund(q)
    PROVE  Moves(q, {"Pending"}, "Refunded")
<1>1. /\ escrow[q] # NoRecord /\ settlement[q] = "Pending"
      /\ escrow' = ClaimEscrow(q)
      /\ settlement' = [settlement EXCEPT ![q] = "Refunded"]
  BY DEF PerformSingleRefund, Refundable
<1>2. QED
  BY <1>1, ClaimedEscrow DEF Moves, Same, TypeOK

LEMMA NextRecords ==
    ASSUME TypeOK, Agreement, [Next]_vars, Fresh'
    PROVE  RecordsMove
<1>1. ASSUME NEW b \in Buyers, NEW m \in Materials, NEW a \in Assets,
             Purchase(b, m, a)
      PROVE  RecordsMove
  <2>1. nonce \in PurchaseIds
    BY <1>1, ConstantsAssumption DEF TypeOK, Purchase, PurchaseIds
  <2>2. escrow[nonce] = NoRecord
    BY <1>1, <2>1, FreshId DEF Purchase, Fresh, Reissue
  <2> DEFINE e == NewEscrow(m, a, sale[m].price[a])
  <2>3. e # NoRecord
    BY NewEscrowType, NoRecordIsNoRecord
  <2>4. /\ escrow' = [escrow EXCEPT ![nonce] = e]
        /\ settlement' = [settlement EXCEPT ![nonce] = "Pending"]
    BY <1>1 DEF Purchase
  <2> HIDE DEF e
  <2>5. Opens({nonce})
    BY <2>1, <2>2, <2>3, <2>4 DEF TypeOK, Opens, Same
  <2>6. QED
    BY <2>1, <2>5 DEF RecordsMove
<1>2. ASSUME NEW b \in Buyers, NEW m \in Materials, RedeemScholarshipCredits(b, m)
      PROVE  RecordsMove
  <2>1. nonce \in PurchaseIds
    BY <1>2, ConstantsAssumption DEF TypeOK, RedeemScholarshipCredits, PurchaseIds
  <2>2. escrow[nonce] = NoRecord
    BY <1>2, <2>1, FreshId DEF RedeemScholarshipCredits, Fresh, Reissue
  <2>3. /\ escrow' = escrow
        /\ settlement' = [settlement EXCEPT ![nonce] = "Pending"]
    BY <1>2 DEF RedeemScholarshipCredits
  <2>4. \A p \in PurchaseIds : Same(p)
    BY <2>1, <2>2, <2>3 DEF TypeOK, Same
  <2>5. QED
    BY <2>4, RecordsStay
<1>3. ASSUME NEW b \in Buyers, NEW m \in Materials, NEW a \in Assets,
             NEW l \in RecipientLists, PurchaseBulkLicenses(b, m, a, l)
      PROVE  RecordsMove
  <2> DEFINE n == Len(l)
             ids == nonce..(nonce + n - 1)
             e == NewEscrow(m, a, sale[m].price[a])
  <2>1. n \in Nat \ {0} /\ nonce \in Nat /\ nonce + n <= MaxPurchases
    BY <1>3, RecipientListsType DEF TypeOK, PurchaseBulkLicenses
  <2>2. /\ escrow' = [p \in PurchaseIds |-> IF p \in ids THEN e ELSE escrow[p]]
        /\ settlement' = [p \in PurchaseIds |->
                            IF p \in ids THEN "Pending" ELSE settlement[p]]
    BY <1>3 DEF PurchaseBulkLicenses
  <2>3. \A p \in ids : settlement[p] = NoRecord
    BY <1>3 DEF PurchaseBulkLicenses, Fresh, Reissue
  <2>4. e # NoRecord
    BY NewEscrowType, NoRecordIsNoRecord
  <2> HIDE DEF n, e
  <2>5. ids \subseteq PurchaseIds
    BY <2>1, ConstantsAssumption DEF PurchaseIds
  <2>6. \A p \in ids : escrow[p] = NoRecord
    BY <2>3, <2>5, FreshId
  <2> HIDE DEF ids
  <2>7. Opens(ids)
    BY <2>2, <2>4, <2>5, <2>6 DEF Opens, Same
  <2>8. QED
    BY <2>5, <2>7 DEF RecordsMove
<1>4. ASSUME NEW b \in Buyers, BuyerStep(b) PROVE RecordsMove
  <2>1. PICK m \in Materials :
          \/ \E a \in Assets : Purchase(b, m, a) \/ RecordQuote(b, m, a)
          \/ BeginCheckout(b, m) \/ CancelCheckout(b, m)
          \/ RedeemScholarshipCredits(b, m)
          \/ \E a \in Assets : \E l \in RecipientLists :
                PurchaseBulkLicenses(b, m, a, l)
          \/ \E limit \in 1..MAX_BULK_LICENSE_RECIPIENTS :
                RefundBulkBegin(b, m, limit)
    BY <1>4 DEF BuyerStep
  <2>2. ASSUME \/ \E a \in Assets : RecordQuote(b, m, a)
               \/ BeginCheckout(b, m) \/ CancelCheckout(b, m)
               \/ \E limit \in 1..MAX_BULK_LICENSE_RECIPIENTS :
                    RefundBulkBegin(b, m, limit)
        PROVE  escrow' = escrow /\ settlement' = settlement
    BY <2>2 DEF RecordQuote, BeginCheckout, CancelCheckout, RefundBulkBegin
  <2>3. QED
    BY <2>1, <2>2, <1>1, <1>2, <1>3, RecordsStay DEF Same
<1>5. ASSUME NEW q \in PurchaseIds, SettlementStep(q) PROVE RecordsMove
  <2>1. CASE WithdrawPayouts(q)
    <3>1. Moves(q, {"Pending", "Disputed"}, "Released")
      BY <2>1, ClaimedEscrow DEF WithdrawPayouts, Moves, Same, TypeOK
    <3>2. QED
      BY <3>1 DEF RecordsMove
  <2>2. CASE RefundPurchase(q)
    BY <2>2, RefundMoves DEF RefundPurchase, RecordsMove
  <2>3. ASSUME NEW b \in Buyers, OpenDispute(b, q) PROVE RecordsMove
    <3>1. Moves(q, {"Pending"}, "Disputed")
      BY <2>3 DEF OpenDispute, CanDispute, Moves, Same, TypeOK
    <3>2. QED
      BY <3>1 DEF RecordsMove
  <2>4. ASSUME NEW r \in Resolutions, ResolveDispute(q, r) PROVE RecordsMove
    <3>1. r # "RefundBuyer"
      BY <2>4 DEF ResolveDispute, PerformSingleRefund, Refundable
    <3>2. Moves(q, {"Pending", "Disputed"}, "Released")
      BY <2>4, <3>1, ClaimedEscrow DEF ResolveDispute, Moves, Same, TypeOK
    <3>3. QED
      BY <3>2 DEF RecordsMove
  <2>5. QED
    BY <1>5, <2>1, <2>2, <2>3, <2>4 DEF SettlementStep
<1>6. CASE RefundBulkStep
  <2>1. CASE batch.next \in PurchaseIds /\ Refundable(batch.next)
    BY <1>6, <2>1, RefundMoves DEF RefundBulkStep, RecordsMove
  <2>2. CASE ~(batch.next \in PurchaseIds /\ Refundable(batch.next))
    BY <1>6, <2>2, RecordsStay DEF RefundBulkStep, Same
  <2>3. QED
    BY <2>1, <2>2
<1>7. CASE MarketStep \/ UNCHANGED vars
  <2>1. escrow' = escrow /\ settlement' = settlement
    BY <1>7 DEF MarketStep, AdminStep, RegistryStep, SetPaused, SetFeeRate,
       SetAssetAllowed, RegisterMaterial, UpdateSaleTerms, SetMaterialOnSale,
       CloseLedger, contractVars, vars
  <2>2. QED
    BY <2>1, RecordsStay DEF Same
<1>8. QED
  BY <1>4, <1>5, <1>6, <1>7 DEF Next

-----------------------------------------------------------------------------
(* The refinement. *)

Custody == [p \in PurchaseIds |-> CustodyOf(p)]
Access == {p \in PurchaseIds : GivesAccess(p)}

\* A purchase whose records stay keeps its custody and its access.
LEMMA SameView ==
    ASSUME ViewInv, ViewInv', Fresh, Fresh', NEW p \in PurchaseIds, Same(p)
    PROVE  CustodyOf(p)' = CustodyOf(p) /\ (GivesAccess(p)' <=> GivesAccess(p))
<1>1. View(p) /\ View(p)'
  BY DEF ViewInv
<1>2. QED
  BY <1>1 DEF View, Same, Live

\* While ids stay fresh, a step of the contract is one of the abstract one.
LEMMA FreshStep ==
    ASSUME TypeOK, TypeOK', Agreement, ViewInv, ViewInv', [Next]_vars, Fresh, Fresh'
    PROVE  Abstract!Next
<1>0. /\ \A p \in PurchaseIds : View(p) /\ View(p)'
      /\ Custody' = [p \in PurchaseIds |-> CustodyOf(p)']
      /\ Access' = {p \in PurchaseIds : GivesAccess(p)'}
  BY DEF ViewInv, Custody, Access
<1>1. ASSUME NEW S \in SUBSET PurchaseIds, Opens(S) PROVE Abstract!Open(S)
  <2>1. \A p \in S : CustodyOf(p) = "none" /\ CustodyOf(p)' = "held" /\ GivesAccess(p)'
    BY <1>0, <1>1 DEF Opens, View, Phase, Live
  <2>2. \A p \in PurchaseIds \ S :
          CustodyOf(p)' = CustodyOf(p) /\ (GivesAccess(p)' <=> GivesAccess(p))
    BY <1>1, SameView DEF Opens
  <2>3. \A p \in S : Custody[p] = "none"
    BY <2>1 DEF Custody
  <2>4. Custody' = [p \in PurchaseIds |-> IF p \in S THEN "held" ELSE Custody[p]]
    BY <1>0, <2>1, <2>2 DEF Custody
  <2>5. Access' = Access \cup S
    BY <1>0, <2>1, <2>2 DEF Access
  <2>6. QED
    BY <2>3, <2>4, <2>5 DEF Abstract!Open, Custody, Access
<1>2. ASSUME NEW q \in PurchaseIds, NEW from \in SUBSET {"Pending", "Disputed"},
             NEW to \in {"Disputed", "Released", "Refunded"}, Moves(q, from, to)
      PROVE  /\ Custody[q] = Phase(settlement[q]) /\ settlement[q] \in from
             /\ Custody' = [Custody EXCEPT ![q] = Phase(to)]
             /\ Access' = IF to = "Refunded" THEN Access \ {q} ELSE Access
  <2>1. /\ CustodyOf(q) = Phase(settlement[q]) /\ settlement[q] \in from
        /\ CustodyOf(q)' = Phase(to)
        /\ GivesAccess(q) /\ (GivesAccess(q)' <=> to # "Refunded")
    BY <1>0, <1>2 DEF Moves, View, Phase, Live
  <2>2. \A p \in PurchaseIds \ {q} :
          CustodyOf(p)' = CustodyOf(p) /\ (GivesAccess(p)' <=> GivesAccess(p))
    BY <1>2, SameView DEF Moves
  <2>3. Custody[q] = Phase(settlement[q])
    BY <2>1 DEF Custody
  <2>4. Custody' = [Custody EXCEPT ![q] = Phase(to)]
    BY <1>0, <2>1, <2>2 DEF Custody
  <2>5. Access' = IF to = "Refunded" THEN Access \ {q} ELSE Access
    BY <1>0, <2>1, <2>2 DEF Access
  <2>6. QED
    BY <2>1, <2>3, <2>4, <2>5
<1>3. ASSUME NEW q \in PurchaseIds, Moves(q, {"Pending"}, "Disputed")
      PROVE  Abstract!Freeze(q)
  <2>1. Custody[q] = "held" /\ Custody' = [Custody EXCEPT ![q] = "frozen"]
        /\ Access' = Access
    BY <1>2, <1>3 DEF Phase
  <2>2. QED
    BY <2>1 DEF Abstract!Freeze, Custody, Access
<1>4. ASSUME NEW q \in PurchaseIds, Moves(q, {"Pending", "Disputed"}, "Released")
      PROVE  Abstract!PayOut(q)
  <2>1. /\ Custody[q] \in {"held", "frozen"}
        /\ Custody' = [Custody EXCEPT ![q] = "paid_out"] /\ Access' = Access
    BY <1>2, <1>4 DEF Phase
  <2>2. QED
    BY <2>1 DEF Abstract!PayOut, Custody, Access
<1>5. ASSUME NEW q \in PurchaseIds, Moves(q, {"Pending"}, "Refunded")
      PROVE  Abstract!PayBack(q)
  <2>1. /\ Custody[q] \in {"held", "frozen"}
        /\ Custody' = [Custody EXCEPT ![q] = "paid_back"]
        /\ Access' = Access \ {q}
    BY <1>2, <1>5 DEF Phase
  <2>2. QED
    BY <2>1 DEF Abstract!PayBack, Custody, Access
<1>6. QED
  BY NextRecords, <1>1, <1>3, <1>4, <1>5 DEF RecordsMove, Abstract!Next

\* Once an id has been reissued the abstract promise is over.
LEMMA StaleStep ==
    ASSUME ~Fresh'
    PROVE  Abstract!Next
<1>1. \A p \in PurchaseIds : CustodyOf(p)' = "void" /\ ~GivesAccess(p)'
  BY DEF CustodyOf, GivesAccess
<1>2. QED
  BY <1>1 DEF Abstract!Next, Abstract!Collide

\* At the start no purchase has money or access.
LEMMA InitSettlement == Init => Abstract!Init
  BY DEF Init, Abstract!Init, CustodyOf, GivesAccess, Fresh

\* The contract implements EscrowSettlement: until it reissues an id, the money
\* of every purchase is held, frozen, and paid once to one side, and access is
\* given and taken back in the very calls that do so.
THEOREM SettlementRefines == Spec => ImplementsSettlement
<1>1. TypeOK /\ (Fresh => Agreement) => ViewInv
  BY AgreementGivesView
<1>2. TypeOK /\ TypeOK' /\ (Fresh => Agreement) /\ ViewInv /\ ViewInv' /\ [Next]_vars
        => [Abstract!Next]_(Abstract!vars)
  BY FreshStep, StaleStep, FreshBackwards
<1>3. QED
  BY <1>1, <1>2, InitSettlement, TypeCorrect, AgreementHolds, PTL
     DEF Spec, ImplementsSettlement, Abstract!Spec


-----------------------------------------------------------------------------
(* The refinement rests on two facts: the materials are well typed, and sale *)
(* is what checkout computes from them.                                      *)

MaterialsTyped == material \in [Materials -> Registry!MaterialRecord \cup {NoRecord}]

ViewOfRegistry == sale = [m \in Materials |-> SaleInfo(m)]

\* A call of purchase-manager or of the network leaves the sale terms alone.
LEMMA CallKeepsSale ==
    ASSUME PurchaseManagerCall
    PROVE  sale' = sale
<1>1. ASSUME NEW b \in Buyers, BuyerStep(b) PROVE sale' = sale
  <2>1. PICK m \in Materials :
          \/ \E a \in Assets : Purchase(b, m, a) \/ RecordQuote(b, m, a)
          \/ BeginCheckout(b, m) \/ CancelCheckout(b, m)
          \/ RedeemScholarshipCredits(b, m)
          \/ \E a \in Assets : \E l \in RecipientLists :
                PurchaseBulkLicenses(b, m, a, l)
          \/ \E limit \in 1..MAX_BULK_LICENSE_RECIPIENTS :
                RefundBulkBegin(b, m, limit)
    BY <1>1 DEF BuyerStep
  <2>2. ASSUME NEW a \in Assets, Purchase(b, m, a) \/ RecordQuote(b, m, a)
        PROVE  sale' = sale
    BY <2>2 DEF Purchase, RecordQuote, marketVars
  <2>3. CASE \/ BeginCheckout(b, m) \/ CancelCheckout(b, m)
             \/ RedeemScholarshipCredits(b, m)
    BY <2>3 DEF BeginCheckout, CancelCheckout, RedeemScholarshipCredits, marketVars
  <2>4. ASSUME NEW a \in Assets, NEW l \in RecipientLists,
               PurchaseBulkLicenses(b, m, a, l)
        PROVE  sale' = sale
    BY <2>4 DEF PurchaseBulkLicenses, marketVars
  <2>5. ASSUME NEW limit \in 1..MAX_BULK_LICENSE_RECIPIENTS,
               RefundBulkBegin(b, m, limit)
        PROVE  sale' = sale
    BY <2>5 DEF RefundBulkBegin, marketVars
  <2>6. QED
    BY <2>1, <2>2, <2>3, <2>4, <2>5
<1>2. ASSUME NEW p \in PurchaseIds, SettlementStep(p) PROVE sale' = sale
  BY <1>2 DEF SettlementStep, WithdrawPayouts, RefundPurchase, OpenDispute,
     ResolveDispute, marketVars
<1>3. CASE RefundBulkStep
  BY <1>3 DEF RefundBulkStep, marketVars
<1>4. CASE AdminStep \/ CloseLedger
  BY <1>4 DEF AdminStep, SetPaused, SetFeeRate, SetAssetAllowed, CloseLedger,
     marketVars
<1>5. QED
  BY <1>1, <1>2, <1>3, <1>4 DEF PurchaseManagerCall

\* A call of the registry adds a material, changes one, or changes none.
LEMMA RegistryCallCases ==
    ASSUME Registry!Next
    PROVE  \/ material' = material
           \/ \E u \in Accounts, m \in Materials :
                \/ \E quotes \in Registry!Quotes :
                     \/ Registry!RegisterMaterial(u, m, quotes)
                     \/ Registry!UpdateSaleTerms(m, quotes)
                \/ \E status \in Registry!Statuses :
                     Registry!SetMaterialStatus(u, m, status)
                \/ \E deactivated \in BOOLEAN :
                     Registry!SetMaterialDeactivated(u, m, deactivated)
<1>1. PICK u \in Accounts :
        Registry!AdminStep(u) \/ \E m \in Materials : Registry!MaterialStep(u, m)
  BY DEF Registry!Next
<1>2. CASE Registry!AdminStep(u)
  BY <1>2 DEF Registry!AdminStep, Registry!Initialize, Registry!SetAssetAllowed,
     Registry!InitiateAdminTransfer, Registry!AcceptAdminTransfer,
     Registry!CancelAdminTransfer
<1>3. ASSUME NEW m \in Materials, Registry!ToggleMaterialPaused(u, m)
      PROVE  \E status \in Registry!Statuses :
               Registry!SetMaterialStatus(u, m, status)
  BY <1>3 DEF Registry!ToggleMaterialPaused, Registry!Statuses
<1>4. QED
  BY <1>1, <1>2, <1>3 DEF Registry!MaterialStep

\* The registry never forgets a material and keeps its record well typed.
LEMMA NextMaterialsTyped ==
    ASSUME MaterialsTyped, [MarketplaceNext]_marketplaceVars
    PROVE  /\ MaterialsTyped'
           /\ \A m \in Materials : material[m] # NoRecord => material'[m] # NoRecord
<1> USE DEF MaterialsTyped
<1> DEFINE R == Registry!MaterialRecord
<1>1. CASE material' = material
  BY <1>1
<1>2. ASSUME NEW m \in Materials, NEW r \in R,
             material' = [material EXCEPT ![m] = r]
      PROVE  /\ MaterialsTyped'
             /\ \A n \in Materials : material[n] # NoRecord => material'[n] # NoRecord
  BY <1>2, RegistryAssumption
<1>3. ASSUME NEW u \in Accounts, NEW m \in Materials, NEW quotes \in Registry!Quotes,
             Registry!RegisterMaterial(u, m, quotes)
      PROVE  \E r \in R : material' = [material EXCEPT ![m] = r]
  <2>1. 1 \in 1..MaxVersion
    BY ConstantsAssumption
  <2>2. [creator |-> u, status |-> "Active", paused |-> FALSE,
         quotes |-> quotes, version |-> 1] \in R
    BY <2>1 DEF Registry!MaterialRecord, Registry!Statuses
  <2>3. QED
    BY <1>3, <2>2 DEF Registry!RegisterMaterial
<1>4. ASSUME NEW m \in Materials, NEW quotes \in Registry!Quotes,
             Registry!UpdateSaleTerms(m, quotes)
      PROVE  \E r \in R : material' = [material EXCEPT ![m] = r]
  <2>1. material[m] \in R /\ material[m].version < MaxVersion
    BY <1>4 DEF Registry!UpdateSaleTerms
  <2>2. material[m].version \in 1..MaxVersion
    BY <2>1 DEF Registry!MaterialRecord
  <2>3. material[m].version + 1 \in 1..MaxVersion
    BY <2>1, <2>2, ConstantsAssumption
  <2>4. [material[m] EXCEPT !.quotes = quotes, !.version = material[m].version + 1] \in R
    BY <2>1, <2>3 DEF Registry!MaterialRecord
  <2>5. QED
    BY <1>4, <2>4 DEF Registry!UpdateSaleTerms, Registry!NewSaleTerms
<1>5. ASSUME NEW u \in Accounts, NEW m \in Materials, NEW status \in Registry!Statuses,
             Registry!SetMaterialStatus(u, m, status)
      PROVE  \E r \in R : material' = [material EXCEPT ![m] = r]
  <2> DEFINE r == [material[m] EXCEPT !.status = status,
                                     !.paused = (status = "Paused")]
  <2>1. material[m] \in R
    BY <1>5 DEF Registry!SetMaterialStatus, Registry!CreatorOrUpgradeAdmin
  <2>2. r \in R
    BY <2>1 DEF Registry!MaterialRecord
  <2>3. material' = [material EXCEPT ![m] = r]
    BY <1>5 DEF Registry!SetMaterialStatus
  <2>4. QED
    BY <2>2, <2>3
<1>6. ASSUME NEW u \in Accounts, NEW m \in Materials, NEW deactivated \in BOOLEAN,
             Registry!SetMaterialDeactivated(u, m, deactivated)
      PROVE  \E r \in R : material' = [material EXCEPT ![m] = r]
  <2> DEFINE s == Registry!StatusAfter(m, deactivated)
             r == [material[m] EXCEPT !.status = s]
  <2>1. material[m] \in R
    BY <1>6 DEF Registry!SetMaterialDeactivated, Registry!CreatorOrUpgradeAdmin
  <2>2. s \in Registry!Statuses
    BY DEF Registry!StatusAfter, Registry!Statuses
  <2>3. material' = [material EXCEPT ![m] = r]
    BY <1>6 DEF Registry!SetMaterialDeactivated
  <2> HIDE DEF s
  <2>4. r \in R
    BY <2>1, <2>2 DEF Registry!MaterialRecord
  <2>5. QED
    BY <2>3, <2>4
<1>7. CASE RegistryCall
  <2>1. Registry!Next
    BY <1>7 DEF RegistryCall
  <2> HIDE DEF R, MaterialsTyped
  <2>2. QED
    BY <2>1, RegistryCallCases, <1>1, <1>2, <1>3, <1>4, <1>5, <1>6
<1>8. CASE PurchaseManagerCall \/ UNCHANGED marketplaceVars
  BY <1>1, <1>8 DEF PurchaseManagerCall, marketplaceVars, registryVars
<1>9. QED
  BY <1>7, <1>8 DEF MarketplaceNext

\* A registry call that leaves the materials alone is invisible to checkout.
LEMMA OtherCallIsInvisible ==
    ASSUME ViewOfRegistry, RegistryCall, material' = material
    PROVE  UNCHANGED vars
<1>1. sale' = sale
  BY DEF RegistryCall, ViewOfRegistry, SaleInfo, NotRegistered
<1>2. QED
  BY <1>1 DEF RegistryCall, contractVars, checkoutVars, vars

\* A registry call that changes one material changes what checkout sees of it
\* and of no other.
LEMMA SaleChangesWithMaterial ==
    ASSUME MaterialsTyped, ViewOfRegistry, RegistryCall, NEW m \in Materials,
           NEW r, material' = [material EXCEPT ![m] = r], r # NoRecord
    PROVE  sale' = [sale EXCEPT ![m] =
                      [on_sale |-> r.status = "Active" /\ ~r.paused,
                       version |-> r.version, price |-> r.quotes]]
<1> DEFINE s == [on_sale |-> r.status = "Active" /\ ~r.paused,
                 version |-> r.version, price |-> r.quotes]
<1>1. material'[m] = r /\ \A n \in Materials \ {m} : material'[n] = material[n]
  BY DEF MaterialsTyped
<1>2. sale' = [n \in Materials |-> SaleInfo(n)']
  BY DEF RegistryCall
<1>3. SaleInfo(m)' = s
  BY <1>1 DEF SaleInfo
<1>4. ASSUME NEW n \in Materials \ {m} PROVE SaleInfo(n)' = sale[n]
  BY <1>1, <1>4 DEF SaleInfo, ViewOfRegistry, NotRegistered
<1> HIDE DEF s
<1>5. sale' = [sale EXCEPT ![m] = s]
  BY <1>2, <1>3, <1>4 DEF ViewOfRegistry
<1>6. QED
  BY <1>5 DEF s

\* Every call of the registry is a step PurchaseManager allows its environment.
LEMMA RegistryCallRefines ==
    ASSUME MaterialsTyped, ViewOfRegistry, RegistryCall
    PROVE  RegistryStep \/ UNCHANGED vars
<1> DEFINE P == [Assets -> Prices \cup {0}]
<1>0. /\ Idle /\ Registry!Next
      /\ UNCHANGED <<ledger, config, contractVars>>
  BY DEF RegistryCall
<1>1. \A m \in Materials : sale[m] = SaleInfo(m)
  BY DEF ViewOfRegistry
<1>9. sale = [m \in Materials |-> sale[m]]
  BY DEF ViewOfRegistry
<1>2. ASSUME NEW u \in Accounts, NEW m \in Materials, NEW quotes \in Registry!Quotes,
             Registry!RegisterMaterial(u, m, quotes)
      PROVE  RegistryStep
  <2> DEFINE r == [creator |-> u, status |-> "Active", paused |-> FALSE,
                   quotes |-> quotes, version |-> 1]
  <2>1. sale[m].version = 0
    <3>1. material[m] = NoRecord
      BY <1>2 DEF Registry!RegisterMaterial
    <3>2. sale[m] = NotRegistered
      BY <1>1, <3>1 DEF SaleInfo
    <3>3. QED
      BY <3>2 DEF NotRegistered
  <2>2. quotes \in P /\ \E a \in Assets : quotes[a] > 0
    BY DEF Registry!Quotes
  <2>3. material' = [material EXCEPT ![m] = r]
    BY <1>2 DEF Registry!RegisterMaterial
  <2>4. r \in Registry!MaterialRecord
    <3>1. 1 \in 1..MaxVersion
      BY ConstantsAssumption
    <3>2. QED
      BY <3>1 DEF Registry!MaterialRecord, Registry!Statuses
  <2>5. sale' = [sale EXCEPT ![m] = [on_sale |-> TRUE, version |-> 1,
                                     price |-> quotes]]
    <3>1. r # NoRecord
      BY <2>4, RegistryAssumption
    <3>2. sale' = [sale EXCEPT ![m] =
                     [on_sale |-> r.status = "Active" /\ ~r.paused,
                      version |-> r.version, price |-> r.quotes]]
      BY <2>3, <3>1, SaleChangesWithMaterial
    <3>3. QED
      BY <3>2
  <2>6. RegisterMaterial(m, quotes)
    BY <1>0, <2>1, <2>2, <2>5 DEF RegisterMaterial
  <2>7. QED
    BY <2>2, <2>6 DEF RegistryStep
<1>3. ASSUME NEW m \in Materials, NEW quotes \in Registry!Quotes,
             Registry!UpdateSaleTerms(m, quotes)
      PROVE  RegistryStep
  <2> DEFINE r == [material[m] EXCEPT !.quotes = quotes,
                                     !.version = material[m].version + 1]
             on == material[m].status = "Active" /\ ~material[m].paused
  <2>1. /\ material[m] \in Registry!MaterialRecord
        /\ material[m].version < MaxVersion
        /\ material' = [material EXCEPT ![m] = r]
    BY <1>3 DEF Registry!UpdateSaleTerms, Registry!NewSaleTerms, MaterialsTyped
  <2>2. material[m].version \in 1..MaxVersion /\ material[m] # NoRecord
    BY <2>1, RegistryAssumption DEF Registry!MaterialRecord
  <2>3. quotes \in P /\ \E a \in Assets : quotes[a] > 0
    BY DEF Registry!Quotes
  <2>4. sale[m] = [on_sale |-> on, version |-> material[m].version,
                   price |-> material[m].quotes]
    BY <1>1, <2>2 DEF SaleInfo
  <2>5. sale' = [sale EXCEPT ![m] =
                   [on_sale |-> on, version |-> material[m].version + 1,
                    price |-> quotes]]
    <3>1. /\ r.status = material[m].status /\ r.paused = material[m].paused
          /\ r.version = material[m].version + 1 /\ r.quotes = quotes
          /\ r \in Registry!MaterialRecord
      <4>1. material[m].version + 1 \in 1..MaxVersion
        BY <2>1, <2>2, ConstantsAssumption
      <4>2. QED
        BY <2>1, <4>1 DEF Registry!MaterialRecord
    <3> HIDE DEF r
    <3>2. r # NoRecord
      BY <3>1, RegistryAssumption
    <3>3. QED
      BY <2>1, <3>1, <3>2, SaleChangesWithMaterial
  <2>6. sale' = [sale EXCEPT ![m] = NewSaleTerms(m, quotes)]
    <3>1. NewSaleTerms(m, quotes) =
            [on_sale |-> on, version |-> material[m].version + 1,
             price |-> quotes]
      BY <2>4 DEF NewSaleTerms
    <3> HIDE DEF on
    <3>2. QED
      BY <2>5, <3>1
  <2>7. sale[m].version \in 1..(MaxVersion - 1)
    BY <2>1, <2>2, <2>4, ConstantsAssumption
  <2>8. UpdateSaleTerms(m, quotes)
    BY <1>0, <2>3, <2>6, <2>7 DEF UpdateSaleTerms
  <2>9. QED
    BY <2>3, <2>8 DEF RegistryStep
<1>4. ASSUME NEW m \in Materials, NEW r, material[m] # NoRecord,
             material' = [material EXCEPT ![m] = r], r \in Registry!MaterialRecord,
             r.version = material[m].version, r.quotes = material[m].quotes
      PROVE  RegistryStep
  <2> DEFINE on == r.status = "Active" /\ ~r.paused
  <2>1. r # NoRecord
    BY <1>4, RegistryAssumption
  <2>2. sale' = [sale EXCEPT ![m] = [on_sale |-> on, version |-> r.version,
                                     price |-> r.quotes]]
    BY <1>4, <2>1, SaleChangesWithMaterial
  <2>3. sale[m] = [on_sale |-> material[m].status = "Active" /\ ~material[m].paused,
                   version |-> r.version, price |-> r.quotes]
    BY <1>1, <1>4 DEF SaleInfo
  <2>4. sale' = [sale EXCEPT ![m].on_sale = on]
    <3> DEFINE t == [sale[m] EXCEPT !.on_sale = on]
    <3>1. t = [on_sale |-> on, version |-> r.version, price |-> r.quotes]
      BY <2>3
    <3> HIDE DEF on
    <3>2. sale' = [sale EXCEPT ![m] = t]
      BY <2>2, <3>1
    <3>3. QED
      BY <3>2, <1>9
  <2>5. sale[m].version > 0
    <3>1. r.version \in 1..MaxVersion
      BY <1>4 DEF Registry!MaterialRecord
    <3>2. QED
      BY <2>3, <3>1, ConstantsAssumption
  <2>6. SetMaterialOnSale(m, on)
    BY <1>0, <2>4, <2>5 DEF SetMaterialOnSale
  <2>7. QED
    BY <2>6 DEF RegistryStep
<1>5. ASSUME NEW u \in Accounts, NEW m \in Materials, NEW status \in Registry!Statuses,
             Registry!SetMaterialStatus(u, m, status)
      PROVE  RegistryStep
  <2> DEFINE r == [material[m] EXCEPT !.status = status,
                                     !.paused = (status = "Paused")]
  <2>1. /\ material[m] # NoRecord
        /\ material' = [material EXCEPT ![m] = r]
    BY <1>5 DEF Registry!SetMaterialStatus, Registry!CreatorOrUpgradeAdmin
  <2>2. material[m] \in Registry!MaterialRecord
    BY <2>1 DEF MaterialsTyped
  <2>3. /\ r \in Registry!MaterialRecord
        /\ r.version = material[m].version /\ r.quotes = material[m].quotes
    BY <2>2 DEF Registry!MaterialRecord
  <2> HIDE DEF r
  <2>4. QED
    BY <1>4, <2>1, <2>3
<1>6. ASSUME NEW u \in Accounts, NEW m \in Materials, NEW deactivated \in BOOLEAN,
             Registry!SetMaterialDeactivated(u, m, deactivated)
      PROVE  RegistryStep
  <2> DEFINE s == Registry!StatusAfter(m, deactivated)
             r == [material[m] EXCEPT !.status = s]
  <2>1. /\ material[m] # NoRecord
        /\ material' = [material EXCEPT ![m] = r]
    BY <1>6 DEF Registry!SetMaterialDeactivated, Registry!CreatorOrUpgradeAdmin
  <2>2. material[m] \in Registry!MaterialRecord
    BY <2>1 DEF MaterialsTyped
  <2>3. s \in Registry!Statuses
    BY DEF Registry!StatusAfter, Registry!Statuses
  <2> HIDE DEF s
  <2>4. /\ r \in Registry!MaterialRecord
        /\ r.version = material[m].version /\ r.quotes = material[m].quotes
    BY <2>2, <2>3 DEF Registry!MaterialRecord
  <2> HIDE DEF r
  <2>5. QED
    BY <1>4, <2>1, <2>4
<1>7. QED
  BY <1>0, <1>2, <1>3, <1>5, <1>6, RegistryCallCases, OtherCallIsInvisible

\* Initially nothing is registered, and checkout sees nothing for sale.
LEMMA InitView == MarketplaceInit => MaterialsTyped /\ ViewOfRegistry
  BY DEF MarketplaceInit, Init, Registry!Init, MaterialsTyped, ViewOfRegistry, SaleInfo

\* Every step keeps sale the view of the registry and is one of PurchaseManager.
LEMMA NextRefines ==
    ASSUME MaterialsTyped, ViewOfRegistry, [MarketplaceNext]_marketplaceVars
    PROVE  ViewOfRegistry' /\ [Next]_vars
<1>1. CASE RegistryCall
  <2>1. ViewOfRegistry'
    BY <1>1 DEF RegistryCall, ViewOfRegistry
  <2>2. QED
    BY <1>1, <2>1, RegistryCallRefines DEF Next, MarketStep
<1>2. CASE PurchaseManagerCall
  <2>1. sale' = sale /\ material' = material
    BY <1>2, CallKeepsSale DEF PurchaseManagerCall, registryVars
  <2>2. ViewOfRegistry'
    BY <2>1 DEF ViewOfRegistry, SaleInfo, NotRegistered
  <2>3. QED
    BY <1>2, <2>2 DEF PurchaseManagerCall, Next, MarketStep
<1>3. CASE UNCHANGED marketplaceVars
  <2>1. UNCHANGED vars /\ sale' = sale /\ material' = material
    BY <1>3 DEF marketplaceVars, registryVars, vars
  <2>2. ViewOfRegistry'
    BY <2>1 DEF ViewOfRegistry, SaleInfo, NotRegistered
  <2>3. QED
    BY <2>1, <2>2
<1>4. QED
  BY <1>1, <1>2, <1>3 DEF MarketplaceNext

\* The registry's calls, with all their flags, roles and allowlists, show
\* checkout nothing that PurchaseManager does not already allow.
THEOREM MarketplaceRefines == MarketplaceSpec => ImplementsPurchaseManager
<1>1. MarketplaceInit => Init /\ MaterialsTyped /\ ViewOfRegistry
  BY InitView DEF MarketplaceInit
<1>2. MaterialsTyped /\ ViewOfRegistry /\ [MarketplaceNext]_marketplaceVars =>
        MaterialsTyped' /\ ViewOfRegistry' /\ [Next]_vars
  BY NextMaterialsTyped, NextRefines
<1>3. QED
  BY <1>1, <1>2, PTL DEF MarketplaceSpec, ImplementsPurchaseManager, Spec

-----------------------------------------------------------------------------
(* The registry's administration. accept_admin_transfer looks only at the    *)
(* deadline that is stored, so that a handover is announced long enough      *)
(* before needs that every stored nomination carries the minimum delay.      *)

RolesAreSound ==
    /\ upgradeAdmin \in Accounts \cup {NoRecord}
    /\ pendingTransfer \in Registry!TransferRecord \cup {NoRecord}
    /\ allowedAsset \subseteq Assets
    /\ pendingTransfer # NoRecord =>
         pendingTransfer.accept_after >=
           pendingTransfer.initiated_at + MIN_ADMIN_TRANSFER_DELAY_SECS

\* Initially nobody administers the registry.
LEMMA InitRoles == MarketplaceInit => RolesAreSound
  BY DEF MarketplaceInit, Registry!Init, RolesAreSound

\* Every step keeps the roles sound, and there is always an administrator once
\* there has been one.
LEMMA NextRoles ==
    ASSUME TypeOK, RolesAreSound, [MarketplaceNext]_marketplaceVars
    PROVE  RolesAreSound' /\ (upgradeAdmin # NoRecord => upgradeAdmin' # NoRecord)
<1> USE DEF RolesAreSound
<1>1. CASE UNCHANGED <<upgradeAdmin, pendingTransfer, allowedAsset>>
  BY <1>1
<1>2. ASSUME NEW u \in Accounts, NEW assets \in SUBSET Assets,
             Registry!Initialize(u, assets)
      PROVE  RolesAreSound' /\ upgradeAdmin' # NoRecord
  BY <1>2, RegistryAssumption DEF Registry!Initialize
<1>3. ASSUME NEW u \in Accounts, NEW a \in Assets, NEW enabled \in BOOLEAN,
             Registry!SetAssetAllowed(u, a, enabled)
      PROVE  RolesAreSound' /\ upgradeAdmin' = upgradeAdmin
  BY <1>3 DEF Registry!SetAssetAllowed, Registry!roleVars
<1>4. ASSUME NEW u \in Accounts, NEW c \in Accounts, NEW delay \in Delays,
             Registry!InitiateAdminTransfer(u, c, delay)
      PROVE  RolesAreSound' /\ upgradeAdmin' = upgradeAdmin
  <2> DEFINE n == Registry!Nomination(c, delay)
  <2>1. ledger \in Nat /\ delay \in Nat /\ delay >= MIN_ADMIN_TRANSFER_DELAY_SECS
    BY <1>4, RegistryAssumption, ConstantsAssumption
       DEF TypeOK, Registry!InitiateAdminTransfer
  <2>2. /\ n \in Registry!TransferRecord
        /\ n.accept_after >= n.initiated_at + MIN_ADMIN_TRANSFER_DELAY_SECS
    BY <2>1, RegistryAssumption DEF Registry!Nomination, Registry!TransferRecord
  <2> HIDE DEF n
  <2>3. QED
    BY <1>4, <2>2 DEF Registry!InitiateAdminTransfer, n
<1>5. ASSUME NEW u \in Accounts,
             Registry!AcceptAdminTransfer(u) \/ Registry!CancelAdminTransfer(u)
      PROVE  RolesAreSound' /\ (upgradeAdmin # NoRecord => upgradeAdmin' # NoRecord)
  BY <1>5, RegistryAssumption
     DEF Registry!AcceptAdminTransfer, Registry!CancelAdminTransfer
<1>6. ASSUME NEW u \in Accounts, NEW m \in Materials, Registry!MaterialStep(u, m)
      PROVE  UNCHANGED <<upgradeAdmin, pendingTransfer, allowedAsset>>
  BY <1>6 DEF Registry!MaterialStep, Registry!RegisterMaterial,
     Registry!UpdateSaleTerms, Registry!SetMaterialStatus,
     Registry!ToggleMaterialPaused, Registry!SetMaterialDeactivated,
     Registry!roleVars
<1>7. CASE RegistryCall
  <2>1. PICK u \in Accounts :
          Registry!AdminStep(u) \/ \E m \in Materials : Registry!MaterialStep(u, m)
    BY <1>7 DEF RegistryCall, Registry!Next
  <2>2. CASE Registry!AdminStep(u)
    BY <2>2, <1>2, <1>3, <1>4, <1>5 DEF Registry!AdminStep
  <2>3. QED
    BY <2>1, <2>2, <1>6, <1>1
<1>8. CASE PurchaseManagerCall \/ UNCHANGED marketplaceVars
  BY <1>1, <1>8 DEF PurchaseManagerCall, marketplaceVars, registryVars
<1>9. QED
  BY <1>7, <1>8 DEF MarketplaceNext

\* Every change of the registry's administrator was announced by the previous
\* one at least the minimum delay before.
THEOREM HandoverAnnounced == MarketplaceSpec => HandoverIsAnnounced
<1> DEFINE Announced ==
      upgradeAdmin # NoRecord /\ upgradeAdmin' # upgradeAdmin =>
         /\ pendingTransfer # NoRecord
         /\ pendingTransfer.candidate = upgradeAdmin'
         /\ ledger >= pendingTransfer.initiated_at + MIN_ADMIN_TRANSFER_DELAY_SECS
<1>1. ASSUME TypeOK, RolesAreSound, [MarketplaceNext]_marketplaceVars,
             upgradeAdmin # NoRecord, upgradeAdmin' # upgradeAdmin
      PROVE  \E u \in Accounts : Registry!AcceptAdminTransfer(u)
  <2>1. Registry!Next
    BY <1>1 DEF MarketplaceNext, PurchaseManagerCall, RegistryCall,
       marketplaceVars, registryVars
  <2>2. PICK u \in Accounts :
          Registry!AdminStep(u) \/ \E m \in Materials : Registry!MaterialStep(u, m)
    BY <2>1 DEF Registry!Next
  <2>3. QED
    BY <1>1, <2>2 DEF Registry!AdminStep, Registry!Initialize,
       Registry!SetAssetAllowed, Registry!InitiateAdminTransfer,
       Registry!CancelAdminTransfer, Registry!MaterialStep,
       Registry!RegisterMaterial, Registry!UpdateSaleTerms,
       Registry!SetMaterialStatus, Registry!ToggleMaterialPaused,
       Registry!SetMaterialDeactivated, Registry!roleVars
<1>2. ASSUME TypeOK, RolesAreSound, NEW u \in Accounts,
             Registry!AcceptAdminTransfer(u)
      PROVE  Announced
  <2>1. /\ pendingTransfer # NoRecord /\ pendingTransfer.candidate = u
        /\ upgradeAdmin' = u /\ ledger >= pendingTransfer.accept_after
    BY <1>2 DEF Registry!AcceptAdminTransfer
  <2>2. /\ pendingTransfer.initiated_at \in Nat /\ pendingTransfer.accept_after \in Nat
        /\ ledger \in Nat /\ MIN_ADMIN_TRANSFER_DELAY_SECS \in Nat
    BY <1>2, <2>1, RegistryAssumption, ConstantsAssumption
       DEF RolesAreSound, Registry!TransferRecord, TypeOK
  <2>3. QED
    BY <1>2, <2>1, <2>2 DEF RolesAreSound
<1>3. TypeOK /\ RolesAreSound /\ [MarketplaceNext]_marketplaceVars =>
        [Announced]_(Registry!registryVars)
  BY <1>1, <1>2
<1>4. MarketplaceInit => RolesAreSound
  BY InitRoles
<1>5. TypeOK /\ RolesAreSound /\ [MarketplaceNext]_marketplaceVars => RolesAreSound'
  BY NextRoles
<1>6. MarketplaceSpec => []TypeOK
  BY MarketplaceRefines, TypeCorrect, PTL DEF ImplementsPurchaseManager
<1>7. QED
  BY <1>3, <1>4, <1>5, <1>6, PTL
     DEF MarketplaceSpec, HandoverIsAnnounced, Registry!RoleChangesAreAnnounced

-----------------------------------------------------------------------------
(* What checkout relies on.                                                  *)

FlagsInv == Registry!FlagsAgree

SoldIsRegistered ==
    \A p \in PurchaseIds : escrow[p] # NoRecord =>
      material[escrow[p].material] # NoRecord

RegisteredUnderAdmin ==
    \A m \in Materials : material[m] # NoRecord => upgradeAdmin # NoRecord

\* set_material_deactivated can restore a material from its paused flag alone,
\* because set_material_status never leaves the two in contradiction.
LEMMA NextFlags ==
    ASSUME MaterialsTyped, FlagsInv, [MarketplaceNext]_marketplaceVars
    PROVE  FlagsInv'
<1> USE DEF FlagsInv, Registry!FlagsAgree
<1>1. CASE material' = material
  BY <1>1
<1>2. ASSUME NEW u \in Accounts, NEW m \in Materials, NEW quotes \in Registry!Quotes,
             Registry!RegisterMaterial(u, m, quotes)
      PROVE  FlagsInv'
  BY <1>2 DEF Registry!RegisterMaterial, MaterialsTyped
<1>3. ASSUME NEW m \in Materials, NEW r, material[m] # NoRecord,
             material' = [material EXCEPT ![m] = r],
             r.status = "Active" => ~r.paused, r.status = "Paused" => r.paused
      PROVE  FlagsInv'
  BY <1>3 DEF MaterialsTyped
<1>4. ASSUME NEW m \in Materials, NEW quotes \in Registry!Quotes,
             Registry!UpdateSaleTerms(m, quotes)
      PROVE  FlagsInv'
  <2> DEFINE r == Registry!NewSaleTerms(m, quotes)
  <2>1. /\ material[m] # NoRecord /\ material[m] \in Registry!MaterialRecord
        /\ material' = [material EXCEPT ![m] = r]
    BY <1>4 DEF Registry!UpdateSaleTerms, MaterialsTyped
  <2>2. r.status = material[m].status /\ r.paused = material[m].paused
    BY <2>1 DEF Registry!NewSaleTerms, Registry!MaterialRecord
  <2> HIDE DEF r
  <2>3. QED
    BY <2>1, <2>2, <1>3
<1>5. ASSUME NEW u \in Accounts, NEW m \in Materials, NEW status \in Registry!Statuses,
             Registry!SetMaterialStatus(u, m, status)
      PROVE  FlagsInv'
  <2> DEFINE r == [material[m] EXCEPT !.status = status,
                                     !.paused = (status = "Paused")]
  <2>1. /\ material[m] # NoRecord /\ material[m] \in Registry!MaterialRecord
        /\ material' = [material EXCEPT ![m] = r]
    BY <1>5 DEF Registry!SetMaterialStatus, Registry!CreatorOrUpgradeAdmin,
       MaterialsTyped
  <2>2. r.status = status /\ r.paused = (status = "Paused")
    BY <2>1 DEF Registry!MaterialRecord
  <2> HIDE DEF r
  <2>3. QED
    BY <2>1, <2>2, <1>3
<1>6. ASSUME NEW u \in Accounts, NEW m \in Materials, NEW deactivated \in BOOLEAN,
             Registry!SetMaterialDeactivated(u, m, deactivated)
      PROVE  FlagsInv'
  <2> DEFINE s == Registry!StatusAfter(m, deactivated)
             r == [material[m] EXCEPT !.status = s]
  <2>1. /\ material[m] # NoRecord /\ material[m] \in Registry!MaterialRecord
        /\ material' = [material EXCEPT ![m] = r]
    BY <1>6 DEF Registry!SetMaterialDeactivated, Registry!CreatorOrUpgradeAdmin,
       MaterialsTyped
  <2>2. /\ s = "Active" => ~material[m].paused
        /\ s = "Paused" => material[m].paused
    BY DEF Registry!StatusAfter
  <2> HIDE DEF s
  <2>3. r.status = s /\ r.paused = material[m].paused
    BY <2>1 DEF Registry!MaterialRecord
  <2> HIDE DEF r
  <2>4. QED
    BY <2>1, <2>2, <2>3, <1>3
<1>7. CASE RegistryCall
  <2>1. Registry!Next
    BY <1>7 DEF RegistryCall
  <2> HIDE DEF FlagsInv
  <2>2. QED
    BY <2>1, RegistryCallCases, <1>1, <1>2, <1>4, <1>5, <1>6
<1>8. CASE PurchaseManagerCall \/ UNCHANGED marketplaceVars
  BY <1>1, <1>8 DEF PurchaseManagerCall, marketplaceVars, registryVars
<1>9. QED
  BY <1>7, <1>8 DEF MarketplaceNext

\* Only a call made with an administrator in place registers a material.
LEMMA NextRegistered ==
    ASSUME TypeOK, MaterialsTyped, RolesAreSound, RegisteredUnderAdmin,
           [MarketplaceNext]_marketplaceVars
    PROVE  RegisteredUnderAdmin'
<1>1. upgradeAdmin # NoRecord => upgradeAdmin' # NoRecord
  BY NextRoles
<1>2. CASE material' = material
  BY <1>1, <1>2 DEF RegisteredUnderAdmin
<1>3. CASE upgradeAdmin # NoRecord
  BY <1>1, <1>3 DEF RegisteredUnderAdmin
<1>4. ASSUME upgradeAdmin = NoRecord, Registry!Next PROVE material' = material
  <2>1. \A m \in Materials : material[m] = NoRecord
    BY <1>4 DEF RegisteredUnderAdmin
  <2>2. QED
    BY <1>4, <2>1, RegistryCallCases DEF Registry!RegisterMaterial,
       Registry!UpdateSaleTerms, Registry!SetMaterialStatus,
       Registry!SetMaterialDeactivated, Registry!CreatorOrUpgradeAdmin
<1>5. CASE PurchaseManagerCall \/ UNCHANGED marketplaceVars
  BY <1>2, <1>5 DEF PurchaseManagerCall, marketplaceVars, registryVars
<1>6. CASE RegistryCall
  BY <1>2, <1>3, <1>4, <1>6 DEF RegistryCall
<1>7. QED
  BY <1>5, <1>6 DEF MarketplaceNext

\* Settling, refunding or releasing changes no escrow's material.
LEMMA ClaimKeepsMaterial ==
    ASSUME TypeOK, NEW q \in PurchaseIds, escrow[q] # NoRecord,
           escrow' = ClaimEscrow(q), NEW p \in PurchaseIds, escrow'[p] # NoRecord
    PROVE  escrow[p] # NoRecord /\ escrow'[p].material = escrow[p].material
<1>1. escrow[q] \in EscrowRecord
  BY DEF TypeOK
<1>2. CASE p = q
  BY <1>1, <1>2 DEF TypeOK, ClaimEscrow, EscrowRecord
<1>3. CASE p # q
  BY <1>3 DEF TypeOK, ClaimEscrow
<1>4. QED
  BY <1>2, <1>3

\* A new escrow is for a material that was on sale; the others keep theirs.
LEMMA EscrowMaterial ==
    ASSUME TypeOK, [Next]_vars, NEW p \in PurchaseIds, escrow'[p] # NoRecord
    PROVE  \/ escrow[p] # NoRecord /\ escrow'[p].material = escrow[p].material
           \/ sale[escrow'[p].material].on_sale
<1>1. ASSUME NEW b \in Buyers, BuyerStep(b)
      PROVE  \/ escrow'[p] = escrow[p]
             \/ sale[escrow'[p].material].on_sale
  <2>1. ASSUME NEW m \in Materials, NEW a \in Assets, Purchase(b, m, a)
        PROVE  \/ escrow'[p] = escrow[p]
               \/ sale[escrow'[p].material].on_sale
    <3>1. \/ escrow'[p] = escrow[p]
          \/ escrow'[p] = NewEscrow(m, a, sale[m].price[a])
      BY <2>1 DEF TypeOK, Purchase
    <3>2. sale[m].on_sale
      BY <2>1 DEF Purchase, CanCheckout
    <3>3. QED
      BY <3>1, <3>2 DEF NewEscrow
  <2>2. ASSUME NEW m \in Materials, NEW a \in Assets, NEW l \in RecipientLists,
               PurchaseBulkLicenses(b, m, a, l)
        PROVE  \/ escrow'[p] = escrow[p]
               \/ sale[escrow'[p].material].on_sale
    <3>1. \/ escrow'[p] = escrow[p]
          \/ escrow'[p] = NewEscrow(m, a, sale[m].price[a])
      BY <2>2 DEF PurchaseBulkLicenses
    <3>2. sale[m].on_sale
      BY <2>2 DEF PurchaseBulkLicenses
    <3>3. QED
      BY <3>1, <3>2 DEF NewEscrow
  <2>3. ASSUME NEW m \in Materials,
               \/ \E a \in Assets : RecordQuote(b, m, a)
               \/ BeginCheckout(b, m) \/ CancelCheckout(b, m)
               \/ RedeemScholarshipCredits(b, m)
               \/ \E limit \in 1..MAX_BULK_LICENSE_RECIPIENTS :
                     RefundBulkBegin(b, m, limit)
        PROVE  escrow' = escrow
    BY <2>3 DEF RecordQuote, BeginCheckout, CancelCheckout,
       RedeemScholarshipCredits, RefundBulkBegin
  <2>4. QED
    BY <1>1, <2>1, <2>2, <2>3 DEF BuyerStep
<1>2. ASSUME NEW q \in PurchaseIds, PerformSingleRefund(q)
      PROVE  escrow[p] # NoRecord /\ escrow'[p].material = escrow[p].material
  BY <1>2, ClaimKeepsMaterial DEF PerformSingleRefund, Refundable
<1>3. ASSUME NEW q \in PurchaseIds, SettlementStep(q)
      PROVE  escrow[p] # NoRecord /\ escrow'[p].material = escrow[p].material
  <2>1. CASE WithdrawPayouts(q)
    BY <2>1, ClaimKeepsMaterial DEF WithdrawPayouts
  <2>2. CASE RefundPurchase(q)
    BY <2>2, <1>2 DEF RefundPurchase
  <2>3. ASSUME NEW b \in Buyers, OpenDispute(b, q) PROVE escrow' = escrow
    BY <2>3 DEF OpenDispute
  <2>4. ASSUME NEW r \in Resolutions, ResolveDispute(q, r)
        PROVE  escrow[p] # NoRecord /\ escrow'[p].material = escrow[p].material
    BY <2>4, <1>2, ClaimKeepsMaterial DEF ResolveDispute
  <2>5. QED
    BY <1>3, <2>1, <2>2, <2>3, <2>4 DEF SettlementStep
<1>4. CASE RefundBulkStep
  BY <1>4, <1>2 DEF RefundBulkStep
<1>5. CASE MarketStep \/ UNCHANGED vars
  BY <1>5 DEF MarketStep, AdminStep, RegistryStep, SetPaused, SetFeeRate,
     SetAssetAllowed, RegisterMaterial, UpdateSaleTerms, SetMaterialOnSale,
     CloseLedger, contractVars, vars
<1>6. QED
  BY <1>1, <1>3, <1>4, <1>5 DEF Next

\* A sale is of a registered material, and materials stay registered.
LEMMA NextSold ==
    ASSUME TypeOK, TypeOK', MaterialsTyped, ViewOfRegistry, SoldIsRegistered,
           [MarketplaceNext]_marketplaceVars
    PROVE  SoldIsRegistered'
<1>1. [Next]_vars /\ \A m \in Materials : material[m] # NoRecord => material'[m] # NoRecord
  BY NextRefines, NextMaterialsTyped
<1>2. ASSUME NEW p \in PurchaseIds, escrow'[p] # NoRecord
      PROVE  material'[escrow'[p].material] # NoRecord
  <2>1. escrow'[p].material \in Materials
    <3>1. escrow'[p] \in EscrowRecord
      BY <1>2 DEF TypeOK
    <3>2. QED
      BY <3>1 DEF EscrowRecord
  <2>2. CASE escrow[p] # NoRecord /\ escrow'[p].material = escrow[p].material
    BY <1>1, <2>1, <2>2 DEF SoldIsRegistered
  <2>3. CASE sale[escrow'[p].material].on_sale
    <3> DEFINE m == escrow'[p].material
    <3>1. SaleInfo(m).on_sale
      BY <2>1, <2>3 DEF ViewOfRegistry
    <3>2. material[m] # NoRecord
      BY <3>1 DEF SaleInfo, NotRegistered
    <3>3. QED
      BY <1>1, <2>1, <3>2
  <2>4. QED
    BY <1>1, <1>2, <2>2, <2>3, EscrowMaterial
<1>3. QED
  BY <1>2 DEF SoldIsRegistered

\* The registry's entries are well formed, the status and the paused flag of a
\* material agree, and whatever was sold was registered under an administrator.
THEOREM RegistrySound == MarketplaceSpec => []RegistryIsSound
<1> DEFINE Inv == /\ MaterialsTyped /\ ViewOfRegistry /\ RolesAreSound
                  /\ FlagsInv /\ SoldIsRegistered /\ RegisteredUnderAdmin
<1>1. MarketplaceInit => Inv
  <2>1. MarketplaceInit => FlagsInv /\ SoldIsRegistered /\ RegisteredUnderAdmin
    BY DEF MarketplaceInit, Init, Registry!Init, FlagsInv, Registry!FlagsAgree,
       SoldIsRegistered, RegisteredUnderAdmin
  <2>2. QED
    BY <2>1, InitView, InitRoles
<1>2. TypeOK /\ TypeOK' /\ Inv /\ [MarketplaceNext]_marketplaceVars => Inv'
  BY NextMaterialsTyped, NextRefines, NextRoles, NextFlags, NextSold, NextRegistered
<1>3. TypeOK /\ Inv => RegistryIsSound
  <2> SUFFICES ASSUME TypeOK, Inv PROVE RegistryIsSound
    OBVIOUS
  <2>1. Registry!TypeOK
    BY DEF Registry!TypeOK, MaterialsTyped, RolesAreSound
  <2>2. ASSUME NEW p \in PurchaseIds, escrow[p] # NoRecord
        PROVE  escrow[p].material \in Materials
    BY <2>2 DEF TypeOK, EscrowRecord
  <2>3. QED
    BY <2>1, <2>2 DEF RegistryIsSound, FlagsInv, SoldIsRegistered, RegisteredUnderAdmin
<1>4. MarketplaceSpec => []TypeOK
  BY MarketplaceRefines, TypeCorrect, PTL DEF ImplementsPurchaseManager
<1> HIDE DEF Inv
<1>5. QED
  BY <1>1, <1>2, <1>3, <1>4, PTL DEF MarketplaceSpec

=============================================================================
