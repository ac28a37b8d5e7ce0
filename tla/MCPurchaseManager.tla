-------------------------- MODULE MCPurchaseManager --------------------------
(***************************************************************************)
(* The larger instance of PurchaseManager for TLC: several buyers,         *)
(* purchases and ledgers. SettlementSpec leaves out the actions that only  *)
(* decide whether a checkout is admitted (quotes, pending checkouts, the   *)
(* administrator's and the creators' switches); those are checked with the *)
(* registry that drives them, by MCMarketplace.                            *)
(***************************************************************************)
EXTENDS PurchaseManager, TLC

SettlementNext ==
    \/ \E b \in Buyers, m \in Materials :
         \/ \E a \in Assets :
              \/ Purchase(b, m, a)
              \/ \E l \in RecipientLists : PurchaseBulkLicenses(b, m, a, l)
         \/ RedeemScholarshipCredits(b, m)
         \/ \E limit \in 1..MAX_BULK_LICENSE_RECIPIENTS : RefundBulkBegin(b, m, limit)
    \/ \E p \in PurchaseIds : SettlementStep(p)
    \/ RefundBulkStep
    \/ \E m \in Materials, price \in [Assets -> Prices] : RegisterMaterial(m, price)
    \/ CloseLedger

SettlementSpec == Init /\ [][SettlementNext]_vars

BuyerSymmetry == Permutations(Buyers)

=============================================================================
