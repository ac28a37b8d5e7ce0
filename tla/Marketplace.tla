---------------------------- MODULE Marketplace ----------------------------
(***************************************************************************)
(* The two contracts together. purchase-manager reads the registry's       *)
(* record of a material inside the transaction that charges for it         *)
(* (get_material, get_quote, get_sale_terms_version); what it sees is the  *)
(* variable sale of PurchaseManager, here computed from the registry's     *)
(* entries. A call runs in one contract or in the other; the refund loop   *)
(* of purchase-manager is not interrupted by either.                       *)
(***************************************************************************)
EXTENDS PurchaseManager

CONSTANTS Accounts, MIN_ADMIN_TRANSFER_DELAY_SECS, Delays

VARIABLES upgradeAdmin, pendingTransfer, allowedAsset, material

Registry == INSTANCE MaterialRegistry

\* The absent value is none of the values a registry entry can have.
ASSUME RegistryAssumption ==
    /\ NoRecord \notin Accounts
    /\ NoRecord \notin Registry!MaterialRecord
    /\ NoRecord \notin Registry!TransferRecord
    /\ MIN_ADMIN_TRANSFER_DELAY_SECS \in Nat /\ Delays \subseteq Nat

registryVars == <<upgradeAdmin, pendingTransfer, allowedAsset, material>>
marketplaceVars == <<vars, registryVars>>

\* require status Active and not paused, then the quote of the asset.
SaleInfo(m) ==
    IF material[m] = NoRecord THEN NotRegistered
    ELSE [on_sale |-> material[m].status = "Active" /\ ~material[m].paused,
          version |-> material[m].version,
          price |-> material[m].quotes]

MarketplaceInit == Init /\ Registry!Init

RegistryCall ==
    /\ Idle
    /\ Registry!Next
    /\ sale' = [m \in Materials |-> SaleInfo(m)']
    /\ UNCHANGED <<ledger, config, contractVars>>

PurchaseManagerCall ==
    /\ \/ \E b \in Buyers : BuyerStep(b)
       \/ \E p \in PurchaseIds : SettlementStep(p)
       \/ RefundBulkStep
       \/ AdminStep
       \/ CloseLedger
    /\ UNCHANGED registryVars

MarketplaceNext == RegistryCall \/ PurchaseManagerCall

MarketplaceSpec == MarketplaceInit /\ [][MarketplaceNext]_marketplaceVars

-----------------------------------------------------------------------------

\* What checkout relies on: the registry's entries are well formed and their
\* two flags agree, and a material that is sold was registered under an
\* administrator.
RegistryIsSound ==
    /\ Registry!TypeOK
    /\ Registry!FlagsAgree
    /\ \A p \in PurchaseIds : escrow[p] # NoRecord =>
         material[escrow[p].material] # NoRecord /\ upgradeAdmin # NoRecord

\* The administration of the registry, beside everything else that happens.
HandoverIsAnnounced == Registry!RoleChangesAreAnnounced

\* Whatever creators and the registry's administrator do, checkout sees no
\* more than PurchaseManager allows: a material is registered once, every new
\* price has a new version, and only status calls put it on or off sale.
\* What is checked and proved of PurchaseManager therefore holds of the two
\* contracts together.
ImplementsPurchaseManager == Spec

=============================================================================
