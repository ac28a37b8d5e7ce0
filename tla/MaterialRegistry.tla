-------------------------- MODULE MaterialRegistry --------------------------
(***************************************************************************)
(* The Soroban contract soroban/contracts/material-registry: who           *)
(* administers it, which payment assets creators may quote, and the        *)
(* materials with their sale terms and status. As in PurchaseManager, an   *)
(* action is the successful outcome of one call. Timestamps advance with   *)
(* the ledger. Metadata, payout shares and the storage-rent indexes are    *)
(* left out: they are validated or paged through, never compared.          *)
(***************************************************************************)
EXTENDS Integers

CONSTANTS
    Accounts,                       \* addresses that create or administer
    Materials,                      \* ids derive_material_id may return
    Assets,                         \* payment token contracts
    Prices,                         \* amounts a creator may quote
    MIN_ADMIN_TRANSFER_DELAY_SECS,  \* in ledgers
    Delays,                         \* delays a caller may ask for
    MaxVersion,                     \* bound on SaleTermsVersion
    NoRecord                        \* an absent storage entry

VARIABLES
    ledger,           \* env.ledger()
    upgradeAdmin,     \* DataKey::UpgradeAdmin
    pendingTransfer,  \* DataKey::PendingAdminTransfer
    allowedAsset,     \* the DataKey::AllowedAsset entries that are enabled
    material          \* MaterialCore, MaterialSale and SaleTermsVersion

roleVars == <<upgradeAdmin, pendingTransfer>>
registryVars == <<roleVars, allowedAsset, material>>

Statuses == {"Active", "Paused", "Archived"}

\* The quotes of a material: an amount per asset, 0 for an asset not quoted.
Quotes == {q \in [Assets -> Prices \cup {0}] : \E a \in Assets : q[a] > 0}

MaterialRecord ==
    [creator : Accounts, status : Statuses, paused : BOOLEAN,
     quotes : Quotes, version : 1..MaxVersion]
TransferRecord ==
    [candidate : Accounts, initiated_at : Nat, accept_after : Nat]

Init ==
    /\ upgradeAdmin = NoRecord
    /\ pendingTransfer = NoRecord
    /\ allowedAsset = {}
    /\ material = [m \in Materials |-> NoRecord]

-----------------------------------------------------------------------------
(* The administrator. *)

\* initialize: the first caller becomes the administrator.
Initialize(u, assets) ==
    /\ upgradeAdmin = NoRecord
    /\ upgradeAdmin' = u
    /\ allowedAsset' = assets
    /\ UNCHANGED <<pendingTransfer, material>>

SetAssetAllowed(u, a, enabled) ==
    /\ u = upgradeAdmin
    /\ allowedAsset' = IF enabled THEN allowedAsset \cup {a} ELSE allowedAsset \ {a}
    /\ UNCHANGED <<roleVars, material>>

\* Mutant: the delay is checked and then not applied.
NominationAtOnce(candidate, delay) ==
    [candidate |-> candidate, initiated_at |-> ledger, accept_after |-> ledger]
Nomination(candidate, delay) ==
    [candidate |-> candidate, initiated_at |-> ledger,
     accept_after |-> ledger + delay]

\* A second nomination replaces the first.
InitiateAdminTransfer(u, candidate, delay) ==
    /\ u = upgradeAdmin
    /\ delay >= MIN_ADMIN_TRANSFER_DELAY_SECS
    /\ pendingTransfer' = Nomination(candidate, delay)
    /\ UNCHANGED <<upgradeAdmin, allowedAsset, material>>

AcceptAdminTransfer(u) ==
    /\ pendingTransfer # NoRecord
    /\ pendingTransfer.candidate = u
    /\ ledger >= pendingTransfer.accept_after
    /\ upgradeAdmin' = u
    /\ pendingTransfer' = NoRecord
    /\ UNCHANGED <<allowedAsset, material>>

CancelAdminTransfer(u) ==
    /\ u = upgradeAdmin
    /\ pendingTransfer # NoRecord
    /\ pendingTransfer' = NoRecord
    /\ UNCHANGED <<upgradeAdmin, allowedAsset, material>>

-----------------------------------------------------------------------------
(* The materials. *)

\* validate_quote_assets: asked when terms are set, never again.
QuoteAssetsApproved(quotes) == \A a \in Assets : quotes[a] > 0 => a \in allowedAsset

\* register_material: the id is derived from the creator's nonce and is new.
RegisterMaterial(u, m, quotes) ==
    /\ upgradeAdmin # NoRecord
    /\ QuoteAssetsApproved(quotes)
    /\ material[m] = NoRecord
    /\ material' = [material EXCEPT ![m] =
                      [creator |-> u, status |-> "Active", paused |-> FALSE,
                       quotes |-> quotes, version |-> 1]]
    /\ UNCHANGED <<roleVars, allowedAsset>>

\* Mutant: update_sale_terms forgets to bump the version.
TermsVersionKept(m, quotes) == [material[m] EXCEPT !.quotes = quotes]
\* Mutant: new terms put the material back on sale.
TermsReactivate(m, quotes) ==
    [material[m] EXCEPT !.quotes = quotes, !.version = @ + 1,
                        !.status = "Active", !.paused = FALSE]
\* Whatever the status is, it stays.
NewSaleTerms(m, quotes) ==
    [material[m] EXCEPT !.quotes = quotes, !.version = @ + 1]

\* update_sale_terms, signed by the creator.
UpdateSaleTerms(m, quotes) ==
    /\ QuoteAssetsApproved(quotes)
    /\ material[m] # NoRecord
    /\ material[m].version < MaxVersion
    /\ material' = [material EXCEPT ![m] = NewSaleTerms(m, quotes)]
    /\ UNCHANGED <<roleVars, allowedAsset>>

CreatorOrUpgradeAdmin(u, m) ==
    material[m] # NoRecord /\ u \in {material[m].creator, upgradeAdmin}

\* set_material_status. set_material_paused and set_material_active call it
\* with Paused or Active, toggle_material_paused with the one the stored flag
\* asks for. From Archived, either brings the material back.
SetMaterialStatus(u, m, status) ==
    /\ CreatorOrUpgradeAdmin(u, m)
    /\ material[m].status # status
    /\ material' = [material EXCEPT ![m].status = status,
                                    ![m].paused = (status = "Paused")]
    /\ UNCHANGED <<roleVars, allowedAsset>>

ToggleMaterialPaused(u, m) ==
    /\ CreatorOrUpgradeAdmin(u, m)
    /\ SetMaterialStatus(u, m, IF material[m].paused THEN "Active" ELSE "Paused")

\* Mutant: a restored material is always put back on sale.
RestoredToActive(m, deactivated) ==
    IF deactivated THEN "Archived" ELSE "Active"
StatusAfter(m, deactivated) ==
    IF deactivated THEN "Archived"
    ELSE IF material[m].paused THEN "Paused" ELSE "Active"

\* set_material_deactivated leaves the paused flag alone, so that a paused
\* material is restored as paused.
SetMaterialDeactivated(u, m, deactivated) ==
    /\ CreatorOrUpgradeAdmin(u, m)
    /\ material[m].status # StatusAfter(m, deactivated)
    /\ material' = [material EXCEPT ![m].status = StatusAfter(m, deactivated)]
    /\ UNCHANGED <<roleVars, allowedAsset>>

AdminStep(u) ==
    \/ \E assets \in SUBSET Assets : Initialize(u, assets)
    \/ \E a \in Assets, enabled \in BOOLEAN : SetAssetAllowed(u, a, enabled)
    \/ \E c \in Accounts, delay \in Delays : InitiateAdminTransfer(u, c, delay)
    \/ AcceptAdminTransfer(u)
    \/ CancelAdminTransfer(u)

MaterialStep(u, m) ==
    \/ \E quotes \in Quotes : RegisterMaterial(u, m, quotes)
    \/ \E quotes \in Quotes : UpdateSaleTerms(m, quotes)
    \/ \E status \in Statuses : SetMaterialStatus(u, m, status)
    \/ ToggleMaterialPaused(u, m)
    \/ \E deactivated \in BOOLEAN : SetMaterialDeactivated(u, m, deactivated)

Next ==
    \E u \in Accounts :
      \/ AdminStep(u)
      \/ \E m \in Materials : MaterialStep(u, m)

-----------------------------------------------------------------------------

TypeOK ==
    /\ upgradeAdmin \in Accounts \cup {NoRecord}
    /\ pendingTransfer \in TransferRecord \cup {NoRecord}
    /\ allowedAsset \subseteq Assets
    /\ material \in [Materials -> MaterialRecord \cup {NoRecord}]

\* A material carries its status twice, as status and as the paused flag;
\* set_material_status writes both, set_material_deactivated one. They never
\* contradict each other, whatever sequence of the two is called.
FlagsAgree ==
    \A m \in Materials : material[m] # NoRecord =>
      /\ material[m].status = "Active" => ~material[m].paused
      /\ material[m].status = "Paused" => material[m].paused

\* The administrator changes only by the nomination the previous one made at
\* least the minimum delay ago and has not replaced or cancelled since;
\* accept_admin_transfer itself checks only the deadline stored by then.
RoleChangesAreAnnounced ==
    [][upgradeAdmin # NoRecord /\ upgradeAdmin' # upgradeAdmin =>
         /\ pendingTransfer # NoRecord
         /\ pendingTransfer.candidate = upgradeAdmin'
         /\ ledger >= pendingTransfer.initiated_at + MIN_ADMIN_TRANSFER_DELAY_SECS]_registryVars

=============================================================================
