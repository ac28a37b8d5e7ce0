----------------------------- MODULE Entitlement -----------------------------
(***************************************************************************)
(* Who may download: resolveEntitlement of src/lib/entitlement.js over the *)
(* purchases row and the entitlement_cache entry of one buyer and one      *)
(* material, both of which the indexer writes as well (Indexer.tla).       *)
(*                                                                         *)
(* Each await of resolveEntitlement is a step, so its write comes after    *)
(* reads that may be out of date.  Of a cache entry only the state is      *)
(* kept: whether an allowing entry is still good (isFresh, bindingMatches) *)
(* is a choice of the reader.                                              *)
(***************************************************************************)
EXTENDS Naturals, Sequences

CONSTANTS
    Resolvers,   \* download requests in progress
    None         \* null

VARIABLES
    row,         \* the purchase, status settled, or None
    cache,       \* the state of the entitlement_cache entry or None
    resolve,     \* resolver -> how far it has got
    learnt,      \* history: a resolver has recorded a revocation the chain told
    staleFill    \* history: a resolver wrote what it had derived from reads
                 \* that a later write or a reorganisation made obsolete

entitlementVars == <<row, cache, resolve, learnt, staleFill>>

SettlementState == {"Pending", "Released", "Disputed", "Refunded", "Orphaned"}

CacheState == {"finalized", "provisional", "revoked"}

PurchaseRow ==
    [settlementState : SettlementState, purchaseId : Nat, indexedLedger : Nat]

ASSUME NoneIsNoValue ==
    None \notin SettlementState \cup CacheState /\ None \notin PurchaseRow

\* REVOKING_SETTLEMENT_STATES, which leaves out the indexer's Orphaned.
Revoking == {"Refunded", "Disputed"}

NoResolve == [stage |-> "idle", seen |-> None, answer |-> None, stale |-> FALSE]

EntitlementTypeOK ==
    /\ row \in PurchaseRow \cup {None}
    /\ cache \in CacheState \cup {None}
    /\ \A v \in Resolvers :
          /\ resolve[v].stage \in {"idle", "cache", "chain", "write", "mirror"}
          /\ resolve[v].answer \in SettlementState \cup {None}
    /\ learnt \in BOOLEAN /\ staleFill \in BOOLEAN

EntitlementInit ==
    /\ row = None /\ cache = None
    /\ resolve = [v \in Resolvers |-> NoResolve]
    /\ learnt = FALSE /\ staleFill = FALSE

\* Somebody else writes what the resolvers in progress depend on.
Outdate ==
    resolve' = [v \in Resolvers |->
                  IF resolve[v].stage = "idle" THEN resolve[v]
                  ELSE [resolve[v] EXCEPT !.stale = TRUE]]

----------------------------------------------------------------------------

ReadPurchase(v) ==
    /\ resolve[v].stage = "idle"
    /\ resolve' = [resolve EXCEPT ![v].stage = "cache", ![v].seen = row]
    /\ UNCHANGED <<row, cache, learnt, staleFill>>

\* A revoked entry always wins, then a revoking purchase.  An entry that is
\* still good serves a purchase that exists; otherwise the chain is asked.
ReadCache(v) ==
    LET seen == resolve[v].seen
        denied == \/ cache = "revoked"
                  \/ seen # None /\ seen.settlementState \in Revoking
        cached == seen # None /\ cache # None
    IN
    /\ resolve[v].stage = "cache"
    /\ \/ /\ denied \/ cached
          /\ resolve' = [resolve EXCEPT ![v] = NoResolve]
       \/ /\ ~denied
          /\ resolve' = [resolve EXCEPT ![v].stage = "chain"]
    /\ UNCHANGED <<row, cache, learnt, staleFill>>

\* What the contract, whose purchases are in the states onChain, says of the
\* purchase, or of the buyer's latest one when there is no row: a dispute
\* leaves has_entitlement true.
ChainAnswer(seen, onChain) ==
    IF seen # None
    THEN IF seen.purchaseId \in DOMAIN onChain THEN onChain[seen.purchaseId] ELSE None
    ELSE IF onChain # <<>> /\ onChain[Len(onChain)] # "Refunded"
         THEN onChain[Len(onChain)] ELSE None

\* checkChainSettlementState, or checkChainEntitlement without a purchase;
\* None also when the RPC cannot be reached.
AskChain(v, onChain) ==
    /\ resolve[v].stage = "chain"
    /\ \E answer \in {ChainAnswer(resolve[v].seen, onChain), None} :
          resolve' = IF resolve[v].seen = None /\ answer = None
                     THEN [resolve EXCEPT ![v] = NoResolve]
                     ELSE [resolve EXCEPT ![v].stage = "write", ![v].answer = answer]
    /\ UNCHANGED <<row, cache, learnt, staleFill>>

\* The state written for a purchase that nothing local revokes.
Verdict(r) ==
    CASE r.seen # None /\ r.answer \in Revoking -> "revoked"
      [] r.seen # None /\ r.answer = None -> "provisional"
      [] OTHER -> "finalized"

\* writeCacheEntry, whatever the entry has become since it was read; a
\* revocation learnt from the chain is mirrored into the purchase next.
WriteVerdict(v) ==
    LET r == resolve[v] IN
    /\ r.stage = "write"
    /\ cache' = Verdict(r)
    /\ learnt' = (learnt \/ Verdict(r) = "revoked")
    /\ staleFill' = (staleFill \/ r.stale)
    /\ resolve' = [resolve EXCEPT ![v] =
                     IF Verdict(r) = "revoked" THEN [r EXCEPT !.stage = "mirror"]
                     ELSE NoResolve]
    /\ UNCHANGED row

MirrorRevocation(v) ==
    LET r == resolve[v] IN
    /\ r.stage = "mirror"
    /\ row' = [row EXCEPT !.settlementState = r.answer]
    /\ staleFill' = (staleFill \/ r.stale)
    /\ resolve' = [resolve EXCEPT ![v] = NoResolve]
    /\ UNCHANGED <<cache, learnt>>

\* A database error or a dying process: access is denied, nothing is written.
Fails(v) ==
    /\ resolve[v].stage # "idle"
    /\ resolve' = [resolve EXCEPT ![v] = NoResolve]
    /\ UNCHANGED <<row, cache, learnt, staleFill>>

resolveEntitlement(v, onChain) ==
    \/ ReadPurchase(v) \/ ReadCache(v) \/ AskChain(v, onChain)
    \/ WriteVerdict(v) \/ MirrorRevocation(v) \/ Fails(v)

\* Whether a request that came now could be served with the chain unreachable.
WouldServe ==
    /\ row # None
    /\ row.settlementState \notin Revoking
    /\ cache # "revoked"
=============================================================================
