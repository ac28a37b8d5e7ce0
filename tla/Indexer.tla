------------------------------- MODULE Indexer -------------------------------
(***************************************************************************)
(* The indexer of src/lib/indexer: runIndexerBatch and detectFork follow a *)
(* chain that may be reorganised, applyIndexedEvent mirrors the events of  *)
(* one buyer and one material into the purchases row and the               *)
(* entitlement_cache entry that Entitlement.tla resolves access from, and  *)
(* what fails to apply waits in dead_letter_events for an operator.        *)
(*                                                                         *)
(* Every database write is a step of its own: no caller gives              *)
(* applyIndexedEvent a session.  A process may die between any two, and a  *)
(* batch, an operator's retry and downloads interleave.  A ledger carries  *)
(* at most one event; its hash is its number and the branch it is on.      *)
(* Cursors stand for the ledger up to which events have been delivered.    *)
(***************************************************************************)
EXTENDS Entitlement, FiniteSets, FiniteSetsExt

CONSTANTS
    Happening,      \* bound: the types of events that happen
    MaxLedger,      \* bound: the chain's length
    MaxReorgs,      \* bound: reorganisations
    MaxFailures,    \* bound: writes and hash reads of the batch that fail, and crashes
    Limit,          \* events fetched per batch
    MaxCheckpoints  \* FORK_DETECTION_DEPTH

ASSUME IndexerAssumption ==
    /\ Happening \subseteq {"completed", "refunded", "disputed", "released",
                            "resolvedRefund", "resolvedRelease"}
    /\ {MaxLedger, MaxReorgs, MaxFailures} \subseteq Nat
    /\ {Limit, MaxCheckpoints} \subseteq Nat \ {0}

VARIABLES
    chain,        \* the canonical ledgers: [branch, type], type "none" without event
    branch,       \* reorganisations so far
    sync,         \* sync_state
    batch,        \* the batch in progress
    apply,        \* the batch's applyIndexedEvent in progress
    syncEvents,   \* sync_events: ids recorded
    deadLetters,  \* dead_letter_events: open (retryable or failed), quarantined
    receipts,     \* purchase receipts put into the outbox
    failures,
    reflected,    \* history: the events that the row is the outcome of
    fetched,      \* history: the events last delivered, since the last rewind
    outOfTurn,    \* history: an operator wrote an event over another that is not
                  \* older, of an abandoned branch, or while the batch was writing
    unrevoked     \* history: the last rewind to orphan the row has not revoked the
                  \* cache entry, or not yet

indexerVars == <<chain, branch, sync, batch, apply, syncEvents, deadLetters,
                 receipts, failures, reflected, fetched, outOfTurn, unrevoked>>
vars == <<entitlementVars, indexerVars>>

----------------------------------------------------------------------------
(* The chain. *)

\* The state in which each event leaves its purchase.
Settles == [completed |-> "Pending", refunded |-> "Refunded",
            disputed |-> "Disputed", resolvedRefund |-> "Refunded",
            resolvedRelease |-> "Released", released |-> "Released"]

EventType == DOMAIN Settles

EventLedgers(c) == {n \in 1..Len(c) : c[n].type # "none"}

\* The purchases made by ledger n, whose ids are counted from 1.
Purchases(c, n) == Cardinality({m \in 1..n : c[m].type = "completed"})

IndexedEvent == [ledger : 1..MaxLedger, type : EventType, purchaseId : Nat]

ASSUME NoneIsNoEvent == None \notin IndexedEvent

\* Every event is about the latest purchase: another one is only made once
\* that is refunded.
EventAt(c, n) == [ledger |-> n, type |-> c[n].type, purchaseId |-> Purchases(c, n)]

Events(c) == {EventAt(c, n) : n \in EventLedgers(c)}

\* The settlement state of the latest purchase.
Standing(c) ==
    IF EventLedgers(c) = {} THEN None ELSE Settles[c[Max(EventLedgers(c))].type]

\* The settlement states of all purchases, by their ids.
Settled(c) ==
    [p \in 1..Purchases(c, Len(c)) |->
       Settles[c[Max({n \in EventLedgers(c) : Purchases(c, n) = p})].type]]

\* The events that the purchase manager lets happen next.
Possible(c) ==
    Happening \cap
    CASE Standing(c) \in {None, "Refunded"} -> {"completed"}
      [] Standing(c) = "Pending" -> {"refunded", "disputed", "released"}
      [] Standing(c) = "Disputed" -> {"resolvedRefund", "resolvedRelease"}
      [] OTHER -> {}

HashAt(c, n) == <<n, c[n].branch>>

\* A ledger without an event only follows where no event can, or a
\* reorganisation leaves it.
Grow ==
    /\ Len(chain) < MaxLedger
    /\ \E type \in IF Possible(chain) = {} THEN {"none"} ELSE Possible(chain) :
          chain' = Append(chain, [branch |-> branch, type |-> type])
    /\ UNCHANGED <<entitlementVars, branch, sync, batch, apply, syncEvents, deadLetters,
                   receipts, failures, reflected, fetched, outOfTurn, unrevoked>>

\* The ledgers from n on are replaced.
Reorg ==
    /\ branch < MaxReorgs
    /\ \E n \in 1..Len(chain) : \E type \in {"none"} \cup Possible(SubSeq(chain, 1, n - 1)) :
          chain' = Append(SubSeq(chain, 1, n - 1), [branch |-> branch + 1, type |-> type])
    /\ branch' = branch + 1
    /\ Outdate
    /\ UNCHANGED <<row, cache, learnt, staleFill, sync, batch, apply, syncEvents, deadLetters,
                   receipts, failures, reflected, fetched, outOfTurn, unrevoked>>

----------------------------------------------------------------------------
(* Fork detection. *)

NoBatch == [stage |-> "idle", todo |-> {}, cursor |-> 0, ledger |-> 0,
            okCursor |-> 0, okLedger |-> 0, failed |-> FALSE, divergence |-> 0]

\* The checkpoints, or the last ledger of a state that has none.
History ==
    IF sync.checkpoints # {} THEN sync.checkpoints
    ELSE IF sync.lastLedger = 0 \/ sync.lastHash = None THEN {}
    ELSE {[ledger |-> sync.lastLedger, hash |-> sync.lastHash]}

\* A checkpoint beyond the end of the chain is passed over.
Verifiable == {c \in History : c.ledger <= Len(chain)}
Matching == {c \in Verifiable : c.hash = HashAt(chain, c.ledger)}
LastMatch == Max({0} \cup {c.ledger : c \in Matching})

Forked == \E c \in Verifiable \ Matching : c.ledger > LastMatch

divergenceLedger ==
    IF Matching # {} THEN LastMatch + 1 ELSE Min({c.ledger : c \in History})

\* The divergence of a fork that detectFork reports, 0 for none.
detectFork ==
    IF sync.lastLedger # 0 /\ sync.lastHash # None /\ Forked
    THEN divergenceLedger ELSE 0

StartBatch ==
    /\ batch.stage = "idle"
    /\ batch' = [NoBatch EXCEPT !.stage = IF detectFork = 0 THEN "fetch" ELSE "rewindRow",
                                !.divergence = detectFork]
    /\ UNCHANGED <<entitlementVars, chain, branch, sync, apply, syncEvents, deadLetters,
                   receipts, failures, reflected, fetched, outOfTurn, unrevoked>>

Orphans(d) == row # None /\ row.indexedLedger >= d

\* Mutant: the cache entry of an orphaned purchase is left alone.
RewindRowOnly ==
    /\ batch.stage = "rewindRow"
    /\ row' = IF Orphans(batch.divergence)
              THEN [row EXCEPT !.settlementState = "Orphaned"] ELSE row
    /\ reflected' = {} /\ fetched' = {}
    /\ batch' = [batch EXCEPT !.stage = "rewindState"]
    /\ Outdate
    /\ UNCHANGED <<cache, learnt, staleFill, chain, branch, sync, apply, syncEvents,
                   deadLetters, receipts, failures, outOfTurn, unrevoked>>

\* rewindAfterFork: the row, then the cache entry, then the sync state.
RewindRow ==
    /\ batch.stage = "rewindRow"
    /\ IF Orphans(batch.divergence)
       THEN /\ row' = [row EXCEPT !.settlementState = "Orphaned"]
            /\ reflected' = {} /\ fetched' = {}
            /\ batch' = [batch EXCEPT !.stage = "rewindCache"]
            /\ unrevoked' = TRUE
            /\ Outdate
       ELSE /\ reflected' = {e \in reflected : e.ledger < batch.divergence}
            /\ fetched' = {e \in fetched : e.ledger < batch.divergence}
            /\ batch' = [batch EXCEPT !.stage = "rewindState"]
            /\ UNCHANGED <<row, resolve, unrevoked>>
    /\ UNCHANGED <<cache, learnt, staleFill, chain, branch, sync, apply, syncEvents,
                   deadLetters, receipts, failures, outOfTurn>>

\* A failure to revoke is swallowed.
RewindCache ==
    /\ batch.stage = "rewindCache"
    /\ \/ /\ cache' = "revoked"
          /\ unrevoked' = FALSE
          /\ Outdate
          /\ UNCHANGED failures
       \/ /\ failures < MaxFailures
          /\ failures' = failures + 1
          /\ UNCHANGED <<cache, resolve, unrevoked>>
    /\ batch' = [batch EXCEPT !.stage = "rewindState"]
    /\ UNCHANGED <<row, learnt, staleFill, chain, branch, sync, apply, syncEvents,
                   deadLetters, receipts, reflected, fetched, outOfTurn>>

\* Mutant: the last ledger and its hash survive the rewind.
RewoundCursorOnly(d) ==
    [sync EXCEPT !.cursor = 0, !.checkpoints = {c \in @ : c.ledger < d}]

\* Only checkpoints below the divergence are kept.
Rewound(d) ==
    [cursor |-> 0, lastLedger |-> 0, lastHash |-> None,
     checkpoints |-> {c \in sync.checkpoints : c.ledger < d}]

RewindState ==
    /\ batch.stage = "rewindState"
    /\ sync' = Rewound(batch.divergence)
    /\ batch' = [batch EXCEPT !.stage = "fetch"]
    /\ UNCHANGED <<entitlementVars, chain, branch, apply, syncEvents, deadLetters,
                   receipts, failures, reflected, fetched, outOfTurn, unrevoked>>

----------------------------------------------------------------------------
(* The batch. *)

\* The first Limit events after cursor c.
Page(c) ==
    LET after == {e \in Events(chain) : e.ledger > c}
    IN  {e \in after : Cardinality({d \in after : d.ledger < e.ledger}) < Limit}

\* getEvents of the RPC server: the cursor that goes on after a full page is
\* the last event's, after a short one the latest ledger's.
Fetch ==
    LET page == Page(sync.cursor) IN
    /\ batch.stage = "fetch"
    /\ batch' = [batch EXCEPT !.stage = "apply",
                              !.todo = page,
                              !.cursor = IF Cardinality(page) = Limit
                                         THEN Max({e.ledger : e \in page})
                                         ELSE Len(chain),
                              !.ledger = Len(chain),
                              !.okCursor = sync.cursor,
                              !.okLedger = sync.lastLedger]
    /\ fetched' = {e \in fetched : e.ledger <= sync.cursor} \cup page
    /\ UNCHANGED <<entitlementVars, chain, branch, sync, apply, syncEvents, deadLetters,
                   receipts, failures, reflected, outOfTurn, unrevoked>>

Idle == [stage |-> "idle", event |-> None, first |-> FALSE, found |-> FALSE]

\* The greatest MaxCheckpoints checkpoints; of two for a ledger the new one.
Checkpointed(ledger, hash) ==
    LET all == {c \in History : c.ledger # ledger}
               \cup {[ledger |-> ledger, hash |-> hash]}
    IN  {c \in all : Cardinality({d \in all : d.ledger > c.ledger}) < MaxCheckpoints}

\* The hash belongs to the chain of this moment, not to the one fetched from;
\* when it cannot be read the previous one is kept.
FinishBatch ==
    LET cursor == IF batch.failed \/ batch.cursor = 0 THEN batch.okCursor ELSE batch.cursor
        ledger == IF batch.failed \/ batch.ledger = 0 THEN batch.okLedger ELSE batch.ledger
        moved == ledger # 0 /\ ledger # sync.lastLedger
    IN
    /\ batch.stage = "apply" /\ batch.todo = {}
    /\ apply.stage = "idle"
    /\ \E readable \in {r \in BOOLEAN : r \/ (moved /\ failures < MaxFailures)} :
          LET hash == IF moved /\ readable /\ ledger <= Len(chain)
                      THEN HashAt(chain, ledger) ELSE sync.lastHash
          IN  /\ sync' = [cursor |-> cursor, lastLedger |-> ledger, lastHash |-> hash,
                          checkpoints |-> IF moved /\ hash # None
                                          THEN Checkpointed(ledger, hash) ELSE History]
              /\ failures' = IF readable THEN failures ELSE failures + 1
    /\ batch' = NoBatch
    /\ UNCHANGED <<entitlementVars, chain, branch, apply, syncEvents, deadLetters,
                   receipts, reflected, fetched, outOfTurn, unrevoked>>

\* The process dies, or a read of the chain throws: the cursor has not moved.
Crash ==
    /\ batch.stage # "idle"
    /\ failures < MaxFailures
    /\ failures' = failures + 1
    /\ batch' = NoBatch
    /\ apply' = Idle
    /\ UNCHANGED <<entitlementVars, chain, branch, sync, syncEvents, deadLetters,
                   receipts, reflected, fetched, outOfTurn, unrevoked>>

----------------------------------------------------------------------------
(* applyIndexedEvent. *)

\* Purchases and refunds are looked up by buyer, the rest by purchase id.
Finds(e) ==
    row # None /\ (e.type \in {"completed", "refunded"} \/ row.purchaseId = e.purchaseId)

\* Mutant: replays are never told apart.
NeverStale(e) == FALSE

\* Not asked for a completed purchase.
isStaleReplay(e) ==
    e.type # "completed" /\ Finds(e) /\ e.ledger < row.indexedLedger

\* Mutant: a refund is left to the cache.
RowAfterCacheOnly(e) ==
    CASE e.type = "completed" ->
            [settlementState |-> "Pending", purchaseId |-> e.purchaseId,
             indexedLedger |-> e.ledger]
      [] e.type # "completed" /\ Finds(e) -> [row EXCEPT !.indexedLedger = e.ledger]
      [] OTHER -> row

\* A completed purchase is upserted whatever the row says.
RowAfter(e) ==
    CASE e.type = "completed" ->
            [settlementState |-> "Pending", purchaseId |-> e.purchaseId,
             indexedLedger |-> e.ledger]
      [] e.type # "completed" /\ Finds(e) ->
            [row EXCEPT !.settlementState = Settles[e.type], !.indexedLedger = e.ledger]
      [] OTHER -> row

\* A dispute event reaches the cache only through the purchase's buyer.
TouchesCache(e, found) ==
    \/ e.type \in {"completed", "refunded"}
    \/ e.type # "released" /\ found

CacheAfter(e) == IF e.type \in {"completed", "resolvedRelease"} THEN "finalized" ELSE "revoked"

\* History: what the row is the outcome of once e has been written into it.
ReflectedAfter(e) ==
    {e} \cup {d \in reflected : e.type = "completed" => d.ledger < e.ledger}

To(stage) == apply' = [apply EXCEPT !.stage = stage]

\* The id the batch gives an event contains the network.
eventId(e, network) == <<e, network>>

\* The events of a batch are applied in the order of their ledgers.
InsertSyncEvent ==
    \E e \in batch.todo :
       /\ \A d \in batch.todo : e.ledger <= d.ledger
       /\ batch.stage = "apply" /\ apply.stage = "idle"
       /\ syncEvents' = syncEvents \cup {eventId(e, TRUE)}
       /\ apply' = [stage |-> IF e.type = "completed" THEN "row" ELSE "read", event |-> e,
                    first |-> eventId(e, TRUE) \notin syncEvents, found |-> FALSE]
       /\ batch' = [batch EXCEPT !.todo = @ \ {e}]
       /\ UNCHANGED <<entitlementVars, chain, branch, sync, deadLetters,
                      receipts, failures, reflected, fetched, outOfTurn, unrevoked>>

ReadRow ==
    LET e == apply.event IN
    /\ apply.stage = "read"
    /\ apply' = [apply EXCEPT !.stage = IF isStaleReplay(e) THEN "done" ELSE "row",
                              !.found = Finds(e)]
    /\ reflected' = IF isStaleReplay(e) THEN reflected \cup {e} ELSE reflected
    /\ UNCHANGED <<entitlementVars, chain, branch, sync, batch, syncEvents, deadLetters,
                   receipts, failures, fetched, outOfTurn, unrevoked>>

WriteRow ==
    LET e == apply.event IN
    /\ apply.stage = "row"
    /\ row' = RowAfter(e)
    /\ To(IF TouchesCache(e, apply.found) THEN "cache" ELSE "done")
    /\ reflected' = ReflectedAfter(e)
    /\ Outdate
    /\ UNCHANGED <<cache, learnt, staleFill, chain, branch, sync, batch, syncEvents,
                   deadLetters, receipts, failures, fetched, outOfTurn, unrevoked>>

\* Mutant: the receipt does not ask whether the event is new.
WriteCacheAlwaysReceipt ==
    /\ apply.stage = "cache"
    /\ cache' = CacheAfter(apply.event)
    /\ To(IF apply.event.type = "completed" THEN "receipt" ELSE "done")
    /\ Outdate
    /\ UNCHANGED <<row, learnt, staleFill, chain, branch, sync, batch, syncEvents,
                   deadLetters, receipts, failures, reflected, fetched, outOfTurn, unrevoked>>

WriteCache ==
    /\ apply.stage = "cache"
    /\ cache' = CacheAfter(apply.event)
    /\ To(IF apply.event.type = "completed" /\ apply.first THEN "receipt" ELSE "done")
    /\ Outdate
    /\ UNCHANGED <<row, learnt, staleFill, chain, branch, sync, batch, syncEvents,
                   deadLetters, receipts, failures, reflected, fetched, outOfTurn, unrevoked>>

EnqueueReceipt ==
    /\ apply.stage = "receipt"
    /\ receipts' = receipts + 1
    /\ To("done")
    /\ UNCHANGED <<entitlementVars, chain, branch, sync, batch, syncEvents, deadLetters,
                   failures, reflected, fetched, outOfTurn, unrevoked>>

applyIndexedEvent ==
    InsertSyncEvent \/ ReadRow \/ WriteRow \/ WriteCache \/ EnqueueReceipt

\* The dead letter that an event may have is deleted.
Buried(e) == [open |-> deadLetters.open \ {e}, quarantined |-> deadLetters.quarantined \ {e}]

EventApplied ==
    LET e == apply.event IN
    /\ apply.stage = "done"
    /\ deadLetters' = Buried(e)
    /\ batch' = [batch EXCEPT !.okCursor = e.ledger, !.okLedger = e.ledger]
    /\ apply' = Idle
    /\ UNCHANGED <<entitlementVars, chain, branch, sync, syncEvents,
                   receipts, failures, reflected, fetched, outOfTurn, unrevoked>>

\* Mutant: the failed event is counted but not kept.
EventForgotten ==
    /\ apply.stage \notin {"idle", "done"}
    /\ failures < MaxFailures
    /\ failures' = failures + 1
    /\ apply' = Idle
    /\ UNCHANGED <<entitlementVars, chain, branch, sync, batch, syncEvents, deadLetters,
                   receipts, reflected, fetched, outOfTurn, unrevoked>>

\* A write of applyIndexedEvent throws: the event becomes a dead letter, even
\* when an operator had quarantined it, and the batch goes on with the next.
EventFailed ==
    LET e == apply.event IN
    /\ apply.stage \notin {"idle", "done"}
    /\ failures < MaxFailures
    /\ failures' = failures + 1
    /\ deadLetters' = [open |-> deadLetters.open \cup {e},
                       quarantined |-> deadLetters.quarantined \ {e}]
    /\ batch' = [batch EXCEPT !.failed = TRUE]
    /\ apply' = Idle
    /\ UNCHANGED <<entitlementVars, chain, branch, sync, syncEvents,
                   receipts, reflected, fetched, outOfTurn, unrevoked>>

----------------------------------------------------------------------------
(* The operator, whose commands are taken as one step each.  The id that   *)
(* reprocessDeadLetters derives contains the network, retryDeadLetter's    *)
(* does not.                                                               *)

RetryDeadLetter ==
    \E e \in deadLetters.open, network \in BOOLEAN :
       LET applies == ~isStaleReplay(e)
           first == eventId(e, network) \notin syncEvents
       IN
       /\ syncEvents' = syncEvents \cup {eventId(e, network)}
       /\ row' = IF applies THEN RowAfter(e) ELSE row
       /\ cache' = IF applies /\ TouchesCache(e, Finds(e)) THEN CacheAfter(e) ELSE cache
       /\ receipts' = IF e.type = "completed" /\ first THEN receipts + 1 ELSE receipts
       /\ deadLetters' = Buried(e)
       /\ reflected' = IF applies THEN ReflectedAfter(e) ELSE reflected \cup {e}
       /\ outOfTurn' = \/ outOfTurn
                       \/ apply.stage # "idle"
                       \/ e \notin Events(chain)
                       \/ applies /\ \E d \in reflected \ {e} : d.ledger >= e.ledger
       /\ Outdate
       /\ UNCHANGED <<learnt, staleFill, chain, branch, sync, batch, apply,
                      failures, fetched, unrevoked>>

quarantineDeadLetter ==
    /\ \E e \in deadLetters.open :
          deadLetters' = [open |-> deadLetters.open \ {e},
                          quarantined |-> deadLetters.quarantined \cup {e}]
    /\ UNCHANGED <<entitlementVars, chain, branch, sync, batch, apply, syncEvents,
                   receipts, failures, reflected, fetched, outOfTurn, unrevoked>>

----------------------------------------------------------------------------

Init ==
    /\ EntitlementInit
    /\ chain = <<>> /\ branch = 0
    /\ sync = [cursor |-> 0, lastLedger |-> 0, lastHash |-> None, checkpoints |-> {}]
    /\ batch = NoBatch
    /\ apply = Idle
    /\ syncEvents = {}
    /\ deadLetters = [open |-> {}, quarantined |-> {}]
    /\ receipts = 0 /\ failures = 0
    /\ reflected = {} /\ fetched = {}
    /\ outOfTurn = FALSE /\ unrevoked = FALSE

runIndexerBatch ==
    \/ StartBatch \/ RewindRow \/ RewindCache \/ RewindState
    \/ Fetch \/ applyIndexedEvent \/ EventApplied \/ FinishBatch

Operator == RetryDeadLetter \/ quarantineDeadLetter

Download ==
    /\ \E v \in Resolvers : resolveEntitlement(v, Settled(chain))
    /\ UNCHANGED indexerVars

Next ==
    \/ Grow \/ Reorg
    \/ runIndexerBatch \/ EventFailed \/ Crash
    \/ Operator
    \/ Download

\* The script or the route that runs a batch is invoked again and again.
Fairness == WF_vars(runIndexerBatch)

Spec == Init /\ [][Next]_vars /\ Fairness

----------------------------------------------------------------------------

TypeOK ==
    /\ EntitlementTypeOK
    /\ \A n \in DOMAIN chain : chain[n].type \in EventType \cup {"none"}
    /\ sync.cursor \in 0..MaxLedger /\ sync.lastLedger \in 0..MaxLedger
    /\ Cardinality(sync.checkpoints) <= MaxCheckpoints
    /\ \A c, d \in sync.checkpoints : c.ledger = d.ledger => c = d
    /\ (apply.event = None) = (apply.stage = "idle")
    /\ deadLetters.open \cap deadLetters.quarantined = {}

\* Every event of the chain, and no other, has had its effect on the row, and
\* no rewind is due or under way.
UpToDate ==
    /\ apply.stage = "idle"
    /\ reflected = Events(chain)
    /\ batch.stage # "rewindCache" /\ detectFork = 0

\* No event is left to deliver or to retry.
Delivered ==
    /\ batch.stage = "idle" /\ sync.cursor >= Len(chain)
    /\ Events(chain) \subseteq fetched
    /\ deadLetters.open = {} /\ deadLetters.quarantined = {}

\* A download put down what the chain no longer says, or said on a branch that
\* may have been abandoned since.
Misled == staleFill \/ (learnt /\ branch > 0)

\* However the events came to be applied - one by one, again after a crash or
\* a rewind, late from the dead letters - the purchase ends in the state it
\* has on the chain, unless a download recorded a revocation from reads that
\* were out of date.  (isStaleReplay and the order of the batch.)
MirrorAgrees ==
    UpToDate /\ ~outOfTurn /\ ~Misled =>
        IF Standing(chain) = None
        THEN row = None \/ row.settlementState = "Orphaned"
        ELSE row # None /\ row.settlementState = Standing(chain)

\* The indexer's documents are well typed, its checkpoint history is bounded
\* and names each ledger once, and the purchase row mirrors the chain.
RowMatchesChain == TypeOK /\ MirrorAgrees

\* A purchase that is refunded or disputed on the chain is not served once its
\* events are applied, whatever a late download wrote into the cache.
RefundedStaysDenied ==
    UpToDate /\ ~outOfTurn /\ Standing(chain) \in Revoking => ~WouldServe

\* Access follows the chain in both directions: a purchase that stands is
\* served, and one that does not is not, orphaned purchases included unless
\* the rewind could not revoke the cache entry.
AccessFollowsTheChain ==
    UpToDate /\ Delivered /\ ~outOfTurn /\ ~Misled =>
        /\ Standing(chain) \in {"Pending", "Released"} => WouldServe
        /\ WouldServe /\ ~unrevoked => Standing(chain) \in {"Pending", "Released"}

\* The cursor never leaves an event behind: what was delivered up to it has had
\* its effect or waits as a dead letter, whatever crashed in between.
NothingLeftBehind ==
    batch.stage = "idle" /\ ~outOfTurn =>
        \A e \in fetched : e.ledger <= sync.cursor =>
            e \in reflected \cup deadLetters.open \cup deadLetters.quarantined

\* Replays and retries put no second receipt into the outbox: one for every
\* purchase recorded under an id of its own.
OneReceiptPerEvent ==
    receipts <= Cardinality({id \in syncEvents : id[1].type = "completed"})

\* When the chain comes to rest so does the indexer: it reaches the end and
\* does not rewind for ever.
CatchesUp == <>[](sync.cursor >= Len(chain))
=============================================================================
