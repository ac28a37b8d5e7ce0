---------------------------- MODULE IndexerProofs ----------------------------
(***************************************************************************)
(* Proofs about Indexer and the entitlement it feeds, for chains of any    *)
(* length with any number of reorganisations, batches of any size, any     *)
(* number of failures, crashes, operator's retries and downloads.          *)
(***************************************************************************)
EXTENDS Indexer, FiniteSums, SequenceTheorems, TLAPS

-----------------------------------------------------------------------------
(* The inductive invariants. *)

Chains ==
    {c \in Seq([branch : Nat, type : EventType \cup {"none"}]) : Len(c) <= MaxLedger}
Hash == Nat \X Nat
Checkpoint == [ledger : 1..MaxLedger, hash : Hash]
Ledger == 0..MaxLedger
Resolve ==
    [stage : {"idle", "cache", "chain", "write", "mirror"},
     seen : PurchaseRow \cup {None}, answer : SettlementState \cup {None},
     stale : BOOLEAN]

Batch ==
    [stage : {"idle", "rewindRow", "rewindCache", "rewindState", "fetch", "apply"},
     todo : SUBSET IndexedEvent, cursor : Ledger, ledger : Ledger,
     okCursor : Ledger, okLedger : Ledger, failed : BOOLEAN, divergence : Nat]
Apply ==
    [stage : {"idle", "read", "row", "cache", "receipt", "done"},
     event : IndexedEvent \cup {None}, first : BOOLEAN, found : BOOLEAN]

\* What every document, and every process between two of its steps, holds.
Typed ==
    /\ row \in PurchaseRow \cup {None}
    /\ cache \in CacheState \cup {None}
    /\ resolve \in [Resolvers -> Resolve]
    /\ {learnt, staleFill, outOfTurn, unrevoked} \subseteq BOOLEAN
    /\ chain \in Chains
    /\ branch \in Nat
    /\ sync \in [cursor : Ledger, lastLedger : Ledger, lastHash : Hash \cup {None},
                 checkpoints : SUBSET Checkpoint]
    /\ batch \in Batch
    /\ apply \in Apply
    /\ apply.event = None <=> apply.stage = "idle"
    /\ syncEvents \subseteq IndexedEvent \X BOOLEAN
    /\ deadLetters \in [open : SUBSET IndexedEvent, quarantined : SUBSET IndexedEvent]
    /\ receipts \in Nat /\ failures \in Nat
    /\ reflected \subseteq IndexedEvent
    /\ fetched \subseteq IndexedEvent

\* A download's row does not vanish, and what it mirrors it was told.
ResolversInStep ==
    \A v \in Resolvers :
      LET r == resolve[v] IN
      /\ r.seen # None => row # None
      /\ r.stage = "idle" => r = NoResolve
      /\ r.stage = "mirror" => r.seen # None /\ r.answer \in Revoking /\ learnt

\* The checkpoint history is short and names each ledger once.
CheckpointsBounded ==
    /\ IsFiniteSet(sync.checkpoints)
    /\ Cardinality(sync.checkpoints) <= MaxCheckpoints
    /\ \A c, d \in sync.checkpoints : c.ledger = d.ledger => c = d

Dead == deadLetters.open \cup deadLetters.quarantined

DeadLettersDisjoint == deadLetters.open \cap deadLetters.quarantined = {}

\* The receipt the batch is about to enqueue.
DueReceipt ==
    IF apply.stage \in {"row", "cache", "receipt"} /\ apply.event.type = "completed"
       /\ apply.first
    THEN 1 ELSE 0

\* A sale is written without a look at the row, and nothing else is receipted.
SalesAlone ==
    /\ apply.stage = "read" => apply.event.type # "completed"
    /\ apply.stage = "receipt" => apply.event.type = "completed" /\ apply.first

SalesOf(ids) == {id \in ids : id[1].type = "completed"}

ReceiptsCounted ==
    /\ IsFiniteSet(syncEvents)
    /\ receipts + DueReceipt <= Cardinality(SalesOf(syncEvents))

\* The events a batch has still to apply come after the cursor, one per ledger,
\* and after the one it is applying.
BatchInOrder ==
    /\ apply.stage # "idle" => batch.stage = "apply"
    /\ batch.stage = "apply" =>
         /\ batch.todo \subseteq fetched
         /\ \A e \in batch.todo : e.ledger > sync.cursor
         /\ \A d, e \in batch.todo : d.ledger = e.ledger => d = e
         /\ apply.stage # "idle" =>
              /\ apply.event \in fetched
              /\ apply.event.ledger > sync.cursor
              /\ \A e \in batch.todo : apply.event.ledger < e.ledger

Handled(e) == e \in reflected \cup Dead

\* A batch's events that come before those it has still to apply.
Past(e) ==
    /\ apply.stage # "idle" => e.ledger < apply.event.ledger
    /\ \A d \in batch.todo : e.ledger < d.ledger

NothingLost ==
    ~outOfTurn =>
      /\ apply.stage \in {"cache", "receipt", "done"} => apply.event \in reflected
      /\ \A e \in fetched : e.ledger <= sync.cursor => Handled(e)
      /\ batch.stage = "apply" =>
           \A e \in fetched :
             \/ e \in batch.todo
             \/ apply.stage # "idle" /\ e = apply.event
             \/ Handled(e) /\ Past(e)

-----------------------------------------------------------------------------
(* The chain: each event is one that was possible, and before the first    *)
(* reorganisation nothing else is known to anybody.                        *)

WellFormed(c) ==
    \A n \in EventLedgers(c) : c[n].type \in Possible(SubSeq(c, 1, n - 1))

ChainPossible == WellFormed(chain)

OneBranch ==
    branch = 0 =>
      /\ reflected \cup fetched \cup Dead \cup batch.todo \subseteq Events(chain)
      /\ apply.stage # "idle" => apply.event \in Events(chain)

-----------------------------------------------------------------------------
(* The row. *)

Sales == {c \in reflected : c.type = "completed"}

\* The chain said, on its only branch, that the row's purchase or the event the
\* row was last written for ended in one of the states S.
Told(S) ==
    /\ learnt /\ branch = 0
    /\ \E y \in Events(chain) :
         /\ Settles[y.type] \in S
         /\ y.ledger >= row.indexedLedger
         /\ y.purchaseId = row.purchaseId \/ y.ledger = row.indexedLedger

WrittenFor(x) ==
    /\ x.ledger = row.indexedLedger
    /\ x.type # "refunded" => x.purchaseId = row.purchaseId

RowExplained ==
    ~outOfTurn /\ row # None =>
      \/ row.settlementState = "Orphaned"
      \/ \E x \in reflected : WrittenFor(x) /\ Settles[x.type] = row.settlementState
      \/ row.settlementState \in Revoking /\ (Misled \/ Told({row.settlementState}))

RowFollowsSales ==
    ~outOfTurn =>
      /\ \A c \in Sales :
           /\ row # None
           /\ row.settlementState # "Orphaned"
           /\ c.ledger <= row.indexedLedger
           /\ (\A d \in Sales : d.ledger <= c.ledger) => row.purchaseId = c.purchaseId
      /\ row # None =>
           \A e \in reflected :
             e.purchaseId = row.purchaseId => e.ledger <= row.indexedLedger

\* On the only branch there is, the row was last written for an event of its
\* purchase, or for the refund of a later one.
RowOnChain ==
    ~outOfTurn /\ branch = 0 /\ row # None =>
      \E x \in Events(chain) :
        /\ x.ledger = row.indexedLedger
        /\ \/ x.purchaseId = row.purchaseId
           \/ x.type = "refunded" /\ x.purchaseId > row.purchaseId

ApplySound ==
    ~outOfTurn =>
      /\ apply.stage = "row" /\ apply.event.type # "completed" =>
           /\ apply.found = Finds(apply.event)
           /\ Finds(apply.event) => row.indexedLedger <= apply.event.ledger
      /\ apply.stage = "cache" =>
           /\ apply.event.type # "released"
           /\ row = None => apply.event.type = "refunded"
           /\ row # None =>
                /\ WrittenFor(apply.event)
                /\ row.settlementState \in {Settles[apply.event.type]} \cup Revoking

\* A download that nothing has outdated saw the row that is still there, and an
\* answer that revokes it is the chain's.
ResolversSound ==
    \A v \in Resolvers :
      LET r == resolve[v] IN
      r.stage # "idle" /\ ~r.stale =>
        /\ r.seen = None => row = None
        /\ r.seen # None => /\ r.seen.purchaseId = row.purchaseId
                            /\ r.seen.indexedLedger = row.indexedLedger
        /\ ~outOfTurn /\ branch = 0 /\ r.stage \in {"write", "mirror"}
           /\ r.seen # None /\ r.answer \in Revoking =>
             \E y \in Events(chain) :
               /\ Settles[y.type] = r.answer
               /\ y.ledger >= row.indexedLedger
               /\ y.purchaseId = row.purchaseId \/ y.ledger = row.indexedLedger

-----------------------------------------------------------------------------
(* The cache entry. *)

\* An orphaned purchase's events are all delivered again.
RewindForgets == batch.stage = "rewindCache" => fetched = {}

\* An event whose write of the cache entry is still to come.
Outstanding(e) ==
    IF apply.stage # "idle" /\ apply.event = e
    THEN apply.stage \in {"read", "row", "cache"}
    ELSE \/ e \in Dead \/ e \notin fetched
         \/ IF batch.stage = "apply" THEN e \in batch.todo ELSE e.ledger > sync.cursor

Granted(e) == cache # "revoked" \/ Outstanding(e) \/ Told(Revoking)

\* Of the events that the row has seen since the sale c all are releases.
FollowedByRelease(c) ==
    \A e \in reflected \ {c} :
      c.ledger <= e.ledger /\ e.ledger <= row.indexedLedger => e.type = "released"

\* A sale that only its release followed gives access.
SalesGrant ==
    ~outOfTurn /\ ~Misled => \A c \in Sales : FollowedByRelease(c) => Granted(c)

\* The row was last written for x, which resolved a dispute in the buyer's favour.
LastResolved(x) ==
    /\ x \in reflected /\ x.type = "resolvedRelease"
    /\ row # None
    /\ row.settlementState = "Released" /\ x.ledger = row.indexedLedger
    /\ \A e \in reflected \ {x} : e.ledger # x.ledger

\* So does a dispute that was last resolved in the buyer's favour.
ResolutionsGrant ==
    ~outOfTurn /\ ~Misled => \A x \in reflected : LastResolved(x) => Granted(x)

\* An orphaned purchase whose cache entry was revoked stays without access: no
\* download that could write the entry is unaware of it.
OrphansRevoked ==
    ~outOfTurn /\ ~staleFill /\ ~unrevoked /\ row # None =>
      (row.settlementState = "Orphaned" =>
         /\ cache = "revoked"
         /\ \A v \in Resolvers :
              resolve[v].stage \in {"chain", "write", "mirror"} => resolve[v].stale)

-----------------------------------------------------------------------------
(* Facts about chains. *)

\* The state in which each event leaves its purchase.
LEMMA SettlesFacts ==
    /\ EventType = {"completed", "refunded", "disputed", "resolvedRefund",
                    "resolvedRelease", "released"}
    /\ "none" \notin EventType
    /\ \A t \in EventType :
         /\ Settles[t] \in {"Pending", "Refunded", "Disputed", "Released"}
         /\ Settles[t] = "Pending" <=> t = "completed"
         /\ Settles[t] = "Disputed" <=> t = "disputed"
         /\ Settles[t] = "Refunded" <=> t \in {"refunded", "resolvedRefund"}
         /\ Settles[t] = "Released" <=> t \in {"released", "resolvedRelease"}
BY DEF Settles, EventType

\* A bounded set of natural numbers, if it has a member, has a greatest one.
LEMMA GreatestNumber ==
    ASSUME NEW B \in SUBSET Nat, B # {}, NEW k \in Nat, \A b \in B : b <= k
    PROVE  Max(B) \in B /\ \A b \in B : b <= Max(B)
<1> DEFINE C == {k - b : b \in B}
<1>1. C \in SUBSET Nat /\ C # {}
  <2>1. \A b \in B : k - b \in Nat
    OBVIOUS
  <2> QED
    BY <2>1
<1>2. PICK n \in C : \A m \in C : n <= m
  BY <1>1, SmallestNumber
<1>3. PICK b \in B : n = k - b
  OBVIOUS
<1>4. \A a \in B : b >= a
  <2> SUFFICES ASSUME NEW a \in B PROVE b >= a
    OBVIOUS
  <2>1. n <= k - a
    BY <1>2
  <2>2. a \in Nat /\ b \in Nat
    OBVIOUS
  <2> QED
    BY <1>3, <2>1, <2>2
<1>5. \E x \in B : \A y \in B : x >= y
  BY <1>4
<1>6. Max(B) \in B /\ \A y \in B : Max(B) >= y
  BY <1>5 DEF Max
<1>7. \A b2 \in B : b2 \in Nat
  OBVIOUS
<1> QED
  BY <1>6, <1>7

\* What a chain of the right type holds at each ledger.
LEMMA ChainShape ==
    ASSUME NEW c \in Chains
    PROVE  /\ Len(c) \in Nat /\ Len(c) <= MaxLedger
           /\ \A n \in 1..Len(c) :
                /\ n \in Nat \ {0}
                /\ c[n].branch \in Nat
                /\ c[n].type \in EventType \cup {"none"}
<1> DEFINE Block == [branch : Nat, type : EventType \cup {"none"}]
<1>1. c \in Seq(Block) /\ Len(c) <= MaxLedger
  BY DEF Chains
<1>2. Len(c) \in Nat /\ \A n \in 1..Len(c) : c[n] \in Block
  <2> HIDE DEF Block
  <2> QED
    BY <1>1
<1> QED
  BY <1>1, <1>2

\* Ids grow with the ledger, by one at each sale.
LEMMA PurchasesGrow ==
    ASSUME NEW c \in Chains, NEW n \in 0..Len(c), NEW m \in 0..n
    PROVE  /\ Purchases(c, n) \in Nat /\ Purchases(c, m) \in Nat
           /\ Purchases(c, m) <= Purchases(c, n)
           /\ (\E i \in (m + 1)..n : c[i].type = "completed")
                <=> Purchases(c, m) # Purchases(c, n)
<1> DEFINE Sold(k) == {i \in 1..k : c[i].type = "completed"}
<1>1. n \in Nat /\ m \in Nat /\ m <= n
  BY ChainShape
<1>2. IsFiniteSet(Sold(n)) /\ IsFiniteSet(Sold(m))
  <2>1. IsFiniteSet(1..n) /\ IsFiniteSet(1..m)
    BY <1>1, FS_Interval
  <2> QED
    BY <2>1, FS_Subset
<1>3. Sold(m) \in SUBSET Sold(n)
  BY <1>1
<1>4. /\ Cardinality(Sold(m)) \in Nat /\ Cardinality(Sold(n)) \in Nat
      /\ Cardinality(Sold(m)) <= Cardinality(Sold(n))
      /\ Cardinality(Sold(n)) = Cardinality(Sold(m)) => Sold(n) = Sold(m)
  BY <1>2, <1>3, FS_Subset, FS_CardinalityType
<1>5. (\E i \in (m + 1)..n : c[i].type = "completed") <=> Sold(n) # Sold(m)
  BY <1>1
<1> QED
  BY <1>4, <1>5 DEF Purchases

\* There is one event per ledger, and it is well typed.
LEMMA EventsTyped ==
    ASSUME NEW c \in Chains
    PROVE  /\ Events(c) \subseteq IndexedEvent
           /\ \A e \in Events(c) : /\ e.ledger \in EventLedgers(c)
                                   /\ e = EventAt(c, e.ledger)
                                   /\ e.ledger \in 1..Len(c)
           /\ \A d, e \in Events(c) : d.ledger = e.ledger => d = e
           /\ \A n \in EventLedgers(c) : EventAt(c, n) \in Events(c)
<1>1. ASSUME NEW n \in EventLedgers(c)
      PROVE  EventAt(c, n) \in IndexedEvent
  <2>1. n \in 1..Len(c) /\ c[n].type \in EventType
    BY ChainShape DEF EventLedgers
  <2>2. n \in 0..Len(c) /\ n \in 1..MaxLedger
    BY <2>1, ChainShape, IndexerAssumption
  <2>3. Purchases(c, n) \in Nat
    BY <2>2, PurchasesGrow
  <2> QED
    BY <2>1, <2>2, <2>3 DEF EventAt, IndexedEvent
<1>2. \A n \in EventLedgers(c) : EventAt(c, n).ledger = n /\ n \in 1..Len(c)
  BY DEF EventAt, EventLedgers
<1>3. \A e \in Events(c) : /\ e.ledger \in EventLedgers(c)
                           /\ e = EventAt(c, e.ledger)
                           /\ e.ledger \in 1..Len(c)
  BY <1>2 DEF Events
<1> QED
  BY <1>1, <1>3 DEF Events

\* Chains that agree up to ledger k hold the same events up to there.
LEMMA SamePrefix ==
    ASSUME NEW c \in Chains, NEW d \in Chains, NEW k \in 0..Len(c), k <= Len(d),
           \A n \in 1..k : c[n] = d[n]
    PROVE  /\ \A n \in 1..k : /\ n \in EventLedgers(c) <=> n \in EventLedgers(d)
                              /\ EventAt(c, n) = EventAt(d, n)
           /\ \A n \in 0..k : Purchases(c, n) = Purchases(d, n)
<1>1. k \in Nat /\ Len(c) \in Nat /\ Len(d) \in Nat
  BY ChainShape
<1>2. ASSUME NEW n \in 0..k PROVE Purchases(c, n) = Purchases(d, n)
  <2>1. {m \in 1..n : c[m].type = "completed"} = {m \in 1..n : d[m].type = "completed"}
    BY <1>1
  <2> QED
    BY <2>1 DEF Purchases
<1>3. ASSUME NEW n \in 1..k
      PROVE  /\ n \in EventLedgers(c) <=> n \in EventLedgers(d)
             /\ EventAt(c, n) = EventAt(d, n)
  <2>1. n \in 0..k /\ n \in 1..Len(c) /\ n \in 1..Len(d)
    BY <1>1
  <2> QED
    BY <1>2, <2>1 DEF EventAt, EventLedgers
<1> QED
  BY <1>2, <1>3

\* The ledgers before the n-th one, as a chain.
LEMMA PrefixChain ==
    ASSUME NEW c \in Chains, NEW n \in 1..Len(c)
    PROVE  /\ SubSeq(c, 1, n - 1) \in Chains
           /\ Len(SubSeq(c, 1, n - 1)) = n - 1
           /\ \A i \in 1..(n - 1) : SubSeq(c, 1, n - 1)[i] = c[i]
           /\ EventLedgers(SubSeq(c, 1, n - 1)) = {i \in EventLedgers(c) : i < n}
<1> DEFINE Block == [branch : Nat, type : EventType \cup {"none"}]
           p == SubSeq(c, 1, n - 1)
<1>1. c \in Seq(Block) /\ Len(c) \in Nat /\ Len(c) <= MaxLedger
  BY DEF Chains
<1>2. p \in Seq(Block) /\ Len(p) = n - 1 /\ \A i \in 1..(n - 1) : p[i] = c[i]
  <2> HIDE DEF Block
  <2> QED
    BY <1>1
<1>3. MaxLedger \in Nat
  BY IndexerAssumption
<1> HIDE DEF p
<1>4. p \in Chains
  BY <1>1, <1>2, <1>3 DEF Chains
<1>5. EventLedgers(p) = {i \in EventLedgers(c) : i < n}
  BY <1>1, <1>2 DEF EventLedgers
<1> QED
  BY <1>2, <1>4, <1>5 DEF p

\* The last event decides the standing of the latest purchase.
LEMMA LastDecides ==
    ASSUME NEW c \in Chains
    PROVE  /\ EventLedgers(c) = {} => Standing(c) = None
           /\ EventLedgers(c) # {} =>
                /\ Max(EventLedgers(c)) \in EventLedgers(c)
                /\ \A n \in EventLedgers(c) : n <= Max(EventLedgers(c))
                /\ Standing(c) = Settles[c[Max(EventLedgers(c))].type]
                /\ Standing(c) # None
<1>1. EventLedgers(c) = {} => Standing(c) = None
  BY DEF Standing
<1>2. ASSUME EventLedgers(c) # {}
      PROVE  /\ Max(EventLedgers(c)) \in EventLedgers(c)
             /\ \A n \in EventLedgers(c) : n <= Max(EventLedgers(c))
  <2>1. EventLedgers(c) \in SUBSET Nat /\ \A n \in EventLedgers(c) : n <= Len(c)
    BY ChainShape DEF EventLedgers
  <2> QED
    BY <1>2, <2>1, ChainShape, GreatestNumber
<1>3. ASSUME EventLedgers(c) # {}
      PROVE  /\ Standing(c) = Settles[c[Max(EventLedgers(c))].type]
             /\ Standing(c) # None
  <2>1. Standing(c) = Settles[c[Max(EventLedgers(c))].type]
    BY <1>3 DEF Standing
  <2>2. PICK z \in EventLedgers(c) : z = Max(EventLedgers(c))
    BY <1>2, <1>3
  <2>3. c[z].type \in EventType
    BY <2>2, ChainShape DEF EventLedgers
  <2>4. Settles[c[z].type] \in SettlementState
    BY <2>3, SettlesFacts DEF SettlementState
  <2> QED
    BY <2>1, <2>2, <2>4, NoneIsNoValue
<1> QED
  BY <1>1, <1>2, <1>3

\* Which event may follow which standing.
LEMMA PossibleMeans ==
    ASSUME NEW c, NEW t \in Possible(c)
    PROVE  /\ t \in EventType
           /\ t = "completed" => Standing(c) \in {None, "Refunded"}
           /\ t \in {"refunded", "disputed", "released"} => Standing(c) = "Pending"
           /\ t \in {"resolvedRefund", "resolvedRelease"} => Standing(c) = "Disputed"
<1>1. None # "Pending" /\ None # "Disputed"
  BY NoneIsNoValue DEF SettlementState
<1>2. t \in Happening
  BY DEF Possible
<1>3. t \in EventType
  BY <1>2, IndexerAssumption, SettlesFacts
<1>4. CASE Standing(c) \in {None, "Refunded"}
  BY <1>1, <1>3, <1>4 DEF Possible
<1>5. CASE Standing(c) = "Pending"
  BY <1>1, <1>3, <1>5 DEF Possible
<1>6. CASE Standing(c) = "Disputed"
  BY <1>1, <1>3, <1>6 DEF Possible
<1>7. CASE Standing(c) \notin {None, "Refunded", "Pending", "Disputed"}
  BY <1>7 DEF Possible
<1> QED
  BY <1>4, <1>5, <1>6, <1>7

\* An event answers the one before it.
LEMMA PrecedingEvent ==
    ASSUME NEW c \in Chains, WellFormed(c), NEW n \in EventLedgers(c),
           NEW w \in EventLedgers(c), w < n, \A i \in EventLedgers(c) : i < n => i <= w
    PROVE  /\ c[n].type = "completed" => Settles[c[w].type] = "Refunded"
           /\ c[n].type \in {"refunded", "disputed", "released"}
                => c[w].type = "completed"
           /\ c[n].type \in {"resolvedRefund", "resolvedRelease"}
                => c[w].type = "disputed"
<1>0. n \in 1..Len(c) /\ w \in 1..Len(c) /\ n \in Nat /\ w \in Nat
  BY ChainShape DEF EventLedgers
<1> DEFINE p == SubSeq(c, 1, n - 1)
<1>1. /\ p \in Chains
      /\ EventLedgers(p) = {i \in EventLedgers(c) : i < n}
      /\ \A i \in 1..(n - 1) : p[i] = c[i]
  BY <1>0, PrefixChain
<1>2. c[n].type \in Possible(p)
  BY DEF WellFormed
<1> HIDE DEF p
<1>3. w \in EventLedgers(p) /\ \A i \in EventLedgers(p) : i <= w
  BY <1>1
<1>4. Max(EventLedgers(p)) = w
  <2>1. Max(EventLedgers(p)) \in EventLedgers(p) /\ w <= Max(EventLedgers(p))
    BY <1>1, <1>3, LastDecides
  <2>2. Max(EventLedgers(p)) \in Nat /\ Max(EventLedgers(p)) <= w
    BY <1>1, <1>3, <2>1, ChainShape DEF EventLedgers
  <2> QED
    BY <1>0, <2>1, <2>2
<1>5. w \in 1..(n - 1)
  BY <1>0
<1>6. Standing(p) = Settles[c[w].type] /\ Standing(p) # None
  BY <1>1, <1>3, <1>4, <1>5, LastDecides
<1>7. c[w].type \in EventType
  BY <1>0, ChainShape DEF EventLedgers
<1> QED
  BY <1>2, <1>6, <1>7, PossibleMeans, SettlesFacts

\* Before any event there was a sale.
LEMMA SaleComesFirst ==
    ASSUME NEW c \in Chains, WellFormed(c), NEW n \in EventLedgers(c)
    PROVE  \E m \in EventLedgers(c) : m <= n /\ c[m].type = "completed"
<1>1. EventLedgers(c) \in SUBSET Nat
  BY ChainShape DEF EventLedgers
<1>2. PICK m \in EventLedgers(c) : \A i \in EventLedgers(c) : m <= i
  BY <1>1, SmallestNumber
<1>3. m \in 1..Len(c) /\ m \in Nat
  BY <1>1 DEF EventLedgers
<1> DEFINE p == SubSeq(c, 1, m - 1)
<1>4. p \in Chains /\ EventLedgers(p) = {i \in EventLedgers(c) : i < m}
  BY <1>3, PrefixChain
<1>5. c[m].type \in Possible(p)
  BY DEF WellFormed
<1> HIDE DEF p
<1>6. EventLedgers(p) = {}
  BY <1>1, <1>2, <1>4
<1>7. Standing(p) = None
  BY <1>4, <1>6, LastDecides
<1>8. c[m].type = "completed"
  <2>1. None \notin {"Pending", "Disputed"}
    BY NoneIsNoValue DEF SettlementState
  <2> QED
    BY <1>5, <1>7, <2>1, PossibleMeans, SettlesFacts
<1> QED
  BY <1>2, <1>8

\* The events after the latest sale up to ledger n are about that purchase.
LEMMA LatestSale ==
    ASSUME NEW c \in Chains, WellFormed(c), NEW n \in EventLedgers(c)
    PROVE  \E s \in EventLedgers(c) :
             /\ s <= n /\ c[s].type = "completed"
             /\ \A i \in EventLedgers(c) : i <= n /\ c[i].type = "completed" => i <= s
             /\ Purchases(c, s) = Purchases(c, n)
<1> DEFINE B == {i \in EventLedgers(c) : i <= n /\ c[i].type = "completed"}
<1>0. n \in Nat /\ n \in 1..Len(c) /\ Len(c) \in Nat
  BY ChainShape DEF EventLedgers
<1>1. B \in SUBSET Nat /\ B # {} /\ \A b \in B : b <= n
  BY SaleComesFirst, ChainShape DEF EventLedgers
<1>2. Max(B) \in B /\ \A b \in B : b <= Max(B)
  BY <1>0, <1>1, GreatestNumber
<1>3. PICK s \in B : s = Max(B)
  BY <1>2
<1>4. s \in EventLedgers(c) /\ s \in Nat /\ s <= n /\ c[s].type = "completed"
  BY <1>1, <1>3
<1>5. n \in 0..Len(c) /\ s \in 0..n
  BY <1>0, <1>4
<1>6. \A i \in (s + 1)..n : c[i].type # "completed"
  <2> SUFFICES ASSUME NEW i \in (s + 1)..n, c[i].type = "completed" PROVE FALSE
    OBVIOUS
  <2>1. i \in EventLedgers(c) /\ i \in Nat
    BY <1>0, <1>4, SettlesFacts DEF EventLedgers
  <2>2. i <= s
    BY <1>2, <1>3, <2>1
  <2> QED
    BY <1>4, <2>1, <2>2
<1>7. Purchases(c, s) = Purchases(c, n)
  BY <1>5, <1>6, PurchasesGrow
<1> QED
  BY <1>2, <1>3, <1>4, <1>7

\* A release answers the sale before it.
LEMMA ReleaseFollowsSale ==
    ASSUME NEW c \in Chains, WellFormed(c), NEW n \in EventLedgers(c),
           c[n].type = "released"
    PROVE  \E s \in EventLedgers(c) :
             /\ s < n /\ c[s].type = "completed"
             /\ \A i \in EventLedgers(c) : i < n => i <= s
             /\ Purchases(c, s) = Purchases(c, n)
<1>0. n \in Nat /\ n \in 1..Len(c) /\ EventLedgers(c) \in SUBSET Nat
  BY ChainShape DEF EventLedgers
<1>1. PICK s \in EventLedgers(c) :
        /\ s <= n /\ c[s].type = "completed"
        /\ \A i \in EventLedgers(c) : i <= n /\ c[i].type = "completed" => i <= s
        /\ Purchases(c, s) = Purchases(c, n)
  BY LatestSale
<1>2. s < n /\ s \in Nat
  BY <1>0, <1>1
<1> DEFINE B == {i \in EventLedgers(c) : i < n}
<1>3. B \in SUBSET Nat /\ B # {} /\ \A b \in B : b <= n
  BY <1>0, <1>2
<1>4. PICK w \in B : w = Max(B) /\ \A b \in B : b <= w
  BY <1>0, <1>3, GreatestNumber
<1>5. w \in EventLedgers(c) /\ w < n /\ \A i \in EventLedgers(c) : i < n => i <= w
  BY <1>4
<1>6. c[w].type = "completed"
  BY <1>5, PrecedingEvent
<1>7. w = s
  <2>1. w <= s /\ s <= w
    BY <1>0, <1>1, <1>2, <1>5, <1>6
  <2> QED
    BY <1>0, <1>2, <1>5, <2>1
<1> QED
  BY <1>1, <1>2, <1>5, <1>7

\* What the contract says of a purchase is what its last event says.
LEMMA SettledSays ==
    ASSUME NEW c \in Chains, NEW p \in 1..Purchases(c, Len(c))
    PROVE  \E y \in EventLedgers(c) :
             /\ Purchases(c, y) = p
             /\ \A n \in EventLedgers(c) : Purchases(c, n) = p => n <= y
             /\ Settled(c)[p] = Settles[c[y].type]
             /\ Settled(c)[p] \in SettlementState
<1> DEFINE L == Len(c)
           K == {k \in 0..L : p <= Purchases(c, k)}
           B == {n \in EventLedgers(c) : Purchases(c, n) = p}
<1>0. L \in Nat /\ L \in 0..L /\ Purchases(c, L) \in Nat /\ p \in Nat /\ p > 0
  <2>1. L \in Nat /\ L \in 0..L
    BY ChainShape
  <2>2. Purchases(c, L) \in Nat
    BY <2>1, PurchasesGrow
  <2> QED
    BY <2>1, <2>2
<1>1. K \in SUBSET Nat /\ K # {}
  BY <1>0
<1>2. PICK m \in K : \A k \in K : m <= k
  BY <1>1, SmallestNumber
<1>3. m # 0
  <2>1. {i \in 1..0 : c[i].type = "completed"} = {}
    OBVIOUS
  <2>2. Purchases(c, 0) = 0
    BY <2>1, FS_EmptySet DEF Purchases
  <2> QED
    BY <1>0, <2>2
<1>4. m \in Nat /\ m \in 1..L /\ m - 1 \in 0..L /\ m - 1 \in 0..m /\ m \in 0..L
  BY <1>0, <1>1, <1>3
<1>5. Purchases(c, m) \in Nat /\ Purchases(c, m - 1) \in Nat
  BY <1>4, PurchasesGrow
<1>6. Purchases(c, m - 1) < p
  BY <1>0, <1>2, <1>4, <1>5
<1>7. c[m].type = "completed" /\ Purchases(c, m) <= Purchases(c, m - 1) + 1
  <2>1. \E i \in ((m - 1) + 1)..m : c[i].type = "completed"
    BY <1>0, <1>2, <1>4, <1>5, <1>6, PurchasesGrow
  <2>2. c[m].type = "completed"
    BY <1>4, <2>1
  <2> DEFINE S == {i \in 1..(m - 1) : c[i].type = "completed"}
  <2>3. {i \in 1..m : c[i].type = "completed"} = S \cup {m}
    BY <1>4, <2>2
  <2>4. IsFiniteSet(S)
    <3>1. IsFiniteSet(1..(m - 1))
      BY <1>4, FS_Interval
    <3> QED
      BY <3>1, FS_Subset
  <2>5. Cardinality(S \cup {m}) <= Cardinality(S) + 1 /\ Cardinality(S) \in Nat
    <3>1. m \notin S
      BY <1>4
    <3> HIDE DEF S
    <3>2. Cardinality(S \cup {m}) = Cardinality(S) + 1
      BY <2>4, <3>1, FS_AddElement
    <3>3. Cardinality(S) \in Nat
      BY <2>4, FS_CardinalityType
    <3> QED
      BY <3>2, <3>3
  <2> QED
    BY <2>2, <2>3, <2>5 DEF Purchases
<1>8. m \in B
  <2>1. Purchases(c, m) = p
    BY <1>0, <1>2, <1>5, <1>6, <1>7
  <2>2. m \in EventLedgers(c)
    BY <1>4, <1>7 DEF EventLedgers
  <2> QED
    BY <2>1, <2>2
<1>9. B \in SUBSET Nat /\ \A b \in B : b <= L
  BY <1>0 DEF EventLedgers
<1>10. Max(B) \in B /\ \A b \in B : b <= Max(B)
  BY <1>0, <1>8, <1>9, GreatestNumber
<1>11. PICK y \in B : y = Max(B)
  BY <1>10
<1>12. Settled(c)[p] = Settles[c[y].type]
  BY <1>11 DEF Settled
<1>13. c[y].type \in EventType
  BY <1>11, ChainShape DEF EventLedgers
<1>14. Settled(c)[p] \in SettlementState
  BY <1>12, <1>13, SettlesFacts DEF SettlementState
<1> QED
  BY <1>10, <1>11, <1>12, <1>14

\* The contract's answers, as a sequence.
LEMMA SettledType ==
    ASSUME NEW c \in Chains
    PROVE  /\ Settled(c) \in Seq(SettlementState)
           /\ DOMAIN Settled(c) = 1..Purchases(c, Len(c))
           /\ Len(Settled(c)) = Purchases(c, Len(c))
           /\ Purchases(c, Len(c)) \in Nat
<1> DEFINE P == Purchases(c, Len(c))
<1>1. P \in Nat
  <2>1. Len(c) \in 0..Len(c)
    BY ChainShape
  <2> QED
    BY <2>1, PurchasesGrow
<1>2. \A p \in 1..P : Settled(c)[p] \in SettlementState
  BY SettledSays
<1>3. DOMAIN Settled(c) = 1..P
  BY DEF Settled
<1>4. Settled(c) \in [1..P -> SettlementState]
  <2>1. Settled(c) = [p \in 1..P |-> Settled(c)[p]]
    BY DEF Settled
  <2> QED
    BY <1>2, <2>1
<1> HIDE DEF P
<1>5. Settled(c) \in Seq(SettlementState) /\ Len(Settled(c)) = P
  BY <1>1, <1>4
<1> QED
  BY <1>1, <1>3, <1>5 DEF P

\* A purchase that another one followed was refunded.
LEMMA RefundedBefore ==
    ASSUME NEW c \in Chains, WellFormed(c),
           NEW x \in EventLedgers(c), NEW y \in EventLedgers(c),
           Purchases(c, x) > Purchases(c, y),
           \A n \in EventLedgers(c) : Purchases(c, n) = Purchases(c, y) => n <= y
    PROVE  Settles[c[y].type] = "Refunded"
<1>0. /\ EventLedgers(c) \in SUBSET Nat /\ EventLedgers(c) \in SUBSET (0..Len(c))
      /\ Len(c) \in Nat
  BY ChainShape DEF EventLedgers
<1>1. y < x
  <2> SUFFICES ASSUME x <= y PROVE FALSE
    BY <1>0
  <2>1. x \in 0..y
    BY <1>0
  <2>2. /\ Purchases(c, x) <= Purchases(c, y)
        /\ Purchases(c, x) \in Nat /\ Purchases(c, y) \in Nat
    BY <1>0, <2>1, PurchasesGrow
  <2> QED
    BY <2>2
<1> DEFINE B == {n \in EventLedgers(c) : y < n}
<1>2. PICK n \in B : \A m \in B : n <= m
  BY <1>0, <1>1, SmallestNumber
<1>3. n \in EventLedgers(c) /\ y < n /\ n \in Nat /\ y \in Nat
  BY <1>0, <1>2
<1>4. \A i \in EventLedgers(c) : i < n => i <= y
  BY <1>0, <1>2, <1>3
<1>5. Purchases(c, y) # Purchases(c, n)
  BY <1>0, <1>3
<1>6. PICK i \in (y + 1)..n : c[i].type = "completed"
  <2>1. y \in 0..n /\ n \in 0..Len(c)
    BY <1>0, <1>3
  <2> QED
    BY <1>5, <2>1, PurchasesGrow
<1>7. i = n
  <2>1. i \in EventLedgers(c) /\ i \in Nat /\ y < i /\ i <= n
    BY <1>0, <1>3, <1>6, SettlesFacts DEF EventLedgers
  <2> QED
    BY <1>3, <1>4, <2>1
<1> QED
  BY <1>3, <1>4, <1>6, <1>7, PrecedingEvent

\* A block more, and what a chain holds then.
LEMMA ChainGrows ==
    ASSUME NEW c \in Chains, Len(c) < MaxLedger,
           NEW b \in [branch : Nat, type : EventType \cup {"none"}]
    PROVE  /\ Append(c, b) \in Chains
           /\ Len(Append(c, b)) = Len(c) + 1
           /\ Append(c, b)[Len(c) + 1] = b
           /\ \A n \in 1..Len(c) : /\ Append(c, b)[n] = c[n]
                                   /\ SubSeq(Append(c, b), 1, n - 1) = SubSeq(c, 1, n - 1)
           /\ SubSeq(Append(c, b), 1, Len(c)) = c
<1> DEFINE Block == [branch : Nat, type : EventType \cup {"none"}]
           d == Append(c, b)
<1>1. c \in Seq(Block) /\ Len(c) \in Nat /\ b \in Block /\ Len(c) < MaxLedger
  BY DEF Chains
<1> HIDE DEF Block
<1>2. /\ d \in Seq(Block) /\ Len(d) = Len(c) + 1 /\ d[Len(c) + 1] = b
      /\ \A n \in 1..Len(c) : d[n] = c[n]
  BY <1>1
<1>3. d \in Chains
  BY <1>1, <1>2, IndexerAssumption DEF Chains, Block
<1> HIDE DEF d
<1>4. ASSUME NEW n \in 1..(Len(c) + 1)
      PROVE  SubSeq(d, 1, n - 1) = SubSeq(c, 1, n - 1)
  <2>1. /\ SubSeq(d, 1, n - 1) \in Seq(Block) /\ Len(SubSeq(d, 1, n - 1)) = n - 1
        /\ \A i \in 1..(n - 1) : SubSeq(d, 1, n - 1)[i] = d[i]
    BY <1>1, <1>2
  <2>2. /\ SubSeq(c, 1, n - 1) \in Seq(Block) /\ Len(SubSeq(c, 1, n - 1)) = n - 1
        /\ \A i \in 1..(n - 1) : SubSeq(c, 1, n - 1)[i] = c[i]
    BY <1>1
  <2>3. \A i \in 1..(n - 1) : c[i] = d[i]
    BY <1>1, <1>2
  <2>4. \A i \in 1..Len(SubSeq(d, 1, n - 1)) :
          SubSeq(d, 1, n - 1)[i] = SubSeq(c, 1, n - 1)[i]
    BY <2>1, <2>2, <2>3
  <2> QED
    BY <2>1, <2>2, <2>4, SeqEqual
<1>5. SubSeq(c, 1, Len(c)) = c
  <2>1. /\ SubSeq(c, 1, Len(c)) \in Seq(Block) /\ Len(SubSeq(c, 1, Len(c))) = Len(c)
        /\ \A i \in 1..Len(c) : SubSeq(c, 1, Len(c))[i] = c[i]
    BY <1>1
  <2> QED
    BY <1>1, <2>1, SeqEqual
<1>6. SubSeq(d, 1, Len(c)) = c
  <2>1. Len(c) + 1 \in 1..(Len(c) + 1) /\ (Len(c) + 1) - 1 = Len(c)
    BY <1>1
  <2> QED
    BY <1>4, <1>5, <2>1
<1>7. \A n \in 1..Len(c) : n \in 1..(Len(c) + 1)
  BY <1>1
<1> QED
  BY <1>2, <1>3, <1>4, <1>6, <1>7 DEF d

\* It keeps the events there were, and adds one that is possible.
LEMMA GrowthIsPossible ==
    ASSUME NEW c \in Chains, WellFormed(c), Len(c) < MaxLedger,
           NEW b \in [branch : Nat, type : EventType \cup {"none"}],
           b.type \in Possible(c) \cup {"none"}
    PROVE  WellFormed(Append(c, b)) /\ Events(c) \subseteq Events(Append(c, b))
<1> DEFINE d == Append(c, b)
<1>1. /\ d \in Chains /\ Len(d) = Len(c) + 1 /\ d[Len(c) + 1] = b
      /\ \A n \in 1..Len(c) : d[n] = c[n] /\ SubSeq(d, 1, n - 1) = SubSeq(c, 1, n - 1)
      /\ SubSeq(d, 1, Len(c)) = c
  BY ChainGrows
<1>2. Len(c) \in Nat
  BY ChainShape
<1> HIDE DEF d
<1>3. ASSUME NEW n \in EventLedgers(d) PROVE d[n].type \in Possible(SubSeq(d, 1, n - 1))
  <2>1. n \in 1..(Len(c) + 1) /\ d[n].type # "none"
    BY <1>1 DEF EventLedgers
  <2>2. CASE n \in 1..Len(c)
    <3>1. n \in EventLedgers(c)
      BY <1>1, <2>1, <2>2 DEF EventLedgers
    <3> QED
      BY <1>1, <2>2, <3>1 DEF WellFormed
  <2>3. CASE n = Len(c) + 1
    <3>1. n - 1 = Len(c)
      BY <1>2, <2>3
    <3> QED
      BY <1>1, <2>1, <2>3, <3>1
  <2> QED
    BY <1>2, <2>1, <2>2, <2>3
<1>4. \A n \in 1..Len(c) : /\ n \in EventLedgers(c) <=> n \in EventLedgers(d)
                           /\ EventAt(c, n) = EventAt(d, n)
  <2>1. Len(c) \in 0..Len(c) /\ Len(c) <= Len(d)
    BY <1>1, <1>2
  <2> QED
    BY <1>1, <2>1, SamePrefix
<1>5. \A n \in EventLedgers(c) : n \in EventLedgers(d) /\ EventAt(c, n) = EventAt(d, n)
  BY <1>4 DEF EventLedgers
<1>6. Events(c) \subseteq Events(d)
  BY <1>5 DEF Events
<1> QED
  BY <1>3, <1>6 DEF d, WellFormed

\* What was possible stays so when the chain is cut.
LEMMA PrefixIsPossible ==
    ASSUME NEW c \in Chains, WellFormed(c), NEW n \in 1..Len(c)
    PROVE  WellFormed(SubSeq(c, 1, n - 1))
<1> DEFINE Block == [branch : Nat, type : EventType \cup {"none"}]
           p == SubSeq(c, 1, n - 1)
<1>1. /\ p \in Chains /\ Len(p) = n - 1 /\ \A i \in 1..(n - 1) : p[i] = c[i]
      /\ EventLedgers(p) = {i \in EventLedgers(c) : i < n}
  BY PrefixChain
<1>2. c \in Seq(Block) /\ Len(c) \in Nat /\ p \in Seq(Block) /\ n \in Nat
  BY <1>1 DEF Chains
<1> HIDE DEF p, Block
<1>3. ASSUME NEW i \in EventLedgers(p)
      PROVE  SubSeq(p, 1, i - 1) = SubSeq(c, 1, i - 1) /\ p[i] = c[i]
  <2>1. i \in 1..(n - 1)
    BY <1>1 DEF EventLedgers
  <2>2. /\ SubSeq(p, 1, i - 1) \in Seq(Block) /\ Len(SubSeq(p, 1, i - 1)) = i - 1
        /\ \A j \in 1..(i - 1) : SubSeq(p, 1, i - 1)[j] = p[j]
    BY <1>1, <1>2, <2>1
  <2>3. /\ SubSeq(c, 1, i - 1) \in Seq(Block) /\ Len(SubSeq(c, 1, i - 1)) = i - 1
        /\ \A j \in 1..(i - 1) : SubSeq(c, 1, i - 1)[j] = c[j]
    BY <1>2, <2>1
  <2>4. \A j \in 1..(i - 1) : p[j] = c[j]
    BY <1>1, <1>2, <2>1
  <2>5. \A j \in 1..Len(SubSeq(p, 1, i - 1)) :
          SubSeq(p, 1, i - 1)[j] = SubSeq(c, 1, i - 1)[j]
    BY <2>2, <2>3, <2>4
  <2> QED
    BY <1>1, <2>1, <2>2, <2>3, <2>5, SeqEqual
<1>4. \A i \in EventLedgers(p) : p[i].type \in Possible(SubSeq(p, 1, i - 1))
  BY <1>1, <1>3 DEF WellFormed
<1> QED
  BY <1>4 DEF p, WellFormed

-----------------------------------------------------------------------------
(* What the documents hold. *)

\* Every step of the system is a step of one of these operations.
LEMMA StepCases ==
    ASSUME [Next]_vars
    PROVE  \/ Grow \/ Reorg \/ StartBatch \/ RewindRow \/ RewindCache \/ RewindState
           \/ Fetch \/ InsertSyncEvent \/ ReadRow \/ WriteRow \/ WriteCache
           \/ EnqueueReceipt \/ EventApplied \/ FinishBatch \/ EventFailed \/ Crash
           \/ RetryDeadLetter \/ quarantineDeadLetter
           \/ \E v \in Resolvers :
                /\ UNCHANGED indexerVars
                /\ \/ ReadPurchase(v) \/ ReadCache(v) \/ AskChain(v, Settled(chain))
                   \/ WriteVerdict(v) \/ MirrorRevocation(v) \/ Fails(v)
           \/ UNCHANGED vars
BY DEF Next, runIndexerBatch, applyIndexedEvent, Operator, Download, resolveEntitlement

\* A fork is reported at a ledger.
LEMMA HistoryTyped ==
    ASSUME Typed
    PROVE  History \subseteq Checkpoint /\ detectFork \in Nat
<1>1. History \subseteq Checkpoint
  BY IndexerAssumption DEF Typed, History, Checkpoint, Ledger
<1>2. \A c \in History : c.ledger \in Nat /\ c.ledger <= MaxLedger
  BY <1>1, IndexerAssumption DEF Checkpoint
<1>3. LastMatch \in Nat
  <2> DEFINE B == {0} \cup {c.ledger : c \in Matching}
  <2>1. B \in SUBSET Nat /\ B # {} /\ MaxLedger \in Nat /\ \A b \in B : b <= MaxLedger
    BY <1>2, IndexerAssumption DEF Matching, Verifiable
  <2>2. Max(B) \in B
    BY <2>1, GreatestNumber
  <2> QED
    BY <2>1, <2>2 DEF LastMatch
<1>4. ASSUME Forked PROVE Min({c.ledger : c \in History}) \in Nat
  <2> DEFINE B == {c.ledger : c \in History}
  <2>1. B \in SUBSET Nat
    BY <1>2
  <2>2. B # {}
    BY <1>4 DEF Forked, Verifiable
  <2>3. \E n \in B : \A m \in B : n <= m
    BY <2>1, <2>2, SmallestNumber
  <2>4. Min(B) \in B
    BY <2>3 DEF Min
  <2> QED
    BY <2>1, <2>4
<1>5. detectFork \in Nat
  BY <1>3, <1>4 DEF detectFork, divergenceLedger
<1> QED
  BY <1>1, <1>5

\* The page fetched holds events of the chain, and its cursor is a ledger.
LEMMA PageTyped ==
    ASSUME Typed, NEW k \in Nat
    PROVE  /\ Page(k) \subseteq Events(chain)
           /\ \A e \in Page(k) : e.ledger > k
           /\ Cardinality(Page(k)) = Limit =>
                /\ Max({e.ledger : e \in Page(k)}) \in Ledger
                /\ \A e \in Page(k) : e.ledger <= Max({d.ledger : d \in Page(k)})
<1>1. Page(k) \subseteq Events(chain) /\ \A e \in Page(k) : e.ledger > k
  BY DEF Page
<1>2. ASSUME Cardinality(Page(k)) = Limit
      PROVE  /\ Max({e.ledger : e \in Page(k)}) \in Ledger
             /\ \A e \in Page(k) : e.ledger <= Max({d.ledger : d \in Page(k)})
  <2> DEFINE B == {e.ledger : e \in Page(k)}
  <2>1. Page(k) # {}
    BY <1>2, FS_EmptySet, IndexerAssumption
  <2>2. \A e \in Page(k) : e.ledger \in 1..Len(chain)
    BY <1>1, EventsTyped DEF Typed
  <2>3. Len(chain) \in Nat /\ Len(chain) <= MaxLedger /\ MaxLedger \in Nat
    BY ChainShape, IndexerAssumption DEF Typed
  <2>4. B \in SUBSET Nat /\ B # {} /\ \A b \in B : b <= MaxLedger
    BY <2>1, <2>2, <2>3
  <2>5. Max(B) \in B /\ \A b \in B : b <= Max(B)
    BY <2>3, <2>4, GreatestNumber
  <2> QED
    BY <2>3, <2>4, <2>5 DEF Ledger
<1> QED
  BY <1>1, <1>2

\* The row after an event.
LEMMA RowAfterTyped ==
    ASSUME Typed, NEW e \in IndexedEvent
    PROVE  /\ RowAfter(e) \in PurchaseRow \cup {None}
           /\ row # None => RowAfter(e) # None
           /\ e.type = "completed" => RowAfter(e) # None
<1>1. e.type \in EventType /\ e.ledger \in Nat /\ e.purchaseId \in Nat
  BY IndexerAssumption DEF IndexedEvent
<1>2. Settles[e.type] \in SettlementState /\ "Pending" \in SettlementState
  BY <1>1, SettlesFacts DEF SettlementState
<1>3. CASE e.type = "completed"
  <2>1. RowAfter(e) \in PurchaseRow
    BY <1>1, <1>2, <1>3 DEF RowAfter, PurchaseRow
  <2> QED
    BY <2>1, NoneIsNoValue
<1>4. CASE e.type # "completed" /\ Finds(e)
  <2>1. row \in PurchaseRow
    BY <1>4 DEF Finds, Typed
  <2>2. RowAfter(e) \in PurchaseRow
    BY <1>1, <1>2, <1>4, <2>1 DEF RowAfter, PurchaseRow
  <2> QED
    BY <1>4, <2>2, NoneIsNoValue
<1>5. CASE e.type # "completed" /\ ~Finds(e)
  BY <1>5 DEF RowAfter, Typed
<1> QED
  BY <1>3, <1>4, <1>5

\* Grow, Reorg: the chain is one.
LEMMA ChainStays ==
    ASSUME Typed, [Next]_vars
    PROVE  chain' \in Chains /\ branch' \in Nat
<1>1. CASE Grow
  <2>1. PICK type \in IF Possible(chain) = {} THEN {"none"} ELSE Possible(chain) :
          chain' = Append(chain, [branch |-> branch, type |-> type])
    BY <1>1 DEF Grow
  <2>2. type \in EventType \cup {"none"}
    BY <2>1, PossibleMeans
  <2>3. chain' \in Chains
    BY <1>1, <2>1, <2>2, ChainGrows DEF Grow, Typed
  <2> QED
    BY <1>1, <2>3 DEF Grow, Typed
<1>2. CASE Reorg
  <2>1. PICK n \in 1..Len(chain) :
          \E type \in {"none"} \cup Possible(SubSeq(chain, 1, n - 1)) :
            chain' = Append(SubSeq(chain, 1, n - 1), [branch |-> branch + 1, type |-> type])
    BY <1>2 DEF Reorg
  <2>0. PICK type \in {"none"} \cup Possible(SubSeq(chain, 1, n - 1)) :
          chain' = Append(SubSeq(chain, 1, n - 1), [branch |-> branch + 1, type |-> type])
    BY <2>1
  <2>2. type \in EventType \cup {"none"}
    BY <2>0, PossibleMeans
  <2>3. /\ SubSeq(chain, 1, n - 1) \in Chains
        /\ Len(SubSeq(chain, 1, n - 1)) = n - 1
    BY PrefixChain DEF Typed
  <2>4. n - 1 < MaxLedger
    BY ChainShape, IndexerAssumption DEF Typed
  <2>5. branch + 1 \in Nat
    BY DEF Typed
  <2>6. [branch |-> branch + 1, type |-> type] \in [branch : Nat, type : EventType \cup {"none"}]
    BY <2>2, <2>5
  <2>7. chain' \in Chains
    BY <2>0, <2>3, <2>4, <2>6, ChainGrows
  <2> QED
    BY <1>2, <2>5, <2>7 DEF Reorg
<1>3. CASE chain' = chain /\ branch' = branch
  BY <1>3 DEF Typed
<1>4. Grow \/ Reorg \/ (chain' = chain /\ branch' = branch)
  BY StepCases DEF StartBatch, RewindRow, RewindCache, RewindState, Fetch,
       InsertSyncEvent, ReadRow, WriteRow, WriteCache, EnqueueReceipt, EventApplied,
       FinishBatch, EventFailed, Crash, RetryDeadLetter, quarantineDeadLetter, vars,
       indexerVars
<1> QED
  BY <1>1, <1>2, <1>3, <1>4

\* What other documents a new block or a reorganisation changes.
LEMMA OutdateTyped ==
    ASSUME resolve \in [Resolvers -> Resolve], Outdate
    PROVE  /\ resolve' \in [Resolvers -> Resolve]
           /\ \A v \in Resolvers :
                /\ resolve[v].stage = "idle" => resolve'[v] = resolve[v]
                /\ resolve[v].stage # "idle" =>
                     resolve'[v] = [resolve[v] EXCEPT !.stale = TRUE]
                /\ resolve'[v].stage = resolve[v].stage
                /\ resolve'[v].seen = resolve[v].seen
                /\ resolve'[v].answer = resolve[v].answer
                /\ resolve'[v].stage # "idle" => resolve'[v].stale
<1>1. resolve' = [v \in Resolvers |->
                    IF resolve[v].stage = "idle" THEN resolve[v]
                    ELSE [resolve[v] EXCEPT !.stale = TRUE]]
  BY DEF Outdate
<1> SUFFICES ASSUME NEW v \in Resolvers
             PROVE  /\ resolve'[v] \in Resolve
                    /\ resolve[v].stage = "idle" => resolve'[v] = resolve[v]
                    /\ resolve[v].stage # "idle" =>
                         resolve'[v] = [resolve[v] EXCEPT !.stale = TRUE]
                    /\ resolve'[v].stage = resolve[v].stage
                    /\ resolve'[v].seen = resolve[v].seen
                    /\ resolve'[v].answer = resolve[v].answer
                    /\ resolve'[v].stage # "idle" => resolve'[v].stale
  BY <1>1
<1>2. resolve'[v] = IF resolve[v].stage = "idle" THEN resolve[v]
                    ELSE [resolve[v] EXCEPT !.stale = TRUE]
  BY <1>1
<1> DEFINE r == resolve[v]
<1>3. r \in Resolve
  OBVIOUS
<1>4. /\ [r EXCEPT !.stale = TRUE] \in Resolve
      /\ [r EXCEPT !.stale = TRUE].stage = r.stage
      /\ [r EXCEPT !.stale = TRUE].seen = r.seen
      /\ [r EXCEPT !.stale = TRUE].answer = r.answer
      /\ [r EXCEPT !.stale = TRUE].stale
  <2> HIDE DEF r
  <2> QED
    BY <1>3 DEF Resolve
<1> QED
  BY <1>2, <1>3, <1>4

\* Every step keeps the types.
LEMMA TypedStays ==
    ASSUME Typed, ResolversInStep, [Next]_vars
    PROVE  Typed'
<1>0. chain' \in Chains /\ branch' \in Nat
  BY ChainStays
<1>a. ASSUME Outdate PROVE resolve' \in [Resolvers -> Resolve]
  BY <1>a, OutdateTyped DEF Typed
<1>b. \A e \in IndexedEvent : e.ledger \in Ledger /\ e.ledger # 0
  BY IndexerAssumption DEF IndexedEvent, Ledger
<1>c. NoBatch \in Batch /\ Idle \in Apply
  BY IndexerAssumption DEF NoBatch, Batch, Ledger, Idle, Apply
<1>1. CASE Grow
  BY <1>0, <1>1 DEF Grow, Typed, entitlementVars
<1>2. CASE Reorg
  BY <1>0, <1>a, <1>2 DEF Reorg, Typed
<1>3. CASE StartBatch
  <2>1. batch' \in Batch
    <3>1. PICK stage \in {"fetch", "rewindRow"} :
            batch' = [NoBatch EXCEPT !.stage = stage, !.divergence = detectFork]
      BY <1>3 DEF StartBatch
    <3> QED
      BY <1>c, <3>1, HistoryTyped DEF Batch
  <2> QED
    BY <1>0, <1>3, <2>1 DEF StartBatch, Typed, entitlementVars
<1>4. CASE RewindRow
  <2>1. row' \in PurchaseRow \cup {None}
    <3>1. CASE Orphans(batch.divergence)
      <4>1. row \in PurchaseRow
        BY <3>1 DEF Orphans, Typed
      <4>2. [row EXCEPT !.settlementState = "Orphaned"] \in PurchaseRow
        BY <4>1 DEF PurchaseRow, SettlementState
      <4> QED
        BY <1>4, <3>1, <4>2 DEF RewindRow
    <3>2. CASE ~Orphans(batch.divergence)
      BY <1>4, <3>2 DEF RewindRow, Typed
    <3> QED
      BY <3>1, <3>2
  <2>2. resolve' \in [Resolvers -> Resolve]
    BY <1>4, <1>a DEF RewindRow, Typed
  <2>3. batch' = [batch EXCEPT !.stage = "rewindCache"]
        \/ batch' = [batch EXCEPT !.stage = "rewindState"]
    BY <1>4 DEF RewindRow
  <2>4. unrevoked' \in BOOLEAN /\ reflected' \subseteq IndexedEvent
        /\ fetched' \subseteq IndexedEvent
    BY <1>4 DEF RewindRow, Typed
  <2> QED
    BY <1>0, <1>4, <2>1, <2>2, <2>3, <2>4 DEF RewindRow, Typed, Batch
<1>5. CASE RewindCache
  <2>1. resolve' \in [Resolvers -> Resolve]
    BY <1>5, <1>a DEF RewindCache, Typed
  <2>2. cache' \in CacheState \cup {None} /\ failures' \in Nat
    BY <1>5 DEF RewindCache, Typed, CacheState
  <2>4. unrevoked' = FALSE \/ unrevoked' = unrevoked
    BY <1>5 DEF RewindCache
  <2>5. unrevoked' \in BOOLEAN
    BY <2>4 DEF Typed
  <2>3. batch' \in Batch
    BY <1>5 DEF RewindCache, Typed, Batch
  <2> QED
    BY <1>0, <1>5, <2>1, <2>2, <2>3, <2>5 DEF RewindCache, Typed
<1>6. CASE RewindState
  <2>1. Rewound(batch.divergence) \in
          [cursor : Ledger, lastLedger : Ledger, lastHash : Hash \cup {None},
           checkpoints : SUBSET Checkpoint]
    BY IndexerAssumption DEF Rewound, Typed, Ledger
  <2>2. batch' \in Batch
    BY <1>6 DEF RewindState, Typed, Batch
  <2> QED
    BY <1>0, <1>6, <2>1, <2>2 DEF RewindState, Typed, entitlementVars
<1>7. CASE Fetch
  <2>1. Len(chain) \in Ledger
    BY ChainShape, IndexerAssumption DEF Typed, Ledger
  <2>2. sync.cursor \in Nat /\ sync.cursor \in Ledger /\ sync.lastLedger \in Ledger
    BY IndexerAssumption DEF Typed, Ledger
  <2>3. Page(sync.cursor) \subseteq IndexedEvent
    BY <2>2, PageTyped, EventsTyped DEF Typed
  <2>4. (IF Cardinality(Page(sync.cursor)) = Limit
         THEN Max({e.ledger : e \in Page(sync.cursor)}) ELSE Len(chain)) \in Ledger
    BY <2>1, <2>2, PageTyped
  <2>5. fetched' \subseteq IndexedEvent
    BY <1>7, <2>3 DEF Fetch, Typed
  <2>6. batch' \in Batch
    BY <1>7, <2>1, <2>2, <2>3, <2>4 DEF Fetch, Typed, Batch
  <2> QED
    BY <1>0, <1>7, <2>5, <2>6 DEF Fetch, Typed, entitlementVars
<1>8. CASE InsertSyncEvent
  <2>1. PICK e \in batch.todo :
          /\ syncEvents' = syncEvents \cup {eventId(e, TRUE)}
          /\ apply' = [stage |-> IF e.type = "completed" THEN "row" ELSE "read",
                       event |-> e, first |-> eventId(e, TRUE) \notin syncEvents,
                       found |-> FALSE]
          /\ batch' = [batch EXCEPT !.todo = @ \ {e}]
    BY <1>8 DEF InsertSyncEvent
  <2>2. e \in IndexedEvent /\ e # None
    BY NoneIsNoEvent DEF Typed, Batch
  <2>3. syncEvents' \subseteq IndexedEvent \X BOOLEAN
    <3>1. eventId(e, TRUE) \in IndexedEvent \X BOOLEAN
      BY <2>2 DEF eventId
    <3> QED
      BY <2>1, <3>1 DEF Typed
  <2>4. /\ apply' \in Apply
        /\ apply'.event # None /\ apply'.stage # "idle"
    BY <2>1, <2>2 DEF Apply
  <2>5. batch' \in Batch
    BY <2>1 DEF Typed, Batch
  <2>6. UNCHANGED <<entitlementVars, chain, branch, sync, deadLetters,
                    receipts, failures, reflected, fetched, outOfTurn, unrevoked>>
    BY <1>8 DEF InsertSyncEvent
  <2> QED
    BY <1>0, <2>3, <2>4, <2>5, <2>6 DEF Typed, entitlementVars
<1>9. CASE ReadRow
  <2>1. apply.event \in IndexedEvent /\ apply.stage # "idle"
    BY <1>9 DEF ReadRow, Typed, Apply
  <2>2. reflected' \subseteq IndexedEvent
    BY <1>9, <2>1 DEF ReadRow, Typed
  <2>3. isStaleReplay(apply.event) \in BOOLEAN /\ Finds(apply.event) \in BOOLEAN
    BY DEF isStaleReplay, Finds
  <2>4. /\ apply' \in Apply
        /\ apply'.event = apply.event /\ apply'.stage # "idle"
    BY <1>9, <2>3 DEF ReadRow, Typed, Apply
  <2> QED
    BY <1>0, <1>9, <2>1, <2>2, <2>4 DEF ReadRow, Typed, entitlementVars
<1>10. CASE WriteRow
  <2>1. apply.event \in IndexedEvent /\ apply.stage # "idle"
    BY <1>10 DEF WriteRow, Typed, Apply
  <2>2. row' \in PurchaseRow \cup {None}
    BY <1>10, <2>1, RowAfterTyped DEF WriteRow
  <2>3. reflected' \subseteq IndexedEvent
    BY <1>10, <2>1 DEF WriteRow, Typed, ReflectedAfter
  <2> QED
    BY <1>0, <1>a, <1>10, <2>1, <2>2, <2>3 DEF WriteRow, Typed, To, Apply
<1>11. CASE WriteCache
  <2>1. cache' \in CacheState \cup {None}
    BY <1>11 DEF WriteCache, CacheAfter, CacheState
  <2> QED
    BY <1>0, <1>a, <1>11, <2>1 DEF WriteCache, Typed, To, Apply
<1>12. CASE EnqueueReceipt
  BY <1>0, <1>12 DEF EnqueueReceipt, Typed, To, entitlementVars, Apply
<1>13. CASE EventApplied
  <2>1. apply.event \in IndexedEvent
    BY <1>13 DEF EventApplied, Typed, Apply
  <2>2. Buried(apply.event) \in
          [open : SUBSET IndexedEvent, quarantined : SUBSET IndexedEvent]
    BY DEF Buried, Typed
  <2>3. apply' = Idle /\ deadLetters' = Buried(apply.event)
    BY <1>13 DEF EventApplied
  <2>4. batch' \in Batch
    BY <1>b, <1>13, <2>1 DEF EventApplied, Typed, Batch
  <2> QED
    BY <1>0, <1>c, <1>13, <2>2, <2>3, <2>4 DEF EventApplied, Typed, Idle, entitlementVars
<1>14. CASE FinishBatch
  <2> DEFINE ledger == IF batch.failed \/ batch.ledger = 0 THEN batch.okLedger ELSE batch.ledger
             cursor == IF batch.failed \/ batch.cursor = 0 THEN batch.okCursor ELSE batch.cursor
             moved == ledger # 0 /\ ledger # sync.lastLedger
  <2>1. ledger \in Ledger /\ cursor \in Ledger
    BY DEF Typed, Batch
  <2>2. PICK readable \in BOOLEAN :
          LET hash == IF moved /\ readable /\ ledger <= Len(chain)
                      THEN HashAt(chain, ledger) ELSE sync.lastHash
          IN  /\ sync' = [cursor |-> cursor, lastLedger |-> ledger, lastHash |-> hash,
                          checkpoints |-> IF moved /\ hash # None
                                          THEN Checkpointed(ledger, hash) ELSE History]
              /\ failures' = IF readable THEN failures ELSE failures + 1
    BY <1>14 DEF FinishBatch
  <2> DEFINE hash == IF moved /\ readable /\ ledger <= Len(chain)
                     THEN HashAt(chain, ledger) ELSE sync.lastHash
  <2>3. hash \in Hash \cup {None}
    <3>1. ASSUME moved, ledger <= Len(chain) PROVE HashAt(chain, ledger) \in Hash
      <4>1. ledger \in 1..Len(chain)
        BY <2>1, <3>1, IndexerAssumption, ChainShape DEF Ledger, Typed
      <4>2. chain[ledger].branch \in Nat /\ ledger \in Nat
        BY <4>1, ChainShape DEF Typed
      <4> HIDE DEF ledger
      <4> QED
        BY <4>2 DEF HashAt, Hash
    <3> QED
      BY <3>1 DEF Typed
  <2>4. ASSUME moved, hash # None PROVE Checkpointed(ledger, hash) \subseteq Checkpoint
    <3>1. [ledger |-> ledger, hash |-> hash] \in Checkpoint
      BY <2>1, <2>3, <2>4, IndexerAssumption DEF Checkpoint, Ledger
    <3> HIDE DEF ledger, hash
    <3> QED
      BY <3>1, HistoryTyped DEF Checkpointed
  <2>5. sync' \in [cursor : Ledger, lastLedger : Ledger, lastHash : Hash \cup {None},
                   checkpoints : SUBSET Checkpoint]
    <3> HIDE DEF ledger, cursor, moved
    <3> QED
      BY <2>1, <2>2, <2>3, <2>4, HistoryTyped
  <2>6. failures' \in Nat
    BY <2>2 DEF Typed
  <2>7. batch' = NoBatch
    BY <1>14 DEF FinishBatch
  <2>8. batch' \in Batch
    BY <1>c, <2>7
  <2> HIDE DEF ledger, cursor, moved
  <2> QED
    BY <1>0, <1>14, <2>5, <2>6, <2>8 DEF FinishBatch, Typed, entitlementVars
<1>15. CASE EventFailed
  <2>1. apply.event \in IndexedEvent
    BY <1>15 DEF EventFailed, Typed, Apply
  <2>2. batch' \in Batch
    BY <1>15 DEF EventFailed, Typed, Batch
  <2>3. deadLetters' \in [open : SUBSET IndexedEvent, quarantined : SUBSET IndexedEvent]
    BY <1>15, <2>1 DEF EventFailed, Typed
  <2>4. apply' = Idle /\ failures' \in Nat
    BY <1>15 DEF EventFailed, Typed
  <2> QED
    BY <1>0, <1>c, <1>15, <2>2, <2>3, <2>4 DEF EventFailed, Typed, Idle, entitlementVars
<1>16. CASE Crash
  <2>1. batch' \in Batch
    BY <1>c, <1>16 DEF Crash
  <2> QED
    BY <1>0, <1>c, <1>16, <2>1 DEF Crash, Typed, Idle, entitlementVars
<1>17. CASE RetryDeadLetter
  <2>1. PICK e \in deadLetters.open, network \in BOOLEAN :
          LET applies == ~isStaleReplay(e)
              first == eventId(e, network) \notin syncEvents
          IN
          /\ syncEvents' = syncEvents \cup {eventId(e, network)}
          /\ row' = IF applies THEN RowAfter(e) ELSE row
          /\ cache' = IF applies /\ TouchesCache(e, Finds(e)) THEN CacheAfter(e) ELSE cache
          /\ receipts' = IF e.type = "completed" /\ first THEN receipts + 1 ELSE receipts
          /\ deadLetters' = Buried(e)
          /\ reflected' = IF applies THEN ReflectedAfter(e) ELSE reflected \cup {e}
    BY <1>17 DEF RetryDeadLetter
  <2>2. e \in IndexedEvent
    BY DEF Typed
  <2>3. row' \in PurchaseRow \cup {None}
    BY <2>1, <2>2, RowAfterTyped DEF Typed
  <2>4. cache' \in CacheState \cup {None}
    BY <2>1 DEF Typed, CacheAfter, CacheState
  <2>5. syncEvents' \subseteq IndexedEvent \X BOOLEAN
    BY <2>1, <2>2 DEF Typed, eventId
  <2>6. receipts' \in Nat
    BY <2>1 DEF Typed
  <2>7. deadLetters' \in [open : SUBSET IndexedEvent, quarantined : SUBSET IndexedEvent]
    BY <2>1 DEF Buried, Typed
  <2>8. reflected' \subseteq IndexedEvent
    BY <2>1, <2>2 DEF Typed, ReflectedAfter
  <2>9. outOfTurn' \in BOOLEAN
    BY <1>17 DEF RetryDeadLetter, Typed
  <2>10. resolve' \in [Resolvers -> Resolve]
    BY <1>17, <1>a DEF RetryDeadLetter
  <2>11. UNCHANGED <<learnt, staleFill, sync, batch, apply, failures, fetched, unrevoked>>
    BY <1>17 DEF RetryDeadLetter
  <2> QED
    BY <1>0, <2>3, <2>4, <2>5, <2>6, <2>7, <2>8, <2>9, <2>10, <2>11 DEF Typed
<1>18. CASE quarantineDeadLetter
  <2>1. deadLetters' \in [open : SUBSET IndexedEvent, quarantined : SUBSET IndexedEvent]
    BY <1>18 DEF quarantineDeadLetter, Typed
  <2> QED
    BY <1>0, <1>18, <2>1 DEF quarantineDeadLetter, Typed, entitlementVars
<1>19. ASSUME NEW v \in Resolvers, UNCHANGED indexerVars,
              \/ ReadPurchase(v) \/ ReadCache(v) \/ AskChain(v, Settled(chain))
              \/ WriteVerdict(v) \/ MirrorRevocation(v) \/ Fails(v)
       PROVE  /\ row' \in PurchaseRow \cup {None}
              /\ cache' \in CacheState \cup {None}
              /\ resolve' \in [Resolvers -> Resolve]
              /\ {learnt, staleFill}' \subseteq BOOLEAN
  <2> DEFINE r == resolve[v]
  <2>0. r \in Resolve /\ NoResolve \in Resolve
    BY DEF Typed, Resolve, NoResolve
  <2>a. ASSUME NEW q \in Resolve, resolve' = [resolve EXCEPT ![v] = q]
        PROVE  resolve' \in [Resolvers -> Resolve]
    BY <2>a DEF Typed
  <2>1. CASE ReadPurchase(v)
    <3>1. [r EXCEPT !.stage = "cache", !.seen = row] \in Resolve
      BY <2>0 DEF Resolve, Typed
    <3>2. resolve' = [resolve EXCEPT ![v] = [r EXCEPT !.stage = "cache", !.seen = row]]
      BY <2>1 DEF ReadPurchase
    <3> QED
      BY <2>1, <2>a, <3>1, <3>2 DEF ReadPurchase, Typed
  <2>2. CASE ReadCache(v)
    <3>1. [r EXCEPT !.stage = "chain"] \in Resolve
      BY <2>0 DEF Resolve
    <3>2. \/ resolve' = [resolve EXCEPT ![v] = [r EXCEPT !.stage = "chain"]]
          \/ resolve' = [resolve EXCEPT ![v] = NoResolve]
      BY <2>2 DEF ReadCache
    <3>3. resolve' \in [Resolvers -> Resolve]
      BY <2>0, <2>a, <3>1, <3>2
    <3> QED
      BY <2>2, <3>3 DEF ReadCache, Typed
  <2>3. CASE AskChain(v, Settled(chain))
    <3>1. PICK answer \in {ChainAnswer(r.seen, Settled(chain)), None} :
            resolve' = IF r.seen = None /\ answer = None
                       THEN [resolve EXCEPT ![v] = NoResolve]
                       ELSE [resolve EXCEPT ![v].stage = "write", ![v].answer = answer]
      BY <2>3 DEF AskChain
    <3>2. /\ Settled(chain) \in Seq(SettlementState)
          /\ \A p \in DOMAIN Settled(chain) : Settled(chain)[p] \in SettlementState
      BY SettledType DEF Typed
    <3>3. Settled(chain) # <<>> => Len(Settled(chain)) \in DOMAIN Settled(chain)
      <4> HIDE DEF Typed
      <4>1. ASSUME NEW s \in Seq(SettlementState), s # <<>> PROVE Len(s) \in DOMAIN s
        BY <4>1
      <4> QED
        BY <3>2, <4>1
    <3>4. answer \in SettlementState \cup {None}
      BY <3>1, <3>2, <3>3 DEF ChainAnswer
    <3>5. [r EXCEPT !.stage = "write", !.answer = answer] \in Resolve
      BY <2>0, <3>4 DEF Resolve
    <3>6. \/ resolve' = [resolve EXCEPT ![v] = NoResolve]
          \/ resolve' = [resolve EXCEPT ![v] = [r EXCEPT !.stage = "write", !.answer = answer]]
      BY <3>1
    <3>7. resolve' \in [Resolvers -> Resolve]
      BY <2>0, <2>a, <3>5, <3>6
    <3> QED
      BY <2>3, <3>7 DEF AskChain, Typed
  <2>4. CASE WriteVerdict(v)
    <3>1. [r EXCEPT !.stage = "mirror"] \in Resolve
      BY <2>0 DEF Resolve
    <3>2. \/ resolve' = [resolve EXCEPT ![v] = [r EXCEPT !.stage = "mirror"]]
          \/ resolve' = [resolve EXCEPT ![v] = NoResolve]
      BY <2>4 DEF WriteVerdict
    <3>3. resolve' \in [Resolvers -> Resolve]
      BY <2>0, <2>a, <3>1, <3>2
    <3>4. cache' \in CacheState
      BY <2>4 DEF WriteVerdict, Verdict, CacheState
    <3>5. learnt' \in BOOLEAN /\ staleFill' \in BOOLEAN
      BY <2>4 DEF WriteVerdict
    <3>6. row' = row
      BY <2>4 DEF WriteVerdict
    <3> QED
      BY <3>3, <3>4, <3>5, <3>6 DEF Typed
  <2>5. CASE MirrorRevocation(v)
    <3>1. r.seen # None /\ r.answer \in Revoking /\ row # None
      BY <2>5 DEF MirrorRevocation, ResolversInStep
    <3>2. row \in PurchaseRow
      BY <3>1 DEF Typed
    <3>3. [row EXCEPT !.settlementState = r.answer] \in PurchaseRow
      BY <3>1, <3>2 DEF PurchaseRow, Revoking, SettlementState
    <3>4. row' \in PurchaseRow
      BY <2>5, <3>3 DEF MirrorRevocation
    <3>5. resolve' \in [Resolvers -> Resolve]
      BY <2>0, <2>5, <2>a DEF MirrorRevocation
    <3>6. learnt' \in BOOLEAN /\ staleFill' \in BOOLEAN /\ cache' = cache
      BY <2>5 DEF MirrorRevocation, Typed
    <3> QED
      BY <3>4, <3>5, <3>6 DEF Typed
  <2>6. CASE Fails(v)
    <3>1. resolve' \in [Resolvers -> Resolve]
      BY <2>0, <2>6, <2>a DEF Fails
    <3> QED
      BY <2>6, <3>1 DEF Fails, Typed
  <2> QED
    BY <1>19, <2>1, <2>2, <2>3, <2>4, <2>5, <2>6
<1>20. ASSUME UNCHANGED indexerVars,
              row' \in PurchaseRow \cup {None}, cache' \in CacheState \cup {None},
              resolve' \in [Resolvers -> Resolve], {learnt, staleFill}' \subseteq BOOLEAN
       PROVE  Typed'
  BY <1>0, <1>20 DEF Typed, indexerVars
<1>21. CASE UNCHANGED vars
  BY <1>0, <1>21 DEF Typed, vars, entitlementVars, indexerVars
<1> QED
  BY <1>1, <1>2, <1>3, <1>4, <1>5, <1>6, <1>7, <1>8, <1>9, <1>10, <1>11, <1>12, <1>13,
     <1>14, <1>15, <1>16, <1>17, <1>18, <1>19, <1>20, <1>21, StepCases

\* The indexer, the operator and the chain leave the downloads in progress
\* alone or outdate them.
LEMMA StepsOfOthers ==
    ASSUME [Next]_vars
    PROVE  \/ \E v \in Resolvers :
                /\ UNCHANGED indexerVars
                /\ \/ ReadPurchase(v) \/ ReadCache(v) \/ AskChain(v, Settled(chain))
                   \/ WriteVerdict(v) \/ MirrorRevocation(v) \/ Fails(v)
           \/ /\ Outdate \/ UNCHANGED resolve
              /\ UNCHANGED <<learnt, staleFill>>
<1>1. Grow => UNCHANGED <<resolve, learnt, staleFill>>
  BY DEF Grow, entitlementVars
<1>2. Reorg => Outdate /\ UNCHANGED <<learnt, staleFill>>
  BY DEF Reorg
<1>3. StartBatch => UNCHANGED <<resolve, learnt, staleFill>>
  BY DEF StartBatch, entitlementVars
<1>4. RewindRow => (Outdate \/ UNCHANGED resolve) /\ UNCHANGED <<learnt, staleFill>>
  BY DEF RewindRow
<1>5. RewindCache => (Outdate \/ UNCHANGED resolve) /\ UNCHANGED <<learnt, staleFill>>
  BY DEF RewindCache
<1>6. RewindState => UNCHANGED <<resolve, learnt, staleFill>>
  BY DEF RewindState, entitlementVars
<1>7. Fetch => UNCHANGED <<resolve, learnt, staleFill>>
  BY DEF Fetch, entitlementVars
<1>8. InsertSyncEvent => UNCHANGED <<resolve, learnt, staleFill>>
  BY DEF InsertSyncEvent, entitlementVars
<1>9. ReadRow => UNCHANGED <<resolve, learnt, staleFill>>
  BY DEF ReadRow, entitlementVars
<1>10. WriteRow => Outdate /\ UNCHANGED <<learnt, staleFill>>
  BY DEF WriteRow
<1>11. WriteCache => Outdate /\ UNCHANGED <<learnt, staleFill>>
  BY DEF WriteCache
<1>12. EnqueueReceipt => UNCHANGED <<resolve, learnt, staleFill>>
  BY DEF EnqueueReceipt, entitlementVars
<1>13. EventApplied => UNCHANGED <<resolve, learnt, staleFill>>
  BY DEF EventApplied, entitlementVars
<1>14. FinishBatch => UNCHANGED <<resolve, learnt, staleFill>>
  BY DEF FinishBatch, entitlementVars
<1>15. EventFailed => UNCHANGED <<resolve, learnt, staleFill>>
  BY DEF EventFailed, entitlementVars
<1>16. Crash => UNCHANGED <<resolve, learnt, staleFill>>
  BY DEF Crash, entitlementVars
<1>17. RetryDeadLetter => Outdate /\ UNCHANGED <<learnt, staleFill>>
  BY DEF RetryDeadLetter
<1>18. quarantineDeadLetter => UNCHANGED <<resolve, learnt, staleFill>>
  BY DEF quarantineDeadLetter, entitlementVars
<1>19. UNCHANGED vars => UNCHANGED <<resolve, learnt, staleFill>>
  BY DEF vars, entitlementVars
<1> QED
  BY <1>1, <1>2, <1>3, <1>4, <1>5, <1>6, <1>7, <1>8, <1>9, <1>10, <1>11, <1>12, <1>13,
     <1>14, <1>15, <1>16, <1>17, <1>18, <1>19, StepCases

\* What each step of the system does to the row.
LEMMA RowSteps ==
    ASSUME [Next]_vars
    PROVE  \/ UNCHANGED row
           \/ RewindRow /\ Orphans(batch.divergence)
           \/ WriteRow /\ row' = RowAfter(apply.event)
           \/ RetryDeadLetter /\ \E e \in deadLetters.open : row' = RowAfter(e)
           \/ \E v \in Resolvers : MirrorRevocation(v) /\ UNCHANGED indexerVars
<1>1. CASE RewindRow
  BY <1>1 DEF RewindRow
<1>2. CASE WriteRow
  BY <1>2 DEF WriteRow
<1>3. CASE RetryDeadLetter
  BY <1>3 DEF RetryDeadLetter
<1>4. ASSUME NEW v \in Resolvers,
             \/ ReadPurchase(v) \/ ReadCache(v) \/ AskChain(v, Settled(chain))
             \/ WriteVerdict(v) \/ MirrorRevocation(v) \/ Fails(v)
      PROVE  UNCHANGED row \/ MirrorRevocation(v)
  BY <1>4 DEF ReadPurchase, ReadCache, AskChain, WriteVerdict, Fails
<1>5. Grow \/ Reorg \/ StartBatch \/ RewindCache \/ RewindState \/ Fetch
      \/ ReadRow \/ WriteCache \/ EnqueueReceipt \/ EventApplied => UNCHANGED row
  BY DEF Grow, Reorg, StartBatch, RewindCache, RewindState, Fetch, ReadRow, WriteCache,
     EnqueueReceipt, EventApplied, entitlementVars
<1>6. InsertSyncEvent \/ FinishBatch \/ EventFailed \/ Crash \/ quarantineDeadLetter
      \/ UNCHANGED vars => UNCHANGED row
  BY DEF InsertSyncEvent, FinishBatch, EventFailed, Crash, quarantineDeadLetter,
     entitlementVars, vars
<1> QED
  BY <1>1, <1>2, <1>3, <1>4, <1>5, <1>6, StepCases

\* The row stays, and downloads see it.
LEMMA ResolversStayInStep ==
    ASSUME Typed, ResolversInStep, [Next]_vars
    PROVE  ResolversInStep' /\ (row # None => row' # None)
<1>1. ASSUME row # None PROVE row' # None
  <2>1. row \in PurchaseRow
    BY <1>1 DEF Typed
  <2>2. CASE RewindRow /\ Orphans(batch.divergence)
    <3>1. [row EXCEPT !.settlementState = "Orphaned"] \in PurchaseRow
      BY <2>1 DEF PurchaseRow, SettlementState
    <3> QED
      BY <2>2, <3>1, NoneIsNoValue DEF RewindRow
  <2>3. CASE WriteRow /\ row' = RowAfter(apply.event)
    <3>1. apply.event \in IndexedEvent
      BY <2>3 DEF WriteRow, Typed, Apply
    <3> QED
      BY <1>1, <2>3, <3>1, RowAfterTyped
  <2>4. CASE \E e \in deadLetters.open : row' = RowAfter(e)
    BY <1>1, <2>4, RowAfterTyped DEF Typed
  <2>5. CASE \E v \in Resolvers : MirrorRevocation(v) /\ UNCHANGED indexerVars
    <3>1. PICK v \in Resolvers : MirrorRevocation(v)
      BY <2>5
    <3>2. [row EXCEPT !.settlementState = resolve[v].answer] \in PurchaseRow
      BY <2>1, <3>1 DEF MirrorRevocation, ResolversInStep, PurchaseRow, Revoking,
         SettlementState
    <3> QED
      BY <3>1, <3>2, NoneIsNoValue DEF MirrorRevocation
  <2> QED
    BY <1>1, <2>2, <2>3, <2>4, <2>5, RowSteps
<1> SUFFICES ASSUME NEW w \in Resolvers
             PROVE  /\ resolve'[w].seen # None => row' # None
                    /\ resolve'[w].stage = "idle" => resolve'[w] = NoResolve
                    /\ resolve'[w].stage = "mirror" =>
                         /\ resolve'[w].seen # None /\ resolve'[w].answer \in Revoking
                         /\ learnt'
  BY <1>1 DEF ResolversInStep
<1>2. /\ resolve[w].seen # None => row # None
      /\ resolve[w].stage = "idle" => resolve[w] = NoResolve
      /\ resolve[w].stage = "mirror" =>
           resolve[w].seen # None /\ resolve[w].answer \in Revoking /\ learnt
  BY DEF ResolversInStep
<1>3. CASE (Outdate \/ UNCHANGED resolve) /\ UNCHANGED <<learnt, staleFill>>
  <2>1. /\ resolve[w].stage = "idle" => resolve'[w] = resolve[w]
        /\ resolve'[w].stage = resolve[w].stage
        /\ resolve'[w].seen = resolve[w].seen
        /\ resolve'[w].answer = resolve[w].answer
    BY <1>3, OutdateTyped DEF Typed
  <2> QED
    BY <1>1, <1>2, <1>3, <2>1
<1>4. ASSUME NEW v \in Resolvers,
             \/ ReadPurchase(v) \/ ReadCache(v) \/ AskChain(v, Settled(chain))
             \/ WriteVerdict(v) \/ MirrorRevocation(v) \/ Fails(v)
      PROVE  /\ resolve'[w].seen # None => row' # None
             /\ resolve'[w].stage = "idle" => resolve'[w] = NoResolve
             /\ resolve'[w].stage = "mirror" =>
                  /\ resolve'[w].seen # None /\ resolve'[w].answer \in Revoking
                  /\ learnt'
  <2> DEFINE r == resolve[v]
  <2>0. r \in Resolve /\ resolve \in [Resolvers -> Resolve]
    BY DEF Typed
  <2>a. NoResolve.seen = None /\ NoResolve.stage = "idle"
    BY DEF NoResolve
  <2>b. learnt => learnt'
    BY <1>4 DEF ReadPurchase, ReadCache, AskChain, WriteVerdict, MirrorRevocation, Fails
  <2>c. CASE w # v
    <3>1. resolve'[w] = resolve[w]
      BY <1>4, <2>c, <2>0 DEF ReadPurchase, ReadCache, AskChain, WriteVerdict,
         MirrorRevocation, Fails
    <3> QED
      BY <1>1, <1>2, <2>b, <3>1
  <2>1. CASE w = v /\ ReadPurchase(v)
    <3>1. resolve'[w] = [r EXCEPT !.stage = "cache", !.seen = row] /\ row' = row
      BY <2>0, <2>1 DEF ReadPurchase
    <3> QED
      BY <2>0, <3>1 DEF Resolve
  <2>2. CASE w = v /\ ReadCache(v)
    <3>1. \/ resolve'[w] = [r EXCEPT !.stage = "chain"]
          \/ resolve'[w] = NoResolve
      BY <2>0, <2>2 DEF ReadCache
    <3> QED
      BY <1>1, <1>2, <2>0, <2>2, <2>a, <3>1 DEF Resolve
  <2>3. CASE w = v /\ AskChain(v, Settled(chain))
    <3>1. PICK answer : \/ resolve'[w] = [r EXCEPT !.stage = "write", !.answer = answer]
                        \/ resolve'[w] = NoResolve
      BY <2>0, <2>3 DEF AskChain
    <3> QED
      BY <1>1, <1>2, <2>0, <2>3, <2>a, <3>1 DEF Resolve
  <2>4. CASE w = v /\ WriteVerdict(v)
    <3>1. \/ /\ Verdict(r) = "revoked"
             /\ resolve'[w] = [r EXCEPT !.stage = "mirror"]
             /\ learnt'
          \/ resolve'[w] = NoResolve
      BY <2>0, <2>4 DEF WriteVerdict
    <3>2. Verdict(r) = "revoked" => r.seen # None /\ r.answer \in Revoking
      BY DEF Verdict
    <3> QED
      BY <1>1, <1>2, <2>0, <2>4, <2>a, <3>1, <3>2 DEF Resolve
  <2>5. CASE w = v /\ (MirrorRevocation(v) \/ Fails(v))
    <3>1. resolve'[w] = NoResolve
      BY <2>0, <2>5 DEF MirrorRevocation, Fails
    <3> QED
      BY <2>a, <3>1
  <2> QED
    BY <1>4, <2>c, <2>1, <2>2, <2>3, <2>4, <2>5
<1> QED
  BY <1>3, <1>4, StepsOfOthers

\* Of checkpoints of different ledgers at most k have fewer than k above them.
LEMMA GreatestFew ==
    ASSUME NEW S \in SUBSET Checkpoint, IsFiniteSet(S), NEW k \in Nat \ {0},
           \A c, d \in S : c.ledger = d.ledger => c = d
    PROVE  Cardinality({c \in S : Cardinality({d \in S : d.ledger > c.ledger}) < k}) <= k
<1> DEFINE Above(c) == {d \in S : d.ledger > c.ledger}
           R == {c \in S : Cardinality(Above(c)) < k}
<1> SUFFICES Cardinality(R) <= k
  OBVIOUS
<1>0. R \in SUBSET S
  OBVIOUS
<1>1. CASE R = {}
  <2> HIDE DEF R
  <2> QED
    BY <1>1, FS_EmptySet
<1>2. CASE R # {}
  <2> DEFINE B == {c.ledger : c \in R}
  <2>1. \A c \in S : c.ledger \in Nat
    BY IndexerAssumption DEF Checkpoint
  <2>2. B \in SUBSET Nat /\ B # {}
    BY <1>2, <2>1
  <2>3. PICK n \in B : \A m \in B : n <= m
    BY <2>2, SmallestNumber
  <2>4. PICK c \in R : \A d \in R : c.ledger <= d.ledger
    <3> HIDE DEF R
    <3> QED
      BY <2>3
  <2>5. R \ {c} \in SUBSET Above(c)
    BY <2>1, <2>4
  <2>6. IsFiniteSet(Above(c)) /\ IsFiniteSet(R)
    BY FS_Subset
  <2>7. Cardinality(Above(c)) < k /\ Cardinality(Above(c)) \in Nat
    BY <2>4, <2>6, FS_CardinalityType
  <2> HIDE DEF R, Above
  <2>8. Cardinality(R \ {c}) <= Cardinality(Above(c)) /\ IsFiniteSet(R \ {c})
    BY <2>5, <2>6, FS_Subset
  <2>9. Cardinality(R \ {c}) = Cardinality(R) - 1
    BY <2>4, <2>6, FS_RemoveElement
  <2>10. Cardinality(R) \in Nat /\ Cardinality(R \ {c}) \in Nat
    BY <2>6, <2>8, FS_CardinalityType
  <2>11. Cardinality(R) <= k
    BY <2>7, <2>8, <2>9, <2>10
  <2> QED
    BY <2>11
<1> QED
  BY <1>1, <1>2

\* The checkpoints that detectFork compares are as few.
LEMMA HistoryBounded ==
    ASSUME Typed, CheckpointsBounded
    PROVE  /\ IsFiniteSet(History) /\ Cardinality(History) <= MaxCheckpoints
           /\ \A c, d \in History : c.ledger = d.ledger => c = d
<1>1. CASE sync.checkpoints # {}
  BY <1>1 DEF History, CheckpointsBounded
<1>2. CASE sync.checkpoints = {}
  <2>1. History = {} \/ History = {[ledger |-> sync.lastLedger, hash |-> sync.lastHash]}
    BY <1>2 DEF History
  <2>2. /\ IsFiniteSet(History) /\ Cardinality(History) <= 1
        /\ Cardinality(History) \in Nat
    <3>1. CASE History = {}
      BY <3>1, FS_EmptySet
    <3>2. CASE History = {[ledger |-> sync.lastLedger, hash |-> sync.lastHash]}
      <4>1. PICK x : History = {x}
        BY <3>2
      <4>2. IsFiniteSet(History) /\ Cardinality(History) = 1
        BY <4>1, FS_Singleton
      <4> QED
        BY <4>2
    <3> QED
      BY <2>1, <3>1, <3>2
  <2> QED
    BY <2>1, <2>2, IndexerAssumption
<1> QED
  BY <1>1, <1>2

LEMMA CheckpointsStayBounded ==
    ASSUME Typed, CheckpointsBounded, [Next]_vars
    PROVE  CheckpointsBounded'
<1>1. CASE RewindState
  <2>1. sync'.checkpoints \in SUBSET sync.checkpoints
    BY <1>1 DEF RewindState, Rewound
  <2>2. /\ IsFiniteSet(sync'.checkpoints)
        /\ Cardinality(sync'.checkpoints) <= Cardinality(sync.checkpoints)
    BY <2>1, FS_Subset DEF CheckpointsBounded
  <2>3. Cardinality(sync'.checkpoints) \in Nat /\ Cardinality(sync.checkpoints) \in Nat
    BY <2>2, FS_CardinalityType DEF CheckpointsBounded
  <2> QED
    BY <2>1, <2>2, <2>3, IndexerAssumption DEF CheckpointsBounded
<1>2. CASE FinishBatch
  <2>1. PICK ledger \in Ledger, hash \in Hash \cup {None} :
          \/ sync'.checkpoints = History
          \/ /\ ledger # 0 /\ hash # None
             /\ sync'.checkpoints = Checkpointed(ledger, hash)
    <3> DEFINE ledger == IF batch.failed \/ batch.ledger = 0 THEN batch.okLedger
                         ELSE batch.ledger
               moved == ledger # 0 /\ ledger # sync.lastLedger
    <3>1. ledger \in Ledger
      BY DEF Typed, Batch
    <3>2. PICK hash :
            /\ hash = sync.lastHash
               \/ (moved /\ ledger <= Len(chain) /\ hash = HashAt(chain, ledger))
            /\ sync'.checkpoints = IF moved /\ hash # None
                                   THEN Checkpointed(ledger, hash) ELSE History
      BY <1>2 DEF FinishBatch
    <3>3. hash \in Hash \cup {None}
      <4>1. ASSUME moved, ledger <= Len(chain) PROVE HashAt(chain, ledger) \in Hash
        <5>1. ledger \in 1..Len(chain)
          BY <3>1, <4>1, IndexerAssumption, ChainShape DEF Ledger, Typed
        <5>2. chain[ledger].branch \in Nat /\ ledger \in Nat
          BY <5>1, ChainShape DEF Typed
        <5> HIDE DEF ledger
        <5> QED
          BY <5>2 DEF HashAt, Hash
      <4> QED
        BY <3>2, <4>1 DEF Typed
    <3>4. CASE moved /\ hash # None
      <4> HIDE DEF ledger
      <4> QED
        BY <3>1, <3>2, <3>3, <3>4
    <3>5. CASE ~(moved /\ hash # None)
      <4>1. sync'.checkpoints = History
        BY <3>2, <3>5
      <4> HIDE DEF ledger
      <4> QED
        BY <3>1, <3>3, <4>1
    <3> QED
      BY <3>4, <3>5
  <2>2. CASE sync'.checkpoints = History
    BY <2>2, HistoryBounded DEF CheckpointsBounded
  <2>3. CASE /\ ledger # 0 /\ hash # None
             /\ sync'.checkpoints = Checkpointed(ledger, hash)
    <3> DEFINE old == {c \in History : c.ledger # ledger}
               all == old \cup {[ledger |-> ledger, hash |-> hash]}
               R == {c \in all : Cardinality({d \in all : d.ledger > c.ledger})
                                   < MaxCheckpoints}
    <3>1. [ledger |-> ledger, hash |-> hash] \in Checkpoint
      BY <2>3, IndexerAssumption DEF Checkpoint, Ledger
    <3>2. all \in SUBSET Checkpoint
      BY <3>1, HistoryTyped
    <3>3. IsFiniteSet(old)
      BY HistoryBounded, FS_Subset
    <3>4. IsFiniteSet(all)
      <4> HIDE DEF old
      <4> QED
        BY <3>3, FS_AddElement
    <3>5. \A c, d \in all : c.ledger = d.ledger => c = d
      BY HistoryBounded
    <3>6. R \in SUBSET all
      OBVIOUS
    <3>7. IsFiniteSet(R) /\ Cardinality(R) <= MaxCheckpoints
      <4>1. Cardinality(R) <= MaxCheckpoints
        <5> HIDE DEF all
        <5> QED
          BY <3>2, <3>4, <3>5, GreatestFew, IndexerAssumption
      <4> HIDE DEF all, R
      <4> QED
        BY <3>4, <3>6, <4>1, FS_Subset
    <3>8. sync'.checkpoints = R
      BY <2>3 DEF Checkpointed
    <3> HIDE DEF all, R
    <3> QED
      BY <3>5, <3>6, <3>7, <3>8 DEF CheckpointsBounded
  <2> QED
    BY <2>1, <2>2, <2>3
<1>3. CASE UNCHANGED sync
  BY <1>3 DEF CheckpointsBounded
<1>4. \/ UNCHANGED sync \/ RewindState \/ FinishBatch
  <2>1. Grow \/ Reorg \/ StartBatch \/ RewindRow \/ RewindCache \/ Fetch
        \/ ReadRow \/ WriteRow \/ WriteCache \/ EnqueueReceipt \/ EventApplied
        => UNCHANGED sync
    BY DEF Grow, Reorg, StartBatch, RewindRow, RewindCache, Fetch, ReadRow, WriteRow,
       WriteCache, EnqueueReceipt, EventApplied
  <2>2. InsertSyncEvent \/ EventFailed \/ Crash \/ RetryDeadLetter
        \/ quarantineDeadLetter \/ UNCHANGED vars => UNCHANGED sync
    BY DEF InsertSyncEvent, EventFailed, Crash, RetryDeadLetter, quarantineDeadLetter,
       vars, indexerVars
  <2>3. UNCHANGED indexerVars => UNCHANGED sync
    BY DEF indexerVars
  <2> QED
    BY <2>1, <2>2, <2>3, StepCases
<1> QED
  BY <1>1, <1>2, <1>3, <1>4

-----------------------------------------------------------------------------
(* Dead letters and receipts. *)

\* A dead letter is open or quarantined, never both.
LEMMA DeadLettersStayDisjoint ==
    ASSUME Typed, DeadLettersDisjoint, [Next]_vars
    PROVE  DeadLettersDisjoint'
<1>1. CASE EventApplied
  BY <1>1 DEF EventApplied, Buried, DeadLettersDisjoint
<1>2. CASE EventFailed
  BY <1>2 DEF EventFailed, DeadLettersDisjoint
<1>3. CASE RetryDeadLetter
  <2>1. PICK e \in deadLetters.open : deadLetters' = Buried(e)
    BY <1>3 DEF RetryDeadLetter
  <2> QED
    BY <2>1 DEF Buried, DeadLettersDisjoint
<1>4. CASE quarantineDeadLetter
  BY <1>4 DEF quarantineDeadLetter, DeadLettersDisjoint
<1>5. CASE UNCHANGED deadLetters
  BY <1>5 DEF DeadLettersDisjoint
<1>6. UNCHANGED deadLetters \/ EventApplied \/ EventFailed \/ RetryDeadLetter
      \/ quarantineDeadLetter
  <2>1. Grow \/ Reorg \/ StartBatch \/ RewindRow \/ RewindCache \/ RewindState \/ Fetch
        \/ ReadRow \/ WriteRow \/ WriteCache \/ EnqueueReceipt => UNCHANGED deadLetters
    BY DEF Grow, Reorg, StartBatch, RewindRow, RewindCache, RewindState, Fetch, ReadRow,
       WriteRow, WriteCache, EnqueueReceipt
  <2>2. InsertSyncEvent \/ FinishBatch \/ Crash \/ UNCHANGED vars
        => UNCHANGED deadLetters
    BY DEF InsertSyncEvent, FinishBatch, Crash, vars, indexerVars
  <2>3. UNCHANGED indexerVars => UNCHANGED deadLetters
    BY DEF indexerVars
  <2> QED
    BY <2>1, <2>2, <2>3, StepCases
<1> QED
  BY <1>1, <1>2, <1>3, <1>4, <1>5, <1>6

\* A sale's new id makes room for a receipt.
LEMMA SaleAdds ==
    ASSUME NEW ids, IsFiniteSet(ids), NEW e, NEW network
    PROVE  LET id == <<e, network>> IN
           /\ IsFiniteSet(ids \cup {id})
           /\ Cardinality(SalesOf(ids)) \in Nat
           /\ Cardinality(SalesOf(ids \cup {id})) \in Nat
           /\ Cardinality(SalesOf(ids)) <= Cardinality(SalesOf(ids \cup {id}))
           /\ e.type = "completed" /\ id \notin ids =>
                Cardinality(SalesOf(ids \cup {id})) = Cardinality(SalesOf(ids)) + 1
<1> DEFINE id == <<e, network>>
<1>1. IsFiniteSet(ids \cup {id})
  BY FS_AddElement
<1>2. IsFiniteSet(SalesOf(ids)) /\ IsFiniteSet(SalesOf(ids \cup {id}))
  BY <1>1, FS_Subset DEF SalesOf
<1>3. SalesOf(ids) \in SUBSET SalesOf(ids \cup {id})
  BY DEF SalesOf
<1>4. /\ Cardinality(SalesOf(ids)) \in Nat
      /\ Cardinality(SalesOf(ids \cup {id})) \in Nat
      /\ Cardinality(SalesOf(ids)) <= Cardinality(SalesOf(ids \cup {id}))
  BY <1>2, <1>3, FS_Subset, FS_CardinalityType
<1>5. ASSUME e.type = "completed", id \notin ids
      PROVE  Cardinality(SalesOf(ids \cup {id})) = Cardinality(SalesOf(ids)) + 1
  <2>1. SalesOf(ids \cup {id}) = SalesOf(ids) \cup {id} /\ id \notin SalesOf(ids)
    BY <1>5 DEF SalesOf
  <2> HIDE DEF id
  <2> QED
    BY <1>2, <2>1, FS_AddElement
<1> QED
  BY <1>1, <1>4, <1>5

\* A receipt is for a sale that was recorded as new.
LEMMA SalesStayAlone ==
    ASSUME Typed, SalesAlone, [Next]_vars
    PROVE  SalesAlone'
<1>1. CASE InsertSyncEvent
  BY <1>1 DEF InsertSyncEvent, SalesAlone
<1>2. CASE ReadRow
  BY <1>2 DEF ReadRow, SalesAlone, Typed, Apply
<1>3. CASE WriteRow
  BY <1>3 DEF WriteRow, To, SalesAlone, Typed, Apply
<1>4. CASE WriteCache
  BY <1>4 DEF WriteCache, To, SalesAlone, Typed, Apply
<1>5. CASE EnqueueReceipt
  BY <1>5 DEF EnqueueReceipt, To, SalesAlone, Typed, Apply
<1>6. CASE apply' = Idle
  BY <1>6 DEF Idle, SalesAlone
<1>7. CASE UNCHANGED apply
  BY <1>7 DEF SalesAlone
<1>8. \/ UNCHANGED apply \/ apply' = Idle \/ InsertSyncEvent \/ ReadRow \/ WriteRow
      \/ WriteCache \/ EnqueueReceipt
  <2>1. Grow \/ Reorg \/ StartBatch \/ RewindRow \/ RewindCache \/ RewindState \/ Fetch
        => UNCHANGED apply
    BY DEF Grow, Reorg, StartBatch, RewindRow, RewindCache, RewindState, Fetch
  <2>2. EventApplied \/ EventFailed \/ Crash => apply' = Idle
    BY DEF EventApplied, EventFailed, Crash
  <2>3. RetryDeadLetter \/ quarantineDeadLetter \/ FinishBatch \/ UNCHANGED vars
        => UNCHANGED apply
    BY DEF RetryDeadLetter, quarantineDeadLetter, FinishBatch, vars, indexerVars
  <2>4. UNCHANGED indexerVars => UNCHANGED apply
    BY DEF indexerVars
  <2> QED
    BY <2>1, <2>2, <2>3, <2>4, StepCases
<1> QED
  BY <1>1, <1>2, <1>3, <1>4, <1>5, <1>6, <1>7, <1>8

LEMMA ReceiptsStayCounted ==
    ASSUME Typed, SalesAlone, ReceiptsCounted, [Next]_vars
    PROVE  ReceiptsCounted'
<1>0. /\ DueReceipt \in {0, 1} /\ receipts \in Nat
      /\ IsFiniteSet(syncEvents) /\ Cardinality(SalesOf(syncEvents)) \in Nat
  <2>1. IsFiniteSet(SalesOf(syncEvents))
    BY FS_Subset DEF ReceiptsCounted, SalesOf
  <2> QED
    BY <2>1, FS_CardinalityType DEF DueReceipt, ReceiptsCounted, Typed
<1>a. apply' = Idle => DueReceipt' = 0
  BY DEF DueReceipt, Idle
<1>1. CASE InsertSyncEvent
  <2>1. PICK e \in batch.todo :
          /\ syncEvents' = syncEvents \cup {<<e, TRUE>>}
          /\ apply' = [stage |-> IF e.type = "completed" THEN "row" ELSE "read",
                       event |-> e, first |-> <<e, TRUE>> \notin syncEvents,
                       found |-> FALSE]
          /\ receipts' = receipts
    BY <1>1 DEF InsertSyncEvent, eventId
  <2>2. DueReceipt' = IF e.type = "completed" /\ <<e, TRUE>> \notin syncEvents
                      THEN 1 ELSE 0
    BY <2>1 DEF DueReceipt
  <2>3. /\ IsFiniteSet(syncEvents') /\ Cardinality(SalesOf(syncEvents')) \in Nat
        /\ Cardinality(SalesOf(syncEvents)) <= Cardinality(SalesOf(syncEvents'))
        /\ e.type = "completed" /\ <<e, TRUE>> \notin syncEvents =>
             Cardinality(SalesOf(syncEvents')) = Cardinality(SalesOf(syncEvents)) + 1
    BY <1>0, <2>1, SaleAdds
  <2>4. receipts + DueReceipt <= Cardinality(SalesOf(syncEvents))
    BY DEF ReceiptsCounted
  <2>5. receipts' + DueReceipt' <= Cardinality(SalesOf(syncEvents'))
    BY <1>0, <2>1, <2>2, <2>3, <2>4
  <2> QED
    BY <2>3, <2>5 DEF ReceiptsCounted
<1>2. CASE ReadRow
  <2>1. DueReceipt' = 0
    BY <1>2 DEF ReadRow, SalesAlone, DueReceipt, Typed, Apply
  <2> QED
    BY <1>0, <1>2, <2>1 DEF ReadRow, ReceiptsCounted
<1>3. CASE WriteRow \/ WriteCache
  <2>1. DueReceipt' <= DueReceipt
    BY <1>3 DEF WriteRow, WriteCache, To, DueReceipt, Typed, Apply
  <2>2. DueReceipt' \in {0, 1}
    BY DEF DueReceipt
  <2>3. UNCHANGED <<receipts, syncEvents>>
    BY <1>3 DEF WriteRow, WriteCache
  <2> QED
    BY <1>0, <2>1, <2>2, <2>3 DEF ReceiptsCounted
<1>4. CASE EnqueueReceipt
  <2>1. DueReceipt = 1
    BY <1>4 DEF EnqueueReceipt, SalesAlone, DueReceipt
  <2>2. DueReceipt' = 0
    BY <1>4 DEF EnqueueReceipt, To, DueReceipt, Typed, Apply
  <2> QED
    BY <1>0, <1>4, <2>1, <2>2 DEF EnqueueReceipt, ReceiptsCounted
<1>5. CASE EventApplied \/ EventFailed \/ Crash
  <2>1. apply' = Idle /\ UNCHANGED <<receipts, syncEvents>>
    BY <1>5 DEF EventApplied, EventFailed, Crash
  <2> QED
    BY <1>0, <1>a, <2>1 DEF ReceiptsCounted
<1>6. CASE RetryDeadLetter
  <2>1. PICK e \in deadLetters.open, network \in BOOLEAN :
          /\ syncEvents' = syncEvents \cup {<<e, network>>}
          /\ receipts' = IF e.type = "completed" /\ <<e, network>> \notin syncEvents
                         THEN receipts + 1 ELSE receipts
          /\ apply' = apply
    BY <1>6 DEF RetryDeadLetter, eventId
  <2>2. DueReceipt' = DueReceipt
    BY <2>1 DEF DueReceipt
  <2> QED
    BY <1>0, <2>1, <2>2, SaleAdds DEF ReceiptsCounted
<1>7. CASE UNCHANGED <<apply, receipts, syncEvents>>
  BY <1>7 DEF ReceiptsCounted, DueReceipt
<1>8. \/ UNCHANGED <<apply, receipts, syncEvents>> \/ InsertSyncEvent \/ ReadRow
      \/ WriteRow \/ WriteCache \/ EnqueueReceipt \/ EventApplied \/ EventFailed \/ Crash
      \/ RetryDeadLetter
  <2>1. Grow \/ Reorg \/ StartBatch \/ RewindRow \/ RewindCache \/ RewindState \/ Fetch
        => UNCHANGED <<apply, receipts, syncEvents>>
    BY DEF Grow, Reorg, StartBatch, RewindRow, RewindCache, RewindState, Fetch
  <2>2. quarantineDeadLetter \/ FinishBatch \/ UNCHANGED vars
        => UNCHANGED <<apply, receipts, syncEvents>>
    BY DEF quarantineDeadLetter, FinishBatch, vars, indexerVars
  <2>3. UNCHANGED indexerVars => UNCHANGED <<apply, receipts, syncEvents>>
    BY DEF indexerVars
  <2> QED
    BY <2>1, <2>2, <2>3, StepCases
<1> QED
  BY <1>1, <1>2, <1>3, <1>4, <1>5, <1>6, <1>7, <1>8

-----------------------------------------------------------------------------
(* The batch leaves no event behind. *)

\* An operator who writes in turn adds an event of the chain to what the row
\* reflects, and writes over older ones only.
LEMMA RetryInTurn ==
    ASSUME Typed, RetryDeadLetter, ~outOfTurn'
    PROVE  /\ ~outOfTurn /\ apply.stage = "idle" /\ Outdate
           /\ UNCHANGED <<learnt, staleFill, chain, branch, sync, batch, apply,
                          fetched, unrevoked>>
           /\ \E e \in deadLetters.open :
                /\ e \in IndexedEvent /\ e \in Events(chain)
                /\ reflected' = reflected \cup {e}
                /\ deadLetters' = Buried(e)
                /\ \/ isStaleReplay(e) /\ UNCHANGED <<row, cache>>
                   \/ /\ \A d \in reflected \ {e} : d.ledger < e.ledger
                      /\ ~isStaleReplay(e)
                      /\ row' = RowAfter(e)
                      /\ cache' = IF TouchesCache(e, Finds(e)) THEN CacheAfter(e)
                                  ELSE cache
<1>1. PICK e \in deadLetters.open :
        /\ row' = IF ~isStaleReplay(e) THEN RowAfter(e) ELSE row
        /\ cache' = IF ~isStaleReplay(e) /\ TouchesCache(e, Finds(e)) THEN CacheAfter(e)
                    ELSE cache
        /\ deadLetters' = Buried(e)
        /\ reflected' = IF ~isStaleReplay(e) THEN ReflectedAfter(e) ELSE reflected \cup {e}
        /\ outOfTurn' = \/ outOfTurn
                        \/ apply.stage # "idle"
                        \/ e \notin Events(chain)
                        \/ ~isStaleReplay(e) /\ \E d \in reflected \ {e} : d.ledger >= e.ledger
  BY DEF RetryDeadLetter
<1>2. /\ ~outOfTurn /\ apply.stage = "idle" /\ e \in Events(chain)
      /\ ~(~isStaleReplay(e) /\ \E d \in reflected \ {e} : d.ledger >= e.ledger)
  BY <1>1
<1>3. e \in IndexedEvent /\ reflected \in SUBSET IndexedEvent
  BY DEF Typed
<1>4. \A d \in IndexedEvent : d.ledger \in Nat
  BY IndexerAssumption DEF IndexedEvent
<1>5. CASE isStaleReplay(e)
  BY <1>1, <1>2, <1>3, <1>5 DEF RetryDeadLetter
<1>6. CASE ~isStaleReplay(e)
  <2>1. \A d \in reflected \ {e} : d.ledger < e.ledger
    BY <1>2, <1>3, <1>4, <1>6
  <2>2. reflected' = reflected \cup {e}
    BY <1>1, <1>6, <2>1 DEF ReflectedAfter
  <2> QED
    BY <1>1, <1>2, <1>3, <1>6, <2>1, <2>2 DEF RetryDeadLetter
<1> QED
  BY <1>5, <1>6

\* What was written out of turn stays so.
LEMMA TurnIsLost ==
    ASSUME Typed, [Next]_vars, ~outOfTurn'
    PROVE  ~outOfTurn
<1>1. CASE RetryDeadLetter
  BY <1>1, RetryInTurn
<1>2. CASE UNCHANGED outOfTurn
  BY <1>2
<1>3. UNCHANGED outOfTurn \/ RetryDeadLetter
  <2>1. Grow \/ Reorg \/ StartBatch \/ RewindRow \/ RewindCache \/ RewindState \/ Fetch
        \/ ReadRow \/ WriteRow \/ WriteCache \/ EnqueueReceipt => UNCHANGED outOfTurn
    BY DEF Grow, Reorg, StartBatch, RewindRow, RewindCache, RewindState, Fetch, ReadRow,
       WriteRow, WriteCache, EnqueueReceipt
  <2>2. InsertSyncEvent \/ FinishBatch \/ EventApplied \/ EventFailed \/ Crash
        \/ quarantineDeadLetter \/ UNCHANGED vars => UNCHANGED outOfTurn
    BY DEF InsertSyncEvent, FinishBatch, EventApplied, EventFailed, Crash,
       quarantineDeadLetter, vars, indexerVars
  <2>3. UNCHANGED indexerVars => UNCHANGED outOfTurn
    BY DEF indexerVars
  <2> QED
    BY <2>1, <2>2, <2>3, StepCases
<1> QED
  BY <1>1, <1>2, <1>3

\* A batch applies its events one after the other.
LEMMA BatchStaysInOrder ==
    ASSUME Typed, BatchInOrder, [Next]_vars
    PROVE  BatchInOrder'
<1>0. \A e \in IndexedEvent : e.ledger \in Nat
  BY IndexerAssumption DEF IndexedEvent
<1>a. sync.cursor \in Nat
  BY IndexerAssumption DEF Typed, Ledger
<1>1. CASE StartBatch
  <2>1. apply.stage = "idle" /\ apply' = apply /\ batch'.stage # "apply"
    BY <1>1 DEF StartBatch, BatchInOrder, NoBatch
  <2> QED
    BY <2>1 DEF BatchInOrder
<1>2. CASE RewindRow \/ RewindCache \/ RewindState
  <2>1. apply.stage = "idle" /\ apply' = apply
    BY <1>2 DEF RewindRow, RewindCache, RewindState, BatchInOrder
  <2>2. batch'.stage # "apply"
    BY <1>2 DEF RewindRow, RewindCache, RewindState, Typed, Batch
  <2> QED
    BY <2>1, <2>2 DEF BatchInOrder
<1>3. CASE Fetch
  <2>1. apply.stage = "idle" /\ apply' = apply /\ sync' = sync
    BY <1>3 DEF Fetch, BatchInOrder
  <2>2. batch'.todo = Page(sync.cursor) /\ Page(sync.cursor) \subseteq fetched'
    BY <1>3 DEF Fetch, Typed, Batch
  <2>3. /\ \A e \in Page(sync.cursor) : e.ledger > sync.cursor
        /\ Page(sync.cursor) \subseteq Events(chain)
    BY <1>a, PageTyped
  <2>4. \A d, e \in Page(sync.cursor) : d.ledger = e.ledger => d = e
    BY <2>3, EventsTyped DEF Typed
  <2> QED
    BY <2>1, <2>2, <2>3, <2>4 DEF BatchInOrder
<1>4. CASE InsertSyncEvent
  <2>1. PICK e \in batch.todo :
          /\ \A d \in batch.todo : e.ledger <= d.ledger
          /\ batch.stage = "apply"
          /\ apply' = [stage |-> IF e.type = "completed" THEN "row" ELSE "read",
                       event |-> e, first |-> eventId(e, TRUE) \notin syncEvents,
                       found |-> FALSE]
          /\ batch' = [batch EXCEPT !.todo = @ \ {e}]
          /\ UNCHANGED <<fetched, sync>>
    BY <1>4 DEF InsertSyncEvent
  <2>2. /\ batch'.todo = batch.todo \ {e} /\ batch'.stage = "apply"
        /\ apply'.event = e
    BY <2>1 DEF Typed, Batch
  <2>3. \A d \in batch.todo : d \in IndexedEvent
    BY DEF Typed, Batch
  <2>4. \A d \in batch'.todo : e.ledger < d.ledger
    BY <1>0, <2>1, <2>2, <2>3 DEF BatchInOrder
  <2> QED
    BY <2>1, <2>2, <2>4 DEF BatchInOrder
<1>5. CASE ReadRow \/ WriteRow \/ WriteCache \/ EnqueueReceipt
  <2>1. /\ apply.stage # "idle" /\ apply'.event = apply.event
        /\ UNCHANGED <<batch, fetched, sync>>
    BY <1>5 DEF ReadRow, WriteRow, WriteCache, EnqueueReceipt, To, Typed, Apply
  <2> QED
    BY <2>1 DEF BatchInOrder
<1>6. CASE EventApplied \/ EventFailed
  <2>1. /\ batch.stage = "apply" /\ apply'.stage = "idle" /\ UNCHANGED <<fetched, sync>>
    BY <1>6 DEF EventApplied, EventFailed, Idle, BatchInOrder
  <2>2. batch'.stage = batch.stage /\ batch'.todo = batch.todo
    BY <1>6 DEF EventApplied, EventFailed, Typed, Batch
  <2> QED
    BY <2>1, <2>2 DEF BatchInOrder
<1>7. CASE FinishBatch \/ Crash
  <2>1. apply'.stage = "idle"
    BY <1>7 DEF FinishBatch, Crash, Idle
  <2>2. batch'.stage = "idle"
    BY <1>7 DEF FinishBatch, Crash, NoBatch
  <2> QED
    BY <2>1, <2>2 DEF BatchInOrder
<1>8. CASE UNCHANGED <<batch, apply, fetched, sync>>
  BY <1>8 DEF BatchInOrder
<1>9. Grow \/ Reorg \/ RetryDeadLetter \/ quarantineDeadLetter \/ UNCHANGED vars
      \/ UNCHANGED indexerVars => UNCHANGED <<batch, apply, fetched, sync>>
  BY DEF Grow, Reorg, RetryDeadLetter, quarantineDeadLetter, vars, indexerVars
<1> QED
  BY <1>1, <1>2, <1>3, <1>4, <1>5, <1>6, <1>7, <1>8, <1>9, StepCases

\* Whatever crashes or fails, a delivered event has been applied, is dead, or
\* is still to come in the batch.
LEMMA NothingGetsLost ==
    ASSUME Typed, BatchInOrder, NothingLost, [Next]_vars
    PROVE  NothingLost'
<1> SUFFICES ASSUME ~outOfTurn'
             PROVE  /\ apply'.stage \in {"cache", "receipt", "done"} =>
                         apply'.event \in reflected'
                    /\ \A e \in fetched' : e.ledger <= sync'.cursor => Handled(e)'
                    /\ batch'.stage = "apply" =>
                         \A e \in fetched' :
                           \/ e \in batch'.todo
                           \/ apply'.stage # "idle" /\ e = apply'.event
                           \/ Handled(e)' /\ Past(e)'
  BY DEF NothingLost
<1>0. ~outOfTurn
  BY TurnIsLost
<1>a. apply.stage \in {"cache", "receipt", "done"} => apply.event \in reflected
  BY <1>0 DEF NothingLost
<1>b. \A e \in fetched : e.ledger <= sync.cursor => Handled(e)
  BY <1>0 DEF NothingLost
<1>c. batch.stage = "apply" =>
        \A e \in fetched :
          \/ e \in batch.todo
          \/ apply.stage # "idle" /\ e = apply.event
          \/ Handled(e) /\ Past(e)
  BY <1>0 DEF NothingLost
<1>d. \A e \in IndexedEvent : e.ledger \in Nat /\ e.ledger > 0
  BY IndexerAssumption DEF IndexedEvent
<1>e. sync.cursor \in Nat /\ fetched \subseteq IndexedEvent /\ batch.todo \subseteq IndexedEvent
  BY IndexerAssumption DEF Typed, Ledger, Batch
<1>1. CASE StartBatch
  <2>1. /\ apply.stage = "idle" /\ apply' = apply /\ batch'.stage # "apply"
        /\ UNCHANGED <<fetched, sync, reflected, deadLetters>>
    BY <1>1 DEF StartBatch, BatchInOrder, NoBatch
  <2> QED
    BY <1>b, <2>1 DEF Handled, Dead
<1>2. CASE RewindRow
  <2>1. apply.stage = "idle" /\ apply' = apply /\ UNCHANGED <<sync, deadLetters>>
    BY <1>2 DEF RewindRow, BatchInOrder
  <2>2. batch'.stage # "apply"
    BY <1>2 DEF RewindRow, Typed, Batch
  <2>3. \/ fetched' = {}
        \/ /\ fetched' = {e \in fetched : e.ledger < batch.divergence}
           /\ reflected' = {e \in reflected : e.ledger < batch.divergence}
    BY <1>2 DEF RewindRow
  <2> QED
    BY <1>b, <2>1, <2>2, <2>3 DEF Handled, Dead
<1>3. CASE RewindCache
  <2>1. apply.stage = "idle" /\ UNCHANGED <<apply, sync, deadLetters, fetched, reflected>>
    BY <1>3 DEF RewindCache, BatchInOrder
  <2>2. batch'.stage # "apply"
    BY <1>3 DEF RewindCache, Typed, Batch
  <2> QED
    BY <1>b, <2>1, <2>2 DEF Handled, Dead
<1>4. CASE RewindState
  <2>1. apply.stage = "idle" /\ UNCHANGED <<apply, deadLetters, fetched, reflected>>
    BY <1>4 DEF RewindState, BatchInOrder
  <2>2. batch'.stage # "apply" /\ sync'.cursor = 0
    BY <1>4 DEF RewindState, Typed, Batch, Rewound
  <2>3. \A e \in fetched' : ~(e.ledger <= sync'.cursor)
    BY <1>d, <1>e, <2>1, <2>2
  <2> QED
    BY <2>1, <2>2, <2>3
<1>5. CASE Fetch
  <2>1. apply.stage = "idle" /\ UNCHANGED <<apply, sync, reflected, deadLetters>>
    BY <1>5 DEF Fetch, BatchInOrder
  <2>2. /\ batch'.todo = Page(sync.cursor)
        /\ fetched' = {e \in fetched : e.ledger <= sync.cursor} \cup Page(sync.cursor)
    BY <1>5 DEF Fetch, Typed, Batch
  <2>3. \A e \in Page(sync.cursor) : e \in IndexedEvent /\ e.ledger > sync.cursor
    BY <1>e, PageTyped, EventsTyped DEF Typed
  <2>4. ASSUME NEW e \in fetched', e \notin Page(sync.cursor)
        PROVE  Handled(e)' /\ Past(e)'
    <3>1. e \in fetched /\ e.ledger <= sync.cursor
      BY <2>2, <2>4
    <3>2. Handled(e)'
      BY <1>b, <2>1, <3>1 DEF Handled, Dead
    <3>3. \A d \in batch'.todo : e.ledger < d.ledger
      BY <1>d, <1>e, <2>2, <2>3, <3>1
    <3> QED
      BY <2>1, <3>2, <3>3 DEF Past
  <2>5. \A e \in Page(sync.cursor) : ~(e.ledger <= sync'.cursor)
    BY <1>d, <1>e, <2>1, <2>3
  <2> QED
    BY <2>1, <2>2, <2>4, <2>5
<1>6. CASE InsertSyncEvent
  <2>1. PICK x \in batch.todo :
          /\ \A d \in batch.todo : x.ledger <= d.ledger
          /\ batch.stage = "apply" /\ apply.stage = "idle"
          /\ apply' = [stage |-> IF x.type = "completed" THEN "row" ELSE "read",
                       event |-> x, first |-> eventId(x, TRUE) \notin syncEvents,
                       found |-> FALSE]
          /\ batch' = [batch EXCEPT !.todo = @ \ {x}]
          /\ UNCHANGED <<fetched, sync, reflected, deadLetters>>
    BY <1>6 DEF InsertSyncEvent
  <2>2. /\ batch'.todo = batch.todo \ {x}
        /\ apply'.event = x /\ apply'.stage \in {"row", "read"}
    BY <2>1 DEF Typed, Batch
  <2>3. \A e : Handled(e)' <=> Handled(e)
    BY <2>1 DEF Handled, Dead
  <2>4. ASSUME NEW e \in fetched, Past(e) PROVE Past(e)'
    <3>1. e.ledger < x.ledger /\ \A d \in batch.todo : e.ledger < d.ledger
      BY <2>1, <2>4 DEF Past
    <3> QED
      BY <2>2, <3>1 DEF Past
  <2> QED
    BY <1>b, <1>c, <2>1, <2>2, <2>3, <2>4
<1>7. CASE ReadRow
  <2>1. /\ apply.stage = "read" /\ apply'.event = apply.event
        /\ apply'.stage = IF isStaleReplay(apply.event) THEN "done" ELSE "row"
        /\ reflected' = IF isStaleReplay(apply.event) THEN reflected \cup {apply.event}
                        ELSE reflected
        /\ UNCHANGED <<batch, fetched, sync, deadLetters>>
    BY <1>7 DEF ReadRow, Typed, Apply
  <2>2. \A e : Handled(e) => Handled(e)'
    BY <2>1 DEF Handled, Dead
  <2>3. \A e : Past(e) => Past(e)'
    BY <2>1 DEF Past
  <2>4. apply'.stage = "done" => apply'.event \in reflected'
    BY <2>1
  <2> QED
    BY <1>b, <1>c, <2>1, <2>2, <2>3, <2>4
<1>8. CASE WriteRow
  <2> DEFINE x == apply.event
  <2>1. /\ apply.stage = "row" /\ apply'.event = x
        /\ apply'.stage \in {"cache", "done"}
        /\ reflected' = {x} \cup {d \in reflected : x.type = "completed" => d.ledger < x.ledger}
        /\ UNCHANGED <<batch, fetched, sync, deadLetters>>
    BY <1>8 DEF WriteRow, To, ReflectedAfter, Typed, Apply
  <2>2. batch.stage = "apply" /\ x.ledger > sync.cursor /\ x \in IndexedEvent
    BY <1>e, <2>1 DEF BatchInOrder
  <2>3. ASSUME NEW e \in fetched, Handled(e), e.ledger < x.ledger PROVE Handled(e)'
    BY <2>1, <2>3 DEF Handled, Dead
  <2>4. \A e \in fetched : e.ledger <= sync.cursor => e.ledger < x.ledger
    BY <1>d, <1>e, <2>2
  <2>5. \A e \in fetched : Past(e) => e.ledger < x.ledger /\ Past(e)'
    BY <2>1 DEF Past
  <2> QED
    BY <1>b, <1>c, <2>1, <2>2, <2>3, <2>4, <2>5
<1>9. CASE WriteCache \/ EnqueueReceipt
  <2>1. /\ apply.stage \in {"cache", "receipt"} /\ apply'.event = apply.event
        /\ apply'.stage \in {"receipt", "done"}
        /\ UNCHANGED <<batch, fetched, sync, reflected, deadLetters>>
    BY <1>9 DEF WriteCache, EnqueueReceipt, To, Typed, Apply
  <2>2. \A e : /\ Handled(e) => Handled(e)'
               /\ Past(e) => Past(e)'
    BY <2>1 DEF Handled, Dead, Past
  <2> QED
    BY <1>a, <1>b, <1>c, <2>1, <2>2
<1>10. CASE EventApplied \/ EventFailed
  <2>0. PICK x : x = apply.event
    OBVIOUS
  <2>1. /\ apply.stage # "idle" /\ apply'.stage = "idle"
        /\ UNCHANGED <<fetched, sync, reflected>>
    BY <1>10 DEF EventApplied, EventFailed, Idle
  <2>2. batch'.todo = batch.todo /\ batch'.stage = batch.stage /\ batch.stage = "apply"
    BY <1>10, <2>1 DEF EventApplied, EventFailed, Typed, Batch, BatchInOrder
  <2>3. Dead \subseteq Dead' \cup {x}
    BY <1>10, <2>0 DEF EventApplied, EventFailed, Buried, Dead
  <2>4. Handled(x)'
    BY <1>a, <1>10, <2>0, <2>1 DEF EventApplied, EventFailed, Handled, Dead
  <2>5. \A e : Handled(e) => Handled(e)'
    BY <2>1, <2>3, <2>4 DEF Handled
  <2>6. \A e : Past(e) => Past(e)'
    BY <2>1, <2>2 DEF Past
  <2>7. Past(x)'
    BY <2>0, <2>1, <2>2 DEF Past, BatchInOrder
  <2> QED
    BY <1>b, <1>c, <2>0, <2>1, <2>2, <2>4, <2>5, <2>6, <2>7
<1>11. CASE FinishBatch
  <2>1. /\ batch.stage = "apply" /\ batch.todo = {} /\ apply.stage = "idle"
        /\ apply' = apply /\ batch'.stage = "idle"
        /\ UNCHANGED <<fetched, reflected, deadLetters>>
    BY <1>11 DEF FinishBatch, NoBatch
  <2> QED
    BY <1>c, <2>1 DEF Handled, Dead
<1>12. CASE Crash
  <2>1. /\ apply'.stage = "idle" /\ batch'.stage = "idle"
        /\ UNCHANGED <<sync, fetched, reflected, deadLetters>>
    BY <1>12 DEF Crash, NoBatch, Idle
  <2> QED
    BY <1>b, <2>1 DEF Handled, Dead
<1>13. CASE RetryDeadLetter
  <2>1. /\ apply.stage = "idle" /\ UNCHANGED <<batch, apply, sync, fetched>>
        /\ \E e \in deadLetters.open : /\ reflected' = reflected \cup {e}
                                       /\ deadLetters' = Buried(e)
    BY <1>13, RetryInTurn
  <2>2. \A e : Handled(e) => Handled(e)'
    BY <2>1 DEF Handled, Dead, Buried
  <2>3. \A e : Past(e) => Past(e)'
    BY <2>1 DEF Past
  <2> QED
    BY <1>b, <1>c, <2>1, <2>2, <2>3
<1>14. CASE quarantineDeadLetter
  <2>1. UNCHANGED <<batch, apply, sync, fetched, reflected>>
    BY <1>14 DEF quarantineDeadLetter
  <2>2. Dead' = Dead
    BY <1>14 DEF quarantineDeadLetter, Dead
  <2>3. \A e : /\ Handled(e) => Handled(e)'
               /\ Past(e) => Past(e)'
    BY <2>1, <2>2 DEF Handled, Past
  <2> QED
    BY <1>a, <1>b, <1>c, <2>1, <2>3
<1>15. CASE UNCHANGED <<batch, apply, sync, fetched, reflected, deadLetters>>
  <2>1. \A e : /\ Handled(e) => Handled(e)'
               /\ Past(e) => Past(e)'
    BY <1>15 DEF Handled, Dead, Past
  <2> QED
    BY <1>a, <1>b, <1>c, <1>15, <2>1
<1>16. Grow \/ Reorg \/ UNCHANGED vars \/ UNCHANGED indexerVars
         => UNCHANGED <<batch, apply, sync, fetched, reflected, deadLetters>>
  BY DEF Grow, Reorg, vars, indexerVars
<1> QED
  BY <1>1, <1>2, <1>3, <1>4, <1>5, <1>6, <1>7, <1>8, <1>9, <1>10, <1>11, <1>12, <1>13,
     <1>14, <1>15, <1>16, StepCases

-----------------------------------------------------------------------------
(* The chain as it goes on. *)

\* A block that is appended is one that is possible.
LEMMA ChainStaysPossible ==
    ASSUME Typed, ChainPossible, [Next]_vars
    PROVE  /\ ChainPossible'
           /\ branch' = branch \/ Reorg
           /\ branch' = 0 => branch = 0 /\ Events(chain) \subseteq Events(chain')
<1>1. CASE Grow
  <2>1. PICK type \in IF Possible(chain) = {} THEN {"none"} ELSE Possible(chain) :
          chain' = Append(chain, [branch |-> branch, type |-> type])
    BY <1>1 DEF Grow
  <2>2. type \in EventType \cup {"none"} /\ type \in Possible(chain) \cup {"none"}
    BY <2>1, PossibleMeans
  <2>3. [branch |-> branch, type |-> type] \in [branch : Nat, type : EventType \cup {"none"}]
    BY <2>2 DEF Typed
  <2>4. WellFormed(chain') /\ Events(chain) \subseteq Events(chain')
    BY <1>1, <2>1, <2>2, <2>3, GrowthIsPossible DEF Grow, Typed, ChainPossible
  <2> QED
    BY <1>1, <2>4 DEF Grow, ChainPossible
<1>2. CASE Reorg
  <2>1. PICK n \in 1..Len(chain) :
          \E type \in {"none"} \cup Possible(SubSeq(chain, 1, n - 1)) :
            chain' = Append(SubSeq(chain, 1, n - 1), [branch |-> branch + 1, type |-> type])
    BY <1>2 DEF Reorg
  <2>2. PICK type \in {"none"} \cup Possible(SubSeq(chain, 1, n - 1)) :
          chain' = Append(SubSeq(chain, 1, n - 1), [branch |-> branch + 1, type |-> type])
    BY <2>1
  <2> DEFINE p == SubSeq(chain, 1, n - 1)
  <2>3. type \in EventType \cup {"none"} /\ type \in Possible(p) \cup {"none"}
    BY <2>2, PossibleMeans
  <2>4. branch + 1 \in Nat /\ branch + 1 # 0
    BY DEF Typed
  <2>5. [branch |-> branch + 1, type |-> type] \in [branch : Nat, type : EventType \cup {"none"}]
    BY <2>3, <2>4
  <2>6. p \in Chains /\ Len(p) = n - 1 /\ WellFormed(p)
    BY PrefixChain, PrefixIsPossible DEF Typed, ChainPossible
  <2>7. n - 1 < MaxLedger
    BY ChainShape, IndexerAssumption DEF Typed
  <2> HIDE DEF p
  <2>8. WellFormed(chain')
    BY <2>2, <2>3, <2>5, <2>6, <2>7, GrowthIsPossible DEF p
  <2> QED
    BY <1>2, <2>4, <2>8 DEF Reorg, ChainPossible
<1>3. CASE chain' = chain /\ branch' = branch
  BY <1>3 DEF ChainPossible
<1>4. Grow \/ Reorg \/ (chain' = chain /\ branch' = branch)
  BY StepCases DEF StartBatch, RewindRow, RewindCache, RewindState, Fetch,
       InsertSyncEvent, ReadRow, WriteRow, WriteCache, EnqueueReceipt, EventApplied,
       FinishBatch, EventFailed, Crash, RetryDeadLetter, quarantineDeadLetter, vars,
       indexerVars
<1> QED
  BY <1>1, <1>2, <1>3, <1>4

\* Before the first reorganisation every event anybody knows of is the chain's.
LEMMA OneBranchStays ==
    ASSUME Typed, ChainPossible, OneBranch, [Next]_vars
    PROVE  OneBranch'
<1> DEFINE Known == reflected \cup fetched \cup Dead \cup batch.todo
           Applied == IF apply.stage = "idle" THEN {} ELSE {apply.event}
<1>1. ASSUME branch' = 0
      PROVE  Known \cup Applied \subseteq Events(chain')
  <2>1. branch = 0 /\ Events(chain) \subseteq Events(chain')
    BY <1>1, ChainStaysPossible
  <2> QED
    BY <2>1 DEF OneBranch
<1> SUFFICES ASSUME branch' = 0
             PROVE  (Known \cup Applied)' \subseteq Events(chain')
  BY DEF OneBranch
<1>2. ASSUME (Known \cup Applied)' \subseteq Known \cup Applied
      PROVE  (Known \cup Applied)' \subseteq Events(chain')
  BY <1>1, <1>2
<1>3. CASE Fetch
  <2>1. sync.cursor \in Nat
    BY IndexerAssumption DEF Typed, Ledger
  <2>2. Page(sync.cursor) \subseteq Events(chain) /\ chain' = chain
    BY <1>3, <2>1, PageTyped DEF Fetch
  <2>3. batch'.todo = Page(sync.cursor)
    BY <1>3 DEF Fetch, Typed, Batch
  <2>4. fetched' \subseteq fetched \cup Page(sync.cursor)
        /\ UNCHANGED <<reflected, deadLetters, apply>>
    BY <1>3 DEF Fetch
  <2>5. (Known \cup Applied)' \subseteq Known \cup Applied \cup Page(sync.cursor)
    BY <2>3, <2>4 DEF Dead
  <2> QED
    BY <1>1, <2>2, <2>5
<1>4. CASE RewindRow
  <2>1. reflected' \subseteq reflected /\ fetched' \subseteq fetched
        /\ UNCHANGED <<deadLetters, apply>>
    BY <1>4 DEF RewindRow
  <2>2. batch'.todo = batch.todo
    BY <1>4 DEF RewindRow, Typed, Batch
  <2> QED
    BY <1>2, <2>1, <2>2 DEF Dead
<1>5. CASE InsertSyncEvent
  <2>1. PICK x \in batch.todo :
          /\ apply' = [stage |-> IF x.type = "completed" THEN "row" ELSE "read",
                       event |-> x, first |-> eventId(x, TRUE) \notin syncEvents,
                       found |-> FALSE]
          /\ batch' = [batch EXCEPT !.todo = @ \ {x}]
          /\ UNCHANGED <<fetched, reflected, deadLetters>>
    BY <1>5 DEF InsertSyncEvent
  <2>2. batch'.todo \subseteq batch.todo /\ apply'.event = x
    BY <2>1 DEF Typed, Batch
  <2> QED
    BY <1>2, <2>1, <2>2 DEF Dead
<1>6. CASE ReadRow \/ WriteRow
  <2>1. /\ apply.stage # "idle" /\ apply'.event = apply.event
        /\ reflected' \subseteq reflected \cup {apply.event}
        /\ UNCHANGED <<fetched, deadLetters, batch>>
    BY <1>6 DEF ReadRow, WriteRow, To, ReflectedAfter, Typed, Apply
  <2> QED
    BY <1>2, <2>1 DEF Dead
<1>7. CASE WriteCache \/ EnqueueReceipt
  <2>1. /\ apply.stage # "idle" /\ apply'.event = apply.event
        /\ UNCHANGED <<reflected, fetched, deadLetters, batch>>
    BY <1>7 DEF WriteCache, EnqueueReceipt, To, Typed, Apply
  <2> QED
    BY <1>2, <2>1 DEF Dead
<1>8. CASE EventApplied \/ EventFailed
  <2>1. /\ apply.stage # "idle" /\ apply'.stage = "idle"
        /\ UNCHANGED <<reflected, fetched>>
    BY <1>8 DEF EventApplied, EventFailed, Idle
  <2>2. Dead' \subseteq Dead \cup {apply.event}
    BY <1>8 DEF EventApplied, EventFailed, Buried, Dead
  <2>3. batch'.todo = batch.todo
    BY <1>8 DEF EventApplied, EventFailed, Typed, Batch
  <2> QED
    BY <1>2, <2>1, <2>2, <2>3
<1>9. CASE StartBatch \/ FinishBatch \/ Crash
  <2>1. batch'.todo = {}
    <3>1. CASE StartBatch
      <4>1. PICK stage, divergence :
              batch' = [NoBatch EXCEPT !.stage = stage, !.divergence = divergence]
        BY <3>1 DEF StartBatch
      <4> QED
        BY <4>1 DEF NoBatch
    <3>2. CASE FinishBatch \/ Crash
      BY <3>2 DEF FinishBatch, Crash, NoBatch
    <3> QED
      BY <1>9, <3>1, <3>2
  <2>2. (apply' = apply \/ apply'.stage = "idle")
        /\ UNCHANGED <<reflected, fetched, deadLetters>>
    BY <1>9 DEF StartBatch, FinishBatch, Crash, Idle
  <2> QED
    BY <1>2, <2>1, <2>2 DEF Dead
<1>10. CASE RewindCache \/ RewindState
  <2>1. batch'.todo = batch.todo
    BY <1>10 DEF RewindCache, RewindState, Typed, Batch
  <2>2. UNCHANGED <<reflected, fetched, deadLetters, apply>>
    BY <1>10 DEF RewindCache, RewindState
  <2> QED
    BY <1>2, <2>1, <2>2 DEF Dead
<1>11. CASE RetryDeadLetter
  <2>1. PICK e \in deadLetters.open :
          /\ deadLetters' = Buried(e)
          /\ reflected' = IF ~isStaleReplay(e) THEN ReflectedAfter(e) ELSE reflected \cup {e}
          /\ UNCHANGED <<fetched, batch, apply>>
    BY <1>11 DEF RetryDeadLetter
  <2>2. reflected' \subseteq reflected \cup {e} /\ e \in Dead /\ Dead' \subseteq Dead
    BY <2>1 DEF ReflectedAfter, Dead, Buried
  <2> QED
    BY <1>2, <2>1, <2>2
<1>12. CASE quarantineDeadLetter
  <2>1. Dead' = Dead /\ UNCHANGED <<reflected, fetched, batch, apply>>
    BY <1>12 DEF quarantineDeadLetter, Dead
  <2> QED
    BY <1>2, <2>1
<1>13. CASE UNCHANGED <<reflected, fetched, deadLetters, batch, apply>>
  BY <1>2, <1>13 DEF Dead
<1>14. Grow \/ Reorg \/ UNCHANGED vars \/ UNCHANGED indexerVars
         => UNCHANGED <<reflected, fetched, deadLetters, batch, apply>>
  BY DEF Grow, Reorg, vars, indexerVars
<1> QED
  BY <1>3, <1>4, <1>5, <1>6, <1>7, <1>8, <1>9, <1>10, <1>11, <1>12, <1>13, <1>14, StepCases

-----------------------------------------------------------------------------
(* The row and the events it reflects. *)

\* An event takes its place in the row: a sale replaces it, an event of its
\* purchase or a refund brings it up to date, any other is passed over.
SaleWritten(e) ==
    /\ e.type = "completed" /\ row' # None
    /\ row'.settlementState = "Pending"
    /\ row'.purchaseId = e.purchaseId /\ row'.indexedLedger = e.ledger
    /\ reflected' = {e} \cup {d \in reflected : d.ledger < e.ledger}

FollowUpWritten(e) ==
    /\ e.type # "completed" /\ row # None
    /\ e.type # "refunded" => e.purchaseId = row.purchaseId
    /\ row.indexedLedger <= e.ledger
    /\ row'.settlementState = Settles[e.type]
    /\ row'.purchaseId = row.purchaseId /\ row'.indexedLedger = e.ledger
    /\ reflected' = reflected \cup {e}

PassedOver(e) ==
    /\ e.type # "completed" /\ row' = row
    /\ isStaleReplay(e) \/ ~Finds(e)
    /\ row # None /\ e.purchaseId = row.purchaseId => e.ledger <= row.indexedLedger
    /\ reflected' = reflected \cup {e}

RowWritten(e) ==
    /\ SaleWritten(e) \/ FollowUpWritten(e) \/ PassedOver(e)
    /\ branch = 0 => e \in Events(chain)
    /\ UNCHANGED <<chain, branch, learnt, staleFill>>

\* By the batch, or by the operator, who writes the cache entry as well.
WrittenBy(e) ==
    \/ ReadRow /\ e = apply.event /\ UNCHANGED cache
    \/ WriteRow /\ e = apply.event /\ UNCHANGED cache
    \/ /\ RetryDeadLetter
       /\ \/ isStaleReplay(e) /\ UNCHANGED cache
          \/ /\ ~isStaleReplay(e)
             /\ cache' = IF TouchesCache(e, Finds(e)) THEN CacheAfter(e) ELSE cache

\* The rewind orphans the row, or leaves it with what it reflects.
RowOrphaned ==
    /\ RewindRow /\ Orphans(batch.divergence)
    /\ row # None /\ row'.settlementState = "Orphaned"
    /\ row'.purchaseId = row.purchaseId /\ row'.indexedLedger = row.indexedLedger
    /\ reflected' = {}
    /\ UNCHANGED <<cache, chain, branch, learnt, staleFill>>

RowPassedBy ==
    /\ RewindRow /\ ~Orphans(batch.divergence)
    /\ row' = row
    /\ reflected' \subseteq reflected
    /\ row # None => \A e \in reflected : e.ledger <= row.indexedLedger => e \in reflected'
    /\ UNCHANGED <<cache, chain, branch, learnt, staleFill>>

\* A download mirrors a revocation into the row.
RowMirrored(v) ==
    /\ row # None /\ resolve[v].stage = "mirror" /\ resolve[v].answer \in Revoking
    /\ resolve[v].seen # None /\ learnt
    /\ row'.settlementState = resolve[v].answer
    /\ row'.purchaseId = row.purchaseId /\ row'.indexedLedger = row.indexedLedger
    /\ staleFill' = (staleFill \/ resolve[v].stale)
    /\ UNCHANGED <<cache, reflected, chain, branch, learnt>>

\* Or the row is left alone.
RowLeft ==
    /\ UNCHANGED <<row, reflected>>
    /\ \/ UNCHANGED cache
       \/ RewindCache
       \/ WriteCache
       \/ \E v \in Resolvers : WriteVerdict(v) /\ UNCHANGED indexerVars

\* What writing an event that is not stale does.
LEMMA WritesRow ==
    ASSUME Typed, NEW e \in IndexedEvent, row' = RowAfter(e),
           reflected' = ReflectedAfter(e),
           e.type # "completed" /\ Finds(e) => row.indexedLedger <= e.ledger
    PROVE  SaleWritten(e) \/ FollowUpWritten(e) \/ PassedOver(e)
<1>1. CASE e.type = "completed"
  <2>1. row' = [settlementState |-> "Pending", purchaseId |-> e.purchaseId,
                indexedLedger |-> e.ledger]
    BY <1>1 DEF RowAfter
  <2>2. reflected' = {e} \cup {d \in reflected : d.ledger < e.ledger}
    BY <1>1 DEF ReflectedAfter
  <2>3. row' # None
    BY <1>1, RowAfterTyped
  <2> QED
    BY <1>1, <2>1, <2>2, <2>3 DEF SaleWritten
<1>2. CASE e.type # "completed" /\ Finds(e)
  <2>1. row # None /\ (e.type # "refunded" => e.purchaseId = row.purchaseId)
    BY <1>2 DEF Finds
  <2>2. row' = [row EXCEPT !.settlementState = Settles[e.type], !.indexedLedger = e.ledger]
    BY <1>2 DEF RowAfter
  <2>3. row \in PurchaseRow
    BY <2>1 DEF Typed
  <2>4. /\ row'.settlementState = Settles[e.type] /\ row'.purchaseId = row.purchaseId
        /\ row'.indexedLedger = e.ledger
    BY <2>2, <2>3 DEF PurchaseRow
  <2>5. reflected' = reflected \cup {e}
    BY <1>2 DEF ReflectedAfter
  <2> QED
    BY <1>2, <2>1, <2>4, <2>5 DEF FollowUpWritten
<1>3. CASE e.type # "completed" /\ ~Finds(e)
  <2>1. row' = row /\ reflected' = reflected \cup {e}
    BY <1>3 DEF RowAfter, ReflectedAfter
  <2> QED
    BY <1>3, <2>1 DEF PassedOver, Finds
<1> QED
  BY <1>1, <1>2, <1>3

\* Every step of the system, as the row sees it.
LEMMA RowChanges ==
    ASSUME Typed, SalesAlone, ResolversInStep, BatchInOrder, OneBranch, ApplySound,
           [Next]_vars, ~outOfTurn'
    PROVE  \/ \E e \in IndexedEvent : RowWritten(e) /\ WrittenBy(e)
           \/ RowOrphaned \/ RowPassedBy
           \/ \E v \in Resolvers : RowMirrored(v) /\ MirrorRevocation(v)
           \/ RowLeft
<1>0. ~outOfTurn
  BY TurnIsLost
<1>1. CASE ReadRow
  <2> DEFINE e == apply.event
  <2>1. /\ e \in IndexedEvent /\ e.type # "completed"
        /\ branch = 0 => e \in Events(chain)
    BY <1>1 DEF ReadRow, Typed, Apply, SalesAlone, OneBranch
  <2>2. row' = row /\ UNCHANGED <<cache, chain, branch, learnt, staleFill>>
    BY <1>1 DEF ReadRow, entitlementVars
  <2>3. CASE isStaleReplay(e)
    <3>1. e.ledger < row.indexedLedger /\ row # None
      BY <2>3 DEF isStaleReplay, Finds
    <3>2. row.indexedLedger \in Nat /\ e.ledger \in Nat
      BY <2>1, <3>1, IndexerAssumption DEF Typed, PurchaseRow, IndexedEvent
    <3>3. reflected' = reflected \cup {e}
      BY <1>1, <2>3 DEF ReadRow
    <3>4. e.ledger <= row.indexedLedger
      BY <3>1, <3>2
    <3>5. PICK x \in IndexedEvent : x = e
      BY <2>1
    <3>6. RowWritten(x) /\ WrittenBy(x)
      BY <1>1, <2>1, <2>2, <2>3, <3>3, <3>4, <3>5 DEF RowWritten, PassedOver, WrittenBy
    <3> QED
      BY <3>6
  <2>4. CASE ~isStaleReplay(e)
    BY <1>1, <2>2, <2>4 DEF ReadRow, RowLeft
  <2> QED
    BY <2>3, <2>4
<1>2. CASE WriteRow
  <2>1. PICK e \in IndexedEvent : e = apply.event
    BY <1>2 DEF WriteRow, Typed, Apply
  <2>2. branch = 0 => e \in Events(chain)
    BY <1>2, <2>1 DEF WriteRow, OneBranch
  <2>3. /\ row' = RowAfter(e) /\ reflected' = ReflectedAfter(e)
        /\ UNCHANGED <<cache, chain, branch, learnt, staleFill>>
    BY <1>2, <2>1 DEF WriteRow
  <2>4. e.type # "completed" /\ Finds(e) => row.indexedLedger <= e.ledger
    BY <1>0, <1>2, <2>1 DEF WriteRow, ApplySound
  <2>5. SaleWritten(e) \/ FollowUpWritten(e) \/ PassedOver(e)
    BY <2>3, <2>4, WritesRow
  <2> QED
    BY <1>2, <2>1, <2>2, <2>3, <2>5 DEF RowWritten, WrittenBy
<1>3. CASE RetryDeadLetter
  <2>1. PICK e \in deadLetters.open :
          /\ e \in IndexedEvent /\ e \in Events(chain)
          /\ reflected' = reflected \cup {e}
          /\ \/ isStaleReplay(e) /\ UNCHANGED <<row, cache>>
             \/ /\ \A d \in reflected \ {e} : d.ledger < e.ledger
                /\ ~isStaleReplay(e)
                /\ row' = RowAfter(e)
                /\ cache' = IF TouchesCache(e, Finds(e)) THEN CacheAfter(e) ELSE cache
    BY <1>3, RetryInTurn
  <2>2. UNCHANGED <<chain, branch, learnt, staleFill>>
    BY <1>3, RetryInTurn
  <2>3. e.ledger \in Nat /\ (row # None => row.indexedLedger \in Nat)
    BY <2>1, IndexerAssumption DEF Typed, PurchaseRow, IndexedEvent
  <2>4. CASE isStaleReplay(e)
    <3>1. e.type # "completed" /\ e.ledger < row.indexedLedger /\ row # None /\ row' = row
      BY <2>1, <2>4 DEF isStaleReplay, Finds
    <3>2. PassedOver(e)
      BY <2>1, <2>3, <2>4, <3>1 DEF PassedOver
    <3> QED
      BY <1>3, <2>1, <2>2, <2>4, <3>2 DEF RowWritten, WrittenBy
  <2>5. CASE ~isStaleReplay(e)
    <3>1. row' = RowAfter(e) /\ \A d \in reflected \ {e} : d.ledger < e.ledger
      BY <2>1, <2>5
    <3>2. reflected' = ReflectedAfter(e)
      BY <2>1, <3>1 DEF ReflectedAfter
    <3>3. e.type # "completed" /\ Finds(e) => row.indexedLedger <= e.ledger
      BY <2>3, <2>5 DEF isStaleReplay, Finds
    <3>4. SaleWritten(e) \/ FollowUpWritten(e) \/ PassedOver(e)
      BY <2>1, <3>1, <3>2, <3>3, WritesRow
    <3> QED
      BY <1>3, <2>1, <2>2, <2>5, <3>4 DEF RowWritten, WrittenBy
  <2> QED
    BY <2>4, <2>5
<1>4. CASE RewindRow
  <2>1. UNCHANGED <<cache, chain, branch, learnt, staleFill>>
    BY <1>4 DEF RewindRow
  <2>2. CASE Orphans(batch.divergence)
    <3>1. row \in PurchaseRow /\ row # None
      BY <2>2 DEF Orphans, Typed
    <3>2. row' = [row EXCEPT !.settlementState = "Orphaned"] /\ reflected' = {}
      BY <1>4, <2>2 DEF RewindRow
    <3> QED
      BY <1>4, <2>1, <2>2, <3>1, <3>2 DEF RowOrphaned, PurchaseRow
  <2>3. CASE ~Orphans(batch.divergence)
    <3>1. row' = row /\ reflected' = {e \in reflected : e.ledger < batch.divergence}
      BY <1>4, <2>3 DEF RewindRow
    <3>2. ASSUME row # None, NEW e \in reflected, e.ledger <= row.indexedLedger
          PROVE  e \in reflected'
      <4>1. ~(row.indexedLedger >= batch.divergence)
        BY <2>3, <3>2 DEF Orphans
      <4>2. row.indexedLedger \in Nat /\ batch.divergence \in Nat /\ e.ledger \in Nat
        BY <3>2, IndexerAssumption DEF Typed, PurchaseRow, Batch, IndexedEvent
      <4> QED
        BY <3>1, <3>2, <4>1, <4>2
    <3> QED
      BY <1>4, <2>1, <2>3, <3>1, <3>2 DEF RowPassedBy
  <2> QED
    BY <2>2, <2>3
<1>5. ASSUME NEW v \in Resolvers, MirrorRevocation(v), UNCHANGED indexerVars
      PROVE  RowMirrored(v)
  <2>1. /\ row # None /\ resolve[v].stage = "mirror" /\ resolve[v].answer \in Revoking
        /\ resolve[v].seen # None /\ learnt
    BY <1>5 DEF MirrorRevocation, ResolversInStep
  <2>2. row \in PurchaseRow
    BY <2>1 DEF Typed
  <2>3. row' = [row EXCEPT !.settlementState = resolve[v].answer]
        /\ staleFill' = (staleFill \/ resolve[v].stale) /\ UNCHANGED <<cache, learnt>>
    BY <1>5 DEF MirrorRevocation
  <2>4. UNCHANGED <<reflected, chain, branch>>
    BY <1>5 DEF indexerVars
  <2> QED
    BY <2>1, <2>2, <2>3, <2>4 DEF RowMirrored, PurchaseRow
<1>6. UNCHANGED row => RowLeft \/ RewindRow \/ ReadRow \/ WriteRow \/ RetryDeadLetter
  <2>1. Grow \/ Reorg \/ StartBatch \/ RewindState \/ Fetch \/ EnqueueReceipt
        \/ EventApplied => UNCHANGED <<cache, reflected>>
    BY DEF Grow, Reorg, StartBatch, RewindState, Fetch, EnqueueReceipt, EventApplied,
       entitlementVars
  <2>2. InsertSyncEvent \/ FinishBatch \/ EventFailed \/ Crash \/ quarantineDeadLetter
        \/ UNCHANGED vars => UNCHANGED <<cache, reflected>>
    BY DEF InsertSyncEvent, FinishBatch, EventFailed, Crash, quarantineDeadLetter, vars,
       indexerVars, entitlementVars
  <2>3. RewindCache \/ WriteCache \/ UNCHANGED indexerVars => UNCHANGED reflected
    BY DEF RewindCache, WriteCache, indexerVars
  <2>4. ASSUME NEW v \in Resolvers,
               \/ ReadPurchase(v) \/ ReadCache(v) \/ AskChain(v, Settled(chain))
               \/ WriteVerdict(v) \/ MirrorRevocation(v) \/ Fails(v)
        PROVE  UNCHANGED cache \/ WriteVerdict(v)
    BY <2>4 DEF ReadPurchase, ReadCache, AskChain, MirrorRevocation, Fails
  <2> QED
    BY <2>1, <2>2, <2>3, <2>4, StepCases DEF RowLeft
<1> QED
  BY <1>1, <1>2, <1>3, <1>4, <1>5, <1>6, RowSteps

\* What a download did or was told is not undone.
LEMMA MisledStays ==
    ASSUME Typed, ChainPossible, [Next]_vars
    PROVE  /\ learnt => learnt'
           /\ staleFill => staleFill'
           /\ Misled => Misled'
<1>1. (learnt => learnt') /\ (staleFill => staleFill')
  <2>1. ASSUME NEW v \in Resolvers,
               \/ ReadPurchase(v) \/ ReadCache(v) \/ AskChain(v, Settled(chain))
               \/ WriteVerdict(v) \/ MirrorRevocation(v) \/ Fails(v)
        PROVE  (learnt => learnt') /\ (staleFill => staleFill')
    <3>1. CASE WriteVerdict(v)
      BY <3>1 DEF WriteVerdict
    <3>2. CASE MirrorRevocation(v)
      BY <3>2 DEF MirrorRevocation
    <3>3. CASE ReadPurchase(v) \/ ReadCache(v) \/ AskChain(v, Settled(chain)) \/ Fails(v)
      BY <3>3 DEF ReadPurchase, ReadCache, AskChain, Fails
    <3> QED
      BY <2>1, <3>1, <3>2, <3>3
  <2> QED
    BY <2>1, StepsOfOthers
<1>2. branch > 0 => branch' > 0
  <2>1. branch' = branch \/ Reorg
    BY ChainStaysPossible
  <2> QED
    BY <2>1 DEF Reorg, Typed
<1> QED
  BY <1>1, <1>2 DEF Misled

LEMMA ToldStays ==
    ASSUME Typed, ChainPossible, [Next]_vars, NEW S, Told(S),
           row'.purchaseId = row.purchaseId, row'.indexedLedger = row.indexedLedger
    PROVE  Told(S)' \/ Misled'
<1>1. learnt' /\ branch' \in Nat
  BY MisledStays, ChainStays DEF Told
<1>2. CASE branch' = 0
  <2>1. Events(chain) \subseteq Events(chain')
    BY <1>2, ChainStaysPossible
  <2>2. PICK y \in Events(chain) :
          /\ Settles[y.type] \in S
          /\ y.ledger >= row.indexedLedger
          /\ y.purchaseId = row.purchaseId \/ y.ledger = row.indexedLedger
    BY DEF Told
  <2> QED
    BY <1>1, <1>2, <2>1, <2>2 DEF Told
<1>3. CASE branch' # 0
  BY <1>1, <1>3 DEF Misled
<1> QED
  BY <1>2, <1>3

\* The row is what an event made it, or a rewind, or a download that was told.
LEMMA RowStaysExplained ==
    ASSUME Typed, SalesAlone, ResolversInStep, BatchInOrder, ChainPossible, OneBranch,
           ApplySound, ResolversSound, RowExplained, [Next]_vars
    PROVE  RowExplained'
<1> SUFFICES ASSUME ~outOfTurn', row' # None
             PROVE  \/ row'.settlementState = "Orphaned"
                    \/ \E x \in reflected' :
                         WrittenFor(x)' /\ Settles[x.type] = row'.settlementState
                    \/ /\ row'.settlementState \in Revoking
                       /\ Misled' \/ Told({row.settlementState})'
  BY DEF RowExplained
<1>0. ~outOfTurn
  BY TurnIsLost
<1>a. Misled => Misled'
  BY MisledStays
<1>1. ASSUME row' = row, reflected \subseteq reflected'
             \/ \A e \in reflected : e.ledger <= row.indexedLedger => e \in reflected'
      PROVE  \/ row'.settlementState = "Orphaned"
             \/ \E x \in reflected' :
                  WrittenFor(x)' /\ Settles[x.type] = row'.settlementState
             \/ /\ row'.settlementState \in Revoking
                /\ Misled' \/ Told({row.settlementState})'
  <2>1. row # None
    BY <1>1
  <2>2. CASE row.settlementState = "Orphaned"
    BY <1>1, <2>2
  <2>3. CASE \E x \in reflected : WrittenFor(x) /\ Settles[x.type] = row.settlementState
    <3>1. PICK x \in reflected : WrittenFor(x) /\ Settles[x.type] = row.settlementState
      BY <2>3
    <3>2. x.ledger \in Nat
      BY IndexerAssumption DEF Typed, IndexedEvent
    <3>3. x \in reflected'
      BY <1>1, <3>1, <3>2 DEF WrittenFor
    <3>4. WrittenFor(x)'
      BY <1>1, <3>1 DEF WrittenFor
    <3> QED
      BY <1>1, <3>1, <3>3, <3>4
  <2>4. CASE row.settlementState \in Revoking /\ (Misled \/ Told({row.settlementState}))
    <3>1. PICK s : s = row.settlementState
      OBVIOUS
    <3>2. Misled' \/ Told({s})'
      BY <1>1, <1>a, <2>4, <3>1, ToldStays
    <3>3. row'.settlementState = s
      BY <1>1, <3>1
    <3>4. Misled' \/ Told({row.settlementState})'
      BY <3>2, <3>3 DEF Told
    <3> QED
      BY <2>4, <3>1, <3>3, <3>4
  <2> QED
    BY <1>0, <2>1, <2>2, <2>3, <2>4 DEF RowExplained
<1>2. ASSUME NEW e \in IndexedEvent, RowWritten(e)
      PROVE  \/ row'.settlementState = "Orphaned"
             \/ \E x \in reflected' :
                  WrittenFor(x)' /\ Settles[x.type] = row'.settlementState
             \/ /\ row'.settlementState \in Revoking
                /\ Misled' \/ Told({row.settlementState})'
  <2>1. CASE SaleWritten(e)
    BY <2>1, SettlesFacts DEF SaleWritten, WrittenFor
  <2>2. CASE FollowUpWritten(e)
    BY <2>2 DEF FollowUpWritten, WrittenFor
  <2>3. CASE PassedOver(e)
    BY <1>1, <2>3 DEF PassedOver
  <2> QED
    BY <1>2, <2>1, <2>2, <2>3 DEF RowWritten
<1>3. CASE RowOrphaned
  BY <1>3 DEF RowOrphaned
<1>4. CASE RowPassedBy
  BY <1>1, <1>4 DEF RowPassedBy
<1>5. ASSUME NEW v \in Resolvers, RowMirrored(v)
      PROVE  /\ row'.settlementState \in Revoking
             /\ Misled' \/ Told({row.settlementState})'
  <2>1. row'.settlementState = resolve[v].answer /\ learnt' /\ branch' = branch
    BY <1>5 DEF RowMirrored
  <2>2. CASE resolve[v].stale \/ branch > 0
    BY <1>5, <2>1, <2>2 DEF RowMirrored, Misled
  <2>3. CASE ~resolve[v].stale /\ branch = 0
    <3>1. PICK y \in Events(chain) :
            /\ Settles[y.type] = resolve[v].answer
            /\ y.ledger >= row.indexedLedger
            /\ y.purchaseId = row.purchaseId \/ y.ledger = row.indexedLedger
      BY <1>0, <1>5, <2>3 DEF RowMirrored, ResolversSound
    <3>2. Told({row.settlementState})'
      BY <1>5, <2>1, <2>3, <3>1 DEF RowMirrored, Told
    <3> QED
      BY <1>5, <3>2 DEF RowMirrored
  <2> QED
    BY <1>5, <2>2, <2>3 DEF RowMirrored, Typed
<1>6. CASE RowLeft
  BY <1>1, <1>6 DEF RowLeft
<1> QED
  BY <1>2, <1>3, <1>4, <1>5, <1>6, RowChanges

\* Sales that are reflected are followed.
LEMMA RowStaysWithSales ==
    ASSUME Typed, SalesAlone, ResolversInStep, BatchInOrder, OneBranch, ApplySound,
           RowFollowsSales, [Next]_vars
    PROVE  RowFollowsSales'
<1> SUFFICES ASSUME ~outOfTurn'
             PROVE  /\ \A c \in Sales' :
                         /\ row' # None
                         /\ row'.settlementState # "Orphaned"
                         /\ c.ledger <= row'.indexedLedger
                         /\ (\A d \in Sales' : d.ledger <= c.ledger) =>
                              row'.purchaseId = c.purchaseId
                    /\ row' # None =>
                         \A e \in reflected' :
                           e.purchaseId = row'.purchaseId => e.ledger <= row'.indexedLedger
  BY DEF RowFollowsSales
<1>0. ~outOfTurn
  BY TurnIsLost
<1>a. \A c \in Sales :
        /\ row # None /\ row.settlementState # "Orphaned" /\ c.ledger <= row.indexedLedger
        /\ (\A d \in Sales : d.ledger <= c.ledger) => row.purchaseId = c.purchaseId
  BY <1>0 DEF RowFollowsSales
<1>b. row # None => \A e \in reflected :
                      e.purchaseId = row.purchaseId => e.ledger <= row.indexedLedger
  BY <1>0 DEF RowFollowsSales
<1>c. \A e \in IndexedEvent : e.ledger \in Nat
  BY IndexerAssumption DEF IndexedEvent
<1>d. reflected \subseteq IndexedEvent /\ (row # None => row.indexedLedger \in Nat)
  BY DEF Typed, PurchaseRow
<1>e. row # None => row' # None
  BY ResolversStayInStep
<1>1. ASSUME NEW e \in IndexedEvent, SaleWritten(e), row' # None PROVE RowFollowsSales'
  <2>1. \A c \in reflected' : c = e \/ (c.ledger < e.ledger /\ c \in IndexedEvent)
    BY <1>1, <1>d DEF SaleWritten
  <2>2. \A c \in reflected' : c.ledger <= e.ledger
    BY <1>c, <2>1
  <2>3. e \in Sales' /\ row'.settlementState # "Orphaned"
        /\ row'.purchaseId = e.purchaseId /\ row'.indexedLedger = e.ledger
    BY <1>1 DEF SaleWritten, Sales
  <2>4. ASSUME NEW c \in Sales', \A d \in Sales' : d.ledger <= c.ledger
        PROVE  c = e
    <3>1. e.ledger <= c.ledger /\ c \in reflected'
      BY <2>3, <2>4 DEF Sales
    <3> QED
      BY <1>c, <2>1, <3>1
  <2> QED
    BY <1>1, <2>2, <2>3, <2>4 DEF RowFollowsSales, Sales
<1>2. ASSUME NEW e \in IndexedEvent, FollowUpWritten(e), row' # None PROVE RowFollowsSales'
  <2>1. Sales' = Sales /\ reflected' = reflected \cup {e}
    BY <1>2 DEF FollowUpWritten, Sales
  <2>2. /\ row # None /\ row.indexedLedger <= e.ledger
        /\ row'.purchaseId = row.purchaseId /\ row'.indexedLedger = e.ledger
        /\ row'.settlementState # "Orphaned"
    <3>1. e.type \in EventType
      BY DEF IndexedEvent
    <3> QED
      BY <1>2, <3>1, SettlesFacts DEF FollowUpWritten
  <2>3. \A c \in reflected : c.ledger <= row.indexedLedger => c.ledger <= e.ledger
    BY <1>c, <1>d, <2>2
  <2>4. Sales \subseteq reflected
    BY DEF Sales
  <2>5. e.ledger <= e.ledger
    BY <1>c
  <2> QED
    BY <1>2, <1>a, <1>b, <2>1, <2>2, <2>3, <2>4, <2>5 DEF RowFollowsSales
<1>3. ASSUME NEW e \in IndexedEvent, PassedOver(e) PROVE RowFollowsSales'
  <2>1. Sales' = Sales /\ reflected' = reflected \cup {e} /\ row' = row
    BY <1>3 DEF PassedOver, Sales
  <2> QED
    BY <1>3, <1>a, <1>b, <2>1 DEF RowFollowsSales, PassedOver
<1>4. CASE RowOrphaned
  BY <1>4 DEF RowOrphaned, RowFollowsSales, Sales
<1>5. CASE RowPassedBy
  <2>1. Sales' = Sales
    BY <1>5, <1>a DEF RowPassedBy, Sales
  <2> QED
    BY <1>5, <1>a, <1>b, <2>1 DEF RowPassedBy, RowFollowsSales
<1>6. ASSUME NEW v \in Resolvers, RowMirrored(v) PROVE RowFollowsSales'
  <2>1. /\ Sales' = Sales /\ reflected' = reflected
        /\ row'.settlementState # "Orphaned"
        /\ row'.purchaseId = row.purchaseId /\ row'.indexedLedger = row.indexedLedger
        /\ row # None
    BY <1>6 DEF RowMirrored, Sales, Revoking
  <2> QED
    BY <1>a, <1>b, <1>e, <2>1 DEF RowFollowsSales
<1>7. CASE RowLeft
  <2>1. Sales' = Sales /\ UNCHANGED <<row, reflected>>
    BY <1>7 DEF RowLeft, Sales
  <2> QED
    BY <1>a, <1>b, <2>1 DEF RowFollowsSales
<1> QED
  BY <1>1, <1>2, <1>3, <1>4, <1>5, <1>6, <1>7, <1>e, RowChanges
     DEF RowWritten, SaleWritten, FollowUpWritten, RowFollowsSales

\* Of two events of a chain the later one is of no earlier purchase.
LEMMA IdsInOrder ==
    ASSUME NEW c \in Chains, NEW d \in Events(c), NEW e \in Events(c),
           d.ledger <= e.ledger
    PROVE  /\ d.purchaseId <= e.purchaseId
           /\ d.purchaseId \in Nat /\ e.purchaseId \in Nat
<1>1. /\ d.ledger \in 1..Len(c) /\ e.ledger \in 1..Len(c) /\ Len(c) \in Nat
      /\ d = EventAt(c, d.ledger) /\ e = EventAt(c, e.ledger)
  BY EventsTyped, ChainShape
<1>2. e.ledger \in 0..Len(c) /\ d.ledger \in 0..e.ledger
  BY <1>1
<1>3. /\ Purchases(c, d.ledger) <= Purchases(c, e.ledger)
      /\ Purchases(c, d.ledger) \in Nat /\ Purchases(c, e.ledger) \in Nat
  BY <1>2, PurchasesGrow
<1>4. d.purchaseId = Purchases(c, d.ledger) /\ e.purchaseId = Purchases(c, e.ledger)
  BY <1>1 DEF EventAt
<1> QED
  BY <1>3, <1>4

\* The row stands at an event of its purchase, or at a later purchase's refund.
LEMMA RowStaysOnChain ==
    ASSUME Typed, SalesAlone, ResolversInStep, BatchInOrder, ChainPossible, OneBranch,
           ApplySound, RowOnChain, [Next]_vars
    PROVE  RowOnChain'
<1> SUFFICES ASSUME ~outOfTurn', branch' = 0, row' # None
             PROVE  \E x \in Events(chain') :
                      /\ x.ledger = row'.indexedLedger
                      /\ \/ x.purchaseId = row'.purchaseId
                         \/ x.type = "refunded" /\ x.purchaseId > row'.purchaseId
  BY DEF RowOnChain
<1>0. ~outOfTurn /\ branch = 0 /\ Events(chain) \subseteq Events(chain')
  BY TurnIsLost, ChainStaysPossible
<1>1. ASSUME row # None, row'.purchaseId = row.purchaseId,
             row'.indexedLedger = row.indexedLedger
      PROVE  \E x \in Events(chain') :
               /\ x.ledger = row'.indexedLedger
               /\ \/ x.purchaseId = row'.purchaseId
                  \/ x.type = "refunded" /\ x.purchaseId > row'.purchaseId
  BY <1>0, <1>1 DEF RowOnChain
<1>2. ASSUME NEW e \in Events(chain), FollowUpWritten(e)
      PROVE  \/ e.purchaseId = row'.purchaseId
             \/ e.type = "refunded" /\ e.purchaseId > row'.purchaseId
  <2>1. PICK x \in Events(chain) :
          /\ x.ledger = row.indexedLedger
          /\ \/ x.purchaseId = row.purchaseId
             \/ x.type = "refunded" /\ x.purchaseId > row.purchaseId
    BY <1>0, <1>2 DEF RowOnChain, FollowUpWritten
  <2>2. x.purchaseId <= e.purchaseId /\ x.purchaseId \in Nat /\ e.purchaseId \in Nat
    BY <1>2, <2>1, IdsInOrder DEF FollowUpWritten, Typed
  <2>3. row.purchaseId \in Nat /\ row'.purchaseId = row.purchaseId
    BY <1>2 DEF FollowUpWritten, Typed, PurchaseRow
  <2> QED
    BY <1>2, <2>1, <2>2, <2>3 DEF FollowUpWritten
<1>3. ASSUME NEW e \in IndexedEvent, RowWritten(e)
      PROVE  \E x \in Events(chain') :
               /\ x.ledger = row'.indexedLedger
               /\ \/ x.purchaseId = row'.purchaseId
                  \/ x.type = "refunded" /\ x.purchaseId > row'.purchaseId
  <2>1. e \in Events(chain) /\ e \in Events(chain')
    BY <1>0, <1>3 DEF RowWritten
  <2>2. CASE SaleWritten(e)
    BY <2>1, <2>2 DEF SaleWritten
  <2>3. CASE FollowUpWritten(e)
    BY <1>2, <2>1, <2>3 DEF FollowUpWritten
  <2>4. CASE PassedOver(e)
    BY <1>1, <2>4 DEF PassedOver
  <2> QED
    BY <1>3, <2>2, <2>3, <2>4 DEF RowWritten
<1>4. RowOrphaned \/ RowPassedBy \/ (\E v \in Resolvers : RowMirrored(v))
      \/ RowLeft =>
        row # None /\ row'.purchaseId = row.purchaseId /\ row'.indexedLedger = row.indexedLedger
  BY DEF RowOrphaned, RowPassedBy, RowMirrored, RowLeft
<1> QED
  BY <1>1, <1>3, <1>4, RowChanges

\* What the batch read of the row still holds when it writes.
LEMMA ApplyStaysSound ==
    ASSUME Typed, SalesAlone, ResolversInStep, BatchInOrder, OneBranch, ApplySound,
           [Next]_vars
    PROVE  ApplySound'
<1> SUFFICES ASSUME ~outOfTurn' PROVE ApplySound'
  BY DEF ApplySound
<1>0. ~outOfTurn
  BY TurnIsLost
<1>a. \A e \in IndexedEvent : e.ledger \in Nat /\ e.type \in EventType
  BY IndexerAssumption DEF IndexedEvent
<1>1. ASSUME UNCHANGED apply, (row = None) = (row' = None),
             row # None => /\ row'.purchaseId = row.purchaseId
                           /\ row'.indexedLedger = row.indexedLedger
                           /\ row'.settlementState \in {row.settlementState} \cup Revoking
      PROVE  ApplySound'
  <2>1. \A e : Finds(e)' <=> Finds(e)
    BY <1>1 DEF Finds
  <2>2. \A e : row # None /\ WrittenFor(e) => WrittenFor(e)'
    BY <1>1 DEF WrittenFor
  <2> QED
    BY <1>0, <1>1, <2>1, <2>2 DEF ApplySound, WrittenFor, Finds
<1>2. CASE apply'.stage \notin {"row", "cache"}
  BY <1>2 DEF ApplySound
<1>3. CASE InsertSyncEvent
  <2>1. PICK x \in batch.todo :
          apply' = [stage |-> IF x.type = "completed" THEN "row" ELSE "read",
                    event |-> x, first |-> eventId(x, TRUE) \notin syncEvents,
                    found |-> FALSE]
    BY <1>3 DEF InsertSyncEvent
  <2> QED
    BY <2>1 DEF ApplySound
<1>4. CASE ReadRow
  <2>1. PICK e \in IndexedEvent : e = apply.event /\ e.type # "completed"
    BY <1>4 DEF ReadRow, Typed, Apply, SalesAlone
  <2>2. /\ apply'.event = e /\ apply'.found = Finds(e)
        /\ apply'.stage = IF isStaleReplay(e) THEN "done" ELSE "row"
    BY <1>4, <2>1 DEF ReadRow, Typed, Apply
  <2>3. row' = row
    BY <1>4 DEF ReadRow, entitlementVars
  <2>4. Finds(e)' = Finds(e)
    BY <2>3 DEF Finds
  <2>5. ~isStaleReplay(e) /\ Finds(e) => row.indexedLedger <= e.ledger
    <3>1. Finds(e) => row.indexedLedger \in Nat
      BY DEF Finds, Typed, PurchaseRow
    <3> QED
      BY <1>a, <2>1, <3>1 DEF isStaleReplay
  <2>6. apply'.stage = "row" => /\ apply'.found = Finds(e)'
                                /\ Finds(e)' => row'.indexedLedger <= e.ledger
    BY <2>2, <2>3, <2>4, <2>5
  <2> QED
    BY <2>2, <2>6 DEF ApplySound
<1>5. CASE WriteRow
  <2>1. PICK e \in IndexedEvent : e = apply.event
    BY <1>5 DEF WriteRow, Typed, Apply
  <2>2. /\ apply'.event = e /\ apply.stage = "row"
        /\ apply'.stage = IF TouchesCache(e, apply.found) THEN "cache" ELSE "done"
    BY <1>5, <2>1 DEF WriteRow, To, Typed, Apply
  <2>3. /\ e.type # "completed" => apply.found = Finds(e)
        /\ e.type # "completed" /\ Finds(e) => row.indexedLedger <= e.ledger
    BY <1>0, <2>1, <2>2 DEF ApplySound
  <2>4. row' = RowAfter(e) /\ reflected' = ReflectedAfter(e)
    BY <1>5, <2>1 DEF WriteRow
  <2>5. SaleWritten(e) \/ FollowUpWritten(e) \/ PassedOver(e)
    BY <2>3, <2>4, WritesRow
  <2>6. CASE TouchesCache(e, apply.found)
    <3>1. CASE SaleWritten(e)
      BY <1>a, <2>2, <3>1, SettlesFacts DEF SaleWritten, ApplySound, WrittenFor
    <3>2. CASE e.type # "completed" /\ Finds(e)
      <4>1. FollowUpWritten(e)
        <5>1. row \in PurchaseRow /\ row # None /\
              row' = [row EXCEPT !.settlementState = Settles[e.type], !.indexedLedger = e.ledger]
          BY <2>4, <3>2 DEF RowAfter, Finds, Typed
        <5> QED
          BY <2>3, <2>4, <3>2, <5>1 DEF FollowUpWritten, Finds, PurchaseRow, ReflectedAfter
      <4>2. row' # None
        BY <4>1, ResolversStayInStep DEF FollowUpWritten
      <4>3. e.type # "released"
        BY <2>6 DEF TouchesCache
      <4> QED
        BY <2>2, <4>1, <4>2, <4>3 DEF FollowUpWritten, ApplySound, WrittenFor
    <3>3. CASE e.type # "completed" /\ ~Finds(e)
      <4>1. e.type = "refunded" /\ row = None /\ row' = row
        BY <2>3, <2>4, <2>6, <3>3 DEF TouchesCache, Finds, RowAfter
      <4> QED
        BY <2>2, <4>1 DEF ApplySound
    <3>4. e.type = "completed" => SaleWritten(e)
      BY <2>5 DEF FollowUpWritten, PassedOver
    <3> QED
      BY <3>1, <3>2, <3>3, <3>4
  <2>7. CASE ~TouchesCache(e, apply.found)
    BY <1>2, <2>2, <2>7
  <2> QED
    BY <2>6, <2>7
<1>6. CASE WriteCache \/ EnqueueReceipt \/ EventApplied \/ EventFailed \/ Crash
  <2>1. apply'.stage \notin {"row", "cache"}
    BY <1>6 DEF WriteCache, EnqueueReceipt, EventApplied, EventFailed, Crash, To, Idle,
       Typed, Apply
  <2> QED
    BY <1>2, <2>1
<1>7. CASE RewindRow \/ RetryDeadLetter
  <2>1. apply.stage = "idle" /\ apply' = apply
    <3>1. RetryDeadLetter => apply.stage = "idle" /\ apply' = apply
      BY RetryInTurn
    <3> QED
      BY <1>7, <3>1 DEF RewindRow, BatchInOrder
  <2> QED
    BY <1>2, <2>1
<1>8. ASSUME NEW v \in Resolvers, UNCHANGED indexerVars, MirrorRevocation(v)
      PROVE  ApplySound'
  <2>1. row # None /\ resolve[v].answer \in Revoking
    BY <1>8 DEF MirrorRevocation, ResolversInStep
  <2>2. row \in PurchaseRow
    BY <2>1 DEF Typed
  <2>3. row' = [row EXCEPT !.settlementState = resolve[v].answer] /\ apply' = apply
    BY <1>8 DEF MirrorRevocation, indexerVars
  <2>4. row' # None
    BY <2>1, ResolversStayInStep
  <2>5. /\ row'.purchaseId = row.purchaseId /\ row'.indexedLedger = row.indexedLedger
        /\ row'.settlementState \in {row.settlementState} \cup Revoking
    BY <2>1, <2>2, <2>3 DEF PurchaseRow
  <2> QED
    BY <1>1, <2>1, <2>3, <2>4, <2>5
<1>9. CASE UNCHANGED <<row, apply>>
  BY <1>1, <1>9
<1>10. Grow \/ Reorg \/ StartBatch \/ RewindCache \/ RewindState \/ Fetch \/ FinishBatch
       \/ quarantineDeadLetter \/ UNCHANGED vars \/ UNCHANGED indexerVars
         => UNCHANGED apply
  BY DEF Grow, Reorg, StartBatch, RewindCache, RewindState, Fetch, FinishBatch,
     quarantineDeadLetter, vars, indexerVars
<1> QED
  BY <1>3, <1>4, <1>5, <1>6, <1>7, <1>8, <1>9, <1>10, RowSteps, StepCases

\* The chain revokes the purchase that the row stands for: by the last event of
\* the purchase, or by the refund the row was last written for.
LEMMA AnswerHasEvent ==
    ASSUME Typed, ChainPossible, row # None, NEW x \in Events(chain),
           x.ledger = row.indexedLedger,
           \/ x.purchaseId = row.purchaseId
           \/ x.type = "refunded" /\ x.purchaseId > row.purchaseId,
           row.purchaseId \in DOMAIN Settled(chain)
    PROVE  \E y \in Events(chain) :
             /\ Settles[y.type] = Settled(chain)[row.purchaseId]
             /\ y.ledger >= row.indexedLedger
             /\ y.purchaseId = row.purchaseId \/ y.ledger = row.indexedLedger
<1> DEFINE p == row.purchaseId
<1>0. chain \in Chains /\ WellFormed(chain) /\ p \in 1..Purchases(chain, Len(chain))
  BY SettledType DEF Typed, ChainPossible
<1>1. PICK n \in EventLedgers(chain) :
        /\ Purchases(chain, n) = p
        /\ \A m \in EventLedgers(chain) : Purchases(chain, m) = p => m <= n
        /\ Settled(chain)[p] = Settles[chain[n].type]
  BY <1>0, SettledSays
<1> DEFINE y == EventAt(chain, n)
<1>2. /\ y \in Events(chain) /\ y.ledger = n /\ y.type = chain[n].type
      /\ y.purchaseId = p
  BY <1>0, <1>1, EventsTyped DEF EventAt
<1>3. /\ x.ledger \in EventLedgers(chain) /\ x = EventAt(chain, x.ledger)
      /\ x.ledger \in Nat /\ n \in Nat
  BY <1>0, EventsTyped, ChainShape DEF EventLedgers
<1>4. x.purchaseId = Purchases(chain, x.ledger) /\ x.type = chain[x.ledger].type
  BY <1>3 DEF EventAt
<1>5. CASE x.purchaseId = p
  <2>1. x.ledger <= n
    BY <1>1, <1>3, <1>4, <1>5
  <2>2. y.ledger >= row.indexedLedger
    BY <1>2, <1>3, <2>1
  <2> QED
    BY <1>1, <1>2, <2>2
<1>6. CASE x.type = "refunded" /\ x.purchaseId > p
  <2>1. Settles[chain[n].type] = "Refunded"
    BY <1>0, <1>1, <1>3, <1>4, <1>6, RefundedBefore
  <2>2. Settles[x.type] = "Refunded"
    BY <1>6 DEF Settles
  <2> QED
    BY <1>1, <1>3, <2>1, <2>2
<1> QED
  BY <1>5, <1>6

\* A download that nothing outdated still sees what is there.
LEMMA ResolversStaySound ==
    ASSUME Typed, SalesAlone, ResolversInStep, BatchInOrder, ChainPossible, OneBranch,
           ApplySound, RowOnChain, ResolversSound, [Next]_vars
    PROVE  ResolversSound'
<1> DEFINE Witness(r) ==
             \E y \in Events(chain) :
               /\ Settles[y.type] = r.answer
               /\ y.ledger >= row.indexedLedger
               /\ y.purchaseId = row.purchaseId \/ y.ledger = row.indexedLedger
           Sound(r) ==
             r.stage # "idle" /\ ~r.stale =>
               /\ r.seen = None => row = None
               /\ r.seen # None => /\ r.seen.purchaseId = row.purchaseId
                                   /\ r.seen.indexedLedger = row.indexedLedger
               /\ ~outOfTurn /\ branch = 0 /\ r.stage \in {"write", "mirror"}
                  /\ r.seen # None /\ r.answer \in Revoking => Witness(r)
<1>0. \A v \in Resolvers : Sound(resolve[v])
  BY DEF ResolversSound
<1> SUFFICES ASSUME NEW w \in Resolvers PROVE Sound(resolve[w])'
  BY DEF ResolversSound
<1>1. ASSUME (row = None) = (row' = None),
             row # None => /\ row'.purchaseId = row.purchaseId
                           /\ row'.indexedLedger = row.indexedLedger,
             NEW r, Sound(r), r.seen # None => row # None
      PROVE  Sound(r)'
  <2>1. ~outOfTurn' => ~outOfTurn
    BY TurnIsLost
  <2>2. branch' = 0 => branch = 0 /\ Events(chain) \subseteq Events(chain')
    BY ChainStaysPossible
  <2>3. row # None /\ branch' = 0 /\ Witness(r) => Witness(r)'
    BY <1>1, <2>2
  <2> HIDE DEF Witness
  <2> QED
    BY <1>1, <2>1, <2>2, <2>3
<1>2. CASE Outdate
  <2>1. resolve'[w].stage # "idle" => resolve'[w].stale
    BY <1>2, OutdateTyped DEF Typed
  <2> QED
    BY <2>1
<1>3. CASE UNCHANGED <<row, resolve>>
  <2>1. resolve[w].seen # None => row # None
    BY DEF ResolversInStep
  <2>2. PICK r : r = resolve[w]
    OBVIOUS
  <2>3. Sound(r)' /\ resolve'[w] = r
    <3> HIDE DEF Sound
    <3>1. Sound(r) /\ (r.seen # None => row # None)
      BY <1>0, <2>1, <2>2
    <3> QED
      BY <1>1, <1>3, <2>2, <3>1
  <2> QED
    BY <2>3
<1>4. ASSUME NEW v \in Resolvers, UNCHANGED indexerVars,
             \/ ReadPurchase(v) \/ ReadCache(v) \/ AskChain(v, Settled(chain))
             \/ WriteVerdict(v) \/ MirrorRevocation(v) \/ Fails(v)
      PROVE  Sound(resolve[w])'
  <2>0. PICK r \in Resolve : r = resolve[v]
    BY DEF Typed
  <2>a. resolve \in [Resolvers -> Resolve]
    BY DEF Typed
  <2>b. ASSUME resolve'[w] = NoResolve PROVE Sound(resolve[w])'
    BY <2>b DEF NoResolve
  <2>c. UNCHANGED <<chain, branch, outOfTurn>>
    BY <1>4 DEF indexerVars
  <2>d. Sound(r) /\ (r.seen # None => row # None)
    BY <1>0, <2>0 DEF ResolversInStep
  <2>e. /\ (row = None) = (row' = None)
        /\ row # None => /\ row'.purchaseId = row.purchaseId
                         /\ row'.indexedLedger = row.indexedLedger
    <3>1. CASE MirrorRevocation(v)
      <4>1. row # None /\ row' = [row EXCEPT !.settlementState = resolve[v].answer]
        BY <3>1 DEF MirrorRevocation, ResolversInStep
      <4>2. row \in PurchaseRow /\ row' # None
        BY <4>1, ResolversStayInStep DEF Typed
      <4> QED
        BY <4>1, <4>2 DEF PurchaseRow
    <3>2. CASE ~MirrorRevocation(v)
      BY <1>4, <3>2 DEF ReadPurchase, ReadCache, AskChain, WriteVerdict, Fails
    <3> QED
      BY <3>1, <3>2
  <2>1. CASE w # v
    <3>1. resolve'[w] = resolve[w]
      BY <1>4, <2>1, <2>a DEF ReadPurchase, ReadCache, AskChain, WriteVerdict,
         MirrorRevocation, Fails
    <3>2. PICK q : q = resolve[w]
      OBVIOUS
    <3> HIDE DEF Sound
    <3>3. Sound(q) /\ (q.seen # None => row # None)
      BY <1>0, <3>2 DEF ResolversInStep
    <3>4. Sound(q)' /\ resolve'[w] = q
      BY <1>1, <2>e, <3>1, <3>2, <3>3
    <3> QED
      BY <3>4 DEF Sound
  <2>2. CASE w = v /\ ReadPurchase(v)
    <3>1. resolve'[w] = [r EXCEPT !.stage = "cache", !.seen = row] /\ row' = row
      BY <2>0, <2>2, <2>a DEF ReadPurchase
    <3>2. resolve'[w].stage = "cache" /\ resolve'[w].seen = row
      BY <3>1 DEF Resolve
    <3> HIDE DEF Witness
    <3> QED
      BY <3>1, <3>2
  <2>3. CASE w = v /\ ReadCache(v)
    <3>1. \/ resolve'[w] = [r EXCEPT !.stage = "chain"]
          \/ resolve'[w] = NoResolve
      BY <2>0, <2>3, <2>a DEF ReadCache
    <3>2. ASSUME resolve'[w] = [r EXCEPT !.stage = "chain"] PROVE Sound(resolve[w])'
      <4>1. /\ resolve'[w].stage = "chain" /\ resolve'[w].seen = r.seen
            /\ resolve'[w].stale = r.stale /\ r.stage = "cache" /\ row' = row
        BY <2>0, <2>3, <3>2 DEF Resolve, ReadCache
      <4> HIDE DEF Witness
      <4> QED
        BY <2>d, <4>1
    <3> QED
      BY <2>b, <3>1, <3>2
  <2>4. CASE w = v /\ AskChain(v, Settled(chain))
    <3>1. PICK answer \in {ChainAnswer(r.seen, Settled(chain)), None} :
            \/ resolve'[w] = NoResolve
            \/ resolve'[w] = [r EXCEPT !.stage = "write", !.answer = answer]
      BY <2>0, <2>4, <2>a DEF AskChain
    <3>2. ASSUME resolve'[w] = [r EXCEPT !.stage = "write", !.answer = answer]
          PROVE  Sound(resolve[w])'
      <4>1. /\ resolve'[w].stage = "write" /\ resolve'[w].seen = r.seen
            /\ resolve'[w].stale = r.stale /\ resolve'[w].answer = answer
            /\ r.stage = "chain" /\ row' = row
        BY <2>0, <2>4, <3>2 DEF Resolve, AskChain
      <4>2. ASSUME ~outOfTurn, branch = 0, ~r.stale, r.seen # None, answer \in Revoking
            PROVE  \E y \in Events(chain) :
                     /\ Settles[y.type] = answer
                     /\ y.ledger >= row.indexedLedger
                     /\ y.purchaseId = row.purchaseId \/ y.ledger = row.indexedLedger
        <5>1. None \notin Revoking
          BY NoneIsNoValue DEF Revoking, SettlementState
        <5>2. row # None /\ r.seen.purchaseId = row.purchaseId
          BY <2>d, <4>1, <4>2
        <5>3. /\ row.purchaseId \in DOMAIN Settled(chain)
              /\ answer = Settled(chain)[row.purchaseId]
          BY <3>1, <4>2, <5>1, <5>2 DEF ChainAnswer
        <5>4. PICK x \in Events(chain) :
                /\ x.ledger = row.indexedLedger
                /\ \/ x.purchaseId = row.purchaseId
                   \/ x.type = "refunded" /\ x.purchaseId > row.purchaseId
          BY <4>2, <5>2 DEF RowOnChain
        <5> QED
          BY <5>2, <5>3, <5>4, AnswerHasEvent
      <4>3. ~outOfTurn /\ branch = 0 /\ ~r.stale /\ r.seen # None /\ answer \in Revoking
              => Witness(resolve[w])'
        BY <2>c, <4>1, <4>2
      <4> HIDE DEF Witness
      <4> QED
        BY <2>c, <2>d, <4>1, <4>3
    <3> QED
      BY <2>b, <3>1, <3>2
  <2>5. CASE w = v /\ WriteVerdict(v)
    <3>1. \/ resolve'[w] = NoResolve
          \/ resolve'[w] = [r EXCEPT !.stage = "mirror"]
      BY <2>0, <2>5, <2>a DEF WriteVerdict
    <3>2. ASSUME resolve'[w] = [r EXCEPT !.stage = "mirror"] PROVE Sound(resolve[w])'
      <4>1. /\ resolve'[w].stage = "mirror" /\ resolve'[w].seen = r.seen
            /\ resolve'[w].stale = r.stale /\ resolve'[w].answer = r.answer
            /\ r.stage = "write" /\ row' = row
        BY <2>0, <2>5, <3>2 DEF Resolve, WriteVerdict
      <4>2. Witness(r) => Witness(resolve[w])'
        BY <2>c, <4>1
      <4> HIDE DEF Witness
      <4> QED
        BY <2>c, <2>d, <4>1, <4>2
    <3> QED
      BY <2>b, <3>1, <3>2
  <2>6. CASE w = v /\ (MirrorRevocation(v) \/ Fails(v))
    <3>1. resolve'[w] = NoResolve
      BY <2>6, <2>a DEF MirrorRevocation, Fails
    <3> QED
      BY <2>b, <3>1
  <2> QED
    BY <1>4, <2>1, <2>2, <2>3, <2>4, <2>5, <2>6
<1>5. Outdate \/ UNCHANGED <<row, resolve>>
      \/ \E v \in Resolvers :
           /\ UNCHANGED indexerVars
           /\ \/ ReadPurchase(v) \/ ReadCache(v) \/ AskChain(v, Settled(chain))
              \/ WriteVerdict(v) \/ MirrorRevocation(v) \/ Fails(v)
  <2>1. RewindRow => Outdate \/ UNCHANGED <<row, resolve>>
    BY DEF RewindRow
  <2>2. WriteRow \/ RetryDeadLetter => Outdate
    BY DEF WriteRow, RetryDeadLetter
  <2> QED
    BY <2>1, <2>2, StepsOfOthers, RowSteps
<1> QED
  BY <1>2, <1>3, <1>4, <1>5

-----------------------------------------------------------------------------
(* The cache entry. *)

\* From the orphaning of a row until its cache entry is dealt with nothing has
\* been delivered again.
LEMMA RewindStaysForgetful ==
    ASSUME Typed, RewindForgets, [Next]_vars
    PROVE  RewindForgets'
<1>1. CASE batch'.stage # "rewindCache"
  BY <1>1 DEF RewindForgets
<1>2. CASE RewindRow
  <2>1. CASE Orphans(batch.divergence)
    BY <1>2, <2>1 DEF RewindRow, RewindForgets
  <2>2. CASE ~Orphans(batch.divergence)
    BY <1>1, <1>2, <2>2 DEF RewindRow, Typed, Batch
  <2> QED
    BY <2>1, <2>2
<1>3. CASE batch'.stage = batch.stage /\ fetched' = fetched
  BY <1>3 DEF RewindForgets
<1>4. StartBatch \/ RewindCache \/ RewindState \/ Fetch \/ FinishBatch \/ Crash
        => batch'.stage # "rewindCache"
  <2>1. StartBatch => batch'.stage # "rewindCache"
    <3>1. ASSUME NEW stage \in {"fetch", "rewindRow"},
                 batch' = [NoBatch EXCEPT !.stage = stage, !.divergence = detectFork]
          PROVE  batch'.stage # "rewindCache"
      BY <3>1 DEF NoBatch
    <3> QED
      BY <3>1 DEF StartBatch
  <2>a. FinishBatch \/ Crash => batch'.stage # "rewindCache"
    BY DEF FinishBatch, Crash, NoBatch
  <2>2. RewindCache \/ RewindState => batch'.stage # "rewindCache"
    BY DEF RewindCache, RewindState, Typed, Batch
  <2>3. Fetch => batch'.stage = "apply"
    BY DEF Fetch, Typed, Batch
  <2> QED
    BY <2>1, <2>a, <2>2, <2>3
<1>5. Grow \/ Reorg \/ ReadRow \/ WriteRow \/ WriteCache \/ EnqueueReceipt
      \/ RetryDeadLetter \/ quarantineDeadLetter \/ UNCHANGED vars \/ UNCHANGED indexerVars
        => UNCHANGED <<batch, fetched>>
  BY DEF Grow, Reorg, ReadRow, WriteRow, WriteCache, EnqueueReceipt, RetryDeadLetter,
     quarantineDeadLetter, vars, indexerVars
<1>6. InsertSyncEvent \/ EventApplied \/ EventFailed
        => batch'.stage = batch.stage /\ fetched' = fetched
  BY DEF InsertSyncEvent, EventApplied, EventFailed, Typed, Batch
<1> QED
  BY <1>1, <1>2, <1>3, <1>4, <1>5, <1>6, StepCases

\* Only a rewind says whether the cache entry was revoked.
LEMMA UnrevokedSteps ==
    ASSUME [Next]_vars
    PROVE  UNCHANGED unrevoked \/ RewindRow \/ RewindCache
<1>1. Grow \/ Reorg \/ StartBatch \/ RewindState \/ Fetch \/ ReadRow \/ WriteRow
      \/ WriteCache \/ EnqueueReceipt => UNCHANGED unrevoked
  BY DEF Grow, Reorg, StartBatch, RewindState, Fetch, ReadRow, WriteRow, WriteCache,
     EnqueueReceipt
<1>2. InsertSyncEvent \/ FinishBatch \/ EventApplied \/ EventFailed \/ Crash
      \/ RetryDeadLetter \/ quarantineDeadLetter \/ UNCHANGED vars \/ UNCHANGED indexerVars
        => UNCHANGED unrevoked
  BY DEF InsertSyncEvent, FinishBatch, EventApplied, EventFailed, Crash, RetryDeadLetter,
     quarantineDeadLetter, vars, indexerVars
<1> QED
  BY <1>1, <1>2, StepCases

\* An event that is passed over leaves the cache entry of a row alone.
LEMMA PassingLeavesCache ==
    ASSUME NEW e \in IndexedEvent, PassedOver(e), WrittenBy(e), row # None
    PROVE  UNCHANGED cache
<1>1. ASSUME ~isStaleReplay(e) PROVE ~TouchesCache(e, Finds(e))
  <2>1. e.type # "completed" /\ ~Finds(e)
    BY <1>1 DEF PassedOver
  <2>2. e.type # "refunded"
    BY <2>1 DEF Finds
  <2> QED
    BY <2>1, <2>2 DEF TouchesCache
<1> QED
  BY <1>1 DEF WrittenBy

\* A download that may still write the entry was overtaken by the revocation.
LEMMA OrphansStayRevoked ==
    ASSUME Typed, SalesAlone, ResolversInStep, BatchInOrder, ChainPossible, OneBranch,
           ApplySound, OrphansRevoked, [Next]_vars
    PROVE  OrphansRevoked'
<1> DEFINE Aware(r) == r.stage \in {"chain", "write", "mirror"} => r.stale
<1> SUFFICES ASSUME ~outOfTurn', ~staleFill', ~unrevoked', row' # None,
                    row'.settlementState = "Orphaned"
             PROVE  cache' = "revoked" /\ \A v \in Resolvers : Aware(resolve'[v])
  BY DEF OrphansRevoked
<1>0. ~outOfTurn /\ (staleFill => staleFill')
  BY TurnIsLost, MisledStays
<1>1. ASSUME row' = row, UNCHANGED unrevoked
      PROVE  cache = "revoked" /\ \A v \in Resolvers : Aware(resolve[v])
  BY <1>0, <1>1 DEF OrphansRevoked
<1>2. ASSUME Outdate PROVE \A v \in Resolvers : Aware(resolve'[v])
  BY <1>2, OutdateTyped DEF Typed
<1>3. CASE RewindRow
  <2>1. ~Orphans(batch.divergence)
    BY <1>3 DEF RewindRow
  <2>2. UNCHANGED <<row, cache, resolve, unrevoked>>
    BY <1>3, <2>1 DEF RewindRow
  <2> QED
    BY <1>1, <2>2
<1>4. CASE RewindCache
  <2>1. row' = row
    BY <1>4 DEF RewindCache
  <2>2. \/ cache' = "revoked" /\ Outdate
        \/ UNCHANGED <<cache, resolve, unrevoked>>
    BY <1>4 DEF RewindCache
  <2> QED
    BY <1>1, <1>2, <2>1, <2>2
<1>5. ASSUME UNCHANGED <<row, cache, unrevoked>>, Outdate \/ UNCHANGED resolve
      PROVE  cache' = "revoked" /\ \A v \in Resolvers : Aware(resolve'[v])
  BY <1>1, <1>2, <1>5
<1>6. ASSUME UNCHANGED unrevoked, NEW e \in IndexedEvent, RowWritten(e), WrittenBy(e)
      PROVE  cache' = "revoked" /\ \A v \in Resolvers : Aware(resolve'[v])
  <2>1. PassedOver(e)
    <3>1. e.type \in EventType
      BY DEF IndexedEvent
    <3> QED
      BY <1>6, <3>1, SettlesFacts DEF RowWritten, SaleWritten, FollowUpWritten
  <2>2. UNCHANGED <<row, cache>>
    BY <1>6, <2>1, PassingLeavesCache DEF PassedOver
  <2>3. Outdate \/ UNCHANGED resolve
    BY <1>6 DEF WrittenBy, ReadRow, WriteRow, RetryDeadLetter, entitlementVars
  <2> QED
    BY <1>5, <1>6, <2>2, <2>3
<1>7. ASSUME NEW v \in Resolvers, UNCHANGED indexerVars,
             \/ ReadPurchase(v) \/ ReadCache(v) \/ AskChain(v, Settled(chain))
             \/ WriteVerdict(v) \/ MirrorRevocation(v) \/ Fails(v)
      PROVE  cache' = "revoked" /\ \A w \in Resolvers : Aware(resolve'[w])
  <2>0. PICK r \in Resolve : r = resolve[v]
    BY DEF Typed
  <2>a. resolve \in [Resolvers -> Resolve] /\ UNCHANGED unrevoked
    BY <1>7 DEF Typed, indexerVars
  <2>1. CASE MirrorRevocation(v)
    <3>1. row \in PurchaseRow /\ resolve[v].answer \in Revoking
      BY <2>1 DEF MirrorRevocation, ResolversInStep, Typed
    <3>2. row'.settlementState = resolve[v].answer
      BY <2>1, <3>1 DEF MirrorRevocation, PurchaseRow
    <3> QED
      BY <3>1, <3>2 DEF Revoking
  <2>2. CASE ~MirrorRevocation(v)
    <3>1. row' = row
      BY <1>7, <2>2 DEF ReadPurchase, ReadCache, AskChain, WriteVerdict, Fails
    <3>2. cache = "revoked" /\ \A w \in Resolvers : Aware(resolve[w])
      BY <1>1, <2>a, <3>1
    <3>3. ~WriteVerdict(v)
      BY <3>2 DEF WriteVerdict
    <3>4. cache' = cache
      BY <1>7, <2>2, <3>3 DEF ReadPurchase, ReadCache, AskChain, Fails
    <3>5. \A w \in Resolvers \ {v} : resolve'[w] = resolve[w]
      BY <1>7, <2>2, <2>a, <3>3 DEF ReadPurchase, ReadCache, AskChain, Fails
    <3>6. Aware(resolve'[v])
      <4>1. CASE ReadPurchase(v)
        BY <2>0, <2>a, <4>1 DEF ReadPurchase, Resolve
      <4>2. CASE ReadCache(v) \/ Fails(v)
        BY <2>a, <3>2, <4>2 DEF ReadCache, Fails, NoResolve
      <4>3. CASE AskChain(v, Settled(chain))
        <5>1. \/ resolve'[v] = NoResolve
              \/ \E answer : resolve'[v] = [r EXCEPT !.stage = "write", !.answer = answer]
          BY <2>0, <2>a, <4>3 DEF AskChain
        <5>2. r.stage = "chain" /\ r.stale
          BY <2>0, <3>2, <4>3 DEF AskChain
        <5>3. ASSUME NEW answer, resolve'[v] = [r EXCEPT !.stage = "write", !.answer = answer]
              PROVE  resolve'[v].stale
          BY <5>2, <5>3 DEF Resolve
        <5>4. ASSUME resolve'[v] = NoResolve PROVE Aware(resolve'[v])
          BY <5>4 DEF NoResolve
        <5>5. resolve'[v].stale => Aware(resolve'[v])
          OBVIOUS
        <5> HIDE DEF Aware
        <5> QED
          BY <5>1, <5>3, <5>4, <5>5
      <4> QED
        BY <1>7, <2>2, <3>3, <4>1, <4>2, <4>3
    <3> QED
      BY <3>2, <3>4, <3>5, <3>6
  <2> QED
    BY <2>1, <2>2
<1>8. CASE WriteCache
  <2>1. row' = row /\ apply.stage = "cache"
    BY <1>8 DEF WriteCache
  <2>2. row.settlementState \in {Settles[apply.event.type]} \cup Revoking
    BY <1>0, <2>1 DEF ApplySound
  <2>3. apply.event.type \in EventType
    BY <2>1 DEF Typed, Apply, IndexedEvent
  <2> QED
    BY <2>1, <2>2, <2>3, SettlesFacts DEF Revoking
<1>9. CASE RowLeft
  BY <1>3, <1>4, <1>5, <1>7, <1>8, <1>9, StepsOfOthers, UnrevokedSteps DEF RowLeft
<1>10. ~RowOrphaned /\ \A v \in Resolvers : ~RowMirrored(v)
  BY DEF RowOrphaned, RowMirrored, RewindRow, Revoking
<1> QED
  BY <1>3, <1>4, <1>6, <1>9, <1>10, RowChanges, UnrevokedSteps DEF RowPassedBy

\* A write of the cache entry that is still to come stays so until it is made.
LEMMA OutstandingStays ==
    ASSUME Typed, BatchInOrder, ApplySound, [Next]_vars, ~outOfTurn',
           NEW e \in IndexedEvent, Outstanding(e),
           CacheAfter(e) # "revoked", ~isStaleReplay(e), TouchesCache(e, Finds(e)),
           cache' = "revoked"
    PROVE  Outstanding(e)'
<1>0. ~outOfTurn
  BY TurnIsLost
<1>a. e.ledger \in Nat /\ e.ledger > 0 /\ sync.cursor \in Nat
  BY IndexerAssumption DEF IndexedEvent, Typed, Ledger
<1> DEFINE Queued == IF batch.stage = "apply" THEN e \in batch.todo ELSE e.ledger > sync.cursor
           Waits == e \in Dead \/ e \notin fetched \/ Queued
<1>1. CASE apply.stage # "idle" /\ apply.event = e
  <2>0. /\ apply.stage \in {"read", "row", "cache"}
        /\ batch.stage = "apply" /\ e.ledger > sync.cursor
    BY <1>1 DEF Outstanding, BatchInOrder
  <2>1. CASE ReadRow
    <3>1. apply'.event = e /\ apply'.stage = "row"
      BY <1>1, <2>1 DEF ReadRow, Typed, Apply
    <3> QED
      BY <3>1 DEF Outstanding
  <2>2. CASE WriteRow
    <3>1. apply.found = Finds(e) \/ e.type = "completed"
      BY <1>0, <1>1, <2>2 DEF WriteRow, ApplySound
    <3>2. TouchesCache(e, apply.found)
      BY <3>1 DEF TouchesCache
    <3>3. apply'.event = e /\ apply'.stage = "cache"
      BY <1>1, <2>2, <3>2 DEF WriteRow, To, Typed, Apply
    <3> QED
      BY <3>3 DEF Outstanding
  <2>3. ~WriteCache
    BY <1>1 DEF WriteCache
  <2>4. CASE EventFailed
    BY <1>1, <2>4 DEF EventFailed, Idle, Outstanding, Dead
  <2>5. CASE Crash
    BY <2>0, <2>5 DEF Crash, Idle, NoBatch, Outstanding
  <2>6. CASE UNCHANGED apply
    BY <1>1, <2>0, <2>6 DEF Outstanding
  <2>7. RetryDeadLetter => apply.stage = "idle"
    BY RetryInTurn
  <2>8. ~EnqueueReceipt /\ ~EventApplied /\ ~InsertSyncEvent
    BY <2>0 DEF EnqueueReceipt, EventApplied, InsertSyncEvent
  <2>9. Grow \/ Reorg \/ StartBatch \/ RewindRow \/ RewindCache \/ RewindState \/ Fetch
        \/ FinishBatch \/ quarantineDeadLetter \/ UNCHANGED vars \/ UNCHANGED indexerVars
          => UNCHANGED apply
    BY DEF Grow, Reorg, StartBatch, RewindRow, RewindCache, RewindState, Fetch, FinishBatch,
       quarantineDeadLetter, vars, indexerVars
  <2> QED
    BY <1>1, <2>1, <2>2, <2>3, <2>4, <2>5, <2>6, <2>7, <2>8, <2>9, StepCases
<1>2. CASE ~(apply.stage # "idle" /\ apply.event = e)
  <2>0. Waits
    BY <1>2 DEF Outstanding
  <2>a. ASSUME apply'.stage # "idle" => apply'.event # e, Waits' PROVE Outstanding(e)'
    BY <2>a DEF Outstanding
  <2>b. ASSUME UNCHANGED apply \/ apply' = Idle, Waits' PROVE Outstanding(e)'
    BY <1>2, <2>a, <2>b DEF Idle
  <2>c. batch.stage # "apply" => apply.stage = "idle"
    BY DEF BatchInOrder
  <2>1. CASE InsertSyncEvent
    <3>1. PICK x \in batch.todo :
            /\ apply' = [stage |-> IF x.type = "completed" THEN "row" ELSE "read",
                         event |-> x, first |-> eventId(x, TRUE) \notin syncEvents,
                         found |-> FALSE]
            /\ batch' = [batch EXCEPT !.todo = @ \ {x}]
            /\ batch.stage = "apply"
            /\ UNCHANGED <<deadLetters, fetched>>
      BY <2>1 DEF InsertSyncEvent
    <3>2. apply'.event = x /\ apply'.stage \in {"row", "read"}
      BY <3>1
    <3>3. CASE x = e
      BY <3>2, <3>3 DEF Outstanding
    <3>4. CASE x # e
      <4>1. batch'.stage = "apply" /\ batch'.todo = batch.todo \ {x}
        BY <3>1 DEF Typed, Batch
      <4>2. Waits'
        BY <2>0, <3>1, <3>4, <4>1 DEF Dead
      <4> QED
        BY <2>a, <3>2, <3>4, <4>2
    <3> QED
      BY <3>3, <3>4
  <2>2. CASE ReadRow \/ WriteRow \/ WriteCache \/ EnqueueReceipt
    <3>1. /\ apply.stage # "idle" /\ apply'.event = apply.event
          /\ UNCHANGED <<deadLetters, fetched, batch, sync>>
      BY <2>2 DEF ReadRow, WriteRow, WriteCache, EnqueueReceipt, To, Typed, Apply
    <3> QED
      BY <1>2, <2>0, <2>a, <3>1 DEF Dead
  <2>3. CASE EventApplied \/ EventFailed
    <3>1. /\ apply.stage # "idle" /\ apply' = Idle
          /\ batch'.stage = batch.stage /\ batch'.todo = batch.todo
          /\ UNCHANGED <<fetched, sync>>
      BY <2>3 DEF EventApplied, EventFailed, Typed, Batch
    <3>2. e \in Dead => e \in Dead'
      BY <1>2, <2>3 DEF EventApplied, EventFailed, Dead, Buried
    <3> QED
      BY <2>0, <2>b, <3>1, <3>2
  <2>4. CASE RetryDeadLetter
    <3>1. PICK x \in deadLetters.open :
            /\ deadLetters' = Buried(x)
            /\ \/ isStaleReplay(x)
               \/ /\ ~isStaleReplay(x)
                  /\ cache' = IF TouchesCache(x, Finds(x)) THEN CacheAfter(x) ELSE cache
      BY <2>4, RetryInTurn
    <3>2. x # e
      BY <3>1
    <3>3. e \in Dead => e \in Dead'
      BY <3>1, <3>2 DEF Dead, Buried
    <3> QED
      BY <2>0, <2>4, <2>b, <3>3 DEF RetryDeadLetter
  <2>5. CASE FinishBatch
    <3>1. batch.stage = "apply" /\ batch.todo = {} /\ UNCHANGED <<apply, deadLetters, fetched>>
      BY <2>5 DEF FinishBatch
    <3> QED
      BY <2>0, <2>b, <3>1 DEF Dead
  <2>6. CASE Crash
    <3>1. e \in batch.todo /\ batch.stage = "apply" => e.ledger > sync.cursor
      BY DEF BatchInOrder
    <3>2. /\ apply' = Idle /\ batch'.stage = "idle"
          /\ UNCHANGED <<deadLetters, fetched, sync>>
      BY <2>6 DEF Crash, NoBatch
    <3> QED
      BY <2>0, <2>b, <3>1, <3>2 DEF Dead
  <2>7. CASE Fetch
    <3>1. PICK page : /\ fetched' = {d \in fetched : d.ledger <= sync.cursor} \cup page
                      /\ batch'.stage = "apply" /\ batch'.todo = page
                      /\ batch.stage = "fetch" /\ UNCHANGED <<apply, deadLetters>>
      BY <2>7 DEF Fetch, Typed, Batch
    <3> QED
      BY <1>a, <2>0, <2>b, <3>1 DEF Dead
  <2>8. CASE RewindState
    <3>1. /\ batch'.stage = "fetch" /\ batch.stage # "apply" /\ sync'.cursor = 0
          /\ UNCHANGED <<apply, deadLetters, fetched>>
      BY <2>8 DEF RewindState, Rewound, Typed, Batch
    <3> QED
      BY <1>a, <2>b, <3>1
  <2>9. CASE StartBatch \/ RewindRow \/ RewindCache
    <3>1. batch.stage # "apply" /\ UNCHANGED <<apply, deadLetters, sync>>
          /\ fetched' \subseteq fetched
      BY <2>9 DEF StartBatch, RewindRow, RewindCache
    <3>2. batch'.stage # "apply"
      <4>1. StartBatch => batch'.stage # "apply"
        <5>1. ASSUME NEW stage \in {"fetch", "rewindRow"},
                     batch' = [NoBatch EXCEPT !.stage = stage, !.divergence = detectFork]
              PROVE  batch'.stage # "apply"
          BY <5>1 DEF NoBatch
        <5> QED
          BY <5>1 DEF StartBatch
      <4> QED
        BY <2>9, <4>1 DEF RewindRow, RewindCache, Typed, Batch
    <3> QED
      BY <2>0, <2>b, <3>1, <3>2 DEF Dead
  <2>10. CASE quarantineDeadLetter
    <3>1. Dead' = Dead /\ UNCHANGED <<apply, batch, fetched, sync>>
      BY <2>10 DEF quarantineDeadLetter, Dead
    <3> QED
      BY <2>0, <2>b, <3>1
  <2>11. CASE Grow \/ Reorg \/ UNCHANGED vars \/ UNCHANGED indexerVars
    <3>1. UNCHANGED <<apply, batch, fetched, sync, deadLetters>>
      BY <2>11 DEF Grow, Reorg, vars, indexerVars
    <3> QED
      BY <2>0, <2>b, <3>1 DEF Dead
  <2> QED
    BY <2>1, <2>2, <2>3, <2>4, <2>5, <2>6, <2>7, <2>8, <2>9, <2>10, <2>11, StepCases
<1> QED
  BY <1>1, <1>2

\* What an event granted is not taken back by writing another one.
LEMMA GrantStays ==
    ASSUME Typed, BatchInOrder, ChainPossible, ApplySound, [Next]_vars,
           ~outOfTurn', ~Misled',
           NEW e \in IndexedEvent, Granted(e),
           CacheAfter(e) # "revoked", ~isStaleReplay(e), TouchesCache(e, Finds(e)),
           UNCHANGED cache,
           row'.purchaseId = row.purchaseId, row'.indexedLedger = row.indexedLedger
    PROVE  Granted(e)'
<1> SUFFICES ASSUME cache' = "revoked" PROVE Outstanding(e)' \/ Told(Revoking)'
  BY DEF Granted
<1>1. Outstanding(e) \/ Told(Revoking)
  BY DEF Granted
<1>2. CASE Outstanding(e)
  BY <1>2, OutstandingStays
<1>3. CASE Told(Revoking)
  <2>1. PICK S : S = Revoking
    OBVIOUS
  <2>2. Told(S)' \/ Misled'
    BY <1>3, <2>1, ToldStays
  <2> QED
    BY <2>1, <2>2 DEF Revoking
<1> QED
  BY <1>1, <1>2, <1>3

\* Nor by a rewind, nor by a download that the chain did not tell to.
LEMMA GrantStaysWithRow ==
    ASSUME Typed, ResolversInStep, BatchInOrder, ChainPossible, ApplySound, ResolversSound,
           RewindForgets, [Next]_vars, ~outOfTurn', ~Misled', RowLeft, row # None,
           NEW e \in IndexedEvent, Granted(e),
           CacheAfter(e) # "revoked", ~isStaleReplay(e), TouchesCache(e, Finds(e)),
           WriteCache => cache' # "revoked"
    PROVE  Granted(e)'
<1>0. ~outOfTurn /\ row' = row
  BY TurnIsLost DEF RowLeft
<1>1. CASE UNCHANGED cache
  BY <1>0, <1>1, GrantStays
<1>2. CASE RewindCache
  <2>1. fetched' = {} /\ apply'.stage = "idle"
    BY <1>2 DEF RewindCache, RewindForgets, BatchInOrder
  <2> QED
    BY <2>1 DEF Granted, Outstanding
<1>3. CASE WriteCache
  BY <1>3 DEF Granted
<1>4. ASSUME NEW v \in Resolvers, WriteVerdict(v), UNCHANGED indexerVars
      PROVE  Granted(e)'
  <2> SUFFICES ASSUME cache' = "revoked" PROVE Told(Revoking)'
    BY DEF Granted
  <2>1. PICK r \in Resolve : r = resolve[v]
    BY DEF Typed
  <2>2. r.stage = "write" /\ r.seen # None /\ r.answer \in Revoking
    BY <1>4, <2>1 DEF WriteVerdict, Verdict
  <2>3. learnt' /\ (r.stale => staleFill')
    BY <1>4, <2>1 DEF WriteVerdict
  <2>4. ~r.stale /\ ~(branch > 0) /\ UNCHANGED <<chain, branch>>
    BY <1>4, <2>3 DEF Misled, indexerVars
  <2>5. branch = 0
    BY <2>4 DEF Typed
  <2>6. PICK y \in Events(chain) :
          /\ Settles[y.type] = r.answer
          /\ y.ledger >= row.indexedLedger
          /\ y.purchaseId = row.purchaseId \/ y.ledger = row.indexedLedger
    BY <1>0, <2>1, <2>2, <2>4, <2>5 DEF ResolversSound
  <2> QED
    BY <1>0, <2>2, <2>3, <2>4, <2>5, <2>6 DEF Told, Revoking
<1> QED
  BY <1>1, <1>2, <1>3, <1>4 DEF RowLeft

\* A chain that revoked a purchase revoked it after its release, if at all.
LEMMA ToldAfterRelease ==
    ASSUME Typed, ChainPossible, RowOnChain, ~outOfTurn, Told(Revoking),
           NEW e \in IndexedEvent, RowWritten(e), FollowUpWritten(e), e.type = "released"
    PROVE  Told(Revoking)'
<1>1. PICK y \in Events(chain) :
        /\ Settles[y.type] \in Revoking
        /\ y.ledger >= row.indexedLedger
        /\ y.purchaseId = row.purchaseId \/ y.ledger = row.indexedLedger
  BY DEF Told
<1>2. /\ learnt' /\ branch' = 0 /\ branch = 0 /\ chain' = chain
      /\ row # None /\ e.purchaseId = row.purchaseId /\ row.indexedLedger <= e.ledger
      /\ row'.purchaseId = row.purchaseId /\ row'.indexedLedger = e.ledger
      /\ e \in Events(chain)
  BY DEF Told, RowWritten, FollowUpWritten
<1>3. /\ row.indexedLedger \in Nat /\ row.purchaseId \in Nat
      /\ chain \in Chains /\ WellFormed(chain)
  BY <1>2 DEF Typed, PurchaseRow, ChainPossible
<1>4. /\ y.ledger \in EventLedgers(chain) /\ y = EventAt(chain, y.ledger)
      /\ e.ledger \in EventLedgers(chain) /\ e = EventAt(chain, e.ledger)
      /\ y.ledger \in 1..Len(chain) /\ e.ledger \in 1..Len(chain) /\ Len(chain) \in Nat
  BY <1>2, <1>3, EventsTyped, ChainShape
<1>5. /\ y.purchaseId = Purchases(chain, y.ledger) /\ y.type = chain[y.ledger].type
      /\ e.purchaseId = Purchases(chain, e.ledger) /\ e.type = chain[e.ledger].type
  BY <1>4 DEF EventAt
<1>6. CASE y.ledger >= e.ledger
  <2>1. y.purchaseId = row.purchaseId \/ y.ledger = e.ledger
    BY <1>1, <1>2, <1>3, <1>4, <1>6
  <2> QED
    BY <1>1, <1>2, <1>6, <2>1 DEF Told, Revoking
<1>7. CASE y.ledger < e.ledger
  <2>1. PICK s \in EventLedgers(chain) :
          /\ s < e.ledger /\ chain[s].type = "completed"
          /\ \A i \in EventLedgers(chain) : i < e.ledger => i <= s
          /\ Purchases(chain, s) = Purchases(chain, e.ledger)
    BY <1>3, <1>4, <1>5, ReleaseFollowsSale
  <2>2. s \in 1..Len(chain) /\ s \in Nat /\ y.ledger <= s
    BY <1>4, <1>7, <2>1 DEF EventLedgers
  <2>3. y.ledger # s
    <3>1. "completed" \in EventType
      BY SettlesFacts
    <3> QED
      BY <1>1, <1>5, <2>1, <3>1, SettlesFacts DEF Revoking
  <2>4. s \in 0..Len(chain) /\ y.ledger \in 0..s /\ s \in (y.ledger + 1)..s
    BY <1>4, <2>2, <2>3
  <2>5. /\ Purchases(chain, y.ledger) < Purchases(chain, s)
        /\ Purchases(chain, y.ledger) \in Nat
    <3>1. /\ Purchases(chain, s) \in Nat /\ Purchases(chain, y.ledger) \in Nat
          /\ Purchases(chain, y.ledger) <= Purchases(chain, s)
          /\ Purchases(chain, y.ledger) # Purchases(chain, s)
      BY <1>3, <2>1, <2>4, PurchasesGrow
    <3> QED
      BY <3>1
  <2>6. y.purchaseId < row.purchaseId /\ y.purchaseId \in Nat
    BY <1>2, <1>5, <2>1, <2>5
  <2>7. PICK x \in Events(chain) :
          /\ x.ledger = row.indexedLedger
          /\ \/ x.purchaseId = row.purchaseId
             \/ x.type = "refunded" /\ x.purchaseId > row.purchaseId
    BY <1>2 DEF RowOnChain
  <2>8. x = y
    BY <1>1, <1>3, <2>6, <2>7, EventsTyped
  <2> QED
    BY <1>3, <2>6, <2>7, <2>8
<1> QED
  BY <1>4, <1>6, <1>7

\* A sale gives access until something other than its release comes after it.
LEMMA SalesStayGranted ==
    ASSUME Typed, SalesAlone, ResolversInStep, BatchInOrder, NothingLost, ChainPossible,
           OneBranch, RowFollowsSales, RowOnChain, ApplySound, ResolversSound,
           RewindForgets, SalesGrant, [Next]_vars
    PROVE  SalesGrant'
<1> SUFFICES ASSUME ~outOfTurn', ~Misled', NEW c, c \in Sales', FollowedByRelease(c)'
             PROVE  Granted(c)'
  BY DEF SalesGrant
<1>0. ~outOfTurn /\ ~Misled
  BY TurnIsLost, MisledStays
<1>a. /\ \A e \in IndexedEvent : e.ledger \in Nat /\ e.type \in EventType
      /\ reflected \subseteq IndexedEvent
      /\ row # None => row.indexedLedger \in Nat
  BY IndexerAssumption DEF IndexedEvent, Typed, PurchaseRow
<1>b. \A e : e.type = "completed" =>
        /\ CacheAfter(e) # "revoked" /\ ~isStaleReplay(e) /\ TouchesCache(e, Finds(e))
  BY DEF CacheAfter, isStaleReplay, TouchesCache
<1>c. ASSUME c \in Sales
      PROVE  /\ row # None /\ c.ledger <= row.indexedLedger
             /\ c \in IndexedEvent /\ c \in reflected /\ c.type = "completed"
  BY <1>0, <1>a, <1>c DEF RowFollowsSales, Sales
<1>d. c.type = "completed" /\ c \in reflected'
  BY DEF Sales
<1>1. ASSUME c \in Sales, FollowedByRelease(c), UNCHANGED cache,
             row'.purchaseId = row.purchaseId, row'.indexedLedger = row.indexedLedger
      PROVE  Granted(c)'
  <2>1. Granted(c)
    BY <1>0, <1>1 DEF SalesGrant
  <2> QED
    BY <1>1, <1>b, <1>c, <2>1, GrantStays
<1>2. ASSUME NEW e \in IndexedEvent, WrittenBy(e), SaleWritten(e)
      PROVE  Granted(c)'
  <2>1. CASE c = e
    <3>1. ~ReadRow \/ e # apply.event
      BY <1>d, <2>1 DEF ReadRow, SalesAlone
    <3>2. ASSUME WriteRow, e = apply.event PROVE Granted(c)'
      <4>1. /\ apply.stage = "row"
            /\ apply' = [apply EXCEPT !.stage =
                           IF TouchesCache(e, apply.found) THEN "cache" ELSE "done"]
        BY <3>2 DEF WriteRow, To
      <4>2. TouchesCache(e, apply.found)
        BY <1>d, <2>1 DEF TouchesCache
      <4>3. apply'.stage = "cache" /\ apply'.event = c
        BY <2>1, <3>2, <4>1, <4>2 DEF Typed, Apply
      <4> QED
        BY <4>3 DEF Granted, Outstanding
    <3>3. ASSUME ~isStaleReplay(e),
                 cache' = IF TouchesCache(e, Finds(e)) THEN CacheAfter(e) ELSE cache
          PROVE  Granted(c)'
      BY <1>b, <1>d, <2>1, <3>3 DEF Granted
    <3> QED
      BY <1>2, <1>b, <1>d, <2>1, <3>1, <3>2, <3>3 DEF WrittenBy
  <2>2. CASE c # e
    <3>1. /\ c.ledger < e.ledger /\ c \in IndexedEvent
          /\ e \in reflected' \ {c} /\ row'.indexedLedger = e.ledger
      BY <1>2, <1>a, <1>d, <2>2 DEF SaleWritten
    <3>2. c.ledger <= e.ledger /\ e.ledger <= row'.indexedLedger
      BY <1>a, <3>1
    <3>3. e.type = "released"
      BY <3>1, <3>2 DEF FollowedByRelease
    <3> QED
      BY <1>2, <3>3 DEF SaleWritten
  <2> QED
    BY <2>1, <2>2
<1>3. ASSUME NEW e \in IndexedEvent, RowWritten(e), WrittenBy(e), FollowUpWritten(e)
      PROVE  Granted(c)'
  <2>1. /\ c \in Sales /\ e # c /\ row # None
        /\ row.indexedLedger <= e.ledger /\ row'.indexedLedger = e.ledger
        /\ reflected' = reflected \cup {e}
    BY <1>3, <1>d DEF FollowUpWritten, Sales
  <2>2. e.type = "released"
    <3>1. c.ledger <= e.ledger /\ e.ledger <= row'.indexedLedger
      BY <1>a, <1>c, <2>1
    <3> QED
      BY <2>1, <3>1 DEF FollowedByRelease
  <2>3. FollowedByRelease(c)
    <3> SUFFICES ASSUME NEW d \in reflected \ {c}, c.ledger <= d.ledger,
                        d.ledger <= row.indexedLedger
                 PROVE  d.type = "released"
      BY DEF FollowedByRelease
    <3>1. d.ledger <= row'.indexedLedger /\ d \in reflected' \ {c}
      BY <1>a, <2>1
    <3> QED
      BY <3>1 DEF FollowedByRelease
  <2>4. cache' = cache
    BY <1>3, <2>2 DEF WrittenBy, TouchesCache
  <2>5. Granted(c)
    BY <1>0, <2>1, <2>3 DEF SalesGrant
  <2> SUFFICES ASSUME cache' = "revoked" PROVE Outstanding(c)' \/ Told(Revoking)'
    BY DEF Granted
  <2>6. CASE Outstanding(c)
    BY <1>b, <1>c, <2>1, <2>6, OutstandingStays
  <2>7. CASE Told(Revoking)
    BY <1>0, <1>3, <2>2, <2>7, ToldAfterRelease
  <2> QED
    BY <2>4, <2>5, <2>6, <2>7 DEF Granted
<1>4. ASSUME NEW e \in IndexedEvent, WrittenBy(e), PassedOver(e)
      PROVE  Granted(c)'
  <2>1. c \in Sales /\ row' = row /\ reflected' = reflected \cup {e}
    BY <1>4, <1>d DEF PassedOver, Sales
  <2>2. FollowedByRelease(c)
    BY <2>1 DEF FollowedByRelease
  <2>3. UNCHANGED cache
    BY <1>4, <1>c, <2>1, PassingLeavesCache
  <2> QED
    BY <1>1, <2>1, <2>2, <2>3
<1>5. CASE RowPassedBy
  <2>1. c \in Sales /\ row' = row /\ UNCHANGED cache
    BY <1>5, <1>d DEF RowPassedBy, Sales
  <2>2. FollowedByRelease(c)
    BY <1>5, <1>c, <2>1 DEF RowPassedBy, FollowedByRelease
  <2> QED
    BY <1>1, <2>1, <2>2
<1>6. ~RowOrphaned
  BY <1>d DEF RowOrphaned
<1>7. ASSUME NEW v \in Resolvers, RowMirrored(v) PROVE Granted(c)'
  <2>1. /\ c \in Sales /\ UNCHANGED <<cache, reflected>>
        /\ row'.purchaseId = row.purchaseId /\ row'.indexedLedger = row.indexedLedger
    BY <1>7, <1>d DEF RowMirrored, Sales
  <2>2. FollowedByRelease(c)
    BY <2>1 DEF FollowedByRelease
  <2> QED
    BY <1>1, <2>1, <2>2
<1>8. CASE RowLeft
  <2>1. c \in Sales /\ UNCHANGED <<row, reflected>>
    BY <1>8, <1>d DEF RowLeft, Sales
  <2>2. FollowedByRelease(c)
    BY <2>1 DEF FollowedByRelease
  <2>3. Granted(c)
    BY <1>0, <2>1, <2>2 DEF SalesGrant
  <2>4. ASSUME WriteCache, cache' = "revoked" PROVE FALSE
    <3>1. PICK x \in IndexedEvent : x = apply.event
      BY <2>4 DEF WriteCache, Typed, Apply
    <3>2. apply.stage = "cache" /\ CacheAfter(x) = "revoked"
      BY <2>4, <3>1 DEF WriteCache
    <3>3. x.type # "completed" /\ x.type # "released" /\ x.ledger = row.indexedLedger
      BY <1>0, <1>c, <2>1, <3>1, <3>2 DEF ApplySound, WrittenFor, CacheAfter
    <3>4. x \in reflected
      BY <1>0, <3>1, <3>2 DEF NothingLost
    <3>5. x \in reflected \ {c} /\ c.ledger <= x.ledger /\ x.ledger <= row.indexedLedger
      BY <1>a, <1>c, <1>d, <2>1, <3>3, <3>4
    <3> QED
      BY <2>2, <3>3, <3>5 DEF FollowedByRelease
  <2> QED
    BY <1>8, <1>b, <1>c, <2>1, <2>3, <2>4, GrantStaysWithRow
<1> QED
  BY <1>2, <1>3, <1>4, <1>5, <1>6, <1>7, <1>8, RowChanges DEF RowWritten

\* Nor is access taken back after a dispute was resolved in the buyer's favour.
LEMMA ResolutionsStayGranted ==
    ASSUME Typed, SalesAlone, ResolversInStep, BatchInOrder, NothingLost, ChainPossible,
           OneBranch, RowExplained, ApplySound, ResolversSound, RewindForgets,
           ResolutionsGrant, [Next]_vars
    PROVE  ResolutionsGrant'
<1> SUFFICES ASSUME ~outOfTurn', ~Misled', NEW x, x \in reflected', LastResolved(x)'
             PROVE  Granted(x)'
  BY DEF ResolutionsGrant
<1>0. ~outOfTurn /\ ~Misled
  BY TurnIsLost, MisledStays
<1>a. /\ \A e \in IndexedEvent : e.ledger \in Nat /\ e.type \in EventType
      /\ reflected \subseteq IndexedEvent /\ x \in IndexedEvent
      /\ row # None => row.indexedLedger \in Nat
  BY TypedStays, IndexerAssumption DEF IndexedEvent, Typed, PurchaseRow
<1>b. /\ x.type = "resolvedRelease" /\ row' # None
      /\ row'.settlementState = "Released" /\ x.ledger = row'.indexedLedger
      /\ \A e \in reflected' \ {x} : e.ledger # x.ledger
  BY DEF LastResolved
<1>c. x.purchaseId = row'.purchaseId
  <2>1. "Released" # "Orphaned" /\ "Released" \notin Revoking
    BY DEF Revoking
  <2>2. PICK z \in reflected' : WrittenFor(z)' /\ Settles[z.type] = row'.settlementState
    BY <1>b, <2>1, RowStaysExplained DEF RowExplained
  <2>3. z = x
    BY <1>b, <2>2 DEF WrittenFor
  <2> QED
    BY <1>b, <2>2, <2>3 DEF WrittenFor
<1>d. ASSUME row # None, row.purchaseId = x.purchaseId, row.indexedLedger = x.ledger
      PROVE  /\ CacheAfter(x) # "revoked" /\ ~isStaleReplay(x)
             /\ TouchesCache(x, Finds(x)) /\ Finds(x)
  <2>1. ~(x.ledger < row.indexedLedger)
    BY <1>a, <1>d
  <2> QED
    BY <1>b, <1>d, <2>1 DEF CacheAfter, isStaleReplay, TouchesCache, Finds
<1>1. ASSUME LastResolved(x), UNCHANGED cache,
             row'.purchaseId = row.purchaseId, row'.indexedLedger = row.indexedLedger
      PROVE  Granted(x)'
  <2>1. Granted(x) /\ row # None
    BY <1>0, <1>1 DEF ResolutionsGrant, LastResolved
  <2> QED
    BY <1>1, <1>a, <1>b, <1>c, <1>d, <2>1, GrantStays
<1>2. ASSUME NEW e \in IndexedEvent, WrittenBy(e), FollowUpWritten(e)
      PROVE  Granted(x)'
  <2>1. e = x
    BY <1>2, <1>b DEF FollowUpWritten
  <2>2. /\ row # None /\ x.purchaseId = row.purchaseId
        /\ row.indexedLedger <= x.ledger /\ x.type # "completed"
    BY <1>2, <1>b, <2>1 DEF FollowUpWritten
  <2>3. Finds(x) /\ ~isStaleReplay(x)
    BY <1>a, <2>2 DEF Finds, isStaleReplay
  <2>4. ASSUME ReadRow, x = apply.event PROVE Granted(x)'
    <3>1. apply'.stage = "row" /\ apply'.event = x
      BY <2>3, <2>4 DEF ReadRow, Typed, Apply
    <3> QED
      BY <3>1 DEF Granted, Outstanding
  <2>5. ASSUME WriteRow, x = apply.event PROVE Granted(x)'
    <3>1. apply.stage = "row" /\ apply.found
      BY <1>0, <2>2, <2>3, <2>5 DEF WriteRow, ApplySound
    <3>2. TouchesCache(x, apply.found)
      BY <1>b, <3>1 DEF TouchesCache
    <3>3. apply'.stage = "cache" /\ apply'.event = x
      BY <2>5, <3>2 DEF WriteRow, To, Typed, Apply
    <3> QED
      BY <3>3 DEF Granted, Outstanding
  <2>6. ASSUME cache' = IF TouchesCache(x, Finds(x)) THEN CacheAfter(x) ELSE cache
        PROVE  Granted(x)'
    <3>1. cache' = "finalized"
      BY <1>b, <2>3, <2>6 DEF TouchesCache, CacheAfter
    <3> QED
      BY <3>1 DEF Granted
  <2> QED
    BY <1>2, <2>1, <2>3, <2>4, <2>5, <2>6 DEF WrittenBy
<1>3. ASSUME NEW e \in IndexedEvent, WrittenBy(e), PassedOver(e)
      PROVE  Granted(x)'
  <2>1. row' = row /\ row # None /\ reflected' = reflected \cup {e}
    BY <1>3, <1>b DEF PassedOver
  <2>2. e # x
    BY <1>3, <1>b, <1>c, <1>d, <2>1 DEF PassedOver
  <2>3. LastResolved(x)
    BY <1>b, <2>1, <2>2 DEF LastResolved
  <2>4. UNCHANGED cache
    BY <1>3, <2>1, PassingLeavesCache
  <2> QED
    BY <1>1, <2>1, <2>3, <2>4
<1>4. CASE RowPassedBy
  <2>1. row' = row /\ UNCHANGED cache /\ reflected' \subseteq reflected
    BY <1>4 DEF RowPassedBy
  <2>2. ASSUME NEW e \in reflected \ {x}, e.ledger = x.ledger PROVE FALSE
    <3>1. e.ledger <= row.indexedLedger
      BY <1>a, <1>b, <2>1, <2>2
    <3>2. e \in reflected' \ {x}
      BY <1>4, <1>b, <2>1, <3>1 DEF RowPassedBy
    <3> QED
      BY <1>b, <2>2, <3>2
  <2>3. LastResolved(x)
    BY <1>b, <2>1, <2>2 DEF LastResolved
  <2> QED
    BY <1>1, <2>1, <2>3
<1>5. ASSUME NEW e \in IndexedEvent PROVE ~SaleWritten(e)
  BY <1>b DEF SaleWritten
<1>6. ~RowOrphaned /\ \A v \in Resolvers : ~RowMirrored(v)
  BY <1>b DEF RowOrphaned, RowMirrored, Revoking
<1>7. CASE RowLeft
  <2>1. UNCHANGED <<row, reflected>>
    BY <1>7 DEF RowLeft
  <2>2. LastResolved(x) /\ row # None
    BY <1>b, <2>1 DEF LastResolved
  <2>3. Granted(x)
    BY <1>0, <2>2 DEF ResolutionsGrant, LastResolved
  <2>4. ASSUME WriteCache, cache' = "revoked" PROVE FALSE
    <3>1. PICK y \in IndexedEvent : y = apply.event
      BY <2>4 DEF WriteCache, Typed, Apply
    <3>2. apply.stage = "cache" /\ CacheAfter(y) = "revoked"
      BY <2>4, <3>1 DEF WriteCache
    <3>3. y.ledger = row.indexedLedger
      BY <1>0, <2>2, <3>1, <3>2 DEF ApplySound, WrittenFor
    <3>4. y \in reflected
      BY <1>0, <3>1, <3>2 DEF NothingLost
    <3>5. y = x
      BY <1>b, <2>1, <3>3, <3>4
    <3> QED
      BY <1>b, <3>2, <3>5 DEF CacheAfter
  <2> QED
    BY <1>7, <1>a, <1>b, <1>c, <1>d, <2>1, <2>2, <2>3, <2>4, GrantStaysWithRow
<1> QED
  BY <1>2, <1>3, <1>4, <1>5, <1>6, <1>7, RowChanges DEF RowWritten

-----------------------------------------------------------------------------
(* The inductive invariant. *)

IInv ==
    /\ Typed /\ ResolversInStep /\ CheckpointsBounded /\ DeadLettersDisjoint
    /\ SalesAlone /\ ReceiptsCounted
    /\ BatchInOrder /\ NothingLost
    /\ ChainPossible /\ OneBranch
    /\ RowExplained /\ RowFollowsSales /\ RowOnChain
    /\ ApplySound /\ ResolversSound
    /\ RewindForgets /\ SalesGrant /\ ResolutionsGrant /\ OrphansRevoked

\* A chain that has not begun, and databases that are empty.
LEMMA InitEstablishesIInv == Init => IInv
<1> SUFFICES ASSUME Init PROVE IInv
  OBVIOUS
<1>a. /\ row = None /\ cache = None /\ resolve = [v \in Resolvers |-> NoResolve]
      /\ learnt = FALSE /\ staleFill = FALSE /\ chain = <<>> /\ branch = 0
      /\ sync = [cursor |-> 0, lastLedger |-> 0, lastHash |-> None, checkpoints |-> {}]
      /\ batch = NoBatch /\ apply = Idle /\ syncEvents = {}
      /\ deadLetters = [open |-> {}, quarantined |-> {}]
      /\ receipts = 0 /\ failures = 0 /\ reflected = {} /\ fetched = {}
      /\ outOfTurn = FALSE /\ unrevoked = FALSE
  BY DEF Init, EntitlementInit
<1>b. 0 \in Ledger /\ NoResolve \in Resolve
  BY IndexerAssumption DEF Ledger, NoResolve, Resolve
<1>c. EventLedgers(<<>>) = {} /\ <<>> \in Chains
  <2> DEFINE Block == [branch : Nat, type : EventType \cup {"none"}]
  <2>1. <<>> \in Seq(Block) /\ Len(<<>>) = 0
    OBVIOUS
  <2> QED
    BY <2>1, IndexerAssumption DEF EventLedgers, Chains
<1>1. Typed
  BY <1>a, <1>b, <1>c DEF Typed, NoBatch, Batch, Idle, Apply
<1>2. ResolversInStep /\ ResolversSound
  BY <1>a DEF ResolversInStep, ResolversSound, NoResolve
<1>3. CheckpointsBounded
  BY <1>a, FS_EmptySet, IndexerAssumption DEF CheckpointsBounded
<1>4. DeadLettersDisjoint /\ SalesAlone
  BY <1>a DEF DeadLettersDisjoint, SalesAlone, Idle
<1>5. ReceiptsCounted
  <2>1. SalesOf(syncEvents) = {}
    BY <1>a DEF SalesOf
  <2>2. DueReceipt = 0
    BY <1>a DEF DueReceipt, Idle
  <2>3. IsFiniteSet({}) /\ Cardinality({}) = 0
    BY FS_EmptySet
  <2>4. Cardinality(SalesOf(syncEvents)) = 0 /\ IsFiniteSet(syncEvents)
    BY <1>a, <2>1, <2>3
  <2> QED
    BY <1>a, <2>2, <2>4 DEF ReceiptsCounted
<1>6. BatchInOrder /\ NothingLost /\ ApplySound /\ RewindForgets
  BY <1>a DEF BatchInOrder, NothingLost, ApplySound, RewindForgets, NoBatch, Idle
<1>7. ChainPossible
  BY <1>a, <1>c DEF ChainPossible, WellFormed
<1>8. OneBranch
  BY <1>a DEF OneBranch, Dead, NoBatch, Idle
<1>9. RowExplained /\ RowFollowsSales /\ RowOnChain /\ SalesGrant /\ ResolutionsGrant
      /\ OrphansRevoked
  BY <1>a DEF RowExplained, RowFollowsSales, RowOnChain, SalesGrant, ResolutionsGrant,
     OrphansRevoked, Sales
<1> QED
  BY <1>1, <1>2, <1>3, <1>4, <1>5, <1>6, <1>7, <1>8, <1>9 DEF IInv

LEMMA IInvIsInductive == IInv /\ [Next]_vars => IInv'
<1> SUFFICES ASSUME IInv, [Next]_vars PROVE IInv'
  OBVIOUS
<1>1. Typed' /\ ResolversInStep' /\ CheckpointsBounded' /\ DeadLettersDisjoint'
  BY TypedStays, ResolversStayInStep, CheckpointsStayBounded, DeadLettersStayDisjoint
     DEF IInv
<1>2. SalesAlone' /\ ReceiptsCounted'
  BY SalesStayAlone, ReceiptsStayCounted DEF IInv
<1>3. BatchInOrder' /\ NothingLost'
  BY BatchStaysInOrder, NothingGetsLost DEF IInv
<1>4. ChainPossible' /\ OneBranch'
  BY ChainStaysPossible, OneBranchStays DEF IInv
<1>5. RowExplained' /\ RowFollowsSales' /\ RowOnChain'
  BY RowStaysExplained, RowStaysWithSales, RowStaysOnChain DEF IInv
<1>6. ApplySound' /\ ResolversSound'
  BY ApplyStaysSound, ResolversStaySound DEF IInv
<1>7. RewindForgets' /\ SalesGrant' /\ ResolutionsGrant' /\ OrphansRevoked'
  BY RewindStaysForgetful, SalesStayGranted, ResolutionsStayGranted, OrphansStayRevoked
     DEF IInv
<1> QED
  BY <1>1, <1>2, <1>3, <1>4, <1>5, <1>6, <1>7 DEF IInv

\* What the indexer, its operator and the downloads hold between any two steps:
\* what every document is made of, that no event is lost, why the row is in the
\* state it is in, and which events still stand for the buyer's access.
THEOREM IndexerInvariant == Spec => []IInv
BY InitEstablishesIInv, IInvIsInductive, PTL DEF Spec

-----------------------------------------------------------------------------
(* What follows from it. *)

\* The state in which the chain leaves the latest purchase is the one its last
\* event says, and the row that reflects all events is that purchase's.
LEMMA RowHasLatestPurchase ==
    ASSUME IInv, ~outOfTurn, reflected = Events(chain), Standing(chain) # None
    PROVE  \E z \in reflected :
             /\ Standing(chain) = Settles[z.type]
             /\ z = EventAt(chain, z.ledger)
             /\ \A e \in reflected : e.ledger <= z.ledger /\ (e.ledger = z.ledger => e = z)
             /\ row # None /\ row.settlementState # "Orphaned"
             /\ row.indexedLedger >= z.ledger
<1>0. Typed /\ chain \in Chains /\ WellFormed(chain) /\ RowFollowsSales
  BY DEF IInv, Typed, ChainPossible
<1>1. PICK n \in EventLedgers(chain) :
        /\ \A i \in EventLedgers(chain) : i <= n
        /\ Standing(chain) = Settles[chain[n].type]
  BY <1>0, LastDecides
<1>2. PICK z \in Events(chain) : z = EventAt(chain, n)
  BY <1>0, EventsTyped
<1>3. /\ z.ledger = n /\ z.type = chain[n].type /\ z.purchaseId = Purchases(chain, n)
  BY <1>2 DEF EventAt
<1>4. \A e \in reflected : e.ledger <= z.ledger /\ (e.ledger = z.ledger => e = z)
  BY <1>0, <1>1, <1>3, EventsTyped
<1>5. PICK s \in EventLedgers(chain) :
        /\ s <= n /\ chain[s].type = "completed"
        /\ \A i \in EventLedgers(chain) : i <= n /\ chain[i].type = "completed" => i <= s
        /\ Purchases(chain, s) = Purchases(chain, n)
  BY <1>0, LatestSale
<1>6. PICK c \in Events(chain) : c = EventAt(chain, s)
  BY <1>0, EventsTyped
<1>7. c.ledger = s /\ c.type = "completed" /\ c.purchaseId = z.purchaseId
  BY <1>3, <1>5, <1>6 DEF EventAt
<1>8. c \in Sales
  BY <1>7 DEF Sales
<1>9. \A d \in Sales : d.ledger <= c.ledger
  <2> SUFFICES ASSUME NEW d \in Sales PROVE d.ledger <= s
    BY <1>7
  <2>1. /\ d \in Events(chain) /\ d.type = "completed"
        /\ d.ledger \in EventLedgers(chain) /\ d = EventAt(chain, d.ledger)
    BY <1>0, EventsTyped DEF Sales
  <2>2. chain[d.ledger].type = "completed"
    BY <2>1 DEF EventAt
  <2> QED
    BY <1>1, <1>5, <2>1, <2>2
<1>10. row # None /\ row.settlementState # "Orphaned" /\ row.purchaseId = z.purchaseId
  BY <1>0, <1>7, <1>8, <1>9 DEF RowFollowsSales
<1>11. z.ledger <= row.indexedLedger
  BY <1>0, <1>10 DEF RowFollowsSales
<1>12. z.ledger \in Nat /\ row.indexedLedger \in Nat
  BY <1>0, <1>3, <1>10, ChainShape DEF EventLedgers, Typed, PurchaseRow
<1> QED
  BY <1>1, <1>2, <1>3, <1>4, <1>10, <1>11, <1>12

\* The row that reflects all events was last written for the last of them, or
\* mirrors a revocation.
LEMMA RowSaysStanding ==
    ASSUME IInv, ~outOfTurn, NEW z \in reflected,
           reflected = Events(chain),
           \A e \in reflected : e.ledger <= z.ledger /\ (e.ledger = z.ledger => e = z),
           row # None, row.settlementState # "Orphaned", row.indexedLedger >= z.ledger
    PROVE  /\ \/ /\ row.settlementState = Settles[z.type]
                 /\ row.indexedLedger = z.ledger
              \/ /\ row.settlementState \in Revoking
                 /\ ~Misled => row.settlementState = Settles[z.type]
           /\ \A S : Told(S) => Settles[z.type] \in S
<1>0. /\ \A e \in reflected : e.ledger \in Nat
      /\ row.indexedLedger \in Nat
  BY IndexerAssumption DEF IInv, Typed, IndexedEvent, PurchaseRow
<1>1. ASSUME NEW e \in reflected, e.ledger >= row.indexedLedger PROVE e = z
  <2>1. e.ledger <= z.ledger /\ e.ledger \in Nat /\ z.ledger \in Nat
    BY <1>0
  <2> QED
    BY <1>0, <1>1, <2>1
<1>2. ASSUME NEW S, Told(S) PROVE Settles[z.type] \in S
  BY <1>1, <1>2 DEF Told
<1>3. CASE \E x \in reflected : WrittenFor(x) /\ Settles[x.type] = row.settlementState
  <2>1. PICK x \in reflected : WrittenFor(x) /\ Settles[x.type] = row.settlementState
    BY <1>3
  <2>2. x.ledger = row.indexedLedger
    BY <2>1 DEF WrittenFor
  <2>3. x = z
    BY <1>0, <1>1, <2>2
  <2> QED
    BY <1>2, <2>1, <2>2, <2>3
<1>4. CASE row.settlementState \in Revoking /\ (Misled \/ Told({row.settlementState}))
  BY <1>2, <1>4
<1> QED
  BY <1>3, <1>4 DEF IInv, RowExplained

\* Nothing is known of a chain without events.
LEMMA EmptyChainHasNoRow ==
    ASSUME IInv, ~outOfTurn, ~Misled, reflected = Events(chain), Standing(chain) = None
    PROVE  row = None \/ row.settlementState = "Orphaned"
<1>1. EventLedgers(chain) = {}
  BY LastDecides DEF IInv, Typed
<1>2. Events(chain) = {}
  BY <1>1 DEF Events
<1> QED
  BY <1>2 DEF IInv, RowExplained, Told

LEMMA MirrorFollows == IInv => MirrorAgrees
<1> SUFFICES ASSUME IInv, UpToDate, ~outOfTurn, ~Misled
             PROVE  IF Standing(chain) = None
                    THEN row = None \/ row.settlementState = "Orphaned"
                    ELSE row # None /\ row.settlementState = Standing(chain)
  BY DEF MirrorAgrees
<1>1. reflected = Events(chain)
  BY DEF UpToDate
<1>2. CASE Standing(chain) = None
  BY <1>1, <1>2, EmptyChainHasNoRow
<1>3. CASE Standing(chain) # None
  <2>1. PICK z \in reflected :
          /\ Standing(chain) = Settles[z.type]
          /\ \A e \in reflected : e.ledger <= z.ledger /\ (e.ledger = z.ledger => e = z)
          /\ row # None /\ row.settlementState # "Orphaned"
          /\ row.indexedLedger >= z.ledger
    BY <1>1, <1>3, RowHasLatestPurchase
  <2>2. row.settlementState = Settles[z.type]
    BY <1>1, <2>1, RowSaysStanding
  <2> QED
    BY <1>3, <2>1, <2>2
<1> QED
  BY <1>2, <1>3

LEMMA TypesFollow == IInv => TypeOK
<1> SUFFICES ASSUME IInv PROVE TypeOK
  OBVIOUS
<1>1. EntitlementTypeOK
  <2>1. \A v \in Resolvers : resolve[v] \in Resolve
    BY DEF IInv, Typed
  <2> QED
    BY <2>1 DEF IInv, Typed, EntitlementTypeOK, Resolve
<1>2. \A n \in DOMAIN chain : chain[n].type \in EventType \cup {"none"}
  <2>1. chain \in Chains
    BY DEF IInv, Typed
  <2>2. DOMAIN chain = 1..Len(chain)
    BY <2>1 DEF Chains
  <2> QED
    BY <2>1, <2>2, ChainShape
<1>3. /\ sync.cursor \in 0..MaxLedger /\ sync.lastLedger \in 0..MaxLedger
      /\ (apply.event = None) = (apply.stage = "idle")
  BY DEF IInv, Typed, Ledger
<1> QED
  BY <1>1, <1>2, <1>3 DEF IInv, TypeOK, CheckpointsBounded, DeadLettersDisjoint

\* The indexer's documents are well typed, its checkpoint history is bounded
\* and names each ledger once, and, however the events came to be applied - one
\* by one, again after a crash or a rewind, late from the dead letters - the
\* purchase ends in the state it has on the chain.
THEOREM MirrorIsFaithful == Spec => []RowMatchesChain
<1>1. IInv => RowMatchesChain
  BY TypesFollow, MirrorFollows DEF RowMatchesChain
<1> QED
  BY <1>1, IndexerInvariant, PTL

\* The cursor leaves no event behind, whatever fails, crashes or is rewound.
THEOREM NothingIsLeftBehind == Spec => []NothingLeftBehind
<1>1. IInv => NothingLeftBehind
  BY DEF IInv, NothingLost, NothingLeftBehind, Handled, Dead
<1> QED
  BY <1>1, IndexerInvariant, PTL

\* Replays, retries and crashes put no second receipt into the outbox.
THEOREM ReceiptsAreOnePerSale == Spec => []OneReceiptPerEvent
<1>1. ASSUME IInv PROVE OneReceiptPerEvent
  <2>1. /\ receipts \in Nat /\ DueReceipt \in Nat
        /\ IsFiniteSet(syncEvents)
        /\ receipts + DueReceipt <= Cardinality(SalesOf(syncEvents))
    BY <1>1 DEF IInv, Typed, ReceiptsCounted, DueReceipt
  <2>2. Cardinality(SalesOf(syncEvents)) \in Nat
    <3>1. IsFiniteSet(SalesOf(syncEvents))
      BY <2>1, FS_Subset DEF SalesOf
    <3> QED
      BY <3>1, FS_CardinalityType
  <2>3. receipts <= Cardinality(SalesOf(syncEvents))
    BY <2>1, <2>2
  <2> QED
    BY <2>3 DEF OneReceiptPerEvent, SalesOf
<1> QED
  BY <1>1, IndexerInvariant, PTL

LEMMA DenialFollows == IInv => RefundedStaysDenied
<1> SUFFICES ASSUME IInv, UpToDate, ~outOfTurn, Standing(chain) \in Revoking, WouldServe
             PROVE  FALSE
  BY DEF RefundedStaysDenied
<1>1. reflected = Events(chain)
  BY DEF UpToDate
<1>2. Standing(chain) # None
  BY NoneIsNoValue DEF Revoking, SettlementState
<1>3. PICK z \in reflected :
        /\ Standing(chain) = Settles[z.type]
        /\ \A e \in reflected : e.ledger <= z.ledger /\ (e.ledger = z.ledger => e = z)
        /\ row # None /\ row.settlementState # "Orphaned"
        /\ row.indexedLedger >= z.ledger
  BY <1>1, <1>2, RowHasLatestPurchase
<1>4. row.settlementState \in Revoking
  BY <1>1, <1>3, RowSaysStanding
<1> QED
  BY <1>4 DEF WouldServe

\* A purchase that is refunded or disputed on the chain is not served once its
\* events are applied, whatever a late download wrote into the cache.
THEOREM DenialIsKept == Spec => []RefundedStaysDenied
BY DenialFollows, IndexerInvariant, PTL

\* When nothing is left to deliver or to retry no write is still to come.
LEMMA NothingOutstanding ==
    ASSUME IInv, UpToDate, Delivered, NEW e \in Events(chain)
    PROVE  ~Outstanding(e)
<1>1. /\ apply.stage = "idle" /\ batch.stage = "idle"
      /\ e \notin Dead /\ e \in fetched /\ sync.cursor >= Len(chain)
  BY DEF UpToDate, Delivered, Dead
<1>2. chain \in Chains /\ sync.cursor \in Nat
  BY IndexerAssumption DEF IInv, Typed, Ledger
<1>3. e.ledger \in 1..Len(chain) /\ Len(chain) \in Nat
  BY <1>2, EventsTyped, ChainShape
<1>4. ~(e.ledger > sync.cursor)
  BY <1>1, <1>2, <1>3
<1> QED
  BY <1>1, <1>4 DEF Outstanding

\* A purchase that stands has not lost its cache entry.
LEMMA StandingIsGranted ==
    ASSUME IInv, UpToDate, Delivered, ~outOfTurn, ~Misled,
           Standing(chain) \in {"Pending", "Released"}
    PROVE  cache # "revoked"
<1> SUFFICES ASSUME cache = "revoked" PROVE FALSE
  OBVIOUS
<1>0. /\ reflected = Events(chain) /\ chain \in Chains /\ WellFormed(chain)
      /\ \A e \in reflected : e.ledger \in Nat
  BY IndexerAssumption DEF UpToDate, IInv, Typed, ChainPossible, IndexedEvent
<1>1. Standing(chain) # None
  BY NoneIsNoValue DEF SettlementState
<1>2. PICK z \in reflected :
        /\ Standing(chain) = Settles[z.type]
        /\ z = EventAt(chain, z.ledger)
        /\ \A e \in reflected : e.ledger <= z.ledger /\ (e.ledger = z.ledger => e = z)
        /\ row # None /\ row.settlementState # "Orphaned"
        /\ row.indexedLedger >= z.ledger
  BY <1>0, <1>1, RowHasLatestPurchase
<1>3. z.type \in {"completed", "released", "resolvedRelease"}
  <2>1. z.type \in EventType
    BY <1>0, EventsTyped DEF IndexedEvent
  <2> QED
    BY <1>2, <2>1, SettlesFacts
<1>4. ~Told(Revoking)
  <2>1. \A S : Told(S) => Settles[z.type] \in S
    BY <1>0, <1>2, RowSaysStanding
  <2> QED
    BY <1>2, <2>1 DEF Revoking
<1>5. \A e \in reflected : ~Granted(e)
  BY <1>0, <1>4, NothingOutstanding DEF Granted
<1>6. CASE z.type = "completed"
  <2>1. z \in Sales
    BY <1>6 DEF Sales
  <2>2. FollowedByRelease(z)
    <3> SUFFICES ASSUME NEW e \in reflected \ {z}, z.ledger <= e.ledger PROVE FALSE
      BY DEF FollowedByRelease
    <3>1. e.ledger <= z.ledger /\ e.ledger # z.ledger
      BY <1>2
    <3> QED
      BY <1>0, <3>1
  <2> QED
    BY <1>5, <2>1, <2>2 DEF IInv, SalesGrant
<1>7. CASE z.type = "released"
  <2>0. z.ledger \in EventLedgers(chain) /\ chain[z.ledger].type = "released"
    <3>1. z.type = chain[z.ledger].type
      BY <1>2 DEF EventAt
    <3> QED
      BY <1>0, <1>7, <3>1, EventsTyped
  <2>1. PICK s \in EventLedgers(chain) :
          /\ s < z.ledger /\ chain[s].type = "completed"
          /\ \A i \in EventLedgers(chain) : i < z.ledger => i <= s
    BY <1>0, <2>0, ReleaseFollowsSale
  <2>2. PICK c \in reflected : c = EventAt(chain, s)
    BY <1>0, EventsTyped
  <2>3. c \in Sales /\ c.ledger = s
    BY <2>1, <2>2 DEF Sales, EventAt
  <2>4. FollowedByRelease(c)
    <3> SUFFICES ASSUME NEW e \in reflected \ {c}, c.ledger <= e.ledger
                 PROVE  e.type = "released"
      BY DEF FollowedByRelease
    <3>1. e.ledger \in EventLedgers(chain) /\ e.ledger # c.ledger
      BY <1>0, <2>2, EventsTyped
    <3>2. ~(e.ledger < z.ledger)
      BY <1>0, <2>1, <2>3, <3>1
    <3>3. e = z
      BY <1>0, <1>2, <3>2
    <3> QED
      BY <1>7, <3>3
  <2> QED
    BY <1>5, <2>2, <2>3, <2>4 DEF IInv, SalesGrant
<1>8. CASE z.type = "resolvedRelease"
  <2>1. Settles[z.type] = "Released" /\ Settles[z.type] \notin Revoking
    BY <1>8 DEF Settles, Revoking
  <2>2. row.settlementState = "Released" /\ row.indexedLedger = z.ledger
    BY <1>0, <1>2, <2>1, RowSaysStanding
  <2>3. LastResolved(z)
    BY <1>2, <1>8, <2>2 DEF LastResolved
  <2> QED
    BY <1>5, <2>3 DEF IInv, ResolutionsGrant
<1> QED
  BY <1>3, <1>6, <1>7, <1>8

LEMMA AccessFollows == IInv => AccessFollowsTheChain
<1> SUFFICES ASSUME IInv, UpToDate, Delivered, ~outOfTurn, ~Misled
             PROVE  /\ Standing(chain) \in {"Pending", "Released"} => WouldServe
                    /\ WouldServe /\ ~unrevoked =>
                         Standing(chain) \in {"Pending", "Released"}
  BY DEF AccessFollowsTheChain
<1>1. ASSUME Standing(chain) \in {"Pending", "Released"} PROVE WouldServe
  <2>1. Standing(chain) # None
    BY <1>1, NoneIsNoValue DEF SettlementState
  <2>2. row # None /\ row.settlementState = Standing(chain)
    BY <2>1, MirrorFollows DEF MirrorAgrees
  <2>3. cache # "revoked"
    BY <1>1, StandingIsGranted
  <2> QED
    BY <1>1, <2>2, <2>3 DEF WouldServe, Revoking
<1>2. ASSUME WouldServe, ~unrevoked PROVE Standing(chain) \in {"Pending", "Released"}
  <2>1. Standing(chain) # None
    <3> SUFFICES ASSUME Standing(chain) = None PROVE FALSE
      OBVIOUS
    <3>1. row = None \/ row.settlementState = "Orphaned"
      BY MirrorFollows DEF MirrorAgrees
    <3>2. row # None /\ cache # "revoked"
      BY <1>2 DEF WouldServe
    <3> QED
      BY <1>2, <3>1, <3>2 DEF IInv, OrphansRevoked, Misled
  <2>2. Standing(chain) \notin Revoking
    BY <1>2, DenialFollows DEF RefundedStaysDenied
  <2>3. \E t \in EventType : Standing(chain) = Settles[t]
    <3>1. chain \in Chains
      BY DEF IInv, Typed
    <3>2. PICK n \in EventLedgers(chain) : Standing(chain) = Settles[chain[n].type]
      BY <2>1, <3>1, LastDecides
    <3>3. chain[n].type \in EventType
      BY <3>1, ChainShape DEF EventLedgers
    <3> QED
      BY <3>2, <3>3
  <2> QED
    BY <2>2, <2>3, SettlesFacts DEF Revoking
<1> QED
  BY <1>1, <1>2

\* Once everything is delivered and applied a purchase that stands on the chain
\* is served and one that does not is denied, orphaned ones included unless the
\* rewind could not revoke their cache entry.
THEOREM AccessIsRight == Spec => []AccessFollowsTheChain
BY AccessFollows, IndexerInvariant, PTL

=============================================================================
