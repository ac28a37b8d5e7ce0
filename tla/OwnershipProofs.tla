--------------------------- MODULE OwnershipProofs ---------------------------
(***************************************************************************)
(* What the transfers of a material guarantee for any number of users,     *)
(* offers and requests: the two documents that an accept writes agree, and *)
(* only an owner's own offer moves the material.                           *)
(***************************************************************************)
EXTENDS OwnershipTransfer, TLAPS

-----------------------------------------------------------------------------
(* The invariant. *)

\* At most one offer is live, as the unique index has it.
OneLive ==
    \A s, t \in Ids :
        /\ transfers[s] # None /\ transfers[s].state \in Live
        /\ transfers[t] # None /\ transfers[t].state \in Live
        => s = t

\* The material names the last transfer that moved it.
NamedHasSwapped ==
    /\ \A t \in Ids : transfers[t] = None => swaps[t] = 0
    /\ \A t \in Ids : material.transferId = t => swaps[t] > 0

\* While a moved transfer waits for its last update, the material still shows
\* the swap, since no other offer is live.
SwapShows ==
    ~overtaken =>
        \A t \in Ids :
            transfers[t] # None /\ transfers[t].state = "accepting" /\ swaps[t] > 0
                => SwapConfirmed(t)

\* No offer is younger than the clock or than a hold.
OffersAreOld ==
    \A t \in Ids :
        transfers[t] # None =>
            /\ transfers[t].expiresAt <= clock + Ttl
            /\ material.status = "held" => transfers[t].expiresAt <= heldAt + Ttl

\* The stages each kind of request passes through.
StageOfOp(r) ==
    /\ r.stage \in {"existing", "insert"} => r.op = "initiate"
    /\ r.stage = "expire" => r.op \notin {"dispute", "thrown"}
    /\ r.stage \in {"claim", "swap", "finish"} => r.op = "accept"
    /\ r.stage = "close" => r.op \in {"declined", "cancelled"}
    /\ r.stage = "dispute" => r.op = "dispute"
    /\ r.stage \in {"settleRead", "settleWrite"} =>
          r.op \in {"accept", "recover", "thrown"}

\* An offer is made by somebody who saw the material free.
ProposalIsOld(r) ==
    r.op = "initiate" =>
        /\ r.fromAddress \in Users /\ r.toAddress \in Users /\ r.claim = 0
        /\ material.status = "held" => r.now <= heldAt

\* A request names a transfer there is and a claim that was made.
NamesTransfer(r) ==
    r.op # "initiate" \/ r.stage = "expire" =>
        /\ r.t \in Ids /\ transfers[r.t] # None
        /\ r.claim <= claims[r.t]

\* An answer to an offer goes on under a dispute only if it was there first.
WasThereFirst(r) ==
    r.op \in {"accept", "declined", "cancelled"} /\ disputes[r.t] > 0 => r.raced

\* The transfer is still in the claim that the request works for.
Current(r) == transfers[r.t].state = "accepting" /\ claims[r.t] = r.claim

\* What a request knows of the swap, and of the lease it takes for over.
KnowsTheSwap(r) ==
    /\ r.stage = "swap" => ~r.swapped
    /\ r.stage \in {"finish", "settleWrite"} /\ r.swapped => swaps[r.t] > 0
    /\ /\ r.stage \in {"settleRead", "settleWrite"} /\ r.op # "thrown"
       /\ Current(r)
       => transfers[r.t].leaseExpiresAt <= clock
    /\ /\ r.stage = "swap" \/ (r.stage \in {"finish", "settleWrite"} /\ ~r.swapped)
       /\ Current(r) /\ ~overtaken
       => swaps[r.t] = 0

Sound(r) ==
    /\ r \in Requests /\ r.now <= clock
    /\ StageOfOp(r) /\ ProposalIsOld(r) /\ NamesTransfer(r) /\ WasThereFirst(r)
    /\ KnowsTheSwap(r)

CallsAreSound == \A c \in Calls : call[c] = Idle \/ Sound(call[c])

\* The request that made a claim is the only one to act on it, until it ends.
Claimed(r) ==
    \/ r.stage \in {"swap", "finish"}
    \/ r.stage \in {"settleRead", "settleWrite"} /\ r.op = "thrown"

ClaimsAreUnique ==
    \A c, d \in Calls :
        /\ c # d /\ Claimed(call[c]) /\ Claimed(call[d])
        /\ call[c].t = call[d].t
        => call[c].claim # call[d].claim

OwnInv ==
    /\ TypeOK
    /\ OneLive /\ NamedHasSwapped /\ SwapShows /\ OffersAreOld
    /\ DocumentsAgree /\ AcceptedMeansMoved
    /\ CallsAreSound /\ ClaimsAreUnique

-----------------------------------------------------------------------------
(* What every step keeps. *)

\* Documents keep their parties, histories grow, time passes; a transfer that
\* is being accepted under an old claim keeps its lease; a hold begins now.
Evolves ==
    /\ \A t \in Ids :
          /\ transfers[t] # None =>
                /\ transfers'[t] # None
                /\ transfers'[t].state = "accepting" /\ claims'[t] = claims[t] =>
                      /\ transfers[t].state = "accepting"
                      /\ transfers'[t].leaseExpiresAt = transfers[t].leaseExpiresAt
          /\ claims[t] <= claims'[t] /\ swaps[t] <= swaps'[t]
    /\ clock <= clock'
    /\ overtaken => overtaken'
    /\ material'.status = "held" =>
          (material.status = "held" /\ heldAt' = heldAt) \/ heldAt' = clock
    /\ clock' \in Int

\* Requests are made of their types.
LEMMA RequestTypes ==
    ASSUME TypeOK, NEW r \in Requests
    PROVE  /\ r.now \in Nat /\ r.claim \in Nat /\ clock \in Nat /\ r.stage \in Stages
           /\ r.stage # "idle" /\ heldAt \in Nat
           /\ r.t \in Ids =>
                 claims[r.t] \in Nat /\ swaps[r.t] \in Nat /\ disputes[r.t] \in Nat
BY TransferConstants DEF TypeOK, Requests, Stages, Time

LEMMA SoundStays ==
    ASSUME TypeOK, TypeOK', Evolves, NEW r, Sound(r),
           NamesTransfer(r) /\ r.t \in Ids /\ r.op # "initiate" =>
               /\ disputes'[r.t] > 0 => disputes[r.t] > 0
               /\ \/ swaps'[r.t] = swaps[r.t]
                  \/ overtaken'
                  \/ r.stage \notin {"swap", "finish", "settleWrite"}
                  \/ claims[r.t] # r.claim \/ (r.swapped /\ r.stage # "swap")
    PROVE  Sound(r)'
<1>1. /\ r \in Requests /\ r.now \in Nat /\ r.claim \in Nat /\ clock \in Nat /\ heldAt \in Nat
      /\ clock' \in Nat /\ r.now <= clock
      /\ r.t \in Ids => claims[r.t] \in Nat /\ swaps[r.t] \in Nat
      /\ r.t \in Ids => claims'[r.t] \in Nat /\ swaps'[r.t] \in Nat
  BY RequestTypes DEF Sound, TypeOK
<1>2. r.now <= clock'
  BY <1>1 DEF Evolves
<1>3. ProposalIsOld(r)'
  BY <1>1, <1>2 DEF Sound, ProposalIsOld, Evolves
<1>4. NamesTransfer(r)'
  BY <1>1 DEF Sound, NamesTransfer, Evolves
<1>5. WasThereFirst(r)'
  BY <1>1 DEF Sound, NamesTransfer, WasThereFirst
<1>6. KnowsTheSwap(r)'
  <2>1. CASE r.stage \notin {"swap", "finish", "settleRead", "settleWrite"}
    BY <2>1 DEF KnowsTheSwap
  <2>2. CASE r.stage \in {"swap", "finish", "settleRead", "settleWrite"}
    <3>1. r.t \in Ids /\ transfers[r.t] # None /\ r.claim <= claims[r.t] /\ r.op # "initiate"
      BY <2>2 DEF Sound, StageOfOp, NamesTransfer
    <3>2. Current(r)' => Current(r)
               /\ transfers'[r.t].leaseExpiresAt = transfers[r.t].leaseExpiresAt
      BY <1>1, <3>1 DEF Evolves, Current
    <3>3. /\ r.stage = "swap" => ~r.swapped
          /\ r.stage \in {"finish", "settleWrite"} /\ r.swapped => swaps'[r.t] > 0
      BY <1>1, <3>1 DEF Sound, KnowsTheSwap, Evolves
    <3>4. r.stage \in {"settleRead", "settleWrite"} /\ r.op # "thrown" /\ Current(r)'
               => transfers'[r.t].leaseExpiresAt <= clock'
      <4> SUFFICES ASSUME r.stage \in {"settleRead", "settleWrite"}, r.op # "thrown", Current(r)'
                   PROVE  transfers'[r.t].leaseExpiresAt <= clock'
        OBVIOUS
      <4>1. transfers[r.t].leaseExpiresAt <= clock
        BY <3>2 DEF Sound, KnowsTheSwap
      <4>2. transfers[r.t].leaseExpiresAt \in Nat
        BY <3>1, TransferConstants DEF TypeOK, Transfers, Time
      <4>3. QED
        BY <1>1, <3>2, <4>1, <4>2 DEF Evolves
    <3>5. /\ r.stage = "swap" \/ (r.stage \in {"finish", "settleWrite"} /\ ~r.swapped)
          /\ Current(r)' /\ ~overtaken'
          => swaps'[r.t] = 0
      <4> SUFFICES ASSUME r.stage = "swap" \/ (r.stage \in {"finish", "settleWrite"} /\ ~r.swapped),
                          Current(r)', ~overtaken'
                   PROVE  swaps'[r.t] = 0
        OBVIOUS
      <4>1. ~overtaken /\ Current(r) /\ claims[r.t] = r.claim
        BY <3>2 DEF Evolves, Current
      <4>2. swaps[r.t] = 0
        BY <4>1 DEF Sound, KnowsTheSwap
      <4>3. swaps'[r.t] = swaps[r.t]
        BY <3>1, <4>1 DEF Sound
      <4>4. QED
        BY <4>2, <4>3
    <3>6. QED
      BY <3>3, <3>4, <3>5 DEF KnowsTheSwap
  <2>3. QED
    BY <2>1, <2>2
<1>7. QED
  BY <1>1, <1>2, <1>3, <1>4, <1>5, <1>6 DEF Sound, StageOfOp

\* The claims of requests stay apart when one of them moves on: it acts on the
\* claim it had, on one made just now, or on none.
LEMMA ClaimsStayUnique ==
    ASSUME TypeOK, CallsAreSound, ClaimsAreUnique, NEW c \in Calls, NEW j,
           call' = [call EXCEPT ![c] = j],
           Claimed(j) =>
               \/ Claimed(call[c]) /\ j.t = call[c].t /\ j.claim = call[c].claim
               \/ j.t \in Ids /\ j.claim = claims[j.t] + 1
    PROVE  ClaimsAreUnique'
<1>1. call'[c] = j /\ \A d \in Calls \ {c} : call'[d] = call[d]
  BY DEF TypeOK
<1>2. ASSUME NEW d \in Calls \ {c}, Claimed(call[d]), Claimed(j), j.t = call[d].t
      PROVE  j.claim # call[d].claim
  <2>1. call[d] # Idle
    BY <1>2 DEF Claimed, Idle
  <2>2. Sound(call[d])
    BY <2>1 DEF CallsAreSound
  <2>3. CASE Claimed(call[c]) /\ j.t = call[c].t /\ j.claim = call[c].claim
    BY <1>2, <2>3 DEF ClaimsAreUnique
  <2>4. CASE j.t \in Ids /\ j.claim = claims[j.t] + 1
    <3>1. /\ call[d] \in Requests /\ call[d].claim <= claims[j.t]
          /\ call[d].claim \in Nat /\ claims[j.t] \in Nat
      BY <1>2, <2>2, <2>4, RequestTypes
         DEF Sound, StageOfOp, NamesTransfer, Claimed
    <3>2. QED
      BY <2>4, <3>1
  <2>5. QED
    BY <1>2, <2>3, <2>4
<1>3. QED
  BY <1>1, <1>2 DEF ClaimsAreUnique, Claimed

-----------------------------------------------------------------------------
(* The kinds of steps. *)

\* A state predicate of a value is one of the request that is that value.
LEMMA EachCallIsSound ==
    ASSUME \A d \in Calls : \A q : q = call'[d] => q = Idle \/ Sound(q)'
    PROVE  CallsAreSound'
BY DEF CallsAreSound, Sound, StageOfOp, ProposalIsOld, NamesTransfer, WasThereFirst,
   KnowsTheSwap, Current

\* A request goes on, or ends, and writes nothing.
LEMMA QuietStep ==
    ASSUME OwnInv, NEW c \in Calls, NEW j, j = Idle \/ Sound(j),
           call' = [call EXCEPT ![c] = j],
           Claimed(j) => Claimed(call[c]) /\ j.t = call[c].t /\ j.claim = call[c].claim,
           UNCHANGED <<material, transfers, disputes, clock, history>>,
           calls' \in 0..MaxCalls, failures' \in 0..MaxFailures
    PROVE  OwnInv'
<1>1. j \in Requests \cup {Idle}
  BY DEF Sound
<1>2. TypeOK'
  BY <1>1 DEF OwnInv, TypeOK, history
<1>3. Evolves
  BY TransferConstants DEF Evolves, history, OwnInv, TypeOK
<1>4. /\ OneLive' /\ NamedHasSwapped' /\ SwapShows' /\ OffersAreOld'
      /\ DocumentsAgree' /\ AcceptedMeansMoved'
  BY DEF OwnInv, OneLive, NamedHasSwapped, SwapShows, SwapConfirmed, OffersAreOld,
     DocumentsAgree, AcceptedMeansMoved, history
<1>5. CallsAreSound'
  <2>1. ASSUME NEW q, q = Idle \/ Sound(q) PROVE q = Idle \/ Sound(q)'
    BY <2>1 DEF Sound, StageOfOp, ProposalIsOld, NamesTransfer, WasThereFirst,
       KnowsTheSwap, Current, history
  <2>2. \A d \in Calls : call'[d] = Idle \/ Sound(call'[d])
    BY DEF OwnInv, CallsAreSound, TypeOK
  <2>3. QED
    BY <2>1, <2>2, EachCallIsSound
<1>6. ClaimsAreUnique'
  BY ClaimsStayUnique DEF OwnInv
<1>7. QED
  BY <1>2, <1>4, <1>5, <1>6 DEF OwnInv

\* A step that writes what others rely on keeps them sound if it keeps its own.
LEMMA OthersStaySound ==
    ASSUME OwnInv, TypeOK', Evolves, NEW c \in Calls, NEW j, j = Idle \/ Sound(j)',
           call' = [call EXCEPT ![c] = j],
           \A d \in Calls \ {c} :
               LET r == call[d] IN
               call[d] # Idle /\ r.t \in Ids /\ r.op # "initiate" =>
                   /\ disputes'[r.t] > 0 => disputes[r.t] > 0
                   /\ \/ swaps'[r.t] = swaps[r.t]
                      \/ overtaken'
                      \/ r.stage \notin {"swap", "finish", "settleWrite"}
                      \/ claims[r.t] # r.claim \/ (r.swapped /\ r.stage # "swap")
    PROVE  CallsAreSound'
<1>1. call'[c] = j /\ \A d \in Calls \ {c} : call'[d] = call[d]
  BY DEF OwnInv, TypeOK
<1>2. ASSUME NEW d \in Calls \ {c}, NEW q, q = call[d] PROVE q = Idle \/ Sound(q)'
  <2>1. q = Idle \/ Sound(q)
    BY <1>2 DEF OwnInv, CallsAreSound
  <2>2. q # Idle /\ q.t \in Ids /\ q.op # "initiate" =>
            /\ disputes'[q.t] > 0 => disputes[q.t] > 0
            /\ \/ swaps'[q.t] = swaps[q.t]
               \/ overtaken'
               \/ q.stage \notin {"swap", "finish", "settleWrite"}
               \/ claims[q.t] # q.claim \/ (q.swapped /\ q.stage # "swap")
    BY <1>2
  <2>3. QED
    BY <2>1, <2>2, SoundStays DEF OwnInv
<1>3. \A d \in Calls : \A q : q = call'[d] => q = Idle \/ Sound(q)'
  BY <1>1, <1>2
<1>4. QED
  BY <1>3, EachCallIsSound

\* One transfer changes its state, other than by the swap.
LEMMA DocStep ==
    ASSUME OwnInv, NEW c \in Calls, NEW t \in Ids, transfers[t] # None,
           NEW d \in Transfers, transfers' = [transfers EXCEPT ![t] = d],
           d.fromAddress = transfers[t].fromAddress, d.toAddress = transfers[t].toAddress,
           d.expiresAt = transfers[t].expiresAt,
           d.state \in Live => transfers[t].state \in Live,
           overtaken' \in BOOLEAN, overtaken => overtaken',
           swaps[t] > 0 /\ ~overtaken' => d.state = "accepted",
           d.state = "accepted" => swaps[t] > 0,
           \/ d.state # "accepting" /\ claims' = claims
           \/ claims[t] < MaxClaims /\ claims' = [claims EXCEPT ![t] = @ + 1],
           NEW j, j = Idle \/ Sound(j) \/ Sound(j)', call' = [call EXCEPT ![c] = j],
           Claimed(j) =>
               \/ Claimed(call[c]) /\ j.t = call[c].t /\ j.claim = call[c].claim
               \/ j.t \in Ids /\ j.claim = claims[j.t] + 1,
           UNCHANGED <<material, disputes, clock, swaps, heldAt, calls, failures>>
    PROVE  OwnInv'
<1>1. /\ transfers \in [Ids -> Transfers \cup {None}] /\ transfers'[t] = d /\ d # None
      /\ transfers' \in [Ids -> Transfers \cup {None}]
      /\ \A u \in Ids \ {t} : transfers'[u] = transfers[u]
  BY NoneIsNoTransfer DEF OwnInv, TypeOK
<1>2. /\ claims \in [Ids -> 0..MaxClaims] /\ claims' \in [Ids -> 0..MaxClaims]
      /\ \A u \in Ids : claims[u] <= claims'[u]
      /\ d.state = "accepting" => claims'[t] # claims[t]
  BY TransferConstants DEF OwnInv, TypeOK
<1>3. TypeOK'
  <2>1. j \in Requests \cup {Idle}
    BY DEF Sound
  <2>2. QED
    BY <1>1, <1>2, <2>1 DEF OwnInv, TypeOK
<1>4. Evolves
  <2>1. clock \in Int /\ swaps \in [Ids -> Nat]
    BY DEF OwnInv, TypeOK
  <2>2. \A u \in Ids : transfers[u] # None /\ transfers'[u].state = "accepting"
                         /\ claims'[u] = claims[u] => transfers'[u] = transfers[u]
    BY <1>1, <1>2
  <2>3. \A u \in Ids : transfers[u] # None => transfers'[u] # None
    BY <1>1
  <2>4. QED
    BY <1>2, <2>1, <2>2, <2>3 DEF Evolves
<1>5. OneLive'
  BY <1>1 DEF OwnInv, OneLive
<1>6. NamedHasSwapped' /\ OffersAreOld'
  BY <1>1 DEF OwnInv, NamedHasSwapped, OffersAreOld
<1>7. SwapShows'
  BY <1>1 DEF OwnInv, SwapShows, SwapConfirmed
<1>8. DocumentsAgree' /\ AcceptedMeansMoved'
  <2>1. ~overtaken' => DocumentsAgree'
    BY <1>1 DEF OwnInv, DocumentsAgree
  <2>2. AcceptedMeansMoved'
    BY <1>1 DEF OwnInv, AcceptedMeansMoved
  <2>3. QED
    BY <2>1, <2>2 DEF DocumentsAgree
<1>9. CallsAreSound'
  <2>1. j = Idle \/ Sound(j)'
    BY <1>3, <1>4, SoundStays DEF OwnInv
  <2>2. QED
    BY <1>3, <1>4, <2>1, OthersStaySound
<1>10. ClaimsAreUnique'
  BY ClaimsStayUnique DEF OwnInv
<1>11. QED
  BY <1>3, <1>5, <1>6, <1>7, <1>8, <1>9, <1>10 DEF OwnInv

-----------------------------------------------------------------------------
(* Requests moving on. *)

\* The request c is in, while it is in one.
LEMMA CurrentRequest ==
    ASSUME OwnInv, NEW c \in Calls, call[c].stage # "idle"
    PROVE  /\ Sound(call[c]) /\ call[c] \in Requests
           /\ call[c].op # "initiate" \/ call[c].stage = "expire" =>
                 call[c].t \in Ids /\ transfers[call[c].t] # None
                 /\ transfers[call[c].t] \in Transfers
           /\ \A s \in Stages : Go(c, s) =>
                 call' = [call EXCEPT ![c] = [call[c] EXCEPT !.stage = s]]
<1>1. call[c] = Idle \/ Sound(call[c])
  BY DEF OwnInv, CallsAreSound
<1>2. Sound(call[c])
  BY <1>1 DEF Idle
<1>3. QED
  BY <1>2 DEF Sound, NamesTransfer, OwnInv, TypeOK, Go

\* It stays sound at a stage its operation reaches.
SameRequest(j, r) ==
    /\ j.now = r.now /\ j.t = r.t /\ j.claim = r.claim /\ j.raced = r.raced
    /\ j.fromAddress = r.fromAddress /\ j.toAddress = r.toAddress

LEMMA MovedIsSound ==
    ASSUME NEW r, Sound(r), NEW j \in Requests, SameRequest(j, r),
           \/ j.op = r.op /\ (r.op = "initiate" /\ j.stage = "expire" => r.stage = "expire")
           \/ j.op = "thrown" /\ r.op # "initiate",
           StageOfOp(j), KnowsTheSwap(j)
    PROVE  Sound(j)
BY DEF SameRequest, Sound, ProposalIsOld, NamesTransfer, WasThereFirst

-----------------------------------------------------------------------------
(* Steps that write nothing but the request's progress. *)

\* What a request on a transfer goes on to, from After and Entry.
LEMMA WhereItGoes ==
    ASSUME NEW r, NEW t, NEW s, s \in {After(r, t), Entry(r, t)}, s # "idle"
    PROVE  /\ s \in {"expire", "claim", "settleRead", "close", "insert"}
           /\ s = "expire" => Entry(r, t) = "expire" /\ transfers[t].state = "pending"
           /\ s = "claim" => r.op = "accept"
           /\ s = "settleRead" => r.op = "accept" /\ LeaseOver(t, r.now)
           /\ s = "close" => r.op \in {"declined", "cancelled"}
           /\ s = "insert" => r.op = "initiate" /\ transfers[t].state \notin Live
BY DEF After, Entry

LEMMA InitiateKeeps ==
    ASSUME OwnInv, NEW c \in Calls, NEW from \in Users, NEW to \in Users,
           initiateTransfer(c, from, to)
    PROVE  OwnInv'
<1>1. PICK j : j = [Request("initiate", None) EXCEPT !.stage = "existing",
                                                   !.fromAddress = from,
                                                   !.toAddress = to]
  OBVIOUS
<1>2. /\ j.op = "initiate" /\ j.stage = "existing" /\ j.now = clock /\ j.t = None
      /\ j.fromAddress = from /\ j.toAddress = to /\ j.claim = 0
      /\ j.swapped = FALSE /\ j.raced = FALSE
  BY <1>1 DEF Request
<1>3. j = [op |-> "initiate", stage |-> "existing", now |-> clock, t |-> None,
           fromAddress |-> from, toAddress |-> to, claim |-> 0,
           swapped |-> FALSE, raced |-> FALSE]
  BY <1>1 DEF Request
<1>4. j \in Requests
  BY <1>3, TransferConstants DEF Requests, Stages, OwnInv, TypeOK
<1>5. Sound(j)
  BY <1>2, <1>4 DEF initiateTransfer, Proposable, Sound, StageOfOp, ProposalIsOld,
     NamesTransfer, WasThereFirst, KnowsTheSwap, OwnInv, TypeOK
<1>6. call' = [call EXCEPT ![c] = j] /\ ~Claimed(j)
  BY <1>1, <1>2 DEF initiateTransfer, Begin, Claimed
<1>7. calls' \in 0..MaxCalls /\ failures' \in 0..MaxFailures
  BY TransferConstants DEF initiateTransfer, Begin, OwnInv, TypeOK
<1>8. QED
  BY <1>5, <1>6, <1>7, QuietStep DEF initiateTransfer

\* A request is started on a transfer.
LEMMA StartedRequest ==
    ASSUME OwnInv, NEW c \in Calls, NEW t \in Ids, transfers[t] # None,
           NEW op \in {"accept", "declined", "cancelled", "recover", "dispute"},
           op \in {"accept", "declined", "cancelled"} => disputes[t] = 0,
           NEW s \in {"expire", "claim", "settleRead", "close", "dispute"},
           s = "expire" => op # "dispute", s = "claim" => op = "accept",
           s = "settleRead" => op \in {"accept", "recover"}
                               /\ transfers[t].leaseExpiresAt <= clock,
           s = "close" => op \in {"declined", "cancelled"},
           s = "dispute" => op = "dispute",
           Begin(c, [Request(op, t) EXCEPT !.stage = s]),
           UNCHANGED <<material, transfers, disputes, clock, failures, history>>
    PROVE  OwnInv'
<1>1. PICK j : j = [Request(op, t) EXCEPT !.stage = s]
  OBVIOUS
<1>2. t # None
  BY TransferConstants
<1>3. j = [op |-> op, stage |-> s, now |-> clock, t |-> t, fromAddress |-> None,
           toAddress |-> None, claim |-> claims[t], swapped |-> FALSE, raced |-> FALSE]
  BY <1>1, <1>2 DEF Request
<1>4. /\ j.op = op /\ j.stage = s /\ j.now = clock /\ j.t = t /\ j.claim = claims[t]
      /\ j.swapped = FALSE
  BY <1>3
<1>5. j \in Requests
  BY <1>3 DEF Requests, Stages, OwnInv, TypeOK
<1>6. Sound(j)
  BY <1>4, <1>5 DEF Sound, StageOfOp, ProposalIsOld, NamesTransfer, WasThereFirst,
     KnowsTheSwap, OwnInv, TypeOK
<1>7. call' = [call EXCEPT ![c] = j] /\ ~Claimed(j)
  BY <1>1, <1>4 DEF Begin, Claimed
<1>8. calls' \in 0..MaxCalls /\ failures' \in 0..MaxFailures
  BY TransferConstants DEF Begin, OwnInv, TypeOK
<1>9. QED
  BY <1>6, <1>7, <1>8, QuietStep

LEMMA LoadKeeps ==
    ASSUME OwnInv, NEW c \in Calls, NEW t \in Ids,
           NEW op \in {"accept", "declined", "cancelled"}, LoadTransfer(c, op, t)
    PROVE  OwnInv'
<1> DEFINE r == Request(op, t)
<1>1. r.op = op /\ r.now = clock
  BY DEF Request
<1> HIDE DEF r
<1>2. PICK s : s = Entry(r, t)
  OBVIOUS
<1>3. /\ s # "idle" /\ Begin(c, [r EXCEPT !.stage = s]) /\ transfers[t] # None
      /\ disputes[t] = 0
      /\ UNCHANGED <<material, transfers, disputes, clock, failures, history>>
  BY <1>2 DEF LoadTransfer, r, assertTransferNotDisputed
<1>4. /\ s \in {"expire", "claim", "settleRead", "close"}
      /\ s = "claim" => op = "accept"
      /\ s = "settleRead" => op = "accept" /\ transfers[t].leaseExpiresAt <= clock
      /\ s = "close" => op \in {"declined", "cancelled"}
  BY <1>1, <1>2, <1>3, WhereItGoes DEF LeaseOver
<1>5. QED
  BY <1>3, <1>4, StartedRequest DEF r

LEMMA RecoverKeeps ==
    ASSUME OwnInv, NEW c \in Calls, NEW t \in Ids, recoverStuckTransfers(c, t)
    PROVE  OwnInv'
<1>1. CASE Begin(c, [Request("recover", t) EXCEPT !.stage = "expire"])
  BY <1>1, StartedRequest DEF recoverStuckTransfers
<1>2. CASE LeaseOver(t, clock) /\ Begin(c, [Request("recover", t) EXCEPT !.stage = "settleRead"])
  BY <1>2, StartedRequest DEF recoverStuckTransfers, LeaseOver
<1>3. QED
  BY <1>1, <1>2 DEF recoverStuckTransfers

LEMMA DisputeKeeps ==
    ASSUME OwnInv, NEW c \in Calls, NEW t \in Ids, openTransferDispute(c, t)
    PROVE  OwnInv'
BY StartedRequest DEF openTransferDispute

\* The request ends.
LEMMA EndedQuietly ==
    ASSUME OwnInv, NEW c \in Calls, End(c), failures' \in 0..MaxFailures,
           UNCHANGED <<material, transfers, disputes, clock, calls, history>>
    PROVE  OwnInv'
<1>1. ~Claimed(Idle) /\ calls' \in 0..MaxCalls
  BY DEF Claimed, Idle, OwnInv, TypeOK
<1>2. QED
  BY <1>1, QuietStep DEF End

LEMMA DieKeeps ==
    ASSUME OwnInv, NEW c \in Calls, Die(c)
    PROVE  OwnInv'
<1>1. failures' \in 0..MaxFailures
  BY TransferConstants DEF Die, OwnInv, TypeOK
<1>2. QED
  BY <1>1, EndedQuietly DEF Die

LEMMA FindExistingKeeps ==
    ASSUME OwnInv, NEW c \in Calls, FindExisting(c)
    PROVE  OwnInv'
<1> DEFINE r == call[c]
<1>1. r.stage = "existing" /\ Sound(r) /\ r \in Requests /\ r.op = "initiate"
  BY CurrentRequest DEF FindExisting, Sound, StageOfOp
<1>2. failures' \in 0..MaxFailures /\ calls' \in 0..MaxCalls
  BY DEF FindExisting, OwnInv, TypeOK
<1>3. CASE Go(c, "insert")
  <2>1. PICK j : j = [r EXCEPT !.stage = "insert"]
    OBVIOUS
  <2>2. j \in Requests /\ j.stage = "insert" /\ j.op = r.op /\ SameRequest(j, r)
    BY <1>1, <2>1 DEF Requests, Stages, SameRequest
  <2>3. Sound(j) /\ ~Claimed(j)
    BY <1>1, <2>2, MovedIsSound DEF StageOfOp, KnowsTheSwap, Claimed
  <2>4. call' = [call EXCEPT ![c] = j]
    BY <1>3, <2>1 DEF Go
  <2>5. QED
    BY <1>2, <2>3, <2>4, QuietStep DEF FindExisting
<1>4. ASSUME NEW t \in LiveTransfers, Proceed(c, [r EXCEPT !.t = t], Entry(r, t))
      PROVE  OwnInv'
  <2>1. PICK s : s = Entry(r, t)
    OBVIOUS
  <2>2. s \in {"expire", "idle"}
    BY <1>1, <2>1 DEF Entry, After, LiveTransfers
  <2>3. CASE s = "idle"
    BY <1>2, <1>4, <2>1, <2>3, EndedQuietly DEF FindExisting, Proceed, End
  <2>4. CASE s = "expire"
    <3>1. PICK j : j = [r EXCEPT !.t = t, !.stage = "expire"]
      OBVIOUS
    <3>2. /\ t \in Ids /\ transfers[t] # None /\ claims[t] \in Nat
      BY DEF LiveTransfers, OwnInv, TypeOK
    <3>3. /\ j \in Requests /\ j.stage = "expire" /\ j.op = r.op /\ j.t = t
          /\ j.now = r.now /\ j.claim = r.claim
          /\ j.fromAddress = r.fromAddress /\ j.toAddress = r.toAddress
      BY <1>1, <3>1, <3>2 DEF Requests, Stages
    <3>4. Sound(j) /\ ~Claimed(j)
      BY <1>1, <3>2, <3>3 DEF Sound, StageOfOp, ProposalIsOld, NamesTransfer,
         WasThereFirst, KnowsTheSwap, Claimed
    <3>5. call' = [call EXCEPT ![c] = j]
      BY <1>4, <2>1, <2>4, <3>1 DEF Proceed
    <3>6. QED
      BY <1>2, <3>4, <3>5, QuietStep DEF FindExisting
  <2>5. QED
    BY <2>2, <2>3, <2>4
<1>5. QED
  BY <1>3, <1>4 DEF FindExisting

LEMMA SettleReadKeeps ==
    ASSUME OwnInv, NEW c \in Calls, SettleRead(c)
    PROVE  OwnInv'
<1> DEFINE r == call[c]
           b == SwapConfirmed(r.t)
<1>1. /\ r.stage = "settleRead" /\ Sound(r) /\ r.op \in {"accept", "recover", "thrown"}
      /\ r.t \in Ids /\ transfers[r.t] # None
  BY CurrentRequest DEF SettleRead, Sound, StageOfOp
<1>2. PICK j : j = [r EXCEPT !.stage = "settleWrite", !.swapped = b]
  OBVIOUS
<1>3. b \in BOOLEAN /\ r \in Requests
  BY <1>1 DEF SwapConfirmed, Sound
<1>4. /\ j \in Requests /\ j.stage = "settleWrite" /\ j.swapped = b /\ j.op = r.op
      /\ j.now = r.now /\ j.t = r.t /\ j.claim = r.claim /\ SameRequest(j, r)
  BY <1>2, <1>3 DEF Requests, Stages, SameRequest
<1>5. j.swapped => swaps[j.t] > 0
  BY <1>1, <1>4 DEF SwapConfirmed, OwnInv, NamedHasSwapped
<1>6. j.op # "thrown" /\ Current(j) => transfers[j.t].leaseExpiresAt <= clock
  BY <1>1, <1>4 DEF Sound, KnowsTheSwap, Current
<1>7. ~j.swapped /\ Current(j) /\ ~overtaken => swaps[j.t] = 0
  <2>1. swaps[r.t] \in Nat
    BY <1>1 DEF OwnInv, TypeOK
  <2>2. QED
    BY <1>1, <1>4, <2>1 DEF Current, OwnInv, SwapShows
<1>8. Sound(j)
  <2>1. KnowsTheSwap(j) /\ StageOfOp(j)
    BY <1>1, <1>4, <1>5, <1>6, <1>7 DEF KnowsTheSwap, StageOfOp
  <2>2. QED
    BY <1>1, <1>4, <2>1, MovedIsSound
<1>9. Claimed(j) => Claimed(r)
  BY <1>1, <1>4 DEF Claimed
<1>10. call' = [call EXCEPT ![c] = j]
  BY <1>2 DEF SettleRead
<1>11. failures' \in 0..MaxFailures /\ calls' \in 0..MaxCalls
  BY DEF SettleRead, OwnInv, TypeOK
<1>12. QED
  BY <1>4, <1>8, <1>9, <1>10, <1>11, QuietStep DEF SettleRead

\* The request of a swap that threw.
LEMMA ThrownRequest ==
    ASSUME OwnInv, NEW c \in Calls, call[c].stage = "swap", Threw(c)
    PROVE  \E j : /\ Sound(j) /\ j.stage = "settleRead" /\ j.op = "thrown"
                  /\ SameRequest(j, call[c])
                  /\ Claimed(j) /\ Claimed(call[c])
                  /\ call' = [call EXCEPT ![c] = j]
<1> DEFINE r == call[c]
<1>1. r.op = "accept" /\ r \in Requests
  BY CurrentRequest DEF Sound, StageOfOp
<1>2. PICK j : j = [r EXCEPT !.stage = "settleRead", !.op = "thrown"]
  OBVIOUS
<1>3. /\ j \in Requests /\ j.stage = "settleRead" /\ j.op = "thrown"
      /\ SameRequest(j, r)
  BY <1>1, <1>2 DEF Requests, Stages, SameRequest
<1>4. Sound(j) /\ Claimed(j) /\ Claimed(r)
  BY <1>1, <1>3, CurrentRequest, MovedIsSound DEF StageOfOp, KnowsTheSwap, Claimed
<1>5. call' = [call EXCEPT ![c] = j]
  BY <1>2 DEF Threw
<1>6. QED
  BY <1>3, <1>4, <1>5

LEMMA SwapThrowsKeeps ==
    ASSUME OwnInv, NEW c \in Calls, SwapThrows(c)
    PROVE  OwnInv'
<1>1. PICK j : /\ Sound(j) /\ SameRequest(j, call[c])
               /\ Claimed(j) /\ Claimed(call[c])
               /\ call' = [call EXCEPT ![c] = j]
  BY ThrownRequest DEF SwapThrows
<1>2. failures' \in 0..MaxFailures /\ calls' \in 0..MaxCalls
  BY TransferConstants DEF SwapThrows, Threw, OwnInv, TypeOK
<1>3. QED
  BY <1>1, <1>2, QuietStep DEF SwapThrows, SameRequest

-----------------------------------------------------------------------------
(* Steps that update a transfer. *)

\* A request on a transfer ends without writing, or by closing it.
LEMMA Closed ==
    ASSUME OwnInv, NEW c \in Calls, NEW t \in Ids, transfers[t] # None,
           NEW s \in TransferState, s \notin Live, NEW over \in BOOLEAN,
           overtaken' = (overtaken \/ over),
           transfers' = [transfers EXCEPT ![t].state = s],
           swaps[t] > 0 /\ ~overtaken' => s = "accepted",
           s = "accepted" => swaps[t] > 0,
           NEW j, j = Idle \/ Sound(j), ~Claimed(j),
           call' = [call EXCEPT ![c] = j],
           UNCHANGED <<material, disputes, clock, swaps, heldAt, calls, failures, claims>>
    PROVE  OwnInv'
<1>1. PICK d : d = [transfers[t] EXCEPT !.state = s]
  OBVIOUS
<1>2. transfers[t] \in Transfers
  BY DEF OwnInv, TypeOK
<1>3. /\ d \in Transfers /\ d.state = s /\ d.fromAddress = transfers[t].fromAddress
      /\ d.toAddress = transfers[t].toAddress /\ d.expiresAt = transfers[t].expiresAt
  BY <1>1, <1>2 DEF Transfers
<1>4. transfers' = [transfers EXCEPT ![t] = d]
  BY <1>1
<1>5. overtaken' \in BOOLEAN /\ (overtaken => overtaken')
  BY DEF OwnInv, TypeOK
<1>6. d.state # "accepting" /\ (d.state \in Live => transfers[t].state \in Live)
  BY <1>3 DEF Live
<1>7. /\ swaps[t] > 0 /\ ~overtaken' => d.state = "accepted"
      /\ d.state = "accepted" => swaps[t] > 0
  BY <1>3
<1>8. /\ claims' = claims
      /\ UNCHANGED <<material, disputes, clock, swaps, heldAt, calls, failures>>
  OBVIOUS
<1>9. QED
  BY <1>3, <1>4, <1>5, <1>6, <1>7, <1>8, DocStep

\* An open offer has not moved the material.
LEMMA PendingHasNotMoved ==
    ASSUME OwnInv, NEW t \in Ids, transfers[t].state = "pending", ~overtaken
    PROVE  ~(swaps[t] > 0)
BY DEF OwnInv, DocumentsAgree

LEMMA CloseKeeps ==
    ASSUME OwnInv, NEW c \in Calls, closePending(c)
    PROVE  OwnInv'
<1> DEFINE r == call[c]
<1>1. /\ r.stage = "close" /\ r.op \in {"declined", "cancelled"}
      /\ r.t \in Ids /\ transfers[r.t] # None
  BY CurrentRequest DEF closePending, Sound, StageOfOp
<1>2. ~Claimed(Idle) /\ failures' \in 0..MaxFailures
  BY DEF Claimed, Idle, closePending, OwnInv, TypeOK
<1>3. CASE transfers[r.t].state = "pending"
  <2>1. ~overtaken => ~(swaps[r.t] > 0)
    BY <1>1, <1>3, PendingHasNotMoved
  <2>2. r.op \in TransferState /\ r.op \notin Live /\ r.op # "accepted"
    BY <1>1 DEF TransferState, Live
  <2>3. transfers' = [transfers EXCEPT ![r.t].state = r.op]
    BY <1>3 DEF closePending
  <2>4. overtaken' = (overtaken \/ FALSE)
    BY DEF closePending, history, OwnInv, TypeOK
  <2>5. QED
    BY <1>1, <1>2, <2>1, <2>2, <2>3, <2>4, Closed DEF closePending, End, history
<1>4. CASE transfers[r.t].state # "pending"
  BY <1>2, <1>4, EndedQuietly DEF closePending
<1>5. QED
  BY <1>3, <1>4

LEMMA FinishKeeps ==
    ASSUME OwnInv, NEW c \in Calls, Finish(c)
    PROVE  OwnInv'
<1> DEFINE r == call[c]
<1>1. /\ r.stage = "finish" /\ Sound(r) /\ r \in Requests
      /\ r.t \in Ids /\ transfers[r.t] # None /\ swaps[r.t] \in Nat
  BY CurrentRequest, RequestTypes DEF Finish, Sound, StageOfOp, OwnInv
<1>2. ~Claimed(Idle) /\ failures' \in 0..MaxFailures
  BY DEF Claimed, Idle, Finish, OwnInv, TypeOK
<1>3. CASE transfers[r.t].state = "accepting"
  <2>1. PICK s : s = IF r.swapped THEN "accepted" ELSE "failed"
    OBVIOUS
  <2>2. s \in TransferState /\ s \notin Live
    BY <2>1 DEF TransferState, Live
  <2>3. transfers' = [transfers EXCEPT ![r.t].state = s]
    BY <1>3, <2>1 DEF Finish
  <2>4. PICK over \in BOOLEAN : over = Superseded(r)
    BY DEF Superseded
  <2>5. overtaken' = (overtaken \/ over)
    BY <1>3, <2>4 DEF Finish, MarkLate
  <2>6. swaps[r.t] > 0 /\ ~overtaken' => s = "accepted"
    <3> SUFFICES ASSUME swaps[r.t] > 0, ~overtaken', ~r.swapped
                 PROVE  FALSE
      BY <2>1
    <3>1. Current(r) /\ ~overtaken
      BY <2>4, <2>5 DEF Current, Superseded
    <3>2. swaps[r.t] = 0
      BY <1>1, <3>1 DEF Sound, KnowsTheSwap
    <3>3. QED
      BY <3>2
  <2>7. s = "accepted" => swaps[r.t] > 0
    BY <1>1, <2>1 DEF Sound, KnowsTheSwap
  <2>8. QED
    BY <1>1, <1>2, <2>2, <2>3, <2>5, <2>6, <2>7, Closed DEF Finish, End
<1>4. CASE transfers[r.t].state # "accepting"
  BY <1>2, <1>4, EndedQuietly DEF Finish, history
<1>5. QED
  BY <1>3, <1>4

\* A request that does not hold a claim goes on at another stage.
LEMMA MovedUnclaimed ==
    ASSUME OwnInv, NEW c \in Calls, call[c].stage # "idle", NEW s \in Stages,
           ~(s \in {"swap", "finish", "expire", "settleWrite"}), call[c].op # "thrown",
           NEW j, j = [call[c] EXCEPT !.stage = s],
           s \in {"existing", "insert"} <=> call[c].op = "initiate",
           s = "claim" => call[c].op = "accept",
           s = "close" => call[c].op \in {"declined", "cancelled"},
           s # "dispute",
           s = "settleRead" => /\ call[c].op \in {"accept", "recover"}
                               /\ transfers[call[c].t].leaseExpiresAt <= clock
    PROVE  Sound(j) /\ ~Claimed(j)
<1>1. PICK r : r = call[c]
  OBVIOUS
<1>2. r \in Requests /\ Sound(call[c])
  BY <1>1, CurrentRequest
<1>3. /\ j \in Requests /\ j.stage = s /\ j.op = r.op /\ j.t = r.t /\ SameRequest(j, r)
  BY <1>1, <1>2 DEF Requests, SameRequest
<1>4. StageOfOp(j) /\ KnowsTheSwap(j) /\ ~Claimed(j)
  BY <1>1, <1>3 DEF StageOfOp, KnowsTheSwap, Claimed
<1>5. QED
  BY <1>1, <1>2, <1>3, <1>4, MovedIsSound

LEMMA ExpireKeeps ==
    ASSUME OwnInv, NEW c \in Calls, Expire(c)
    PROVE  OwnInv'
<1> DEFINE r == call[c]
<1>1. /\ r.stage = "expire" /\ Sound(r) /\ r.op # "thrown" /\ r \in Requests
      /\ r.t \in Ids /\ transfers[r.t] # None
  BY CurrentRequest DEF Expire, Sound, StageOfOp
<1>2. ~Claimed(Idle) /\ failures' \in 0..MaxFailures /\ calls' \in 0..MaxCalls
  BY DEF Claimed, Idle, Expire, OwnInv, TypeOK
<1>3. CASE transfers[r.t].state = "pending"
  <2>1. ~overtaken => ~(swaps[r.t] > 0)
    BY <1>1, <1>3, PendingHasNotMoved
  <2>2. "expired" \in TransferState /\ "expired" \notin Live
    BY DEF TransferState, Live
  <2>3. /\ transfers' = [transfers EXCEPT ![r.t].state = "expired"]
        /\ overtaken' = (overtaken \/ FALSE)
        /\ UNCHANGED <<material, disputes, clock, swaps, heldAt, calls, failures, claims>>
    BY <1>3 DEF Expire, history, OwnInv, TypeOK
  <2>4. CASE r.op = "initiate"
    <3>1. PICK j : j = [r EXCEPT !.stage = "insert"]
      OBVIOUS
    <3>2. "insert" \in Stages
      BY DEF Stages
    <3>3. Sound(j) /\ ~Claimed(j)
      BY <1>1, <2>4, <3>1, <3>2, MovedUnclaimed
    <3>4. call' = [call EXCEPT ![c] = j]
      BY <1>3, <2>4, <3>1 DEF Expire, Proceed
    <3>5. QED
      BY <1>1, <2>1, <2>2, <2>3, <3>3, <3>4, Closed
  <2>5. CASE r.op # "initiate"
    <3>1. call' = [call EXCEPT ![c] = Idle]
      BY <1>3, <2>5 DEF Expire, Proceed
    <3>2. QED
      BY <1>1, <1>2, <2>1, <2>2, <2>3, <3>1, Closed
  <2>6. QED
    BY <2>4, <2>5
<1>4. CASE transfers[r.t].state # "pending"
  <2>1. PICK s : s = After(r, r.t)
    OBVIOUS
  <2>2. Proceed(c, r, s) /\ UNCHANGED <<material, transfers, disputes, clock, calls, failures, history>>
    BY <1>4, <2>1 DEF Expire
  <2>3. CASE s = "idle"
    BY <1>2, <2>2, <2>3, EndedQuietly DEF Proceed, End
  <2>4. CASE s # "idle"
    <3>1. PICK j : j = [r EXCEPT !.stage = s]
      OBVIOUS
    <3>2. /\ s \in {"claim", "settleRead", "close", "insert"}
          /\ s = "claim" => r.op = "accept"
          /\ s = "settleRead" => r.op = "accept" /\ LeaseOver(r.t, r.now)
          /\ s = "close" => r.op \in {"declined", "cancelled"}
          /\ s = "insert" => r.op = "initiate"
          /\ r.op = "initiate" => s = "insert"
      BY <1>4, <2>1, <2>4 DEF After
    <3>3. s = "settleRead" => transfers[r.t].leaseExpiresAt <= clock
      <4>1. /\ r.now \in Nat /\ clock \in Nat /\ r.now <= clock
            /\ transfers[r.t].leaseExpiresAt \in Nat
        BY <1>1, RequestTypes, CurrentRequest, TransferConstants
           DEF Sound, OwnInv, TypeOK, Transfers, Time
      <4>2. QED
        BY <3>2, <4>1 DEF LeaseOver
    <3>4. s \in Stages
      BY <3>2 DEF Stages
    <3>5. Sound(j) /\ ~Claimed(j)
      BY <1>1, <3>1, <3>2, <3>3, <3>4, MovedUnclaimed
    <3>6. call' = [call EXCEPT ![c] = j]
      BY <2>2, <2>4, <3>1 DEF Proceed
    <3>7. QED
      BY <1>2, <2>2, <3>5, <3>6, QuietStep
  <2>5. QED
    BY <2>3, <2>4
<1>5. QED
  BY <1>3, <1>4

LEMMA ClaimKeeps ==
    ASSUME OwnInv, NEW c \in Calls, Claim(c)
    PROVE  OwnInv'
<1> DEFINE r == call[c]
           t == r.t
<1>1. /\ r.stage = "claim" /\ Sound(r) /\ r \in Requests /\ r.op = "accept"
      /\ t \in Ids /\ transfers[t] # None /\ transfers[t] \in Transfers
  BY CurrentRequest DEF Claim, Sound, StageOfOp
<1>2. /\ r.now \in 0..MaxClock /\ claims[t] \in Nat /\ claims \in [Ids -> 0..MaxClaims]
      /\ transfers \in [Ids -> Transfers \cup {None}]
  BY <1>1 DEF Requests, OwnInv, TypeOK
<1>3. CASE CanClaim(t, r.now)
  <2>1. PICK n : n = claims[t] + 1
    OBVIOUS
  <2>2. PICK d : d = [transfers[t] EXCEPT !.state = "accepting",
                                          !.leaseExpiresAt = r.now + AcceptLease]
    OBVIOUS
  <2>3. PICK j : j = [r EXCEPT !.stage = "swap", !.swapped = FALSE, !.claim = n]
    OBVIOUS
  <2>4. /\ claims[t] < MaxClaims /\ claims' = [claims EXCEPT ![t] = @ + 1]
        /\ call' = [call EXCEPT ![c] = j]
        /\ UNCHANGED <<material, disputes, clock, calls, failures, swaps, overtaken, heldAt>>
    BY <1>3, <2>1, <2>3 DEF Claim
  <2>5. transfers' = [transfers EXCEPT ![t] = d]
    BY <1>3, <2>2 DEF Claim
  <2>6. n \in 0..MaxClaims
    BY <1>2, <2>1, <2>4, TransferConstants
  <2>7. /\ j \in Requests /\ j.stage = "swap" /\ j.swapped = FALSE /\ j.claim = n
        /\ j.op = r.op /\ j.now = r.now /\ j.t = t /\ j.raced = r.raced
    BY <1>1, <2>3, <2>6 DEF Requests, Stages
  <2>8. r.now + AcceptLease \in Time
    BY <1>2, TransferConstants DEF Time
  <2>9. /\ d \in Transfers /\ d.state = "accepting"
        /\ d.fromAddress = transfers[t].fromAddress
        /\ d.toAddress = transfers[t].toAddress /\ d.expiresAt = transfers[t].expiresAt
    BY <1>1, <2>2, <2>8 DEF Transfers, TransferState, Live
  <2>10. transfers[t].state = "pending" /\ transfers[t].state \in Live
    BY <1>3 DEF CanClaim, Live
  <2>11. ~overtaken' => ~(swaps[t] > 0)
    BY <1>1, <2>4, <2>10, PendingHasNotMoved
  <2>12. claims'[t] = n /\ n \in Nat
    BY <1>1, <1>2, <2>1, <2>4
  <2>13. swaps[t] \in Nat
    BY <1>1 DEF OwnInv, TypeOK
  <2>14. Sound(j)'
    <3>1. j.now <= clock'
      BY <1>1, <2>4, <2>7 DEF Sound
    <3>2. StageOfOp(j) /\ ProposalIsOld(j)'
      BY <1>1, <2>7 DEF StageOfOp, ProposalIsOld
    <3>3. NamesTransfer(j)'
      <4>1. d # None
        BY <2>9, NoneIsNoTransfer
      <4>2. transfers'[t] = d
        BY <1>1, <1>2, <2>5
      <4>3. QED
        BY <1>1, <2>7, <2>12, <4>1, <4>2 DEF NamesTransfer
    <3>4. WasThereFirst(j)'
      BY <1>1, <2>4, <2>7 DEF Sound, WasThereFirst
    <3>5. KnowsTheSwap(j)'
      BY <2>4, <2>7, <2>11, <2>13 DEF KnowsTheSwap
    <3>6. QED
      BY <2>7, <3>1, <3>2, <3>3, <3>4, <3>5 DEF Sound, StageOfOp
  <2>15. j.t \in Ids /\ j.claim = claims[j.t] + 1
    BY <1>1, <2>1, <2>7
  <2>16. /\ overtaken' \in BOOLEAN /\ (overtaken => overtaken')
         /\ swaps[t] > 0 /\ ~overtaken' => d.state = "accepted"
         /\ d.state # "accepted" /\ (d.state \in Live => transfers[t].state \in Live)
    BY <2>4, <2>9, <2>10, <2>11 DEF OwnInv, TypeOK
  <2>17. QED
    BY <1>1, <2>4, <2>5, <2>9, <2>14, <2>15, <2>16, DocStep
<1>4. CASE ~CanClaim(t, r.now)
  <2>1. failures' \in 0..MaxFailures
    BY DEF Claim, OwnInv, TypeOK
  <2>2. QED
    BY <1>4, <2>1, EndedQuietly DEF Claim, history
<1>5. QED
  BY <1>3, <1>4

LEMMA SettleKeeps ==
    ASSUME OwnInv, NEW c \in Calls, settleStuckTransfer(c)
    PROVE  OwnInv'
<1> DEFINE r == call[c]
           t == r.t
<1>1. /\ r.stage = "settleWrite" /\ Sound(r) /\ r \in Requests
      /\ r.op \in {"accept", "recover", "thrown"}
      /\ t \in Ids /\ transfers[t] # None /\ transfers[t] \in Transfers
      /\ swaps[t] \in Nat
  BY CurrentRequest, RequestTypes DEF settleStuckTransfer, Sound, StageOfOp, OwnInv
<1>2. transfers \in [Ids -> Transfers \cup {None}]
  BY DEF OwnInv, TypeOK
<1>3. PICK outcome : outcome = CASE r.swapped -> "accepted"
                                 [] ~r.swapped /\ Overdue(t, r.now) -> "expired"
                                 [] OTHER -> "pending"
  OBVIOUS
<1>4. outcome \in {"accepted", "expired", "pending"} /\ (outcome = "accepted" <=> r.swapped)
  BY <1>1, <1>3 DEF Requests
<1>5. PICK settled : settled = IF transfers[t].state = "accepting" THEN outcome
                               ELSE transfers[t].state
  OBVIOUS
<1>6. /\ transfers' = [transfers EXCEPT ![t].state = settled]
      /\ MarkLate(transfers[t].state = "accepting" /\ Superseded(r))
      /\ IF r.op = "accept" /\ settled = "pending" THEN Go(c, "claim") ELSE End(c)
      /\ UNCHANGED <<material, disputes, clock, calls, failures, claims, swaps, heldAt>>
  BY <1>3, <1>5 DEF settleStuckTransfer
<1>7. PICK j : j = IF r.op = "accept" /\ settled = "pending"
                   THEN [r EXCEPT !.stage = "claim"] ELSE Idle
  OBVIOUS
<1>8. call' = [call EXCEPT ![c] = j]
  BY <1>6, <1>7 DEF Go, End
<1>9. (j = Idle \/ Sound(j)) /\ ~Claimed(j)
  <2>1. CASE r.op = "accept" /\ settled = "pending"
    <3>1. j = [r EXCEPT !.stage = "claim"] /\ "claim" \in Stages
      BY <1>7, <2>1 DEF Stages
    <3>2. QED
      BY <1>1, <2>1, <3>1, MovedUnclaimed
  <2>2. CASE ~(r.op = "accept" /\ settled = "pending")
    BY <1>7, <2>2 DEF Claimed, Idle
  <2>3. QED
    BY <2>1, <2>2
<1>10. CASE transfers[t].state = "accepting"
  <2>1. settled = outcome
    BY <1>5, <1>10
  <2>2. PICK d : d = [transfers[t] EXCEPT !.state = outcome]
    OBVIOUS
  <2>3. /\ d \in Transfers /\ d.state = outcome
        /\ d.fromAddress = transfers[t].fromAddress
        /\ d.toAddress = transfers[t].toAddress /\ d.expiresAt = transfers[t].expiresAt
    BY <1>1, <1>4, <2>2 DEF Transfers, TransferState, Live
  <2>4. transfers' = [transfers EXCEPT ![t] = d]
    BY <1>6, <2>1, <2>2
  <2>5. overtaken' = (overtaken \/ Superseded(r))
    BY <1>6, <1>10 DEF MarkLate
  <2>6. overtaken' \in BOOLEAN /\ (overtaken => overtaken')
    BY <2>5 DEF OwnInv, TypeOK, Superseded
  <2>7. swaps[t] > 0 /\ ~overtaken' => d.state = "accepted"
    <3> SUFFICES ASSUME swaps[t] > 0, ~overtaken', ~r.swapped
                 PROVE  FALSE
      BY <1>4, <2>3
    <3>1. Current(r) /\ ~overtaken
      BY <2>5 DEF Current, Superseded
    <3>2. swaps[t] = 0
      BY <1>1, <3>1 DEF Sound, KnowsTheSwap
    <3>3. QED
      BY <3>2
  <2>8. d.state = "accepted" => swaps[t] > 0
    BY <1>1, <1>4, <2>3 DEF Sound, KnowsTheSwap
  <2>9. /\ d.state # "accepting"
        /\ (d.state \in Live => transfers[t].state \in Live)
    BY <1>4, <1>10, <2>3 DEF Live
  <2>10. QED
    BY <1>1, <1>6, <1>8, <1>9, <2>3, <2>4, <2>6, <2>7, <2>8, <2>9, DocStep
<1>11. CASE transfers[t].state # "accepting"
  <2>1. settled = transfers[t].state
    BY <1>5, <1>11
  <2>2. [transfers[t] EXCEPT !.state = settled] = transfers[t]
    BY <1>1, <2>1 DEF Transfers
  <2>3. transfers' = transfers
    BY <1>2, <1>6, <2>2
  <2>4. overtaken' = overtaken
    BY <1>6, <1>11 DEF MarkLate, OwnInv, TypeOK
  <2>5. failures' \in 0..MaxFailures /\ calls' \in 0..MaxCalls
    BY <1>6 DEF OwnInv, TypeOK
  <2>6. UNCHANGED <<material, transfers, disputes, clock, history>>
    BY <1>6, <2>3, <2>4 DEF history
  <2>7. QED
    BY <1>8, <1>9, <2>5, <2>6, QuietStep
<1>12. QED
  BY <1>10, <1>11

-----------------------------------------------------------------------------
(* A new offer, and the owner swap. *)

LEMMA InsertKeeps ==
    ASSUME OwnInv, NEW c \in Calls, Insert(c)
    PROVE  OwnInv'
<1> DEFINE r == call[c]
<1>1. /\ r.stage = "insert" /\ Sound(r) /\ r \in Requests /\ r.op = "initiate"
      /\ r.fromAddress \in Users /\ r.toAddress \in Users
      /\ r.now \in 0..MaxClock /\ r.now <= clock /\ clock \in 0..MaxClock
  BY CurrentRequest DEF Insert, Sound, StageOfOp, ProposalIsOld, Requests, OwnInv, TypeOK
<1>2. ~Claimed(Idle) /\ failures' \in 0..MaxFailures
  BY DEF Claimed, Idle, Insert, OwnInv, TypeOK
<1>3. CASE LiveTransfers # {}
  BY <1>2, <1>3, EndedQuietly DEF Insert
<1>4. CASE LiveTransfers = {}
  <2>1. PICK id : id = CHOOSE t \in Ids : transfers[t] = None
    OBVIOUS
  <2>2. id \in Ids /\ transfers[id] = None
    BY <1>4, <2>1 DEF Insert
  <2>3. PICK d : d = [fromAddress |-> r.fromAddress, toAddress |-> r.toAddress,
                      state |-> "pending", expiresAt |-> r.now + Ttl,
                      leaseExpiresAt |-> 0]
    OBVIOUS
  <2>4. transfers' = [transfers EXCEPT ![id] = d]
    BY <1>4, <2>1, <2>3 DEF Insert
  <2>5. r.now + Ttl \in Time /\ 0 \in Time
    BY <1>1, TransferConstants DEF Time
  <2>6. d \in Transfers /\ d.state = "pending" /\ d.expiresAt = r.now + Ttl
    BY <1>1, <2>3, <2>5 DEF Transfers, TransferState, Live
  <2>7. /\ UNCHANGED <<material, disputes, clock, calls, failures, history>>
        /\ call' = [call EXCEPT ![c] = Idle]
    BY <1>4 DEF Insert, End
  <2>8. /\ transfers \in [Ids -> Transfers \cup {None}] /\ transfers'[id] = d /\ d # None
        /\ transfers' \in [Ids -> Transfers \cup {None}]
        /\ \A u \in Ids \ {id} : transfers'[u] = transfers[u]
    BY <2>2, <2>4, <2>6, NoneIsNoTransfer DEF OwnInv, TypeOK
  <2>9. TypeOK'
    BY <2>7, <2>8 DEF OwnInv, TypeOK, history
  <2>10. Evolves
    BY <2>2, <2>7, <2>8, TransferConstants DEF Evolves, OwnInv, TypeOK, history
  <2>11. OneLive'
    <3>1. \A u \in Ids : transfers[u] # None => transfers[u].state \notin Live
      BY <1>4 DEF LiveTransfers
    <3>2. QED
      BY <2>8, <3>1 DEF OneLive
  <2>12. swaps[id] = 0
    BY <2>2 DEF OwnInv, NamedHasSwapped
  <2>13. NamedHasSwapped'
    BY <2>7, <2>8 DEF OwnInv, NamedHasSwapped, history
  <2>14. SwapShows'
    BY <2>6, <2>7, <2>8 DEF OwnInv, SwapShows, SwapConfirmed, history
  <2>15. OffersAreOld'
    <3>1. r.now + Ttl <= clock + Ttl
      BY <1>1, TransferConstants
    <3>2. material.status = "held" => r.now + Ttl <= heldAt + Ttl
      BY <1>1, TransferConstants DEF Sound, ProposalIsOld, OwnInv, TypeOK, Time
    <3>3. QED
      BY <2>6, <2>7, <2>8, <3>1, <3>2 DEF OwnInv, OffersAreOld, history
  <2>16. DocumentsAgree'
    BY <2>7, <2>8, <2>12 DEF OwnInv, DocumentsAgree, history
  <2>17. AcceptedMeansMoved'
    BY <2>6, <2>7, <2>8 DEF OwnInv, AcceptedMeansMoved, history
  <2>18. CallsAreSound'
    BY <2>7, <2>9, <2>10, OthersStaySound DEF history
  <2>19. ClaimsAreUnique'
    BY <1>2, <2>7, ClaimsStayUnique DEF OwnInv
  <2>20. QED
    BY <2>9, <2>11, <2>13, <2>14, <2>15, <2>16, <2>17, <2>18, <2>19 DEF OwnInv
<1>5. QED
  BY <1>3, <1>4

\* The request that swapped the owner goes on, or throws.
LEMMA SwappedRequest ==
    ASSUME OwnInv, NEW c \in Calls, SwapOwner(c), Swappable(call[c].t)
    PROVE  \E j : /\ j \in Requests /\ SameRequest(j, call[c])
                  /\ \/ j.stage = "finish" /\ j.op = "accept" /\ j.swapped
                     \/ j.stage = "settleRead" /\ j.op = "thrown"
                  /\ call' = [call EXCEPT ![c] = j]
                  /\ failures' \in 0..MaxFailures
<1> DEFINE r == call[c]
<1>1. r.stage = "swap" /\ r.op = "accept" /\ r \in Requests
  BY CurrentRequest DEF SwapOwner, Sound, StageOfOp
<1>2. CASE call' = [call EXCEPT ![c].stage = "finish", ![c].swapped = TRUE] /\ failures' = failures
  <2>1. PICK j : j = [r EXCEPT !.stage = "finish", !.swapped = TRUE]
    OBVIOUS
  <2>2. /\ j \in Requests /\ j.stage = "finish" /\ j.op = r.op /\ j.swapped = TRUE
        /\ SameRequest(j, r)
    BY <1>1, <2>1 DEF Requests, Stages, SameRequest
  <2>3. call' = [call EXCEPT ![c] = j]
    BY <1>2, <2>1
  <2>4. failures' \in 0..MaxFailures
    BY <1>2 DEF OwnInv, TypeOK
  <2>5. QED
    BY <1>1, <2>2, <2>3, <2>4
<1>3. CASE Threw(c)
  <2>1. failures' \in 0..MaxFailures
    BY <1>3, TransferConstants DEF Threw, OwnInv, TypeOK
  <2>2. QED
    BY <1>1, <1>3, <2>1, ThrownRequest DEF Sound
<1>4. QED
  BY <1>2, <1>3 DEF SwapOwner

LEMMA SwapKeeps ==
    ASSUME OwnInv, NEW c \in Calls, SwapOwner(c)
    PROVE  OwnInv'
<1> DEFINE r == call[c]
           t == r.t
<1>1. /\ r.stage = "swap" /\ Sound(r) /\ r \in Requests /\ r.op = "accept" /\ ~r.swapped
      /\ t \in Ids /\ transfers[t] # None /\ transfers[t] \in Transfers
      /\ swaps[t] \in Nat /\ Claimed(r)
  BY CurrentRequest, RequestTypes
     DEF SwapOwner, Sound, StageOfOp, KnowsTheSwap, Claimed, OwnInv
<1>2. CASE ~Swappable(t)
  <2>1. PICK j : j = [r EXCEPT !.stage = "finish"]
    OBVIOUS
  <2>2. /\ j \in Requests /\ j.stage = "finish" /\ j.op = r.op /\ j.swapped = r.swapped
        /\ j.now = r.now /\ j.t = r.t /\ j.claim = r.claim /\ SameRequest(j, r)
    BY <1>1, <2>1 DEF Requests, Stages, SameRequest
  <2>3. KnowsTheSwap(j) /\ StageOfOp(j)
    BY <1>1, <2>2 DEF Sound, KnowsTheSwap, StageOfOp, Current
  <2>4. Sound(j)
    BY <1>1, <2>2, <2>3, MovedIsSound
  <2>5. call' = [call EXCEPT ![c] = j]
    BY <1>2, <2>1 DEF SwapOwner, Go
  <2>6. failures' \in 0..MaxFailures /\ calls' \in 0..MaxCalls
    BY <1>2 DEF SwapOwner, OwnInv, TypeOK
  <2>7. QED
    BY <1>1, <1>2, <2>2, <2>4, <2>5, <2>6, QuietStep DEF SwapOwner, history
<1>3. CASE Swappable(t)
  <2>1. PICK j : /\ j \in Requests /\ SameRequest(j, r)
                 /\ \/ j.stage = "finish" /\ j.op = "accept" /\ j.swapped
                    \/ j.stage = "settleRead" /\ j.op = "thrown"
                 /\ call' = [call EXCEPT ![c] = j]
                 /\ failures' \in 0..MaxFailures
    BY <1>3, SwappedRequest
  <2>2. /\ material' = [material EXCEPT !.owner = transfers[t].toAddress, !.transferId = t]
        /\ swaps' = [swaps EXCEPT ![t] = @ + 1]
        /\ overtaken' = (overtaken \/ Superseded(r) \/ LeaseOver(t, clock))
        /\ UNCHANGED <<transfers, disputes, clock, calls, claims, heldAt>>
    BY <1>3 DEF SwapOwner, MarkLate
  <2>3. /\ material'.owner = transfers[t].toAddress /\ material'.transferId = t
        /\ material'.status = material.status
        /\ material' \in [owner : Users, transferId : Ids \cup {None},
                          status : {"active", "held", "deleted"}]
    BY <1>1, <2>2 DEF OwnInv, TypeOK, Transfers
  <2>4. /\ swaps'[t] = swaps[t] + 1 /\ swaps' \in [Ids -> Nat]
        /\ \A u \in Ids \ {t} : swaps'[u] = swaps[u]
    BY <1>1, <2>2 DEF OwnInv, TypeOK
  <2>5. overtaken' \in BOOLEAN /\ (overtaken => overtaken')
    BY <2>2 DEF OwnInv, TypeOK, Superseded, LeaseOver
  <2>6. ~overtaken' => /\ ~overtaken /\ Current(r)
                       /\ ~(transfers[t].leaseExpiresAt <= clock) /\ swaps[t] = 0
    BY <1>1, <2>2 DEF Superseded, LeaseOver, Current, Sound, KnowsTheSwap
  <2>7. TypeOK'
    BY <2>1, <2>2, <2>3, <2>4, <2>5 DEF OwnInv, TypeOK
  <2>8. Evolves
    <3>1. \A u \in Ids : swaps[u] <= swaps'[u] /\ claims[u] <= claims'[u]
      BY <2>2, <2>4 DEF OwnInv, TypeOK
    <3>2. clock <= clock' /\ clock' \in Int
      BY <2>2 DEF OwnInv, TypeOK
    <3>3. QED
      BY <2>2, <2>3, <2>5, <3>1, <3>2 DEF Evolves
  <2>9. OneLive' /\ OffersAreOld'
    BY <2>2, <2>3 DEF OwnInv, OneLive, OffersAreOld
  <2>10. NamedHasSwapped'
    BY <1>1, <2>2, <2>3, <2>4, TransferConstants DEF OwnInv, NamedHasSwapped
  <2>11. SwapShows'
    <3> SUFFICES ASSUME ~overtaken', NEW u \in Ids, transfers[u] # None,
                        transfers[u].state = "accepting"
                 PROVE  SwapConfirmed(u)'
      BY <2>2 DEF SwapShows
    <3>1. u = t
      BY <1>1, <2>6 DEF Current, OwnInv, OneLive, Live
    <3>2. QED
      BY <2>2, <2>3, <3>1 DEF SwapConfirmed
  <2>12. DocumentsAgree'
    <3> SUFFICES ASSUME ~overtaken', NEW u \in Ids, swaps'[u] > 0
                 PROVE  transfers[u].state \in {"accepting", "accepted"} /\ swaps'[u] = 1
      BY <2>2 DEF DocumentsAgree
    <3>1. CASE u = t
      BY <2>4, <2>6, <3>1 DEF Current
    <3>2. CASE u # t
      BY <2>4, <2>6, <3>2 DEF OwnInv, DocumentsAgree
    <3>3. QED
      BY <3>1, <3>2
  <2>13. AcceptedMeansMoved'
    BY <1>1, <2>2, <2>4 DEF OwnInv, AcceptedMeansMoved
  <2>14. Sound(j)'
    <3>1. /\ j.t = t /\ j.now = r.now /\ j.claim = r.claim /\ j.raced = r.raced
      BY <2>1 DEF SameRequest
    <3>2. StageOfOp(j) /\ ProposalIsOld(j)' /\ NamesTransfer(j)' /\ WasThereFirst(j)'
      BY <1>1, <2>1, <2>2, <3>1
         DEF StageOfOp, Sound, ProposalIsOld, NamesTransfer, WasThereFirst
    <3>3. KnowsTheSwap(j)'
      BY <1>1, <2>1, <2>4, <3>1 DEF KnowsTheSwap
    <3>4. j.now <= clock'
      BY <1>1, <2>2, <3>1 DEF Sound
    <3>5. QED
      BY <2>1, <3>2, <3>3, <3>4 DEF Sound, StageOfOp
  <2>15. ASSUME NEW d \in Calls \ {c}, call[d] # Idle, call[d].t = t, ~overtaken',
                call[d].stage \in {"swap", "finish", "settleWrite"},
                claims[t] = call[d].claim
         PROVE  FALSE
    <3>1. Current(call[d]) /\ call[d].claim = r.claim
      BY <2>6, <2>15 DEF Current
    <3>2. ~Claimed(call[d])
      BY <1>1, <2>15, <3>1 DEF OwnInv, ClaimsAreUnique
    <3>3. call[d].stage = "settleWrite" /\ call[d].op # "thrown"
      BY <2>15, <3>2 DEF Claimed
    <3>4. Sound(call[d])
      BY <2>15 DEF OwnInv, CallsAreSound
    <3>5. transfers[t].leaseExpiresAt <= clock
      BY <2>15, <3>1, <3>3, <3>4 DEF Sound, KnowsTheSwap
    <3>6. QED
      BY <2>6, <2>15, <3>5
  <2>16. CallsAreSound'
    <3>1. \A d \in Calls \ {c} :
             call[d] # Idle /\ call[d].t \in Ids /\ call[d].op # "initiate" =>
               /\ disputes'[call[d].t] > 0 => disputes[call[d].t] > 0
               /\ \/ swaps'[call[d].t] = swaps[call[d].t]
                  \/ overtaken'
                  \/ call[d].stage \notin {"swap", "finish", "settleWrite"}
                  \/ claims[call[d].t] # call[d].claim
      BY <2>2, <2>4, <2>15
    <3>2. QED
      BY <2>1, <2>7, <2>8, <2>14, <3>1, OthersStaySound
  <2>17. ClaimsAreUnique'
    <3>1. j.t = r.t /\ j.claim = r.claim
      BY <2>1 DEF SameRequest
    <3>2. QED
      BY <1>1, <2>1, <3>1, ClaimsStayUnique DEF OwnInv
  <2>18. QED
    BY <2>7, <2>9, <2>10, <2>11, <2>12, <2>13, <2>16, <2>17 DEF OwnInv
<1>4. QED
  BY <1>2, <1>3

-----------------------------------------------------------------------------
(* Disputes and the environment. *)

\* When no request moves, a step that spares their transfers keeps them sound.
LEMMA AllStaySound ==
    ASSUME OwnInv, TypeOK', Evolves, call' = call, swaps' = swaps,
           \A t \in Ids : disputes'[t] > 0 => disputes[t] > 0
    PROVE  CallsAreSound'
<1>1. ASSUME NEW d \in Calls, NEW q, q = call[d] PROVE q = Idle \/ Sound(q)'
  <2>1. q = Idle \/ Sound(q)
    BY <1>1 DEF OwnInv, CallsAreSound
  <2>2. QED
    BY <2>1, SoundStays DEF OwnInv
<1>2. \A d \in Calls : \A q : q = call'[d] => q = Idle \/ Sound(q)'
  BY <1>1
<1>3. QED
  BY <1>2, EachCallIsSound

LEMMA ResolveKeeps ==
    ASSUME OwnInv, NEW t \in Ids, resolveTransferDispute(t)
    PROVE  OwnInv'
<1>1. /\ disputes' \in [Ids -> 0..MaxDisputes]
      /\ \A u \in Ids : disputes'[u] > 0 => disputes[u] > 0
  BY TransferConstants DEF resolveTransferDispute, OwnInv, TypeOK
<1>2. UNCHANGED <<material, transfers, call, clock, calls, failures, claims, swaps,
                  overtaken, heldAt>>
  BY DEF resolveTransferDispute, history
<1>3. TypeOK'
  BY <1>1, <1>2 DEF OwnInv, TypeOK
<1>4. Evolves
  BY <1>2, TransferConstants DEF Evolves, OwnInv, TypeOK
<1>5. CallsAreSound'
  BY <1>1, <1>2, <1>3, <1>4, AllStaySound
<1>6. QED
  BY <1>2, <1>3, <1>5
     DEF OwnInv, OneLive, NamedHasSwapped, SwapShows, SwapConfirmed, OffersAreOld,
         DocumentsAgree, AcceptedMeansMoved, ClaimsAreUnique, Claimed

LEMMA InsertDisputeKeeps ==
    ASSUME OwnInv, NEW c \in Calls, InsertDispute(c)
    PROVE  OwnInv'
<1> DEFINE t == call[c].t
<1>1. t \in Ids
  BY CurrentRequest DEF InsertDispute, Sound, StageOfOp
<1>2. /\ disputes[t] < MaxDisputes /\ disputes' = [disputes EXCEPT ![t] = @ + 1]
      /\ UNCHANGED <<material, transfers, clock, calls, failures, claims, swaps,
                     overtaken, heldAt>>
  BY DEF InsertDispute, history
<1>3. disputes' \in [Ids -> 0..MaxDisputes] /\ \A u \in Ids \ {t} : disputes'[u] = disputes[u]
  BY <1>1, <1>2, TransferConstants DEF OwnInv, TypeOK
<1>4. ASSUME NEW d \in Calls, call'[d] # Idle
      PROVE  /\ call[d] # Idle /\ call'[d] \in Requests
             /\ call'[d].stage = call[d].stage /\ call'[d].op = call[d].op
             /\ call'[d].swapped = call[d].swapped
             /\ call'[d].t = call[d].t /\ call'[d].claim = call[d].claim
             /\ call'[d].now = call[d].now
             /\ call'[d].fromAddress = call[d].fromAddress
             /\ call'[d].toAddress = call[d].toAddress
             /\ call[d].raced \/ call[d].t = t => call'[d].raced
  <2>1. d # c /\ call[d] # Idle
    BY <1>4 DEF InsertDispute
  <2>2. PICK r : r = call[d]
    OBVIOUS
  <2>3. PICK b \in BOOLEAN : b = (r.t = t \/ r.raced)
    <3>1. r.raced \in BOOLEAN
      BY <2>1, <2>2 DEF OwnInv, TypeOK, Requests
    <3>2. QED
      BY <3>1
  <2>4. r \in Requests
    BY <2>1, <2>2 DEF OwnInv, TypeOK
  <2>5. call'[d] = [r EXCEPT !.raced = (r.t = t) \/ @]
    BY <2>1, <2>2 DEF InsertDispute
  <2>6. call'[d] = [r EXCEPT !.raced = b]
    BY <2>3, <2>4, <2>5 DEF Requests
  <2>7. PICK j : j = [r EXCEPT !.raced = b]
    OBVIOUS
  <2>8. /\ j \in Requests /\ j.raced = b /\ j.stage = r.stage /\ j.op = r.op
        /\ j.swapped = r.swapped /\ j.t = r.t /\ j.claim = r.claim /\ j.now = r.now
        /\ j.fromAddress = r.fromAddress /\ j.toAddress = r.toAddress
    BY <2>4, <2>7 DEF Requests
  <2>9. QED
    BY <2>1, <2>2, <2>3, <2>6, <2>7, <2>8
<1>5. TypeOK'
  <2>1. call' \in [Calls -> Requests \cup {Idle}]
    BY <1>4 DEF InsertDispute
  <2>2. QED
    BY <1>2, <1>3, <2>1 DEF OwnInv, TypeOK
<1>6. CallsAreSound'
  <2>1. ASSUME NEW d \in Calls, NEW q, q = call'[d], q # Idle PROVE Sound(q)'
    <3>1. PICK r : r = call[d]
      OBVIOUS
    <3>2. Sound(r)
      BY <1>4, <2>1, <3>1 DEF OwnInv, CallsAreSound
    <3>3. WasThereFirst(q)'
      <4>1. SUFFICES ASSUME q.op \in {"accept", "declined", "cancelled"}, disputes'[q.t] > 0,
                            q.t # t
                     PROVE  q.raced
        BY <1>4, <2>1 DEF WasThereFirst
      <4>2. q.t \in Ids /\ disputes[q.t] > 0
        BY <1>3, <1>4, <2>1, <3>1, <3>2, <4>1 DEF Sound, NamesTransfer
      <4>3. QED
        BY <1>4, <2>1, <3>1, <3>2, <4>1, <4>2 DEF Sound, WasThereFirst
    <3>4. StageOfOp(q) /\ ProposalIsOld(q)' /\ NamesTransfer(q)'
      BY <1>2, <1>4, <2>1, <3>1, <3>2 DEF Sound, StageOfOp, ProposalIsOld, NamesTransfer
    <3>5. KnowsTheSwap(q)'
      BY <1>2, <1>4, <2>1, <3>1, <3>2 DEF Sound, KnowsTheSwap, Current
    <3>6. q \in Requests /\ q.now <= clock'
      BY <1>2, <1>4, <2>1, <3>1, <3>2 DEF Sound
    <3>7. QED
      BY <3>3, <3>4, <3>5, <3>6 DEF Sound, StageOfOp
  <2>2. QED
    BY <2>1, EachCallIsSound
<1>7. ClaimsAreUnique'
  <2>1. ASSUME NEW d \in Calls, Claimed(call'[d])
        PROVE  Claimed(call[d]) /\ call'[d].t = call[d].t /\ call'[d].claim = call[d].claim
    <3>1. call'[d] # Idle
      BY <2>1 DEF Claimed, Idle
    <3>2. QED
      BY <1>4, <2>1, <3>1 DEF Claimed
  <2>2. \A d \in Calls : Claimed(call[d])' <=> Claimed(call'[d])
    BY DEF Claimed
  <2>3. QED
    BY <2>1, <2>2 DEF OwnInv, ClaimsAreUnique
<1>8. QED
  BY <1>2, <1>5, <1>6, <1>7
     DEF OwnInv, OneLive, NamedHasSwapped, SwapShows, SwapConfirmed, OffersAreOld,
         DocumentsAgree, AcceptedMeansMoved

LEMMA RestrictKeeps ==
    ASSUME OwnInv, Restrict
    PROVE  OwnInv'
<1>1. PICK s \in {"held", "deleted"} : material' = [material EXCEPT !.status = s]
  BY DEF Restrict
<1>2. /\ UNCHANGED <<transfers, disputes, call, clock, calls, failures, claims, swaps,
                     overtaken>>
      /\ heldAt' = clock
  BY DEF Restrict
<1>3. /\ material'.owner = material.owner /\ material'.transferId = material.transferId
      /\ material' \in [owner : Users, transferId : Ids \cup {None},
                        status : {"active", "held", "deleted"}]
  BY <1>1 DEF OwnInv, TypeOK
<1>4. clock \in Time
  BY TransferConstants DEF OwnInv, TypeOK, Time
<1>5. TypeOK'
  BY <1>2, <1>3, <1>4 DEF OwnInv, TypeOK
<1>6. Evolves
  BY <1>2, TransferConstants DEF Evolves, OwnInv, TypeOK
<1>7. CallsAreSound'
  BY <1>2, <1>5, <1>6, AllStaySound
<1>8. NamedHasSwapped' /\ SwapShows' /\ OffersAreOld'
  BY <1>2, <1>3 DEF OwnInv, NamedHasSwapped, SwapShows, SwapConfirmed, OffersAreOld
<1>9. OneLive' /\ DocumentsAgree' /\ AcceptedMeansMoved' /\ ClaimsAreUnique'
  BY <1>2 DEF OwnInv, OneLive, DocumentsAgree, AcceptedMeansMoved, ClaimsAreUnique, Claimed
<1>10. QED
  BY <1>5, <1>7, <1>8, <1>9 DEF OwnInv

LEMMA TickKeeps ==
    ASSUME OwnInv, Tick
    PROVE  OwnInv'
<1>1. /\ UNCHANGED <<material, transfers, disputes, call, calls, failures, claims, swaps,
                     overtaken, heldAt>>
      /\ clock' = clock + 1 /\ clock < MaxClock
  BY DEF Tick, history
<1>2. TypeOK'
  BY <1>1, TransferConstants DEF OwnInv, TypeOK
<1>3. Evolves
  BY <1>1, TransferConstants DEF Evolves, OwnInv, TypeOK
<1>4. CallsAreSound'
  BY <1>1, <1>2, <1>3, AllStaySound
<1>5. OffersAreOld'
  <2>1. \A t \in Ids : transfers[t] # None => transfers[t].expiresAt \in Int
    BY TransferConstants DEF OwnInv, TypeOK, Transfers, Time
  <2>2. clock \in Int /\ Ttl \in Int
    BY TransferConstants DEF OwnInv, TypeOK
  <2>3. QED
    BY <1>1, <2>1, <2>2 DEF OwnInv, OffersAreOld
<1>6. QED
  BY <1>1, <1>2, <1>4, <1>5
     DEF OwnInv, OneLive, NamedHasSwapped, SwapShows, SwapConfirmed,
         DocumentsAgree, AcceptedMeansMoved, ClaimsAreUnique, Claimed

-----------------------------------------------------------------------------
(* The invariant holds. *)

LEMMA FirstState == Init => OwnInv
<1> SUFFICES ASSUME Init PROVE OwnInv
  OBVIOUS
<1>1. TypeOK
  <2>1. material \in [owner : Users, transferId : Ids \cup {None},
                      status : {"active", "held", "deleted"}]
    BY TransferConstants DEF Init
  <2>2. /\ transfers \in [Ids -> Transfers \cup {None}] /\ swaps \in [Ids -> Nat]
        /\ call \in [Calls -> Requests \cup {Idle}]
    BY DEF Init
  <2>3. disputes \in [Ids -> 0..MaxDisputes] /\ claims \in [Ids -> 0..MaxClaims]
    BY TransferConstants DEF Init
  <2>4. overtaken \in BOOLEAN
    BY DEF Init
  <2>5. clock = 0 /\ calls = 0 /\ failures = 0 /\ heldAt = MaxClock
    BY DEF Init
  <2>6. /\ clock \in 0..MaxClock /\ calls \in 0..MaxCalls /\ failures \in 0..MaxFailures
        /\ heldAt \in Time
    BY <2>5, TransferConstants DEF Time
  <2>7. QED
    BY <2>1, <2>2, <2>3, <2>4, <2>6 DEF TypeOK
<1>2. /\ \A t \in Ids : transfers[t] = None /\ swaps[t] = 0
      /\ \A c \in Calls : call[c] = Idle
      /\ \A t \in Ids : t # None
  BY TransferConstants DEF Init
<1>3. OneLive /\ NamedHasSwapped /\ SwapShows /\ OffersAreOld
  BY <1>2 DEF Init, OneLive, NamedHasSwapped, SwapShows, OffersAreOld
<1>4. DocumentsAgree /\ AcceptedMeansMoved
  BY <1>2 DEF DocumentsAgree, AcceptedMeansMoved
<1>5. CallsAreSound /\ ClaimsAreUnique
  BY <1>2 DEF CallsAreSound, ClaimsAreUnique, Claimed, Idle
<1>6. QED
  BY <1>1, <1>3, <1>4, <1>5 DEF OwnInv

LEMMA StepKeepsOwnership == OwnInv /\ [Next]_vars => OwnInv'
<1> SUFFICES ASSUME OwnInv, [Next]_vars PROVE OwnInv'
  OBVIOUS
<1>1. ASSUME NEW c \in Calls, NEW from \in Users, NEW to \in Users,
             initiateTransfer(c, from, to)
      PROVE  OwnInv'
  BY <1>1, InitiateKeeps
<1>2. ASSUME NEW c \in Calls, NEW t \in Ids, NEW op \in {"accept", "declined", "cancelled"},
             LoadTransfer(c, op, t)
      PROVE  OwnInv'
  BY <1>2, LoadKeeps
<1>3. ASSUME NEW c \in Calls, NEW t \in Ids,
             recoverStuckTransfers(c, t) \/ openTransferDispute(c, t)
      PROVE  OwnInv'
  BY <1>3, RecoverKeeps, DisputeKeeps
<1>4. ASSUME NEW c \in Calls,
             FindExisting(c) \/ Insert(c) \/ Expire(c) \/ closePending(c) \/ Claim(c)
      PROVE  OwnInv'
  BY <1>4, FindExistingKeeps, InsertKeeps, ExpireKeeps, CloseKeeps, ClaimKeeps
<1>5. ASSUME NEW c \in Calls,
             SwapOwner(c) \/ SwapThrows(c) \/ Finish(c) \/ SettleRead(c)
             \/ settleStuckTransfer(c) \/ InsertDispute(c) \/ Die(c)
      PROVE  OwnInv'
  BY <1>5, SwapKeeps, SwapThrowsKeeps, FinishKeeps, SettleReadKeeps, SettleKeeps,
     InsertDisputeKeeps, DieKeeps
<1>6. ASSUME NEW t \in Ids, resolveTransferDispute(t) PROVE OwnInv'
  BY <1>6, ResolveKeeps
<1>7. CASE Restrict \/ Tick
  BY <1>7, RestrictKeeps, TickKeeps
<1>8. CASE UNCHANGED vars
  <2>1. /\ UNCHANGED <<material, transfers, disputes, call, clock, calls, failures,
                       claims, swaps, overtaken, heldAt>>
    BY <1>8 DEF vars
  <2>2. TypeOK'
    BY <2>1 DEF OwnInv, TypeOK
  <2>3. Evolves
    BY <2>1, TransferConstants DEF Evolves, OwnInv, TypeOK
  <2>4. CallsAreSound'
    BY <2>1, <2>2, <2>3, AllStaySound
  <2>5. QED
    BY <2>1, <2>2, <2>4
       DEF OwnInv, OneLive, NamedHasSwapped, SwapShows, SwapConfirmed, OffersAreOld,
           DocumentsAgree, AcceptedMeansMoved, ClaimsAreUnique, Claimed
<1>9. QED
  BY <1>1, <1>2, <1>3, <1>4, <1>5, <1>6, <1>7, <1>8 DEF Next

LEMMA OwnershipInvariant == Spec => []OwnInv
BY FirstState, StepKeepsOwnership, PTL DEF Spec

-----------------------------------------------------------------------------
(* The theorems. *)

\* However many users, offers and requests there are, and whatever dies, throws
\* or expires between the two writes of an accept, the transfers say what
\* happened to the material (acceptTransfer, settleStuckTransfer).
THEOREM TransfersAreHonest == Spec => []TransfersMatchOwner
<1>1. OwnInv => TransfersMatchOwner
  BY DEF OwnInv, TransfersMatchOwner
<1>2. QED
  BY <1>1, OwnershipInvariant, PTL

\* Only the owner swap changes the owner, on its filter.
LEMMA OnlySwapMoves ==
    ASSUME OwnInv, [Next]_vars, material'.owner # material.owner
    PROVE  \E c \in Calls :
              LET t == call[c].t IN
              /\ t \in Ids /\ transfers[t] # None /\ Swappable(t)
              /\ material'.owner = transfers[t].toAddress /\ material'.transferId = t
<1>1. PICK c \in Calls : SwapOwner(c) /\ material' # material
  <2>1. ~Restrict
    BY DEF Restrict, OwnInv, TypeOK
  <2>2. QED
    BY <2>1
       DEF Next, vars, Tick, resolveTransferDispute, initiateTransfer, LoadTransfer,
           recoverStuckTransfers, openTransferDispute, FindExisting, Insert, Expire,
           closePending, Claim, SwapThrows, Finish, SettleRead, settleStuckTransfer,
           InsertDispute, Die
<1>2. call[c].t \in Ids /\ transfers[call[c].t] # None
  BY <1>1, CurrentRequest DEF SwapOwner, Sound, StageOfOp
<1>3. /\ Swappable(call[c].t)
      /\ material' = [material EXCEPT !.owner = transfers[call[c].t].toAddress,
                                      !.transferId = call[c].t]
  BY <1>1 DEF SwapOwner
<1>4. QED
  BY <1>2, <1>3 DEF OwnInv, TypeOK

\* The material never passes on an offer that its present owner did not make,
\* however stale the offer (the filter of the owner swap).
THEOREM OwnersGiveAway == Spec => OnlyTheOwnerGivesAway
<1>1. OwnInv /\ [Next]_vars =>
         [material'.owner # material.owner =>
            \E t \in Ids : /\ transfers[t] # None
                           /\ transfers[t].fromAddress = material.owner
                           /\ transfers[t].toAddress = material'.owner]_vars
  BY OnlySwapMoves DEF Swappable
<1>2. QED
  BY <1>1, OwnershipInvariant, PTL DEF Spec, OnlyTheOwnerGivesAway

\* A held material changes hands only by an offer older than the hold, though
\* initiateTransfer reads the restriction long before it inserts the offer.
THEOREM HoldStopsNewOffers == Spec => HeldMovesOnlyByOldOffers
<1>1. OwnInv /\ [Next]_vars =>
         [/\ material'.owner # material.owner
          /\ material.status = "held"
          => transfers[material'.transferId].expiresAt - Ttl <= heldAt]_vars
  <2> SUFFICES ASSUME OwnInv, [Next]_vars, material'.owner # material.owner,
                      material.status = "held"
               PROVE  transfers[material'.transferId].expiresAt - Ttl <= heldAt
    OBVIOUS
  <2>1. PICK t \in Ids : transfers[t] # None /\ material'.transferId = t
    BY OnlySwapMoves
  <2>2. transfers[t].expiresAt <= heldAt + Ttl
    BY <2>1 DEF OwnInv, OffersAreOld
  <2>3. transfers[t].expiresAt \in Nat /\ heldAt \in Nat /\ Ttl \in Nat
    BY <2>1, TransferConstants DEF OwnInv, TypeOK, Transfers, Time
  <2>4. QED
    BY <2>1, <2>2, <2>3
<1>2. QED
  BY <1>1, OwnershipInvariant, PTL DEF Spec, HeldMovesOnlyByOldOffers

\* A pending offer is answered by the claim or the close of a request on it.
LEMMA OnlyAnswersAnswer ==
    ASSUME OwnInv, [Next]_vars, NEW t \in Ids, transfers[t].state = "pending",
           transfers'[t].state \in {"accepting", "declined", "cancelled"}
    PROVE  \E c \in Calls : call[c].stage \in {"claim", "close"} /\ call[c].t = t
<1>1. transfers'[t] # transfers[t]
  OBVIOUS
<1>2. transfers \in [Ids -> Transfers \cup {None}]
  BY DEF OwnInv, TypeOK
<1>3. PICK c \in Calls : Insert(c) \/ Expire(c) \/ closePending(c) \/ Claim(c) \/ Finish(c)
                         \/ settleStuckTransfer(c)
  BY <1>1
     DEF Next, vars, Tick, Restrict, resolveTransferDispute, initiateTransfer, LoadTransfer,
         recoverStuckTransfers, openTransferDispute, FindExisting, SwapOwner, SwapThrows,
         SettleRead, InsertDispute, Die
<1>4. CASE Insert(c)
  <2>1. LiveTransfers = {}
    BY <1>1, <1>4 DEF Insert
  <2>2. PICK id : id = CHOOSE u \in Ids : transfers[u] = None
    OBVIOUS
  <2>3. transfers'[t].state = "pending"
    <3>1. PICK d : /\ transfers' = [transfers EXCEPT ![id] = d]
                   /\ d.state = "pending"
      BY <1>4, <2>1, <2>2 DEF Insert
    <3>2. QED
      BY <1>1, <1>2, <3>1
  <2>4. QED
    BY <2>3
<1>5. ASSUME ~Insert(c) PROVE call[c].t = t /\ call[c].stage \in {"claim", "close"}
  <2> DEFINE r == call[c]
  <2>1. /\ r.t \in Ids /\ transfers[r.t] \in Transfers
        /\ r.stage \in {"expire", "close", "claim", "finish", "settleWrite"}
    BY <1>3, <1>5, CurrentRequest
       DEF Expire, closePending, Claim, Finish, settleStuckTransfer, Sound, StageOfOp
  <2>2. \A u \in Ids : u # r.t => transfers'[u] = transfers[u]
    BY <1>2, <1>3, <1>5, <2>1 DEF Expire, closePending, Claim, Finish, settleStuckTransfer
  <2>3. r.t = t
    BY <1>1, <2>2
  <2>4. CASE Expire(c)
    <3>1. transfers' = [transfers EXCEPT ![t].state = "expired"]
      BY <2>3, <2>4 DEF Expire
    <3>2. transfers'[t].state = "expired"
      BY <1>2, <2>1, <2>3, <3>1 DEF Transfers
    <3>3. QED
      BY <3>2
  <2>5. CASE Finish(c)
    BY <1>1, <2>3, <2>5 DEF Finish
  <2>6. CASE settleStuckTransfer(c)
    <3>1. transfers' = [transfers EXCEPT ![r.t].state = transfers[r.t].state]
      BY <2>3, <2>6 DEF settleStuckTransfer
    <3>2. QED
      BY <1>2, <2>1, <2>3, <3>1
  <2>7. CASE closePending(c) \/ Claim(c)
    BY <2>3, <2>7 DEF closePending, Claim
  <2>8. QED
    BY <1>3, <1>5, <2>4, <2>5, <2>6, <2>7
<1>6. QED
  BY <1>4, <1>5

\* A disputed offer is not accepted, declined or cancelled except by a request
\* that was under way when the dispute came (assertTransferNotDisputed).
THEOREM DisputesHold == Spec => DisputeHolds
<1>1. OwnInv /\ [Next]_vars =>
         [\A t \in Ids :
            /\ disputes[t] > 0
            /\ transfers[t].state = "pending"
            /\ transfers'[t].state \in {"accepting", "declined", "cancelled"}
            => \E c \in Calls : /\ call[c].stage \in {"claim", "close"}
                                 /\ call[c].t = t /\ call[c].raced]_vars
  <2> SUFFICES ASSUME OwnInv, [Next]_vars, NEW t \in Ids, disputes[t] > 0,
                      transfers[t].state = "pending",
                      transfers'[t].state \in {"accepting", "declined", "cancelled"}
               PROVE  \E c \in Calls : /\ call[c].stage \in {"claim", "close"}
                                        /\ call[c].t = t /\ call[c].raced
    OBVIOUS
  <2>1. PICK c \in Calls : call[c].stage \in {"claim", "close"} /\ call[c].t = t
    BY OnlyAnswersAnswer
  <2>2. call[c].raced
    BY <2>1, CurrentRequest DEF Sound, StageOfOp, WasThereFirst
  <2>3. QED
    BY <2>1, <2>2
<1>2. QED
  BY <1>1, OwnershipInvariant, PTL DEF Spec, DisputeHolds

=============================================================================
