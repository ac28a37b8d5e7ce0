-------------------------- MODULE OwnershipTransfer --------------------------
(***************************************************************************)
(* The ownership transfers of one material                                 *)
(* (src/lib/ownership/ownershipTransfer.js): the owner proposes, the       *)
(* recipient accepts, offers expire, disputes put a transfer on hold, and  *)
(* a sweep settles what an interrupted accept left behind.                 *)
(*                                                                         *)
(* An accept writes two documents, the transfer and the material, with no  *)
(* transaction.  Every database call of a request is a step; `now' is read *)
(* once, when the request starts, so a slow request decides with an old    *)
(* clock.  A request may die at any step, and the owner swap may throw     *)
(* before or after it lands.  The read of a transfer and the check of its  *)
(* disputes right after it are one step: what follows is conditional on    *)
(* the transfer's state when it is written.                                *)
(***************************************************************************)
EXTENDS Integers

CONSTANTS
    Users,          \* wallet addresses
    Creator,        \* the material's first owner
    Ids,            \* transfer ids
    Calls,          \* requests that can be in progress at the same time
    Ttl,            \* ticks an offer lives
    AcceptLease,    \* ticks of ACCEPT_LEASE_MS
    MaxClock,       \* bound: ticks
    MaxCalls,       \* bound: requests started
    MaxClaims,      \* bound: accepts of one offer that get past the claim
    MaxDisputes,    \* bound: open disputes of one transfer
    MaxFailures,    \* bound: requests that die and swaps that throw
    None            \* null

ASSUME TransferConstants ==
    /\ Creator \in Users
    /\ Ttl \in Nat \ {0} /\ AcceptLease \in Nat \ {0}
    /\ MaxClock \in Nat /\ MaxCalls \in Nat /\ MaxClaims \in Nat
    /\ MaxDisputes \in Nat /\ MaxFailures \in Nat
    /\ None \notin Users \cup Ids

VARIABLES
    material,    \* the material's document
    transfers,   \* ownership_transfers: id -> document or None
    disputes,    \* open ownership_transfer_disputes: id -> how many
    call,        \* the requests in progress
    clock,
    calls, failures,       \* requests and failures so far
    claims,      \* history: accepts past the claim, per transfer
    swaps,       \* history: owner swaps that landed, per transfer
    overtaken,   \* history: a step came too late, see Superseded
    heldAt       \* history: when the material was put on hold

vars == <<material, transfers, disputes, call, clock, calls, failures, claims,
          swaps, overtaken, heldAt>>
history == <<claims, swaps, overtaken, heldAt>>

Live == {"pending", "accepting"}
TransferState == Live \cup {"accepted", "declined", "cancelled", "expired",
                            "failed"}
Time == 0..(MaxClock + Ttl + AcceptLease)

Transfers == [fromAddress : Users, toAddress : Users, state : TransferState,
              expiresAt : Time, leaseExpiresAt : Time]

ASSUME NoneIsNoTransfer == None \notin Transfers

Stages == {"existing", "expire", "insert", "claim", "swap", "finish",
           "settleRead", "settleWrite", "close", "dispute"}

\* A request in progress: claim is the accept it works for, swapped what it
\* knows of the owner swap, and raced (history) whether a dispute opened under
\* its hands.
Requests == [op : {"initiate", "accept", "declined", "cancelled", "recover",
                   "dispute", "thrown"},
             stage : Stages, now : 0..MaxClock, t : Ids \cup {None},
             fromAddress : Users \cup {None}, toAddress : Users \cup {None},
             claim : 0..MaxClaims, swapped : BOOLEAN, raced : BOOLEAN]

Idle == [stage |-> "idle"]

TypeOK ==
    /\ material \in [owner : Users, transferId : Ids \cup {None},
                     status : {"active", "held", "deleted"}]
    /\ transfers \in [Ids -> Transfers \cup {None}]
    /\ disputes \in [Ids -> 0..MaxDisputes]
    /\ call \in [Calls -> Requests \cup {Idle}]
    /\ clock \in 0..MaxClock
    /\ calls \in 0..MaxCalls /\ failures \in 0..MaxFailures
    /\ claims \in [Ids -> 0..MaxClaims]
    /\ swaps \in [Ids -> Nat]
    /\ overtaken \in BOOLEAN
    /\ heldAt \in Time

Init ==
    /\ material = [owner |-> Creator, transferId |-> None, status |-> "active"]
    /\ transfers = [t \in Ids |-> None]
    /\ disputes = [t \in Ids |-> 0]
    /\ call = [c \in Calls |-> Idle]
    /\ clock = 0 /\ calls = 0 /\ failures = 0
    /\ claims = [t \in Ids |-> 0]
    /\ swaps = [t \in Ids |-> 0]
    /\ overtaken = FALSE /\ heldAt = MaxClock

----------------------------------------------------------------------------

LiveTransfers == {t \in Ids : transfers[t] # None /\ transfers[t].state \in Live}

Request(op, t) ==
    [op |-> op, stage |-> "idle", now |-> clock, t |-> t, fromAddress |-> None,
     toAddress |-> None, claim |-> IF t = None THEN 0 ELSE claims[t],
     swapped |-> FALSE, raced |-> FALSE]

Begin(c, request) ==
    /\ call[c] = Idle
    /\ calls < MaxCalls
    /\ calls' = calls + 1
    /\ call' = [call EXCEPT ![c] = request]

Go(c, stage) == call' = [call EXCEPT ![c].stage = stage]
End(c) == call' = [call EXCEPT ![c] = Idle]

\* Overdue and LeaseOver compare with the request's own clock.
Overdue(t, now) == transfers[t].expiresAt <= now
LeaseOver(t, now) == transfers[t].leaseExpiresAt <= now

\* Where a request on transfer t goes once it knows the transfer's state.
After(request, t) ==
    LET state == transfers[t].state IN
    CASE request.op = "accept" /\ state = "pending" -> "claim"
      [] /\ request.op = "accept" /\ state = "accepting"
         /\ LeaseOver(t, request.now) -> "settleRead"
      [] request.op \in {"declined", "cancelled"} /\ state = "pending" -> "close"
      [] request.op = "initiate" /\ state \notin Live -> "insert"
      [] OTHER -> "idle"

\* expireIfOverdue comes first when the offer read is pending and overdue.
Entry(request, t) ==
    IF transfers[t].state = "pending" /\ Overdue(t, request.now)
    THEN "expire" ELSE After(request, t)

Proceed(c, request, stage) ==
    call' = [call EXCEPT ![c] = IF stage = "idle" THEN Idle
                                ELSE [request EXCEPT !.stage = stage]]

----------------------------------------------------------------------------
(* Proposing.                                                              *)

\* Mutant: the material's restriction is not looked at.
ProposableAnyway(from, to) == from # to /\ material.owner = from

Proposable(from, to) ==
    /\ from # to
    /\ material.owner = from
    /\ material.status = "active"

\* initiateTransfer reads the material ...
initiateTransfer(c, from, to) ==
    /\ Proposable(from, to)
    /\ Begin(c, [Request("initiate", None) EXCEPT !.stage = "existing",
                                                  !.fromAddress = from,
                                                  !.toAddress = to])
    /\ UNCHANGED <<material, transfers, disputes, clock, failures, history>>

\* ... then the live transfer; an identical offer is a replay, any other one
\* that is not overdue a conflict ...
FindExisting(c) ==
    LET r == call[c] IN
    /\ r.stage = "existing"
    /\ IF LiveTransfers = {} THEN Go(c, "insert")
       ELSE \E t \in LiveTransfers :
               Proceed(c, [r EXCEPT !.t = t], Entry(r, t))
    /\ UNCHANGED <<material, transfers, disputes, clock, calls, failures, history>>

\* ... and inserts; the unique index refuses a second live transfer.
Insert(c) ==
    LET r == call[c]
        id == CHOOSE t \in Ids : transfers[t] = None
    IN
    /\ r.stage = "insert"
    /\ IF LiveTransfers # {} THEN UNCHANGED transfers
       ELSE /\ \E t \in Ids : transfers[t] = None
            /\ transfers' = [transfers EXCEPT ![id] =
                  [fromAddress |-> r.fromAddress, toAddress |-> r.toAddress,
                   state |-> "pending", expiresAt |-> r.now + Ttl,
                   leaseExpiresAt |-> 0]]
    /\ End(c)
    /\ UNCHANGED <<material, disputes, clock, calls, failures, history>>

----------------------------------------------------------------------------
(* Accepting, declining, cancelling.                                       *)

\* Mutant: the dispute is not looked at.
NotDisputedUnchecked(t) == TRUE

assertTransferNotDisputed(t) == disputes[t] = 0

\* acceptTransfer (by the recipient), declineTransfer (by the recipient) and
\* cancelTransfer (by the proposer or an admin) load the transfer.
LoadTransfer(c, op, t) ==
    LET r == Request(op, t) IN
    /\ transfers[t] # None
    /\ assertTransferNotDisputed(t)
    /\ Entry(r, t) # "idle"
    /\ Begin(c, [r EXCEPT !.stage = Entry(r, t)])
    /\ UNCHANGED <<material, transfers, disputes, clock, failures, history>>

\* The conditional update of expireIfOverdue; a lost race re-reads.
Expire(c) ==
    LET r == call[c] IN
    /\ r.stage = "expire"
    /\ IF transfers[r.t].state = "pending"
       THEN /\ transfers' = [transfers EXCEPT ![r.t].state = "expired"]
            /\ Proceed(c, r, IF r.op = "initiate" THEN "insert" ELSE "idle")
       ELSE /\ Proceed(c, r, After(r, r.t))
            /\ UNCHANGED transfers
    /\ UNCHANGED <<material, disputes, clock, calls, failures, history>>

\* The conditional update of closePending.
closePending(c) ==
    LET r == call[c] IN
    /\ r.stage = "close"
    /\ IF transfers[r.t].state = "pending"
       THEN transfers' = [transfers EXCEPT ![r.t].state = r.op]
       ELSE UNCHANGED transfers
    /\ End(c)
    /\ UNCHANGED <<material, disputes, clock, calls, failures, history>>

\* Mutant: the claim does not ask for the state it expects.
CanClaimTwice(t, now) == transfers[t].state \in Live /\ ~Overdue(t, now)

CanClaim(t, now) == transfers[t].state = "pending" /\ ~Overdue(t, now)

Claim(c) ==
    LET r == call[c] IN
    /\ r.stage = "claim"
    /\ IF CanClaim(r.t, r.now)
       THEN /\ claims[r.t] < MaxClaims
            /\ claims' = [claims EXCEPT ![r.t] = @ + 1]
            /\ transfers' = [transfers EXCEPT
                  ![r.t].state = "accepting",
                  ![r.t].leaseExpiresAt = r.now + AcceptLease]
            /\ call' = [call EXCEPT ![c] = [r EXCEPT !.stage = "swap",
                                                     !.swapped = FALSE,
                                                     !.claim = claims[r.t] + 1]]
       ELSE End(c) /\ UNCHANGED <<transfers, claims>>
    /\ UNCHANGED <<material, disputes, clock, calls, failures, swaps,
                   overtaken, heldAt>>

\* A step on behalf of one accept comes too late when the claim it works for
\* is no longer the transfer's current one.
Superseded(r) ==
    transfers[r.t].state # "accepting" \/ claims[r.t] # r.claim

MarkLate(late) == overtaken' = (overtaken \/ late)

\* Mutant: the swap does not insist on the previous owner.
SwapsFromAnyone(t) == material.status # "deleted"

\* The filter of the owner swap.
Swappable(t) ==
    /\ material.owner = transfers[t].fromAddress
    /\ material.status # "deleted"

Threw(c) ==
    /\ failures < MaxFailures /\ failures' = failures + 1
    /\ call' = [call EXCEPT ![c].stage = "settleRead", ![c].op = "thrown"]

\* The owner swap; a throw, before or after it lands, leads to
\* settleStuckTransfer.
SwapOwner(c) ==
    LET r == call[c]
        t == r.t
    IN
    /\ r.stage = "swap"
    /\ IF Swappable(t)
       THEN /\ material' = [material EXCEPT !.owner = transfers[t].toAddress,
                                            !.transferId = t]
            /\ swaps' = [swaps EXCEPT ![t] = @ + 1]
            /\ MarkLate(Superseded(r) \/ LeaseOver(t, clock))
            /\ \/ /\ call' = [call EXCEPT ![c].stage = "finish",
                                          ![c].swapped = TRUE]
                  /\ failures' = failures
               \/ Threw(c)
       ELSE /\ Go(c, "finish")
            /\ UNCHANGED <<material, swaps, overtaken, failures>>
    /\ UNCHANGED <<transfers, disputes, clock, calls, claims, heldAt>>

SwapThrows(c) ==
    /\ call[c].stage = "swap"
    /\ Threw(c)
    /\ UNCHANGED <<material, transfers, disputes, clock, calls, history>>

\* accepting -> accepted when the swap landed, -> failed when its filter
\* matched nothing.
Finish(c) ==
    LET r == call[c] IN
    /\ r.stage = "finish"
    /\ IF transfers[r.t].state = "accepting"
       THEN /\ transfers' = [transfers EXCEPT ![r.t].state =
                               IF r.swapped THEN "accepted" ELSE "failed"]
            /\ MarkLate(Superseded(r))
       ELSE UNCHANGED <<transfers, overtaken>>
    /\ End(c)
    /\ UNCHANGED <<material, disputes, clock, calls, failures, claims, swaps,
                   heldAt>>

----------------------------------------------------------------------------
(* Recovery.                                                               *)

\* recoverStuckTransfers lists an overdue offer or an abandoned accept; the
\* row may be stale by the time the loop reaches it.
recoverStuckTransfers(c, t) ==
    LET r == Request("recover", t) IN
    /\ transfers[t] # None
    /\ \/ /\ transfers[t].state = "pending" /\ Overdue(t, clock)
          /\ Begin(c, [r EXCEPT !.stage = "expire"])
       \/ /\ transfers[t].state = "accepting" /\ LeaseOver(t, clock)
          /\ Begin(c, [r EXCEPT !.stage = "settleRead"])
    /\ UNCHANGED <<material, transfers, disputes, clock, failures, history>>

SwapConfirmed(t) ==
    material.owner = transfers[t].toAddress /\ material.transferId = t

\* settleStuckTransfer reads the material ...
SettleRead(c) ==
    LET r == call[c] IN
    /\ r.stage = "settleRead"
    /\ call' = [call EXCEPT ![c].stage = "settleWrite",
                            ![c].swapped = SwapConfirmed(r.t)]
    /\ UNCHANGED <<material, transfers, disputes, clock, calls, failures, history>>

\* ... and settles the transfer if it is still accepting; an accept that
\* meets an abandoned one goes on when it finds the offer open again.
settleStuckTransfer(c) ==
    LET r == call[c]
        outcome == CASE r.swapped -> "accepted"
                     [] ~r.swapped /\ Overdue(r.t, r.now) -> "expired"
                     [] OTHER -> "pending"
        settled == IF transfers[r.t].state = "accepting" THEN outcome
                   ELSE transfers[r.t].state
    IN
    /\ r.stage = "settleWrite"
    /\ transfers' = [transfers EXCEPT ![r.t].state = settled]
    /\ MarkLate(transfers[r.t].state = "accepting" /\ Superseded(r))
    /\ IF r.op = "accept" /\ settled = "pending"
       THEN Go(c, "claim") ELSE End(c)
    /\ UNCHANGED <<material, disputes, clock, calls, failures, claims, swaps,
                   heldAt>>

----------------------------------------------------------------------------
(* Disputes.                                                               *)

\* openTransferDispute loads the transfer and looks for an open dispute ...
openTransferDispute(c, t) ==
    /\ transfers[t] # None
    /\ transfers[t].state \in Live \cup {"accepted"}
    /\ disputes[t] = 0
    /\ Begin(c, [Request("dispute", t) EXCEPT !.stage = "dispute"])
    /\ UNCHANGED <<material, transfers, disputes, clock, failures, history>>

\* ... and inserts one; two requests may both get here.
InsertDispute(c) ==
    LET t == call[c].t IN
    /\ call[c].stage = "dispute"
    /\ disputes[t] < MaxDisputes
    /\ disputes' = [disputes EXCEPT ![t] = @ + 1]
    /\ call' = [d \in Calls |->
                  CASE d = c -> Idle
                    [] d # c /\ call[d] # Idle ->
                          [call[d] EXCEPT !.raced = (call[d].t = t) \/ @]
                    [] OTHER -> call[d]]
    /\ UNCHANGED <<material, transfers, clock, calls, failures, history>>

\* An admin resolves a dispute, either way.
resolveTransferDispute(t) ==
    /\ disputes[t] > 0
    /\ disputes' = [disputes EXCEPT ![t] = @ - 1]
    /\ UNCHANGED <<material, transfers, call, clock, calls, failures, history>>

----------------------------------------------------------------------------
(* Environment.                                                            *)

\* Moderation suspends or quarantines the material, or it is deleted.
Restrict ==
    /\ material.status = "active"
    /\ \E s \in {"held", "deleted"} : material' = [material EXCEPT !.status = s]
    /\ heldAt' = clock
    /\ UNCHANGED <<transfers, disputes, call, clock, calls, failures, claims,
                   swaps, overtaken>>

Tick ==
    /\ clock < MaxClock
    /\ clock' = clock + 1
    /\ UNCHANGED <<material, transfers, disputes, call, calls, failures, history>>

\* The request dies, or a database call other than the swap throws.
Die(c) ==
    /\ call[c] # Idle
    /\ failures < MaxFailures /\ failures' = failures + 1
    /\ End(c)
    /\ UNCHANGED <<material, transfers, disputes, clock, calls, history>>

Next ==
    \/ \E c \in Calls :
          \/ \E from, to \in Users : initiateTransfer(c, from, to)
          \/ \E t \in Ids :
                \/ \E op \in {"accept", "declined", "cancelled"} :
                      LoadTransfer(c, op, t)
                \/ recoverStuckTransfers(c, t)
                \/ openTransferDispute(c, t)
          \/ FindExisting(c) \/ Insert(c) \/ Expire(c) \/ closePending(c)
          \/ Claim(c) \/ SwapOwner(c) \/ SwapThrows(c) \/ Finish(c)
          \/ SettleRead(c) \/ settleStuckTransfer(c) \/ InsertDispute(c)
          \/ Die(c)
    \/ \E t \in Ids : resolveTransferDispute(t)
    \/ Restrict \/ Tick

Spec == Init /\ [][Next]_vars

----------------------------------------------------------------------------
(* Properties.                                                             *)

\* The two documents of a transfer agree: one whose owner swap landed is
\* accepted, or still being accepted, and it landed once.  Crashes, throws and
\* expired leases do not break this; only a step that came too late does: an
\* accept that swapped after its lease, or a settlement or final update that
\* hit a newer claim than the one it was made for.
DocumentsAgree ==
    ~overtaken =>
        \A t \in Ids :
            swaps[t] > 0 => /\ transfers[t].state \in {"accepting", "accepted"}
                            /\ swaps[t] = 1

\* A transfer that reports accepted has moved the material, even one that was
\* settled by recovery or overtaken.
AcceptedMeansMoved ==
    \A t \in Ids :
        transfers[t] # None /\ transfers[t].state = "accepted" => swaps[t] > 0

\* The transfers say what happened to the material.
TransfersMatchOwner == TypeOK /\ DocumentsAgree /\ AcceptedMeansMoved

\* The material only ever passes from its owner to somebody that owner has
\* proposed it to: an offer that went stale while its owner changed moves
\* nothing.
OnlyTheOwnerGivesAway ==
    [][material'.owner # material.owner =>
          \E t \in Ids : /\ transfers[t] # None
                         /\ transfers[t].fromAddress = material.owner
                         /\ transfers[t].toAddress = material'.owner]_vars

\* A disputed transfer is on hold: while a dispute is open no offer is
\* accepted, declined or cancelled, except by a request that was already
\* under way when the dispute was opened.
DisputeHolds ==
    [][\A t \in Ids :
          /\ disputes[t] > 0
          /\ transfers[t].state = "pending"
          /\ transfers'[t].state \in {"accepting", "declined", "cancelled"}
          => \E c \in Calls : /\ call[c].stage \in {"claim", "close"}
                               /\ call[c].t = t /\ call[c].raced]_vars

\* A takedown cannot be laundered through a new offer: a material that is on
\* hold changes hands only by an offer made before the hold.
HeldMovesOnlyByOldOffers ==
    [][/\ material'.owner # material.owner
       /\ material.status = "held"
       => transfers[material'.transferId].expiresAt - Ttl <= heldAt]_vars
=============================================================================
