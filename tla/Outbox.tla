------------------------------- MODULE Outbox -------------------------------
(***************************************************************************)
(* The side-effect outbox of src/lib/backend/outbox.js with the request    *)
(* handlers that enqueue into it (broadcastPurchaseEvent of                *)
(* webhooks/sender.js links each webhook to the previous one of the same   *)
(* source), the delivery workers of sideEffectWorker.js and the operator's *)
(* replays.  All effects here belong to one source aggregate.              *)
(*                                                                         *)
(* Each await is a step; a worker may crash, or a call may throw, between  *)
(* any two of them.                                                        *)
(***************************************************************************)
EXTENDS Naturals

CONSTANTS
    Effects,         \* ids, which are the delivery ids too
    Workers,         \* processes running runSideEffectWorker
    Enqueuers,       \* request handlers emitting linked webhooks
    maxAttempts,     \* DEFAULT_CONFIG.maxAttempts
    LeaseTtl,        \* ticks of DEFAULT_CONFIG.leaseTtlMs
    MaxJobTime,      \* bound: ticks a worker takes for one effect
    MaxFailures,     \* bound: crashes and failing database calls of workers
    MaxReplays,      \* bound: operator replays
    NoEffect         \* null

ASSUME OutboxConstants ==
    /\ maxAttempts \in Nat \ {0}
    /\ LeaseTtl \in Nat \ {0}
    /\ MaxJobTime \in Nat
    /\ MaxFailures \in Nat
    /\ MaxReplays \in Nat
    /\ NoEffect \notin Effects

VARIABLES
    outbox,      \* side_effect_outbox: id -> document or NoEffect
    enq,         \* enqueuer -> what it has read so far
    job,         \* worker -> the effect it handles and the next call
    replay,      \* the operator's replay in progress
    received,    \* history: effects whose receiver was reached
    acked,       \* history: effects ever marked delivered
    failures,    \* failures so far
    replays      \* replays so far

vars == <<outbox, enq, job, replay, received, acked, failures, replays>>
history == <<received, acked>>
bounds == <<failures, replays>>

EffectStatus == {"pending", "leased", "delivered", "dead_letter"}

Docs == [kind : {"webhook", "plain"}, version : Nat,
         previous : Effects \cup {NoEffect}, predecessorDelivered : BOOLEAN,
         status : EffectStatus, lease : 0..LeaseTtl, due : BOOLEAN,
         attemptCount : Nat, deliveredAt : BOOLEAN]

\* null is not a document.
ASSUME NoEffectIsNoDoc == NoEffect \notin Docs

NoJob == [stage |-> "idle", effect |-> NoEffect, age |-> 0]
NoLink == [stage |-> "idle", version |-> 0, previous |-> NoEffect,
           predecessorDelivered |-> FALSE]
NoReplay == [kind |-> "none", left |-> {}]

TypeOK ==
    /\ outbox \in [Effects -> Docs \cup {NoEffect}]
    /\ enq \in [Enqueuers -> [stage : {"idle", "linked", "checked"},
                              version : Nat,
                              previous : Effects \cup {NoEffect},
                              predecessorDelivered : BOOLEAN]]
    /\ job \in [Workers -> [stage : {"idle", "bury", "send", "ack", "unblock",
                                     "fail"},
                            effect : Effects \cup {NoEffect},
                            age : 0..MaxJobTime]]
    /\ replay \in [kind : {"none", "dead_letters", "source"},
                   left : SUBSET Effects]
    /\ received \subseteq Effects /\ acked \subseteq Effects
    /\ failures \in 0..MaxFailures /\ replays \in 0..MaxReplays

Init ==
    /\ outbox = [e \in Effects |-> NoEffect]
    /\ enq = [q \in Enqueuers |-> NoLink]
    /\ job = [w \in Workers |-> NoJob]
    /\ replay = NoReplay
    /\ received = {} /\ acked = {}
    /\ failures = 0 /\ replays = 0

Enqueued == {e \in Effects : outbox[e] # NoEffect}
Status(e) == IF outbox[e] = NoEffect THEN "none" ELSE outbox[e].status

-----------------------------------------------------------------------------
(***************************************************************************)
(* enqueueSideEffect                                                       *)
(***************************************************************************)
NewDoc(kind, version, previous, predecessorDelivered) ==
    [kind |-> kind, version |-> version, previous |-> previous,
     predecessorDelivered |-> predecessorDelivered, status |-> "pending",
     lease |-> 0, due |-> TRUE, attemptCount |-> 0, deliveredAt |-> FALSE]

\* Effects that need no ordering: emails, indexing, analytics, previews.
EnqueuePlain(e) ==
    /\ e \notin Enqueued
    /\ outbox' = [outbox EXCEPT ![e] = NewDoc("plain", 0, NoEffect, TRUE)]
    /\ UNCHANGED <<enq, job, replay, history, bounds>>

\* getNextCausalLink: an effect of the highest version, if any. Among equal versions
\* createdAt decides, which different hosts stamp by their own clocks: any of them.
GetNextCausalLink(q) ==
    /\ enq[q].stage = "idle"
    /\ Enqueued # Effects
    /\ \/ /\ Enqueued = {}
          /\ enq' = [enq EXCEPT ![q] =
                       [stage |-> "linked", version |-> 1,
                        previous |-> NoEffect, predecessorDelivered |-> FALSE]]
       \/ \E latest \in Enqueued :
             /\ \A e \in Enqueued : outbox[e].version <= outbox[latest].version
             /\ enq' = [enq EXCEPT ![q] =
                          [stage |-> "linked",
                           version |-> outbox[latest].version + 1,
                           previous |-> latest,
                           predecessorDelivered |-> FALSE]]
    /\ UNCHANGED <<outbox, job, replay, history, bounds>>

\* Mutant: a row that exists counts as delivered.
PredecessorExists(p) == p = NoEffect \/ p \in Enqueued

\* The predecessor's status decides whether the new effect starts gated.
PredecessorDone(p) == p = NoEffect \/ Status(p) = "delivered"

CheckPredecessor(q) ==
    /\ enq[q].stage = "linked"
    /\ enq' = [enq EXCEPT ![q].stage = "checked",
                 ![q].predecessorDelivered = PredecessorDone(enq[q].previous)]
    /\ UNCHANGED <<outbox, job, replay, history, bounds>>

InsertEffect(q, e) ==
    /\ enq[q].stage = "checked"
    /\ e \notin Enqueued
    /\ outbox' = [outbox EXCEPT ![e] =
                    NewDoc("webhook", enq[q].version, enq[q].previous,
                           enq[q].predecessorDelivered)]
    /\ enq' = [enq EXCEPT ![q] = NoLink]
    /\ UNCHANGED <<job, replay, history, bounds>>

-----------------------------------------------------------------------------
(***************************************************************************)
(* Delivery: leaseNextIntent, processSideEffectIntent, markDelivered       *)
(***************************************************************************)
\* Mutant: an expired lease is never reclaimed.
OnlyPending(d) == d.status = "pending"

\* Mutant: a lease is taken over whether or not it expired.
LeaseStolen(d) == d.status \in {"pending", "leased"}

Available(d) ==
    \/ d.status = "pending"
    \/ d.status = "leased" /\ d.lease = 0

CausallyReady(d) == d.previous = NoEffect \/ d.predecessorDelivered

Leased(d) ==
    [d EXCEPT !.status = "leased", !.lease = LeaseTtl, !.attemptCount = @ + 1]

Exhausted(d) == d.attemptCount >= maxAttempts

LeaseNextIntent(w, e) ==
    /\ job[w].stage = "idle"
    /\ e \in Enqueued
    /\ outbox[e].due
    /\ Available(outbox[e])
    /\ CausallyReady(outbox[e])
    /\ outbox' = [outbox EXCEPT ![e] = Leased(@)]
    /\ job' = [job EXCEPT ![w] =
          [stage |-> IF Exhausted(outbox'[e]) THEN "bury" ELSE "send",
           effect |-> e, age |-> 0]]
    /\ UNCHANGED <<enq, replay, history, bounds>>

GoTo(w, stage) == job' = [job EXCEPT ![w].stage = stage]
EndJob(w) == job' = [job EXCEPT ![w] = NoJob]

\* Attempts exhausted: dead-lettered by _id, without being sent again.
Bury(w) ==
    /\ job[w].stage = "bury"
    /\ outbox' = [outbox EXCEPT ![job[w].effect].status = "dead_letter"]
    /\ EndJob(w)
    /\ UNCHANGED <<enq, replay, history, bounds>>

SendReaches(w) ==
    /\ job[w].stage = "send"
    /\ received' = received \cup {job[w].effect}
    /\ GoTo(w, "ack")
    /\ UNCHANGED <<outbox, enq, replay, acked, bounds>>

\* The handler throws: mail server down, projection failed, DNS error.
SendThrows(w) ==
    /\ job[w].stage = "send"
    /\ GoTo(w, "fail")
    /\ UNCHANGED <<outbox, enq, replay, history, bounds>>

\* sendWebhookWithRetry gives up by returning false, and processWebhookIntent
\* only counts rejected promises.
WebhookGivesUp(w) ==
    /\ job[w].stage = "send"
    /\ outbox[job[w].effect].kind = "webhook"
    /\ GoTo(w, "ack")
    /\ UNCHANGED <<outbox, enq, replay, history, bounds>>

\* markDelivered, first update.
Acknowledge(w) ==
    LET e == job[w].effect
    IN /\ job[w].stage = "ack"
       /\ IF outbox[e].status = "delivered"
          THEN /\ EndJob(w)
               /\ UNCHANGED <<outbox, acked>>
          ELSE /\ outbox' = [outbox EXCEPT ![e].status = "delivered",
                                           ![e].deliveredAt = TRUE]
               /\ acked' = acked \cup {e}
               /\ GoTo(w, "unblock")
       /\ UNCHANGED <<enq, replay, received, bounds>>

\* markDelivered, second update: every successor that exists by now.
UnblockSuccessors(w) ==
    /\ job[w].stage = "unblock"
    /\ outbox' = [e \in Effects |->
          IF e \in Enqueued /\ outbox[e].previous = job[w].effect
          THEN [outbox[e] EXCEPT !.predecessorDelivered = TRUE]
          ELSE outbox[e]]
    /\ EndJob(w)
    /\ UNCHANGED <<enq, replay, history, bounds>>

\* rescheduleIntent: back to pending by _id, whatever happened meanwhile.
RescheduleIntent(w) ==
    /\ job[w].stage = "fail"
    /\ outbox' = [outbox EXCEPT ![job[w].effect].status = "pending",
                                ![job[w].effect].due = FALSE]
    /\ EndJob(w)
    /\ UNCHANGED <<enq, replay, history, bounds>>

\* A database call of markDelivered throws; the worker reschedules.
CallFails(w) ==
    /\ job[w].stage \in {"ack", "unblock"}
    /\ failures < MaxFailures
    /\ failures' = failures + 1
    /\ GoTo(w, "fail")
    /\ UNCHANGED <<outbox, enq, replay, history, replays>>

Crash(w) ==
    /\ job[w].stage # "idle"
    /\ failures < MaxFailures
    /\ failures' = failures + 1
    /\ EndJob(w)
    /\ UNCHANGED <<outbox, enq, replay, history, replays>>

-----------------------------------------------------------------------------
(***************************************************************************)
(* Operator: replays read first and write by _id later                     *)
(***************************************************************************)
BackInQueue(d) ==
    [d EXCEPT !.status = "pending", !.due = TRUE, !.attemptCount = 0]

RetryFailedOutboxEntry(e) ==
    /\ replays < MaxReplays
    /\ Status(e) = "dead_letter"
    /\ replays' = replays + 1
    /\ outbox' = [outbox EXCEPT ![e] = BackInQueue(@)]
    /\ UNCHANGED <<enq, job, replay, history, failures>>

ReplayRead(kind, effects) ==
    /\ replay = NoReplay
    /\ replays < MaxReplays
    /\ effects # {}
    /\ replays' = replays + 1
    /\ replay' = [kind |-> kind, left |-> effects]
    /\ UNCHANGED <<outbox, enq, job, history, failures>>

ReplayDeadLetters ==
    ReplayRead("dead_letters",
               {e \in Enqueued : outbox[e].status = "dead_letter"
                                 /\ ~outbox[e].deliveredAt})

ReplaySource == ReplayRead("source", Enqueued)

\* One updateMany over the ids that were read.
ReplayDeadLettersWrite ==
    /\ replay.kind = "dead_letters"
    /\ outbox' = [e \in Effects |-> IF e \in replay.left
                                    THEN BackInQueue(outbox[e]) ELSE outbox[e]]
    /\ replay' = NoReplay
    /\ UNCHANGED <<enq, job, history, bounds>>

\* One update per effect, in version order; deliveredAt is cleared.
ReplaySourceWrite(e) ==
    /\ replay.kind = "source"
    /\ e \in replay.left
    /\ \A f \in replay.left : outbox[e].version <= outbox[f].version
    /\ outbox' = [outbox EXCEPT ![e] =
                    [BackInQueue(@) EXCEPT !.deliveredAt = FALSE]]
    /\ replay' = IF replay.left = {e} THEN NoReplay
                 ELSE [replay EXCEPT !.left = @ \ {e}]
    /\ UNCHANGED <<enq, job, history, bounds>>

-----------------------------------------------------------------------------
\* A bound past the lease rules nothing out: a worker may take any time.
JobsMayStall == MaxJobTime > LeaseTtl

Tick ==
    /\ \A w \in Workers : job[w].stage # "idle" => job[w].age < MaxJobTime
    /\ outbox' = [e \in Effects |->
          IF e \notin Enqueued THEN NoEffect
          ELSE [outbox[e] EXCEPT !.due = TRUE,
                                 !.lease = IF @ > 0 THEN @ - 1 ELSE 0]]
    /\ job' = [w \in Workers |->
          IF job[w].stage = "idle" \/ JobsMayStall THEN job[w]
          ELSE [job[w] EXCEPT !.age = @ + 1]]
    /\ UNCHANGED <<enq, replay, history, bounds>>

EnqueueStep(q) ==
    \/ GetNextCausalLink(q) \/ CheckPredecessor(q)
    \/ \E e \in Effects : InsertEffect(q, e)

WorkerStep(w) ==
    \/ \E e \in Effects : LeaseNextIntent(w, e)
    \/ Bury(w) \/ SendReaches(w) \/ SendThrows(w) \/ WebhookGivesUp(w)
    \/ Acknowledge(w) \/ UnblockSuccessors(w) \/ RescheduleIntent(w)

OperatorStep ==
    \/ \E e \in Effects : RetryFailedOutboxEntry(e) \/ ReplaySourceWrite(e)
    \/ ReplayDeadLetters \/ ReplaySource \/ ReplayDeadLettersWrite

Next ==
    \/ \E e \in Effects : EnqueuePlain(e)
    \/ \E q \in Enqueuers : EnqueueStep(q)
    \/ \E w \in Workers : WorkerStep(w) \/ CallFails(w) \/ Crash(w)
    \/ OperatorStep
    \/ Tick

Spec == Init /\ [][Next]_vars

\* The delivery loop never ends and time passes.  Enqueuers and operators may
\* stop anywhere.
FairSpec == Spec /\ WF_vars(Tick) /\ \A w \in Workers : WF_vars(WorkerStep(w))

-----------------------------------------------------------------------------
(***************************************************************************)
(* Properties                                                              *)
(***************************************************************************)
\* Causal order: no receiver sees an effect for the first time before the
\* effect it is linked to has been marked delivered, through expired leases,
\* stale workers, crashes, retries and replays.
CausalOrder ==
    \A e \in received :
        outbox[e].previous # NoEffect => outbox[e].previous \in acked

\* Nothing that is not a webhook is marked delivered unless its handler
\* completed: a crash or a throw always leads to another attempt.
PlainDeliveredWasReceived ==
    \A e \in Enqueued :
        outbox[e].kind = "plain" /\ e \in acked => e \in received

\* Deliveries happen in causal order, and what the outbox calls delivered was
\* handled, in documents that are well typed.
OrderedDelivery == TypeOK /\ CausalOrder /\ PlainDeliveredWasReceived

\* While workers finish within their lease, an effect is in the hands of at
\* most one of them.
OneWorkerPerEffect ==
    \A v, w \in Workers :
        v # w /\ job[v].stage # "idle" => job[v].effect # job[w].effect

\* Bounded retries: between two replays an effect that is not delivered is
\* leased at most maxAttempts times before it is dead-lettered, plus one lease
\* per crash.
AttemptsAreBounded ==
    \A e \in Enqueued : outbox[e].attemptCount <= maxAttempts + failures

\* A lease that is respected keeps every effect in one hand and ends.
LeasesAreSound == OneWorkerPerEffect /\ AttemptsAreBounded

\* Every effect whose gate is open is eventually delivered or dead-lettered:
\* a crashed worker's lease expires and another worker takes over.
EveryEffectResolves ==
    \A e \in Effects :
        (e \in Enqueued /\ CausallyReady(outbox[e]))
            ~> (Status(e) \in {"delivered", "dead_letter"})

=============================================================================
