---------------------------- MODULE OutboxProofs ----------------------------
(***************************************************************************)
(* Outbox delivers in causal order, for any number of effects, enqueuers   *)
(* and workers of any speed.  With workers that finish within their lease  *)
(* it keeps every effect in one hand and bounds its attempts.              *)
(***************************************************************************)
EXTENDS Outbox, TLAPS

-----------------------------------------------------------------------------
(* The invariant. *)

\* An open gate means that the effect behind it was delivered: in a document,
\* and in what an enqueuer is about to insert.
GatesFollowDeliveries ==
    /\ \A e \in Enqueued :
          outbox[e].predecessorDelivered =>
              outbox[e].previous \in acked \cup {NoEffect}
    /\ \A q \in Enqueuers :
          enq[q].stage = "checked" /\ enq[q].predecessorDelivered =>
              enq[q].previous \in acked \cup {NoEffect}

\* Only what is in the outbox was received, acknowledged or read for a replay.
HistoryIsOfTheOutbox ==
    /\ acked \subseteq Enqueued /\ received \subseteq Enqueued
    /\ replay.left \subseteq Enqueued
    /\ \A e \in Enqueued : outbox[e].status = "delivered" => e \in acked

\* A worker at a step had its effect's gate open when it took the lease, and a
\* gate never closes; an acknowledgement follows the handler.
ReadyFor(stage, e) ==
    /\ e \in Enqueued
    /\ CausallyReady(outbox[e])
    /\ stage = "unblock" => e \in acked
    /\ stage = "ack" /\ outbox[e].kind = "plain" => e \in received

JobsAreReady ==
    \A w \in Workers : job[w].stage # "idle" => ReadyFor(job[w].stage, job[w].effect)

OrderInv ==
    /\ TypeOK
    /\ GatesFollowDeliveries /\ HistoryIsOfTheOutbox /\ JobsAreReady
    /\ CausalOrder /\ PlainDeliveredWasReceived

-----------------------------------------------------------------------------
(* What every step does to the documents. *)

\* A document keeps its kind and its link, and its gate opens only behind a
\* delivered effect; a settled one is one that was acknowledged.
Evolves ==
    \A e \in Enqueued :
        /\ outbox'[e] \in Docs
        /\ outbox'[e].kind = outbox[e].kind
        /\ outbox'[e].previous = outbox[e].previous
        /\ outbox[e].predecessorDelivered => outbox'[e].predecessorDelivered
        /\ outbox'[e].predecessorDelivered =>
              outbox[e].predecessorDelivered \/ outbox[e].previous \in acked
        /\ outbox'[e].status = "delivered" => e \in acked'

\* No effect is added.
NoNewEffect == \A e \in Effects : outbox[e] = NoEffect => outbox'[e] = NoEffect

\* The histories grow by effects that were ready, and were handled.
HistoryGrows ==
    /\ acked \subseteq acked' /\ acked' \subseteq Enqueued
    /\ received \subseteq received' /\ received' \subseteq Enqueued
    /\ \A e \in received' \ received : CausallyReady(outbox[e])
    /\ \A e \in acked' \ acked : outbox[e].kind = "plain" => e \in received

\* A step of workers, operator or time keeps the invariant if it treats
\* documents and histories so and leaves its jobs ready.
LEMMA DeliveryStep ==
    ASSUME OrderInv, TypeOK', Evolves, NoNewEffect, HistoryGrows, enq' = enq,
           replay'.left \subseteq Enqueued,
           \A w \in Workers : job'[w].stage # "idle" =>
               /\ job'[w].effect \in Enqueued
               /\ CausallyReady(outbox[job'[w].effect])
               /\ job'[w].stage = "unblock" => job'[w].effect \in acked'
               /\ job'[w].stage = "ack" /\ outbox[job'[w].effect].kind = "plain" =>
                      job'[w].effect \in received'
    PROVE  OrderInv'
<1>1. Enqueued' = Enqueued
  BY NoEffectIsNoDoc DEF Evolves, NoNewEffect, Enqueued
<1>2. GatesFollowDeliveries'
  BY <1>1 DEF OrderInv, GatesFollowDeliveries, Evolves, HistoryGrows
<1>3. HistoryIsOfTheOutbox'
  BY <1>1 DEF Evolves, HistoryGrows, HistoryIsOfTheOutbox
<1>4. JobsAreReady'
  BY <1>1 DEF JobsAreReady, ReadyFor, CausallyReady, Evolves
<1>5. CausalOrder'
  <2>1. SUFFICES ASSUME NEW e \in received', outbox'[e].previous # NoEffect
                 PROVE  outbox'[e].previous \in acked'
    BY DEF CausalOrder
  <2>2. e \in Enqueued /\ outbox'[e].previous = outbox[e].previous
    BY <2>1 DEF HistoryGrows, Evolves
  <2>3. CASE e \in received
    BY <2>1, <2>2, <2>3 DEF OrderInv, CausalOrder, HistoryGrows
  <2>4. CASE e \notin received
    BY <2>1, <2>2, <2>4 DEF OrderInv, GatesFollowDeliveries, CausallyReady, HistoryGrows
  <2>5. QED
    BY <2>3, <2>4
<1>6. PlainDeliveredWasReceived'
  BY <1>1 DEF OrderInv, PlainDeliveredWasReceived, Evolves, HistoryGrows
<1>7. QED
  BY <1>2, <1>3, <1>4, <1>5, <1>6 DEF OrderInv

\* An insertion keeps it if the new document's gate is open only behind a
\* delivered effect.
LEMMA InsertStep ==
    ASSUME OrderInv, TypeOK', NEW e \in Effects, outbox[e] = NoEffect,
           NEW d \in Docs, outbox' = [outbox EXCEPT ![e] = d],
           d.predecessorDelivered => d.previous \in acked \cup {NoEffect},
           d.status # "delivered",
           UNCHANGED <<job, replay, received, acked>>,
           \A q \in Enqueuers :
               enq'[q].stage = "checked" => enq'[q] = enq[q]
    PROVE  OrderInv'
<1>1. /\ Enqueued' = Enqueued \cup {e} /\ e \notin Enqueued
      /\ outbox'[e] = d /\ \A f \in Enqueued : outbox'[f] = outbox[f]
  BY NoEffectIsNoDoc DEF OrderInv, TypeOK, Enqueued
<1>2. GatesFollowDeliveries'
  BY <1>1 DEF OrderInv, GatesFollowDeliveries
<1>3. HistoryIsOfTheOutbox'
  BY <1>1 DEF OrderInv, HistoryIsOfTheOutbox
<1>4. JobsAreReady'
  BY <1>1 DEF OrderInv, JobsAreReady, ReadyFor, CausallyReady
<1>5. CausalOrder'
  BY <1>1 DEF OrderInv, HistoryIsOfTheOutbox, CausalOrder
<1>6. PlainDeliveredWasReceived'
  BY <1>1 DEF OrderInv, HistoryIsOfTheOutbox, PlainDeliveredWasReceived
<1>7. QED
  BY <1>2, <1>3, <1>4, <1>5, <1>6 DEF OrderInv

\* A document that is only read stays as it is.
LEMMA SameDocuments ==
    ASSUME OrderInv, outbox' = outbox, acked \subseteq acked'
    PROVE  Evolves /\ NoNewEffect
<1>1. \A e \in Enqueued : outbox[e] \in Docs /\ (outbox[e].status = "delivered" => e \in acked)
  BY DEF OrderInv, TypeOK, Enqueued, HistoryIsOfTheOutbox
<1>2. QED
  BY <1>1 DEF Evolves, NoNewEffect

-----------------------------------------------------------------------------
(* The steps. *)

\* One document is replaced by one with the same link and gate.
LEMMA OneDocument ==
    ASSUME OrderInv, NEW e \in Enqueued, NEW d \in Docs,
           outbox' = [outbox EXCEPT ![e] = d],
           d.kind = outbox[e].kind, d.previous = outbox[e].previous,
           d.predecessorDelivered = outbox[e].predecessorDelivered,
           d.status = "delivered" => e \in acked',
           acked \subseteq acked'
    PROVE  Evolves /\ NoNewEffect /\ outbox' \in [Effects -> Docs \cup {NoEffect}]
<1>1. /\ outbox \in [Effects -> Docs \cup {NoEffect}] /\ e \in Effects /\ outbox[e] # NoEffect
      /\ \A f \in Enqueued : f \in Effects /\ outbox[f] \in Docs
                             /\ (outbox[f].status = "delivered" => f \in acked)
  BY DEF OrderInv, TypeOK, Enqueued, HistoryIsOfTheOutbox
<1>2. outbox'[e] = d /\ \A f \in Effects \ {e} : outbox'[f] = outbox[f]
  BY <1>1
<1>3. QED
  BY <1>1, <1>2 DEF Evolves, NoNewEffect

\* A lease and a replay rewrite the delivery part of a document only.
LEMMA RewrittenDoc ==
    ASSUME NEW d \in Docs
    PROVE  /\ Leased(d) \in Docs /\ Leased(d).kind = d.kind
           /\ Leased(d).previous = d.previous
           /\ Leased(d).predecessorDelivered = d.predecessorDelivered
           /\ Leased(d).status = "leased"
           /\ BackInQueue(d) \in Docs /\ BackInQueue(d).kind = d.kind
           /\ BackInQueue(d).previous = d.previous
           /\ BackInQueue(d).predecessorDelivered = d.predecessorDelivered
           /\ BackInQueue(d).status = "pending"
<1>1. /\ d.attemptCount + 1 \in Nat /\ LeaseTtl \in 0..LeaseTtl
      /\ "leased" \in EffectStatus /\ "pending" \in EffectStatus
  BY OutboxConstants DEF Docs, EffectStatus
<1>2. Leased(d) = [d EXCEPT !.status = "leased", !.lease = LeaseTtl,
                            !.attemptCount = d.attemptCount + 1]
  BY DEF Leased
<1>3. QED
  BY <1>1, <1>2 DEF BackInQueue, Docs

\* What GoTo and EndJob do to the jobs.
Jobs == [stage : {"idle", "bury", "send", "ack", "unblock", "fail"},
         effect : Effects \cup {NoEffect}, age : 0..MaxJobTime]

LEMMA GoToJob ==
    ASSUME job \in [Workers -> Jobs], NEW w \in Workers,
           NEW s \in {"idle", "bury", "send", "ack", "unblock", "fail"}, GoTo(w, s)
    PROVE  /\ job' \in [Workers -> Jobs] /\ \A v \in Workers \ {w} : job'[v] = job[v]
           /\ job'[w].stage = s /\ job'[w].effect = job[w].effect
BY DEF GoTo, Jobs

LEMMA EndJobJob ==
    ASSUME job \in [Workers -> Jobs], 0 \in 0..MaxJobTime, NEW w \in Workers, EndJob(w)
    PROVE  /\ job' \in [Workers -> Jobs] /\ \A v \in Workers \ {w} : job'[v] = job[v]
           /\ job'[w].stage = "idle"
BY DEF EndJob, Jobs, NoJob

LEMMA StepKeepsOrder ==
    ASSUME OrderInv, [Next]_vars
    PROVE  OrderInv'
<1> USE DEF history, bounds
<1>0. /\ outbox \in [Effects -> Docs \cup {NoEffect}]
      /\ \A e \in Enqueued : outbox[e] \in Docs /\ e \in Effects
      /\ MaxJobTime \in Nat /\ LeaseTtl \in Nat /\ 0 \in 0..LeaseTtl /\ 0 \in 0..MaxJobTime
  BY OutboxConstants DEF OrderInv, TypeOK, Enqueued
\* Enqueuers.
<1>1. ASSUME NEW e \in Effects, EnqueuePlain(e) PROVE OrderInv'
  <2> DEFINE d == NewDoc("plain", 0, NoEffect, TRUE)
  <2>1. d \in Docs /\ d.previous = NoEffect /\ d.status = "pending"
    BY <1>0 DEF NewDoc, Docs, EffectStatus
  <2>2. outbox' = [outbox EXCEPT ![e] = d] /\ outbox[e] = NoEffect
    BY <1>1 DEF EnqueuePlain, Enqueued
  <2> HIDE DEF d
  <2>3. TypeOK'
    BY <1>0, <1>1, <2>1, <2>2 DEF EnqueuePlain, OrderInv, TypeOK
  <2>4. QED
    BY <1>1, <2>1, <2>2, <2>3, InsertStep DEF EnqueuePlain
<1>2. ASSUME NEW q \in Enqueuers, GetNextCausalLink(q) \/ CheckPredecessor(q) PROVE OrderInv'
  <2>1. /\ enq' \in [Enqueuers -> [stage : {"idle", "linked", "checked"},
                                   version : Nat,
                                   previous : Effects \cup {NoEffect},
                                   predecessorDelivered : BOOLEAN]]
        /\ \A r \in Enqueuers \ {q} : enq'[r] = enq[r]
        /\ enq'[q].stage = "checked" /\ enq'[q].predecessorDelivered =>
               enq'[q].previous \in acked \cup {NoEffect}
    <3>0. enq \in [Enqueuers -> [stage : {"idle", "linked", "checked"},
                                version : Nat,
                                previous : Effects \cup {NoEffect},
                                predecessorDelivered : BOOLEAN]]
      BY DEF OrderInv, TypeOK
    <3>1. CASE GetNextCausalLink(q)
      <4>1. PICK v \in Nat, p \in Effects \cup {NoEffect} :
                enq' = [enq EXCEPT ![q] = [stage |-> "linked", version |-> v,
                                           previous |-> p, predecessorDelivered |-> FALSE]]
        <5>1. CASE enq' = [enq EXCEPT ![q] = [stage |-> "linked", version |-> 1,
                              previous |-> NoEffect, predecessorDelivered |-> FALSE]]
          BY <5>1
        <5>2. ASSUME NEW latest \in Enqueued,
                     enq' = [enq EXCEPT ![q] =
                               [stage |-> "linked", version |-> outbox[latest].version + 1,
                                previous |-> latest, predecessorDelivered |-> FALSE]]
              PROVE  \E v \in Nat, p \in Effects \cup {NoEffect} :
                enq' = [enq EXCEPT ![q] = [stage |-> "linked", version |-> v,
                                           previous |-> p, predecessorDelivered |-> FALSE]]
          <6>1. outbox[latest].version + 1 \in Nat /\ latest \in Effects
            BY <1>0, <5>2 DEF Docs
          <6>2. QED
            BY <5>2, <6>1
        <5>3. QED
          BY <3>1, <5>1, <5>2 DEF GetNextCausalLink
      <4>2. QED
        BY <3>0, <4>1
    <3>2. CASE CheckPredecessor(q)
      <4>1. PredecessorDone(enq[q].previous) \in BOOLEAN
        BY DEF PredecessorDone
      <4>2. PredecessorDone(enq[q].previous) => enq[q].previous \in acked \cup {NoEffect}
        BY <3>0 DEF PredecessorDone, Status, OrderInv, HistoryIsOfTheOutbox, Enqueued
      <4>3. enq' = [enq EXCEPT ![q] = [enq[q] EXCEPT !.stage = "checked",
                        !.predecessorDelivered = PredecessorDone(enq[q].previous)]]
        BY <3>2 DEF CheckPredecessor
      <4>4. QED
        BY <3>0, <4>1, <4>2, <4>3
    <3>3. QED
      BY <1>2, <3>1, <3>2
  <2>2. UNCHANGED <<outbox, job, replay, received, acked, failures, replays>>
    BY <1>2 DEF GetNextCausalLink, CheckPredecessor
  <2>3. TypeOK'
    BY <2>1, <2>2 DEF OrderInv, TypeOK
  <2>4. GatesFollowDeliveries'
    BY <2>1, <2>2 DEF OrderInv, GatesFollowDeliveries, Enqueued
  <2>5. QED
    BY <2>2, <2>3, <2>4 DEF OrderInv, HistoryIsOfTheOutbox, JobsAreReady, ReadyFor,
       CausallyReady, Enqueued, CausalOrder, PlainDeliveredWasReceived
<1>3. ASSUME NEW q \in Enqueuers, NEW e \in Effects, InsertEffect(q, e) PROVE OrderInv'
  <2> DEFINE d == NewDoc("webhook", enq[q].version, enq[q].previous,
                         enq[q].predecessorDelivered)
  <2>1. /\ d \in Docs /\ d.status = "pending" /\ d.previous = enq[q].previous
        /\ d.predecessorDelivered = enq[q].predecessorDelivered
    <3>1. /\ enq[q].version \in Nat /\ enq[q].previous \in Effects \cup {NoEffect}
          /\ enq[q].predecessorDelivered \in BOOLEAN
      BY DEF OrderInv, TypeOK
    <3>2. QED
      BY <1>0, <3>1 DEF NewDoc, Docs, EffectStatus
  <2>2. d.predecessorDelivered => d.previous \in acked \cup {NoEffect}
    BY <1>3, <2>1 DEF InsertEffect, OrderInv, GatesFollowDeliveries
  <2>3. /\ outbox' = [outbox EXCEPT ![e] = d] /\ outbox[e] = NoEffect
        /\ enq' = [enq EXCEPT ![q] = NoLink]
        /\ UNCHANGED <<job, replay, history, bounds>>
    BY <1>3 DEF InsertEffect, Enqueued
  <2> HIDE DEF d
  <2>4. /\ enq' \in [Enqueuers -> [stage : {"idle", "linked", "checked"},
                                   version : Nat,
                                   previous : Effects \cup {NoEffect},
                                   predecessorDelivered : BOOLEAN]]
        /\ \A r \in Enqueuers : enq'[r].stage = "checked" => enq'[r] = enq[r]
    BY <2>3 DEF OrderInv, TypeOK, NoLink
  <2>5. TypeOK'
    BY <1>0, <2>1, <2>3, <2>4 DEF OrderInv, TypeOK
  <2>6. QED
    BY <2>1, <2>2, <2>3, <2>4, <2>5, InsertStep
\* Workers.
<1>4. job \in [Workers -> Jobs]
  BY DEF OrderInv, TypeOK, Jobs
<1>5. ASSUME NEW w \in Workers, job[w].stage # "idle"
      PROVE  /\ ReadyFor(job[w].stage, job[w].effect)
             /\ job[w].effect \in Enqueued /\ outbox[job[w].effect] \in Docs
  BY <1>0, <1>5 DEF OrderInv, JobsAreReady, ReadyFor
\* A worker's step that leaves the documents alone.
<1>6. ASSUME NEW w \in Workers, job' \in [Workers -> Jobs],
             \A v \in Workers \ {w} : job'[v] = job[v],
             job[w].stage # "idle",
             job'[w].stage # "idle" =>
                 /\ job'[w].effect = job[w].effect
                 /\ job'[w].stage \in {"ack", "fail"}
                 /\ job'[w].stage = "ack" /\ outbox[job[w].effect].kind = "plain" =>
                        job[w].effect \in received',
             received' \in {received, received \cup {job[w].effect}},
             UNCHANGED <<outbox, enq, replay, acked, replays>>,
             failures' \in 0..MaxFailures
      PROVE  OrderInv'
  <2>1. ReadyFor(job[w].stage, job[w].effect) /\ job[w].effect \in Enqueued
    BY <1>5, <1>6
  <2>2. TypeOK'
    BY <1>0, <1>6, <2>1 DEF OrderInv, TypeOK, Jobs
  <2>3. Evolves /\ NoNewEffect
    BY <1>6, SameDocuments
  <2>4. HistoryGrows
    BY <1>6, <2>1 DEF HistoryGrows, OrderInv, HistoryIsOfTheOutbox, ReadyFor
  <2>5. \A v \in Workers : job'[v].stage # "idle" =>
               /\ job'[v].effect \in Enqueued
               /\ CausallyReady(outbox[job'[v].effect])
               /\ job'[v].stage = "unblock" => job'[v].effect \in acked'
               /\ job'[v].stage = "ack" /\ outbox[job'[v].effect].kind = "plain" =>
                      job'[v].effect \in received'
    BY <1>5, <1>6, <2>1 DEF ReadyFor
  <2>6. QED
    BY <1>6, <2>2, <2>3, <2>4, <2>5, DeliveryStep DEF OrderInv, HistoryIsOfTheOutbox
\* A step of a worker that writes one document.
<1>7. ASSUME NEW w \in Workers, NEW e \in Enqueued, NEW d \in Docs,
             job' \in [Workers -> Jobs],
             \A v \in Workers \ {w} : job'[v] = job[v],
             job'[w].stage # "idle" =>
                 /\ job'[w].effect = e /\ CausallyReady(outbox[e])
                 /\ job'[w].stage # "ack"
                 /\ job'[w].stage = "unblock" => e \in acked',
             outbox' = [outbox EXCEPT ![e] = d],
             d.kind = outbox[e].kind, d.previous = outbox[e].previous,
             d.predecessorDelivered = outbox[e].predecessorDelivered,
             d.status = "delivered" => e \in acked',
             acked' \in {acked, acked \cup {e}},
             acked' # acked => (outbox[e].kind = "plain" => e \in received),
             UNCHANGED <<enq, replay, received, bounds>>
      PROVE  OrderInv'
  <2>1. Evolves /\ NoNewEffect /\ outbox' \in [Effects -> Docs \cup {NoEffect}]
    BY <1>7, OneDocument
  <2>2. TypeOK'
    BY <1>0, <1>7, <2>1 DEF OrderInv, TypeOK, Jobs
  <2>3. HistoryGrows
    BY <1>7 DEF HistoryGrows, OrderInv, HistoryIsOfTheOutbox
  <2>4. \A v \in Workers : job'[v].stage # "idle" =>
               /\ job'[v].effect \in Enqueued
               /\ CausallyReady(outbox[job'[v].effect])
               /\ job'[v].stage = "unblock" => job'[v].effect \in acked'
               /\ job'[v].stage = "ack" /\ outbox[job'[v].effect].kind = "plain" =>
                      job'[v].effect \in received'
    BY <1>5, <1>7 DEF ReadyFor
  <2>5. QED
    BY <1>7, <2>1, <2>2, <2>3, <2>4, DeliveryStep DEF OrderInv, HistoryIsOfTheOutbox
<1>8. ASSUME NEW w \in Workers, NEW e \in Effects, LeaseNextIntent(w, e) PROVE OrderInv'
  <2> DEFINE d == Leased(outbox[e])
             j == [stage |-> IF Exhausted(outbox'[e]) THEN "bury" ELSE "send",
                   effect |-> e, age |-> 0]
  <2>1. /\ e \in Enqueued /\ CausallyReady(outbox[e]) /\ outbox' = [outbox EXCEPT ![e] = d]
        /\ job' = [job EXCEPT ![w] = j]
        /\ UNCHANGED <<enq, replay, history, bounds>>
    BY <1>8 DEF LeaseNextIntent
  <2>2. /\ d \in Docs /\ d.kind = outbox[e].kind /\ d.previous = outbox[e].previous
        /\ d.predecessorDelivered = outbox[e].predecessorDelivered /\ d.status = "leased"
    BY <1>0, <2>1, RewrittenDoc
  <2>3. j \in Jobs /\ j.stage \in {"bury", "send"} /\ j.effect = e
    BY <1>0 DEF Jobs
  <2> HIDE DEF d, j
  <2>4. job' \in [Workers -> Jobs] /\ job'[w] = j /\ \A v \in Workers \ {w} : job'[v] = job[v]
    BY <1>4, <2>1, <2>3
  <2>5. QED
    BY <1>7, <2>1, <2>2, <2>3, <2>4
<1>9. ASSUME NEW w \in Workers, Bury(w) PROVE OrderInv'
  <2> DEFINE e == job[w].effect
             d == [outbox[e] EXCEPT !.status = "dead_letter"]
  <2>1. e \in Enqueued /\ outbox[e] \in Docs
    BY <1>5, <1>9 DEF Bury
  <2>2. /\ d \in Docs /\ d.kind = outbox[e].kind /\ d.previous = outbox[e].previous
        /\ d.predecessorDelivered = outbox[e].predecessorDelivered /\ d.status = "dead_letter"
    BY <2>1 DEF Docs, EffectStatus
  <2>3. outbox' = [outbox EXCEPT ![e] = d] /\ EndJob(w)
        /\ UNCHANGED <<enq, replay, history, bounds>>
    BY <1>9 DEF Bury
  <2> HIDE DEF d, e
  <2>4. QED
    BY <1>0, <1>4, <1>7, <2>1, <2>2, <2>3, EndJobJob
<1>10. ASSUME NEW w \in Workers, SendReaches(w) PROVE OrderInv'
  BY <1>4, <1>6, <1>10, GoToJob DEF SendReaches, OrderInv, TypeOK
<1>11. ASSUME NEW w \in Workers, SendThrows(w) PROVE OrderInv'
  BY <1>4, <1>6, <1>11, GoToJob DEF SendThrows, OrderInv, TypeOK
<1>12. ASSUME NEW w \in Workers, WebhookGivesUp(w) PROVE OrderInv'
  BY <1>4, <1>6, <1>12, GoToJob DEF WebhookGivesUp, OrderInv, TypeOK
<1>13. ASSUME NEW w \in Workers, Acknowledge(w) PROVE OrderInv'
  <2> DEFINE e == job[w].effect
             d == [outbox[e] EXCEPT !.status = "delivered", !.deliveredAt = TRUE]
  <2>1. e \in Enqueued /\ outbox[e] \in Docs /\ ReadyFor("ack", e)
    BY <1>5, <1>13 DEF Acknowledge
  <2>2. CASE outbox[e].status = "delivered"
    BY <1>0, <1>4, <1>6, <1>13, <2>2, EndJobJob DEF Acknowledge, OrderInv, TypeOK
  <2>3. CASE outbox[e].status # "delivered"
    <3>1. /\ d \in Docs /\ d.kind = outbox[e].kind /\ d.previous = outbox[e].previous
          /\ d.predecessorDelivered = outbox[e].predecessorDelivered
      BY <2>1 DEF Docs, EffectStatus
    <3>2. outbox' = [outbox EXCEPT ![e] = d] /\ GoTo(w, "unblock")
          /\ acked' = acked \cup {e}
          /\ UNCHANGED <<enq, replay, received, bounds>>
      BY <1>13, <2>3 DEF Acknowledge
    <3>3. CausallyReady(outbox[e]) /\ (outbox[e].kind = "plain" => e \in received)
      BY <2>1 DEF ReadyFor
    <3>4. /\ job' \in [Workers -> Jobs] /\ \A v \in Workers \ {w} : job'[v] = job[v]
          /\ job'[w].stage = "unblock" /\ job'[w].effect = e
      BY <1>4, <3>2, GoToJob
    <3> HIDE DEF d, e
    <3>5. QED
      BY <1>7, <2>1, <3>1, <3>2, <3>3, <3>4
  <2>4. QED
    BY <2>2, <2>3
<1>14. ASSUME NEW w \in Workers, RescheduleIntent(w) PROVE OrderInv'
  <2> DEFINE e == job[w].effect
             d == [outbox[e] EXCEPT !.status = "pending", !.due = FALSE]
  <2>1. e \in Enqueued /\ outbox[e] \in Docs
    BY <1>5, <1>14 DEF RescheduleIntent
  <2>2. /\ d \in Docs /\ d.kind = outbox[e].kind /\ d.previous = outbox[e].previous
        /\ d.predecessorDelivered = outbox[e].predecessorDelivered /\ d.status = "pending"
    BY <2>1 DEF Docs, EffectStatus
  <2>3. outbox' = [outbox EXCEPT ![e] = d] /\ EndJob(w)
        /\ UNCHANGED <<enq, replay, history, bounds>>
    BY <1>14 DEF RescheduleIntent
  <2> HIDE DEF d, e
  <2>4. QED
    BY <1>0, <1>4, <1>7, <2>1, <2>2, <2>3, EndJobJob
<1>15. ASSUME NEW w \in Workers, CallFails(w) \/ Crash(w) PROVE OrderInv'
  <2>1. failures' \in 0..MaxFailures
    BY <1>15, OutboxConstants DEF CallFails, Crash, OrderInv, TypeOK
  <2>2. CASE CallFails(w)
    BY <1>4, <1>6, <2>1, <2>2, GoToJob DEF CallFails
  <2>3. CASE Crash(w)
    BY <1>0, <1>4, <1>6, <2>1, <2>3, EndJobJob DEF Crash
  <2>4. QED
    BY <1>15, <2>2, <2>3
<1>16. ASSUME NEW w \in Workers, UnblockSuccessors(w) PROVE OrderInv'
  <2> DEFINE a == job[w].effect
  <2>1. /\ a \in Enqueued /\ a \in acked
        /\ EndJob(w) /\ UNCHANGED <<enq, replay, history, bounds>>
        /\ outbox' = [e \in Effects |->
               IF e \in Enqueued /\ outbox[e].previous = a
               THEN [outbox[e] EXCEPT !.predecessorDelivered = TRUE]
               ELSE outbox[e]]
    BY <1>5, <1>16 DEF UnblockSuccessors, ReadyFor
  <2>2. \A e \in Enqueued : [outbox[e] EXCEPT !.predecessorDelivered = TRUE] \in Docs
    <3>1. \A d \in Docs : [d EXCEPT !.predecessorDelivered = TRUE] \in Docs
      BY DEF Docs
    <3>2. QED
      BY <1>0, <3>1
  <2> HIDE DEF a
  <2>3. Evolves
    <3>1. SUFFICES ASSUME NEW e \in Enqueued
                   PROVE  /\ outbox'[e] \in Docs
                          /\ outbox'[e].kind = outbox[e].kind
                          /\ outbox'[e].previous = outbox[e].previous
                          /\ outbox[e].predecessorDelivered => outbox'[e].predecessorDelivered
                          /\ outbox'[e].predecessorDelivered =>
                                outbox[e].predecessorDelivered \/ outbox[e].previous \in acked
                          /\ outbox'[e].status = "delivered" => e \in acked'
      BY DEF Evolves
    <3>2. e \in Effects /\ outbox[e] \in Docs
          /\ (outbox[e].status = "delivered" => e \in acked)
      BY <1>0 DEF OrderInv, HistoryIsOfTheOutbox
    <3>3. CASE outbox[e].previous = a
      <4>1. outbox'[e] = [outbox[e] EXCEPT !.predecessorDelivered = TRUE]
        BY <2>1, <3>2, <3>3
      <4>2. QED
        BY <2>1, <2>2, <3>2, <3>3, <4>1 DEF Docs
    <3>4. CASE outbox[e].previous # a
      BY <2>1, <3>2, <3>4
    <3>5. QED
      BY <3>3, <3>4
  <2>4. NoNewEffect /\ outbox' \in [Effects -> Docs \cup {NoEffect}]
    BY <1>0, <2>1, <2>2 DEF NoNewEffect, Enqueued
  <2>5. /\ job' \in [Workers -> Jobs] /\ \A v \in Workers \ {w} : job'[v] = job[v]
        /\ job'[w].stage = "idle"
    BY <1>0, <1>4, <2>1, EndJobJob
  <2>6. TypeOK'
    BY <2>1, <2>4, <2>5 DEF OrderInv, TypeOK, Jobs
  <2>7. HistoryGrows
    BY <2>1 DEF HistoryGrows, OrderInv, HistoryIsOfTheOutbox
  <2>8. \A v \in Workers : job'[v].stage # "idle" =>
            /\ job'[v] = job[v] /\ ReadyFor(job[v].stage, job[v].effect)
    BY <1>5, <2>5
  <2>9. QED
    BY <2>1, <2>3, <2>4, <2>6, <2>7, <2>8, DeliveryStep
       DEF ReadyFor, OrderInv, HistoryIsOfTheOutbox
\* Operator and time.
<1>17. ASSUME TypeOK', Evolves, NoNewEffect, UNCHANGED <<enq, received, acked>>,
              replay'.left \subseteq Enqueued,
              \A w \in Workers : job'[w].stage # "idle" =>
                  job'[w].stage = job[w].stage /\ job'[w].effect = job[w].effect
       PROVE  OrderInv'
  <2>1. HistoryGrows
    BY <1>17 DEF HistoryGrows, OrderInv, HistoryIsOfTheOutbox
  <2>2. \A w \in Workers : job'[w].stage # "idle" =>
            /\ job'[w].stage = job[w].stage /\ job'[w].effect = job[w].effect
            /\ ReadyFor(job[w].stage, job[w].effect)
    BY <1>5, <1>17
  <2>3. QED
    BY <1>17, <2>1, <2>2, DeliveryStep DEF ReadyFor
<1>18. ASSUME NEW e \in Effects, RetryFailedOutboxEntry(e) PROVE OrderInv'
  <2> DEFINE d == BackInQueue(outbox[e])
  <2>1. /\ e \in Enqueued /\ outbox' = [outbox EXCEPT ![e] = d]
        /\ replays' \in 0..MaxReplays
        /\ UNCHANGED <<enq, job, replay, history, failures>>
    BY <1>18, OutboxConstants DEF RetryFailedOutboxEntry, Status, Enqueued, OrderInv, TypeOK
  <2>2. /\ d \in Docs /\ d.kind = outbox[e].kind /\ d.previous = outbox[e].previous
        /\ d.predecessorDelivered = outbox[e].predecessorDelivered /\ d.status = "pending"
    BY <1>0, <2>1, RewrittenDoc
  <2> HIDE DEF d
  <2>3. Evolves /\ NoNewEffect /\ outbox' \in [Effects -> Docs \cup {NoEffect}]
    BY <2>1, <2>2, OneDocument
  <2>4. TypeOK'
    BY <2>1, <2>3 DEF OrderInv, TypeOK
  <2>5. QED
    BY <1>17, <2>1, <2>3, <2>4 DEF OrderInv, HistoryIsOfTheOutbox
<1>19. ASSUME ReplayDeadLetters \/ ReplaySource PROVE OrderInv'
  <2>1. PICK k \in {"dead_letters", "source"}, S \in SUBSET Enqueued : ReplayRead(k, S)
    BY <1>19 DEF ReplayDeadLetters, ReplaySource
  <2>2. /\ replay' = [kind |-> k, left |-> S] /\ S \in SUBSET Effects
        /\ replays' \in 0..MaxReplays
        /\ UNCHANGED <<outbox, enq, job, history, failures>>
    BY <2>1, OutboxConstants DEF ReplayRead, OrderInv, TypeOK, Enqueued
  <2>3. TypeOK'
    BY <2>2 DEF OrderInv, TypeOK
  <2>4. QED
    BY <1>17, <2>2, <2>3, SameDocuments
<1>20. ASSUME ReplayDeadLettersWrite PROVE OrderInv'
  <2>1. /\ outbox' = [e \in Effects |-> IF e \in replay.left
                                       THEN BackInQueue(outbox[e]) ELSE outbox[e]]
        /\ replay' = NoReplay /\ UNCHANGED <<enq, job, history, bounds>>
    BY <1>20 DEF ReplayDeadLettersWrite
  <2>2. \A e \in Enqueued :
            /\ BackInQueue(outbox[e]) \in Docs
            /\ BackInQueue(outbox[e]).kind = outbox[e].kind
            /\ BackInQueue(outbox[e]).previous = outbox[e].previous
            /\ BackInQueue(outbox[e]).predecessorDelivered = outbox[e].predecessorDelivered
            /\ BackInQueue(outbox[e]).status = "pending"
    BY <1>0, RewrittenDoc
  <2>3. replay.left \subseteq Enqueued /\ (\A e \in Enqueued : outbox[e].status = "delivered" => e \in acked)
    BY DEF OrderInv, HistoryIsOfTheOutbox
  <2>4. Evolves
    BY <1>0, <2>1, <2>2, <2>3 DEF Evolves
  <2>5. NoNewEffect /\ outbox' \in [Effects -> Docs \cup {NoEffect}]
    BY <1>0, <2>1, <2>2, <2>3 DEF NoNewEffect, Enqueued
  <2>6. TypeOK'
    BY <2>1, <2>5 DEF OrderInv, TypeOK, NoReplay
  <2>7. QED
    BY <1>17, <2>1, <2>4, <2>5, <2>6 DEF NoReplay
<1>21. ASSUME NEW e \in Effects, ReplaySourceWrite(e) PROVE OrderInv'
  <2> DEFINE d == [BackInQueue(outbox[e]) EXCEPT !.deliveredAt = FALSE]
  <2>1. /\ e \in Enqueued /\ outbox' = [outbox EXCEPT ![e] = d]
        /\ UNCHANGED <<enq, job, history, bounds>>
    BY <1>21 DEF ReplaySourceWrite, OrderInv, HistoryIsOfTheOutbox
  <2>2. replay' \in [kind : {"none", "dead_letters", "source"}, left : SUBSET Effects]
        /\ replay'.left \subseteq Enqueued
    <3>1. replay \in [kind : {"none", "dead_letters", "source"}, left : SUBSET Effects]
          /\ replay.left \subseteq Enqueued
      BY DEF OrderInv, TypeOK, HistoryIsOfTheOutbox
    <3>2. replay' = NoReplay \/ replay' = [replay EXCEPT !.left = replay.left \ {e}]
      BY <1>21 DEF ReplaySourceWrite
    <3>3. QED
      BY <3>1, <3>2 DEF NoReplay
  <2>3. /\ d \in Docs /\ d.kind = outbox[e].kind /\ d.previous = outbox[e].previous
        /\ d.predecessorDelivered = outbox[e].predecessorDelivered /\ d.status = "pending"
    <3>1. /\ BackInQueue(outbox[e]) \in Docs /\ BackInQueue(outbox[e]).kind = outbox[e].kind
          /\ BackInQueue(outbox[e]).previous = outbox[e].previous
          /\ BackInQueue(outbox[e]).predecessorDelivered = outbox[e].predecessorDelivered
          /\ BackInQueue(outbox[e]).status = "pending"
      BY <1>0, <2>1, RewrittenDoc
    <3>2. QED
      BY <3>1 DEF Docs
  <2> HIDE DEF d
  <2>4. Evolves /\ NoNewEffect /\ outbox' \in [Effects -> Docs \cup {NoEffect}]
    BY <2>1, <2>3, OneDocument
  <2>5. TypeOK'
    BY <2>1, <2>2, <2>4 DEF OrderInv, TypeOK
  <2>6. QED
    BY <1>17, <2>1, <2>2, <2>4, <2>5
<1>22. ASSUME Tick PROVE OrderInv'
  <2> DEFINE aged(d) == [d EXCEPT !.due = TRUE, !.lease = IF d.lease > 0 THEN d.lease - 1 ELSE 0]
  <2>1. /\ outbox' = [e \in Effects |-> IF e \notin Enqueued THEN NoEffect
                                       ELSE aged(outbox[e])]
        /\ UNCHANGED <<enq, replay, history, bounds>>
    BY <1>22 DEF Tick
  <2>2. \A e \in Enqueued :
            /\ aged(outbox[e]) \in Docs /\ aged(outbox[e]).kind = outbox[e].kind
            /\ aged(outbox[e]).previous = outbox[e].previous
            /\ aged(outbox[e]).predecessorDelivered = outbox[e].predecessorDelivered
            /\ aged(outbox[e]).status = outbox[e].status
    <3>1. SUFFICES ASSUME NEW d \in Docs
                   PROVE  /\ aged(d) \in Docs /\ aged(d).kind = d.kind
                          /\ aged(d).previous = d.previous
                          /\ aged(d).predecessorDelivered = d.predecessorDelivered
                          /\ aged(d).status = d.status
      BY <1>0
    <3>2. (IF d.lease > 0 THEN d.lease - 1 ELSE 0) \in 0..LeaseTtl
      BY <1>0 DEF Docs
    <3>3. QED
      BY <3>2 DEF Docs
  <2> HIDE DEF aged
  <2>3. \A e \in Enqueued : outbox[e].status = "delivered" => e \in acked
    BY DEF OrderInv, HistoryIsOfTheOutbox
  <2>4. Evolves
    BY <1>0, <2>1, <2>2, <2>3 DEF Evolves
  <2>5. NoNewEffect /\ outbox' \in [Effects -> Docs \cup {NoEffect}]
    BY <1>0, <2>1, <2>2 DEF NoNewEffect, Enqueued
  <2>6. /\ job' \in [Workers -> Jobs]
        /\ \A w \in Workers : job'[w].stage = job[w].stage /\ job'[w].effect = job[w].effect
    <3>1. job' = [w \in Workers |-> IF job[w].stage = "idle" \/ JobsMayStall THEN job[w]
                                   ELSE [job[w] EXCEPT !.age = job[w].age + 1]]
      BY <1>22 DEF Tick
    <3>2. \A w \in Workers : job[w].stage # "idle" =>
              [job[w] EXCEPT !.age = job[w].age + 1] \in Jobs
      <4>1. SUFFICES ASSUME NEW w \in Workers, job[w].stage # "idle"
                     PROVE  [job[w] EXCEPT !.age = job[w].age + 1] \in Jobs
        OBVIOUS
      <4>2. job[w] \in Jobs /\ job[w].age < MaxJobTime
        BY <1>4, <1>22, <4>1 DEF Tick
      <4>3. job[w].age + 1 \in 0..MaxJobTime
        BY <1>0, <4>2 DEF Jobs
      <4>4. QED
        BY <4>2, <4>3 DEF Jobs
    <3>3. QED
      BY <1>4, <3>1, <3>2 DEF Jobs
  <2>7. TypeOK'
    BY <2>1, <2>5, <2>6 DEF OrderInv, TypeOK, Jobs
  <2>8. QED
    BY <1>17, <2>1, <2>4, <2>5, <2>6, <2>7 DEF OrderInv, HistoryIsOfTheOutbox
<1>23. ASSUME UNCHANGED vars PROVE OrderInv'
  BY <1>23 DEF vars, OrderInv, TypeOK, GatesFollowDeliveries, HistoryIsOfTheOutbox,
     JobsAreReady, ReadyFor, CausallyReady, CausalOrder, PlainDeliveredWasReceived, Enqueued
<1>24. QED
  BY <1>1, <1>2, <1>3, <1>8, <1>9, <1>10, <1>11, <1>12, <1>13, <1>14, <1>15, <1>16,
     <1>18, <1>19, <1>20, <1>21, <1>22, <1>23
     DEF Next, EnqueueStep, WorkerStep, OperatorStep

-----------------------------------------------------------------------------
(* The theorem. *)

\* Initially the outbox is empty.
LEMMA OrderHolds == Spec => []OrderInv
<1>1. Init => OrderInv
  <2> SUFFICES ASSUME Init PROVE OrderInv
    OBVIOUS
  <2>1. TypeOK
    BY OutboxConstants DEF Init, TypeOK, NoLink, NoJob, NoReplay
  <2>2. Enqueued = {} /\ \A w \in Workers : job[w].stage = "idle"
    BY DEF Init, Enqueued, NoJob
  <2>3. \A q \in Enqueuers : enq[q].stage = "idle"
    BY DEF Init, NoLink
  <2>4. QED
    BY <2>1, <2>2, <2>3 DEF Init, OrderInv, GatesFollowDeliveries, HistoryIsOfTheOutbox,
       JobsAreReady, CausalOrder, PlainDeliveredWasReceived, NoReplay
<1> QED
  BY <1>1, StepKeepsOrder, PTL DEF Spec

\* Whatever workers, enqueuers and operators do and however slow or often they
\* are, no effect reaches its receiver before the effect it is linked to was
\* delivered, and nothing but a webhook is called delivered that was not.
THEOREM DeliveryIsOrdered == Spec => []OrderedDelivery
<1>1. OrderInv => OrderedDelivery
  BY DEF OrderInv, OrderedDelivery
<1> QED
  BY <1>1, OrderHolds, PTL

-----------------------------------------------------------------------------
(* Leases.  While every worker finishes within its lease and no operator     *)
(* puts an effect back, the age of a job and what is left of its lease add   *)
(* up, so the lease cannot expire in its hands; and each attempt beyond      *)
(* maxAttempts is one whose worker crashed before it buried the effect.      *)

TimelyWorkers == MaxJobTime < LeaseTtl /\ MaxReplays = 0

HeldBy(w, e) == job[w].stage # "idle" /\ job[w].effect = e

LeaseHeld(w, e) ==
    /\ \/ outbox[e].status = "delivered"
       \/ outbox[e].status = "leased" /\ outbox[e].lease + job[w].age = LeaseTtl
    /\ job[w].stage # "bury" => outbox[e].attemptCount < maxAttempts

Counted(e) ==
    /\ outbox[e].attemptCount <= maxAttempts + failures
    /\ outbox[e].status \in {"pending", "delivered"} =>
          outbox[e].attemptCount < maxAttempts
    /\ outbox[e].status = "leased" /\ (\A w \in Workers : ~HeldBy(w, e)) =>
          outbox[e].attemptCount < maxAttempts + failures

LeaseInv ==
    /\ replay = NoReplay /\ replays = 0
    /\ \A w \in Workers, e \in Enqueued : HeldBy(w, e) => LeaseHeld(w, e)
    /\ \A v, w \in Workers, e \in Enqueued : HeldBy(v, e) /\ HeldBy(w, e) => v = w
    /\ \A w \in Workers : job[w].stage = "idle" => job[w].effect = NoEffect
    /\ \A e \in Enqueued : Counted(e)

\* A document whose delivery part is unchanged.
SameLease(e) ==
    /\ e \in Enqueued <=> e \in Enqueued'
    /\ outbox'[e].status = outbox[e].status
    /\ outbox'[e].lease = outbox[e].lease
    /\ outbox'[e].attemptCount = outbox[e].attemptCount

\* A step of one worker on one effect, in no other hands.
LEMMA OneHand ==
    ASSUME OrderInv, OrderInv', LeaseInv, NEW w \in Workers, NEW e \in Enqueued,
           \A v \in Workers \ {w} : job'[v] = job[v] /\ ~HeldBy(v, e),
           \A d \in Effects \ {e} : SameLease(d),
           job[w].stage # "idle" => job[w].effect = e,
           job'[w].stage # "idle" => job'[w].effect = e /\ LeaseHeld(w, e)',
           job'[w].stage = "idle" => job'[w].effect = NoEffect,
           Counted(e)', e \in Enqueued',
           failures \in Nat, failures' \in Nat, failures <= failures',
           UNCHANGED <<replay, replays>>
    PROVE  LeaseInv'
<1>1. \A v \in Workers \ {w}, d \in Effects : HeldBy(v, d)' <=> HeldBy(v, d)
  BY DEF HeldBy
<1>2. \A d \in Effects \ {e} : ~HeldBy(w, d) /\ ~HeldBy(w, d)'
  BY DEF HeldBy
<1>3. \A v \in Workers, d \in Effects \ {e} : HeldBy(v, d)' <=> HeldBy(v, d)
  BY <1>1, <1>2
<1>4. \A v \in Workers \ {w} : ~HeldBy(v, e)'
  BY <1>1 DEF Enqueued
<1>5. ASSUME NEW v \in Workers, NEW d \in Enqueued', HeldBy(v, d)'
      PROVE  LeaseHeld(v, d)'
  <2>1. CASE d = e
    <3>1. v = w
      BY <1>4, <1>5, <2>1
    <3> QED
      BY <1>5, <2>1, <3>1 DEF HeldBy
  <2>2. CASE d # e
    <3>1. d \in Effects /\ d \in Enqueued /\ SameLease(d)
      BY <2>2 DEF Enqueued, SameLease
    <3>2. HeldBy(v, d) /\ v # w
      BY <1>2, <1>3, <1>5, <2>2, <3>1
    <3>3. LeaseHeld(v, d) /\ job'[v] = job[v]
      BY <3>1, <3>2 DEF LeaseInv
    <3> QED
      BY <3>1, <3>3 DEF LeaseHeld, SameLease
  <2> QED
    BY <2>1, <2>2
<1>6. ASSUME NEW u \in Workers, NEW v \in Workers, NEW d \in Enqueued',
             HeldBy(u, d)', HeldBy(v, d)'
      PROVE  u = v
  <2>1. CASE d = e
    BY <1>4, <1>6, <2>1
  <2>2. CASE d # e
    <3>1. d \in Effects /\ d \in Enqueued
      BY <2>2 DEF Enqueued, SameLease
    <3> QED
      BY <1>3, <1>6, <2>2, <3>1 DEF LeaseInv
  <2> QED
    BY <2>1, <2>2
<1>7. ASSUME NEW d \in Enqueued' PROVE Counted(d)'
  <2>1. CASE d = e
    BY <2>1
  <2>2. CASE d # e
    <3>1. d \in Effects /\ d \in Enqueued /\ SameLease(d)
      BY <2>2 DEF Enqueued, SameLease
    <3>2. outbox[d].attemptCount \in Nat /\ maxAttempts \in Nat
      BY <3>1, OutboxConstants, NoEffectIsNoDoc DEF OrderInv, TypeOK, Enqueued, Docs
    <3>3. Counted(d) /\ \A v \in Workers : HeldBy(v, d)' <=> HeldBy(v, d)
      BY <1>3, <2>2, <3>1 DEF LeaseInv
    <3>4. /\ outbox[d].attemptCount <= maxAttempts + failures'
          /\ outbox[d].attemptCount < maxAttempts + failures =>
               outbox[d].attemptCount < maxAttempts + failures'
      BY <3>2, <3>3 DEF Counted
    <3> QED
      BY <3>1, <3>3, <3>4 DEF Counted, SameLease
  <2> QED
    BY <2>1, <2>2
<1>8. \A v \in Workers : job'[v].stage = "idle" => job'[v].effect = NoEffect
  BY DEF LeaseInv
<1> QED
  BY <1>5, <1>6, <1>7, <1>8 DEF LeaseInv

\* A step of an enqueuer: what it inserts is pending and was never leased.
LEMMA OnlyInserts ==
    ASSUME OrderInv, LeaseInv, job' = job,
           \A d \in Enqueued : SameLease(d),
           \A d \in Enqueued' \ Enqueued :
               outbox'[d].status = "pending" /\ outbox'[d].attemptCount = 0,
           UNCHANGED <<failures, replay, replays>>
    PROVE  LeaseInv'
<1>0. maxAttempts \in Nat /\ maxAttempts > 0 /\ failures \in Nat
  BY OutboxConstants DEF OrderInv, TypeOK
<1>1. \A v \in Workers, d \in Effects : HeldBy(v, d)' <=> HeldBy(v, d)
  BY DEF HeldBy
<1>2. \A v \in Workers, d \in Effects : HeldBy(v, d) => d \in Enqueued
  BY DEF HeldBy, OrderInv, JobsAreReady, ReadyFor
<1>3. Enqueued' \subseteq Effects
  BY DEF Enqueued
<1>4. ASSUME NEW v \in Workers, NEW d \in Enqueued', HeldBy(v, d)'
      PROVE  LeaseHeld(v, d)'
  <2>1. d \in Enqueued /\ HeldBy(v, d)
    BY <1>1, <1>2, <1>3, <1>4
  <2> QED
    BY <2>1 DEF LeaseInv, LeaseHeld, SameLease
<1>5. \A u, v \in Workers, d \in Enqueued' : HeldBy(u, d)' /\ HeldBy(v, d)' => u = v
  BY <1>1, <1>2, <1>3 DEF LeaseInv
<1>6. ASSUME NEW d \in Enqueued' PROVE Counted(d)'
  <2>1. CASE d \in Enqueued
    <3>1. Counted(d) /\ SameLease(d) /\ \A v \in Workers : HeldBy(v, d)' <=> HeldBy(v, d)
      BY <1>1, <1>3, <2>1 DEF LeaseInv
    <3> QED
      BY <3>1 DEF Counted, SameLease
  <2>2. CASE d \notin Enqueued
    BY <1>0, <2>2 DEF Counted
  <2> QED
    BY <2>1, <2>2
<1> QED
  BY <1>4, <1>5, <1>6 DEF LeaseInv

\* Only an effect that is in no hands can be leased.
LEMMA LeasedFromNobody ==
    ASSUME OrderInv, LeaseInv, TimelyWorkers, NEW e \in Enqueued, Available(outbox[e])
    PROVE  \A v \in Workers : ~HeldBy(v, e)
<1> SUFFICES ASSUME NEW v \in Workers, HeldBy(v, e) PROVE FALSE
  OBVIOUS
<1>1. LeaseHeld(v, e)
  BY DEF LeaseInv
<1>2. job[v].age \in 0..MaxJobTime
  BY DEF OrderInv, TypeOK
<1>3. LeaseTtl \in Nat /\ MaxJobTime \in Nat
  BY OutboxConstants
<1>4. outbox[e].lease = 0 /\ outbox[e].lease + job[v].age = LeaseTtl
  BY <1>1 DEF LeaseHeld, Available
<1> QED
  BY <1>2, <1>3, <1>4 DEF TimelyWorkers

LEMMA StepKeepsLeases ==
    ASSUME OrderInv, OrderInv', LeaseInv, TimelyWorkers, [Next]_vars
    PROVE  LeaseInv'
<1> USE DEF history, bounds
<1>0. /\ outbox \in [Effects -> Docs \cup {NoEffect}]
      /\ \A e \in Enqueued : outbox[e] \in Docs /\ e \in Effects
      /\ job \in [Workers -> Jobs]
      /\ MaxJobTime \in Nat /\ LeaseTtl \in Nat /\ maxAttempts \in Nat /\ maxAttempts > 0
      /\ failures \in Nat /\ failures' \in Nat /\ replays = 0 /\ MaxReplays = 0
      /\ 0 \in 0..MaxJobTime /\ replay = NoReplay
  BY OutboxConstants DEF OrderInv, TypeOK, Enqueued, Jobs, LeaseInv, TimelyWorkers
\* Enqueuers.
<1>1. ASSUME NEW e \in Effects, NEW d \in Docs, outbox[e] = NoEffect,
             outbox' = [outbox EXCEPT ![e] = d],
             d.status = "pending", d.attemptCount = 0,
             job' = job, UNCHANGED <<failures, replay, replays>>
      PROVE  LeaseInv'
  <2>1. d # NoEffect
    BY NoEffectIsNoDoc
  <2>2. \A f \in Enqueued : SameLease(f)
    BY <1>0, <1>1, <2>1 DEF SameLease, Enqueued
  <2>3. \A f \in Enqueued' \ Enqueued : f = e
    BY <1>0, <1>1 DEF Enqueued
  <2>4. outbox'[e] = d
    BY <1>0, <1>1
  <2> QED
    BY <1>1, <2>2, <2>3, <2>4, OnlyInserts
<1>2. ASSUME NEW e \in Effects, EnqueuePlain(e) PROVE LeaseInv'
  <2> DEFINE d == NewDoc("plain", 0, NoEffect, TRUE)
  <2>1. d \in Docs /\ d.status = "pending" /\ d.attemptCount = 0
    BY <1>0 DEF NewDoc, Docs, EffectStatus
  <2>2. outbox' = [outbox EXCEPT ![e] = d] /\ outbox[e] = NoEffect
    BY <1>2 DEF EnqueuePlain, Enqueued
  <2> HIDE DEF d
  <2> QED
    BY <1>1, <1>2, <2>1, <2>2 DEF EnqueuePlain
<1>3. ASSUME NEW q \in Enqueuers, NEW e \in Effects, InsertEffect(q, e) PROVE LeaseInv'
  <2> DEFINE d == NewDoc("webhook", enq[q].version, enq[q].previous,
                         enq[q].predecessorDelivered)
  <2>1. d \in Docs /\ d.status = "pending" /\ d.attemptCount = 0
    BY <1>0 DEF NewDoc, Docs, EffectStatus, OrderInv, TypeOK
  <2>2. outbox' = [outbox EXCEPT ![e] = d] /\ outbox[e] = NoEffect
    BY <1>3 DEF InsertEffect, Enqueued
  <2> HIDE DEF d
  <2> QED
    BY <1>1, <1>3, <2>1, <2>2 DEF InsertEffect
<1>4. ASSUME UNCHANGED <<outbox, job, failures, replay, replays>> PROVE LeaseInv'
  BY <1>4 DEF LeaseInv, HeldBy, LeaseHeld, Counted, Enqueued
<1>5. ASSUME NEW q \in Enqueuers, GetNextCausalLink(q) \/ CheckPredecessor(q)
      PROVE  LeaseInv'
  BY <1>4, <1>5 DEF GetNextCausalLink, CheckPredecessor
\* A worker and its effect.
<1>6. ASSUME NEW w \in Workers, job[w].stage # "idle"
      PROVE  \E e \in Enqueued :
               /\ e = job[w].effect /\ e \in Effects /\ HeldBy(w, e) /\ LeaseHeld(w, e)
               /\ Counted(e) /\ \A v \in Workers \ {w} : ~HeldBy(v, e)
  <2>1. job[w].effect \in Enqueued
    BY <1>6 DEF OrderInv, JobsAreReady, ReadyFor
  <2>2. HeldBy(w, job[w].effect)
    BY <1>6 DEF HeldBy
  <2> QED
    BY <1>0, <2>1, <2>2 DEF LeaseInv
<1>7. ASSUME NEW d \in Effects, outbox'[d] = outbox[d] PROVE SameLease(d)
  BY <1>7 DEF SameLease, Enqueued
\* Workers: on to the next call.
<1>8. ASSUME NEW w \in Workers, job[w].stage \in {"send", "ack", "unblock"},
             NEW s \in {"ack", "unblock", "fail"}, GoTo(w, s),
             outbox' = outbox, failures <= failures', UNCHANGED <<replay, replays>>
      PROVE  LeaseInv'
  <2>1. PICK e \in Enqueued :
               /\ e = job[w].effect /\ e \in Effects /\ HeldBy(w, e) /\ LeaseHeld(w, e)
               /\ Counted(e) /\ \A v \in Workers \ {w} : ~HeldBy(v, e)
    BY <1>6, <1>8
  <2>2. /\ \A v \in Workers \ {w} : job'[v] = job[v]
        /\ job'[w].stage = s /\ job'[w].effect = e /\ job'[w].age = job[w].age
    BY <1>0, <1>8, <2>1 DEF GoTo, Jobs
  <2>3. outbox[e].attemptCount < maxAttempts
    BY <1>8, <2>1 DEF LeaseHeld
  <2>4. LeaseHeld(w, e)' /\ e \in Enqueued'
    BY <1>8, <2>1, <2>2, <2>3 DEF LeaseHeld, Enqueued
  <2>5. outbox[e].attemptCount \in Nat
    BY <1>0, <2>1 DEF Docs
  <2>6. Counted(e)'
    BY <1>0, <1>8, <2>3, <2>5 DEF Counted
  <2> QED
    BY <1>0, <1>7, <1>8, <2>1, <2>2, <2>4, <2>6, OneHand
<1>9. ASSUME NEW w \in Workers, SendReaches(w) \/ SendThrows(w) \/ WebhookGivesUp(w)
      PROVE  LeaseInv'
  BY <1>0, <1>8, <1>9 DEF SendReaches, SendThrows, WebhookGivesUp
<1>10. ASSUME NEW w \in Workers, CallFails(w) PROVE LeaseInv'
  BY <1>0, <1>8, <1>10 DEF CallFails
\* Workers: the job ends.
<1>11. ASSUME NEW w \in Workers, NEW e \in Enqueued, e = job[w].effect,
              job[w].stage # "idle", EndJob(w), e \in Enqueued',
              \A d \in Effects \ {e} : SameLease(d),
              Counted(e)', failures <= failures', UNCHANGED <<replay, replays>>
       PROVE  LeaseInv'
  <2>1. \A v \in Workers \ {w} : job'[v] = job[v] /\ ~HeldBy(v, e)
    BY <1>0, <1>6, <1>11 DEF EndJob
  <2>2. job'[w].stage = "idle" /\ job'[w].effect = NoEffect
    BY <1>0, <1>11 DEF EndJob, NoJob
  <2> QED
    BY <1>0, <1>11, <2>1, <2>2, OneHand
<1>12. ASSUME NEW w \in Workers, Bury(w) \/ RescheduleIntent(w) PROVE LeaseInv'
  <2>1. PICK e \in Enqueued :
               /\ e = job[w].effect /\ e \in Effects /\ HeldBy(w, e) /\ LeaseHeld(w, e)
               /\ Counted(e) /\ \A v \in Workers \ {w} : ~HeldBy(v, e)
    BY <1>6, <1>12 DEF Bury, RescheduleIntent
  <2>2. PICK d \in Docs : d = outbox[e]
    BY <1>0
  <2>3. /\ \A f \in Effects \ {e} : outbox'[f] = outbox[f]
        /\ \/ /\ outbox'[e] = [d EXCEPT !.status = "dead_letter"]
           \/ /\ outbox'[e] = [d EXCEPT !.status = "pending", !.due = FALSE]
              /\ job[w].stage = "fail"
    BY <1>0, <1>12, <2>1, <2>2 DEF Bury, RescheduleIntent
  <2>4. /\ outbox'[e].attemptCount = d.attemptCount /\ d.attemptCount \in Nat
        /\ \/ outbox'[e].status = "dead_letter"
           \/ outbox'[e].status = "pending" /\ d.attemptCount < maxAttempts
        /\ outbox'[e] # NoEffect
    <3>1. /\ [d EXCEPT !.status = "dead_letter"] \in Docs
          /\ [d EXCEPT !.status = "pending", !.due = FALSE] \in Docs
      BY DEF Docs, EffectStatus
    <3>2. outbox'[e] # NoEffect
      BY <2>3, <3>1, NoEffectIsNoDoc
    <3>3. job[w].stage = "fail" => d.attemptCount < maxAttempts
      BY <2>1, <2>2 DEF LeaseHeld
    <3> QED
      BY <2>3, <3>2, <3>3 DEF Docs
  <2>5. Counted(e)'
    <3>1. d.attemptCount <= maxAttempts + failures /\ failures' = failures
      BY <1>12, <2>1, <2>2 DEF Counted, Bury, RescheduleIntent
    <3> QED
      BY <2>4, <3>1 DEF Counted
  <2>6. e \in Enqueued'
    BY <2>1, <2>4 DEF Enqueued
  <2> QED
    BY <1>0, <1>7, <1>11, <1>12, <2>1, <2>3, <2>5, <2>6 DEF Bury, RescheduleIntent
<1>13. ASSUME NEW w \in Workers, Crash(w) PROVE LeaseInv'
  <2>1. PICK e \in Enqueued :
               /\ e = job[w].effect /\ e \in Effects /\ HeldBy(w, e) /\ LeaseHeld(w, e)
               /\ Counted(e) /\ \A v \in Workers \ {w} : ~HeldBy(v, e)
    BY <1>6, <1>13 DEF Crash
  <2>2. PICK a \in Nat : a = outbox[e].attemptCount
    BY <1>0 DEF Docs
  <2>3. a <= maxAttempts + failures /\ failures' = failures + 1
    BY <1>13, <2>1, <2>2 DEF Counted, Crash
  <2>4. outbox'[e].attemptCount = a /\ outbox'[e].status = outbox[e].status
    BY <1>13, <2>2 DEF Crash
  <2>5. outbox[e].status \in {"pending", "delivered"} => a < maxAttempts
    BY <2>1, <2>2 DEF Counted
  <2>6. a < maxAttempts + failures' /\ a <= maxAttempts + failures'
    BY <1>0, <2>3
  <2>7. Counted(e)'
    BY <2>4, <2>5, <2>6 DEF Counted
  <2> QED
    BY <1>0, <1>7, <1>11, <1>13, <2>1, <2>3, <2>7 DEF Crash, Enqueued
<1>14. ASSUME NEW w \in Workers, UnblockSuccessors(w) PROVE LeaseInv'
  <2>1. PICK e \in Enqueued :
               /\ e = job[w].effect /\ e \in Effects /\ HeldBy(w, e) /\ LeaseHeld(w, e)
               /\ Counted(e) /\ \A v \in Workers \ {w} : ~HeldBy(v, e)
    BY <1>6, <1>14 DEF UnblockSuccessors
  <2>2. \A f \in Enqueued :
          outbox'[f] \in {outbox[f], [outbox[f] EXCEPT !.predecessorDelivered = TRUE]}
    BY <1>0, <1>14 DEF UnblockSuccessors
  <2>3. ASSUME NEW d \in Docs
        PROVE  LET g == [d EXCEPT !.predecessorDelivered = TRUE]
               IN  /\ g \in Docs /\ g.status = d.status /\ g.lease = d.lease
                   /\ g.attemptCount = d.attemptCount
    BY DEF Docs
  <2>4. ASSUME NEW f \in Effects PROVE SameLease(f)
    <3>1. CASE f \in Enqueued
      <4>1. PICK d \in Docs : d = outbox[f]
        BY <1>0, <3>1
      <4>2. /\ outbox'[f] \in Docs /\ outbox'[f].status = d.status
            /\ outbox'[f].lease = d.lease /\ outbox'[f].attemptCount = d.attemptCount
        BY <2>2, <2>3, <3>1, <4>1
      <4>3. f \in Enqueued'
        BY <4>2, NoEffectIsNoDoc DEF Enqueued
      <4> QED
        BY <3>1, <4>1, <4>2, <4>3 DEF SameLease
    <3>2. CASE f \notin Enqueued
      BY <1>7, <1>14, <3>2 DEF UnblockSuccessors
    <3> QED
      BY <3>1, <3>2
  <2>5. outbox[e].attemptCount < maxAttempts /\ outbox[e].attemptCount \in Nat
    BY <1>0, <1>14, <2>1 DEF LeaseHeld, UnblockSuccessors, Docs
  <2>6. Counted(e)'
    BY <1>0, <2>1, <2>4, <2>5 DEF Counted, SameLease
  <2>7. e \in Enqueued'
    BY <2>1, <2>4 DEF SameLease
  <2> QED
    BY <1>0, <1>11, <1>14, <2>1, <2>4, <2>6, <2>7 DEF UnblockSuccessors
<1>15. ASSUME NEW w \in Workers, Acknowledge(w) PROVE LeaseInv'
  <2>1. PICK e \in Enqueued :
               /\ e = job[w].effect /\ e \in Effects /\ HeldBy(w, e) /\ LeaseHeld(w, e)
               /\ Counted(e) /\ \A v \in Workers \ {w} : ~HeldBy(v, e)
    BY <1>6, <1>15 DEF Acknowledge
  <2>2. PICK d \in Docs : d = outbox[e]
    BY <1>0
  <2>3. d.attemptCount < maxAttempts /\ d.attemptCount \in Nat
    BY <1>15, <2>1, <2>2 DEF LeaseHeld, Acknowledge, Docs
  <2>4. CASE d.status = "delivered"
    <3>1. outbox' = outbox /\ EndJob(w)
      BY <1>15, <2>1, <2>2, <2>4 DEF Acknowledge
    <3>2. Counted(e)'
      BY <1>0, <1>15, <2>2, <2>3, <3>1 DEF Counted, Acknowledge
    <3> QED
      BY <1>0, <1>7, <1>11, <1>15, <2>1, <3>1, <3>2 DEF Acknowledge, Enqueued
  <2>5. CASE d.status # "delivered"
    <3>1. /\ \A f \in Effects \ {e} : outbox'[f] = outbox[f]
          /\ outbox'[e] = [d EXCEPT !.status = "delivered", !.deliveredAt = TRUE]
      BY <1>0, <1>15, <2>1, <2>2, <2>5 DEF Acknowledge
    <3>2. /\ outbox'[e] \in Docs /\ outbox'[e].status = "delivered"
          /\ outbox'[e].attemptCount = d.attemptCount
      BY <3>1 DEF Docs, EffectStatus
    <3>3. e \in Enqueued'
      BY <2>1, <3>2, NoEffectIsNoDoc DEF Enqueued
    <3>4. Counted(e)'
      BY <1>0, <1>15, <2>3, <3>2 DEF Counted, Acknowledge
    <3>5. /\ \A v \in Workers \ {w} : job'[v] = job[v]
          /\ job'[w].effect = e /\ job'[w].stage = "unblock"
      BY <1>0, <1>15, <2>1, <2>2, <2>5 DEF Acknowledge, GoTo, Jobs
    <3>6. LeaseHeld(w, e)'
      BY <2>3, <3>2 DEF LeaseHeld
    <3> QED
      BY <1>0, <1>7, <1>15, <2>1, <3>1, <3>3, <3>4, <3>5, <3>6, OneHand
         DEF Acknowledge
  <2> QED
    BY <2>4, <2>5
<1>16. ASSUME NEW w \in Workers, NEW e \in Effects, LeaseNextIntent(w, e)
       PROVE  LeaseInv'
  <2>1. e \in Enqueued /\ \A v \in Workers : ~HeldBy(v, e)
    BY <1>16, LeasedFromNobody DEF LeaseNextIntent
  <2>2. PICK d \in Docs : d = outbox[e]
    BY <1>0, <2>1
  <2>3. PICK a \in Nat : a = d.attemptCount
    BY DEF Docs
  <2>4. outbox'[e] = Leased(d) /\ \A f \in Effects \ {e} : outbox'[f] = outbox[f]
    BY <1>0, <1>16, <2>2 DEF LeaseNextIntent
  <2>5. /\ outbox'[e] \in Docs /\ outbox'[e].status = "leased"
        /\ outbox'[e].lease = LeaseTtl /\ outbox'[e].attemptCount = a + 1
    <3>1. Leased(d).lease = LeaseTtl /\ Leased(d).attemptCount = a + 1
      BY <2>3 DEF Leased, Docs
    <3> QED
      BY <2>4, <3>1, RewrittenDoc
  <2>6. a < maxAttempts + failures
    <3>1. d.status = "pending" \/ d.status = "leased"
      BY <1>16, <2>2 DEF LeaseNextIntent, Available
    <3>2. Counted(e)
      BY <2>1 DEF LeaseInv
    <3> QED
      BY <1>0, <2>1, <2>2, <2>3, <3>1, <3>2 DEF Counted
  <2>7. /\ \A v \in Workers \ {w} : job'[v] = job[v]
        /\ job'[w].effect = e /\ job'[w].age = 0
        /\ job'[w].stage = IF Exhausted(outbox'[e]) THEN "bury" ELSE "send"
    BY <1>0, <1>16 DEF LeaseNextIntent
  <2>8. LeaseHeld(w, e)'
    <3>1. job'[w].stage # "bury" => a + 1 < maxAttempts
      BY <1>0, <2>5, <2>7 DEF Exhausted
    <3> QED
      BY <1>0, <2>5, <2>7, <3>1 DEF LeaseHeld
  <2>9. Counted(e)'
    <3>1. HeldBy(w, e)'
      BY <2>7 DEF HeldBy
    <3>2. failures' = failures
      BY <1>16 DEF LeaseNextIntent
    <3>3. a + 1 <= maxAttempts + failures'
      BY <1>0, <2>6, <3>2
    <3> QED
      BY <2>5, <3>1, <3>3 DEF Counted
  <2>10. e \in Enqueued'
    BY <2>5, NoEffectIsNoDoc DEF Enqueued
  <2>11. job[w].stage = "idle" /\ UNCHANGED <<failures, replay, replays>>
    BY <1>16 DEF LeaseNextIntent
  <2> QED
    BY <1>0, <1>7, <2>1, <2>4, <2>7, <2>8, <2>9, <2>10, <2>11, OneHand
\* No operator.
<1>17. ~OperatorStep
  BY <1>0 DEF OperatorStep, RetryFailedOutboxEntry, ReplaySourceWrite, ReplayRead,
     ReplayDeadLetters, ReplaySource, ReplayDeadLettersWrite, NoReplay
\* Time.
<1>18. CASE Tick
  <2>1. \A w \in Workers : job[w].stage # "idle" => job[w].age < MaxJobTime
    BY <1>18 DEF Tick
  <2>2. ~JobsMayStall
    BY <1>0 DEF JobsMayStall, TimelyWorkers
  <2>3. ASSUME NEW w \in Workers
        PROVE  /\ job'[w].stage = job[w].stage /\ job'[w].effect = job[w].effect
               /\ job[w].stage # "idle" => job'[w].age = job[w].age + 1
    BY <1>0, <1>18, <2>2 DEF Tick, Jobs
  <2>4. ASSUME NEW e \in Enqueued
        PROVE  /\ outbox'[e] \in Docs
               /\ outbox'[e].status = outbox[e].status
               /\ outbox'[e].attemptCount = outbox[e].attemptCount
               /\ outbox[e].lease \in 0..LeaseTtl
               /\ outbox'[e].lease = IF outbox[e].lease > 0 THEN outbox[e].lease - 1 ELSE 0
    <3>1. PICK d \in Docs : d = outbox[e]
      BY <1>0
    <3>2. outbox'[e] = [d EXCEPT !.due = TRUE,
                                 !.lease = IF d.lease > 0 THEN d.lease - 1 ELSE 0]
      BY <1>0, <1>18, <3>1 DEF Tick
    <3>3. d.lease \in 0..LeaseTtl
      BY DEF Docs
    <3>4. PICK l \in 0..LeaseTtl : l = IF d.lease > 0 THEN d.lease - 1 ELSE 0
      BY <1>0, <3>3
    <3>5. outbox'[e] = [d EXCEPT !.due = TRUE, !.lease = l]
      BY <3>2, <3>4
    <3> QED
      BY <3>1, <3>3, <3>4, <3>5 DEF Docs
  <2>5. Enqueued' = Enqueued
    BY <1>18, <2>4, NoEffectIsNoDoc DEF Tick, Enqueued
  <2>6. \A w \in Workers, e \in Effects : HeldBy(w, e)' <=> HeldBy(w, e)
    BY <2>3 DEF HeldBy
  <2>7. ASSUME NEW w \in Workers, NEW e \in Enqueued, HeldBy(w, e)
        PROVE  LeaseHeld(w, e)'
    <3>1. LeaseHeld(w, e) /\ job[w].stage # "idle"
      BY <2>7 DEF LeaseInv, HeldBy
    <3>2. job[w].age \in 0..MaxJobTime /\ job[w].age < MaxJobTime
      BY <1>0, <2>1, <3>1 DEF Jobs
    <3>3. outbox[e].status = "leased" /\ outbox[e].status # "delivered" =>
            outbox'[e].lease + job'[w].age = LeaseTtl
      BY <1>0, <2>3, <2>4, <3>1, <3>2 DEF LeaseHeld, TimelyWorkers
    <3> QED
      BY <2>3, <2>4, <3>1, <3>3 DEF LeaseHeld
  <2>8. ASSUME NEW e \in Enqueued PROVE Counted(e)'
    <3>1. e \in Effects /\ Counted(e) /\ failures' = failures
      BY <1>0, <1>18 DEF LeaseInv, Tick
    <3> QED
      BY <2>4, <2>6, <3>1 DEF Counted
  <2>9. Enqueued \subseteq Effects /\ UNCHANGED <<replay, replays>>
    BY <1>18 DEF Enqueued, Tick
  <2>10. \A v, w \in Workers, e \in Enqueued' : HeldBy(v, e)' /\ HeldBy(w, e)' => v = w
    BY <2>5, <2>6, <2>9 DEF LeaseInv
  <2>11. \A w \in Workers : job'[w].stage = "idle" => job'[w].effect = NoEffect
    BY <2>3 DEF LeaseInv
  <2>12. \A w \in Workers, e \in Enqueued' : HeldBy(w, e)' => LeaseHeld(w, e)'
    BY <2>5, <2>6, <2>7, <2>9
  <2>13. \A e \in Enqueued' : Counted(e)'
    BY <2>5, <2>8
  <2> QED
    BY <2>9, <2>10, <2>11, <2>12, <2>13 DEF LeaseInv
<1>19. CASE UNCHANGED vars
  BY <1>4, <1>19 DEF vars
<1> QED
  BY <1>2, <1>3, <1>5, <1>9, <1>10, <1>12, <1>13, <1>14, <1>15, <1>16, <1>17, <1>18,
     <1>19 DEF Next, EnqueueStep, WorkerStep

\* While workers finish within their lease and no effect is replayed, no effect
\* is in two hands, through crashes, expired leases and retries, and none is
\* leased more often than maxAttempts and the crashes account for.
THEOREM LeasesHold ==
    ASSUME TimelyWorkers
    PROVE  Spec => []LeasesAreSound
<1>1. Init => LeaseInv
  BY DEF Init, LeaseInv, HeldBy, NoJob, Enqueued
<1>2. OrderInv /\ OrderInv' /\ LeaseInv /\ [Next]_vars => LeaseInv'
  BY StepKeepsLeases
<1>3. OrderInv /\ LeaseInv => LeasesAreSound
  <2> SUFFICES ASSUME OrderInv, LeaseInv PROVE LeasesAreSound
    OBVIOUS
  <2>1. ASSUME NEW v \in Workers, NEW w \in Workers, v # w, job[v].stage # "idle",
               job[v].effect = job[w].effect
        PROVE  FALSE
    <3>1. PICK e \in Enqueued : e = job[v].effect
      BY <2>1 DEF OrderInv, JobsAreReady, ReadyFor
    <3>2. e # NoEffect
      BY OutboxConstants DEF Enqueued
    <3>3. job[w].stage # "idle"
      BY <2>1, <3>1, <3>2 DEF LeaseInv
    <3>4. HeldBy(v, e) /\ HeldBy(w, e)
      BY <2>1, <3>1, <3>3 DEF HeldBy
    <3> QED
      BY <2>1, <3>4 DEF LeaseInv
  <2>2. AttemptsAreBounded
    BY DEF LeaseInv, AttemptsAreBounded, Counted
  <2> QED
    BY <2>1, <2>2 DEF LeasesAreSound, OneWorkerPerEffect
<1> QED
  BY <1>1, <1>2, <1>3, OrderHolds, PTL DEF Spec

=============================================================================
