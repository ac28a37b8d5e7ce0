------------------------ MODULE WorkflowOrchestrator ------------------------
(***************************************************************************)
(* The registration and purchase workflows of                              *)
(* src/lib/backend/workflowOrchestrator.js and the processes that run      *)
(* runWorker of workflowWorker.js over them.  A worker claims a document   *)
(* with a lease and a fencing token, heartbeats, looks at the record and   *)
(* at the indexed events, and commits with the token.                      *)
(*                                                                         *)
(* Each await is a step.  A worker may crash at any of them, a database    *)
(* call may throw without or after taking effect, and a worker may be so   *)
(* slow that its lease runs out.                                           *)
(*                                                                         *)
(* generation, claimCount and leaseOwner are written but decide nothing    *)
(* (a token names its owner), and are left out.                            *)
(***************************************************************************)
EXTENDS Naturals, FiniteSets

CONSTANTS
    Workflows,      \* sync_state documents
    Workers,        \* processes running runWorker
    Metadata,       \* the [type, txHash, tokenURI] a workflow may be created with
    maxRetries,     \* workflow.maxRetries
    MaxFailures,    \* bound: crashes, failing calls and overrun leases
    MaxRecoveries   \* bound: operator recoveries

WorkflowTypes == {"material_registration", "purchase", "unknown"}

ASSUME WorkflowConstants ==
    /\ IsFiniteSet(Workflows) /\ IsFiniteSet(Workers)
    /\ Metadata \subseteq [type : WorkflowTypes, txHash : BOOLEAN,
                           tokenURI : BOOLEAN]
    /\ maxRetries \in Nat \ {0}
    /\ MaxFailures \in Nat
    /\ MaxRecoveries \in Nat

VARIABLES
    wf,          \* the workflow documents
    meta,        \* workflow -> its type and metadata, fixed at creation
    job,         \* worker -> the unit of work it is in
    record,      \* workflow -> its material or purchase record
    indexed,     \* workflows whose transaction is in sync_events
    committed,   \* history: workflows a worker confirmed from the index
    written,     \* history: workflows whose record a worker wrote
    dropped,     \* history: confirmed, but the record's update was lost
    failures,    \* failures so far
    recoveries   \* operator recoveries so far

vars == <<wf, meta, job, record, indexed, committed, written, dropped,
          failures, recoveries>>
history == <<committed, written, dropped>>

WorkflowStates == {"pending", "submitted", "confirmed", "failed",
                   "needs_reconciliation", "poisoned"}

\* A token is unique per claim: it suffices that it differs from every token
\* a document or a worker still holds.
NoToken == 0
Tokens == 1..(Cardinality(Workflows) + Cardinality(Workers))

Stages == {"idle", "renew", "fail", "process", "confirmExisting", "postpone",
           "reconcile", "confirm", "record", "retry", "retryWrite", "poison"}

Docs == [state : WorkflowStates, poisoned : BOOLEAN,
         lease : {"none", "live", "over"}, fencingToken : Tokens \cup {NoToken},
         lastRetryAt : {"never", "recent", "old"}, retries : 0..maxRetries]

Jobs == [stage : Stages, workflow : Workflows, fencingToken : Tokens,
         state : WorkflowStates, retries : 0..maxRetries, tries : 0..3]

Idle == [stage |-> "idle"]

TypeOK ==
    /\ wf \in [Workflows -> Docs]
    /\ meta \in [Workflows -> Metadata]
    /\ job \in [Workers -> Jobs \cup {Idle}]
    /\ record \in [Workflows -> {"missing", "open", "confirmed"}]
    /\ indexed \subseteq Workflows
    /\ committed \subseteq Workflows
    /\ written \subseteq Workflows
    /\ dropped \subseteq Workflows
    /\ failures \in 0..MaxFailures
    /\ recoveries \in 0..MaxRecoveries

----------------------------------------------------------------------------
(* Clients, chain and operator.                                            *)

\* createWorkflow, for every workflow at the start; its record may exist.
Init ==
    /\ wf = [w \in Workflows |->
                [state |-> "pending", poisoned |-> FALSE, lease |-> "none",
                 fencingToken |-> NoToken, lastRetryAt |-> "never",
                 retries |-> 0]]
    /\ meta \in [Workflows -> Metadata]
    /\ job = [u \in Workers |-> Idle]
    /\ record \in [Workflows -> {"missing", "open"}]
    /\ indexed = {}
    /\ committed = {} /\ written = {} /\ dropped = {}
    /\ failures = 0 /\ recoveries = 0

\* A client reports the submission through updateWorkflowState, which looks
\* at nothing but the id.
updateWorkflowState(w) ==
    /\ wf[w].state = "pending"
    /\ \E s \in {"submitted", "needs_reconciliation"},
          at \in {"never", "recent"} :
          wf' = [wf EXCEPT ![w].state = s, ![w].lastRetryAt = at]
    /\ UNCHANGED <<meta, job, record, indexed, history, failures, recoveries>>

\* The indexer records the transaction.
Index(w) ==
    /\ meta[w].txHash /\ w \notin indexed
    /\ indexed' = indexed \cup {w}
    /\ UNCHANGED <<wf, meta, job, record, history, failures, recoveries>>

\* The record is confirmed by another part of the system (the purchase API,
\* the mint callback).
ConfirmRecord(w) ==
    /\ record[w] = "open"
    /\ record' = [record EXCEPT ![w] = "confirmed"]
    /\ dropped' = dropped \ {w}
    /\ UNCHANGED <<wf, meta, job, indexed, committed, written, failures,
                   recoveries>>

recoverWorkflow(w) ==
    /\ recoveries < MaxRecoveries
    /\ wf' = [wf EXCEPT ![w] = [@ EXCEPT !.state = "needs_reconciliation",
                                         !.poisoned = FALSE, !.lease = "none",
                                         !.fencingToken = NoToken,
                                         !.retries = 0]]
    /\ recoveries' = recoveries + 1
    /\ UNCHANGED <<meta, job, record, indexed, history, failures>>

\* Fifteen minutes pass since the last retry.
RetryAges(w) ==
    /\ wf[w].lastRetryAt = "recent"
    /\ wf' = [wf EXCEPT ![w].lastRetryAt = "old"]
    /\ UNCHANGED <<meta, job, record, indexed, history, failures, recoveries>>

Holds(u, w) ==
    /\ job[u].stage # "idle"
    /\ job[u].workflow = w /\ job[u].fencingToken = wf[w].fencingToken

\* leaseExpiresAt passes; while its worker is still at it, that is a failure.
LeaseRunsOut(w) ==
    /\ wf[w].lease = "live"
    /\ IF \E u \in Workers : Holds(u, w)
          THEN failures < MaxFailures /\ failures' = failures + 1
          ELSE failures' = failures
    /\ wf' = [wf EXCEPT ![w].lease = "over"]
    /\ UNCHANGED <<meta, job, record, indexed, history, recoveries>>

----------------------------------------------------------------------------
(* The orchestrator's operations on one document.                          *)

\* Mutant: the claim ignores a lease that is still running.
ClaimableIgnoringLease(w) ==
    /\ ~wf[w].poisoned
    /\ \/ wf[w].state = "needs_reconciliation"
       \/ wf[w].state = "submitted" /\ wf[w].lastRetryAt = "old"

Claimable(w) ==
    /\ ~wf[w].poisoned
    /\ \/ wf[w].state = "needs_reconciliation"
       \/ wf[w].state = "submitted" /\ wf[w].lastRetryAt = "old"
    /\ wf[w].lease # "live"

newFencingToken ==
    CHOOSE t \in Tokens :
        /\ \A w \in Workflows : wf[w].fencingToken # t
        /\ \A u \in Workers : job[u].stage # "idle" => job[u].fencingToken # t

\* The filter of renewWorkflowLease and transitionWorkflow.
Fenced(u) ==
    LET doc == wf[job[u].workflow] IN
    doc.fencingToken = job[u].fencingToken /\ doc.lease = "live"

\* What transitionWorkflow writes besides its updates.
Released(doc, state) ==
    [doc EXCEPT !.state = state, !.lease = "none", !.fencingToken = NoToken]

\* Mutant: a retry is recorded without being counted.
RetriedUncounted(doc, state, retries) ==
    [Released(doc, state) EXCEPT !.lastRetryAt = "recent"]

\* addRetryAttempt's write, from the state and the retries it has read.
Retried(doc, state, retries) ==
    IF retries + 1 >= maxRetries
    THEN [Released(doc, "poisoned") EXCEPT !.poisoned = TRUE,
                                           !.lastRetryAt = "recent",
                                           !.retries = retries + 1]
    ELSE [Released(doc, state) EXCEPT !.lastRetryAt = "recent",
                                      !.retries = retries + 1]

----------------------------------------------------------------------------
(* One iteration of runWorker.                                             *)

Go(u, stage) == job' = [job EXCEPT ![u].stage = stage]
Stop(u) == job' = [job EXCEPT ![u] = Idle]

\* An addRetryAttempt with that many catch blocks around it.
ToRetry(j, tries) == [j EXCEPT !.stage = "retry", !.tries = tries]

\* Where a throw takes a job: to the addRetryAttempt of the enclosing catch,
\* or out of all of them to poisonWorkflow.
Caught(j) ==
    CASE j.stage \in {"process", "confirmExisting", "postpone"} -> ToRetry(j, 1)
      [] j.stage \in {"reconcile", "confirm", "record"} -> ToRetry(j, 2)
      [] j.stage \in {"retry", "retryWrite"} /\ j.tries > 1 ->
            ToRetry(j, j.tries - 1)
      [] j.stage = "poison" -> Idle
      [] OTHER -> [j EXCEPT !.stage = "poison"]

\* A call throws: before it took effect (Throws), or after (conjoined with
\* the effect in the steps below).
Threw(u) ==
    /\ failures < MaxFailures
    /\ failures' = failures + 1
    /\ job' = [job EXCEPT ![u] = Caught(job[u])]

claimWorkflowForProcessing(u, w) ==
    /\ job[u].stage = "idle"
    /\ Claimable(w)
    /\ wf' = [wf EXCEPT ![w].lease = "live", ![w].fencingToken = newFencingToken]
    /\ job' = [job EXCEPT ![u] =
                  [stage |-> "renew", workflow |-> w,
                   fencingToken |-> newFencingToken, state |-> wf[w].state,
                   retries |-> 0, tries |-> 0]]
    /\ UNCHANGED <<meta, record, indexed, history, failures, recoveries>>

renewWorkflowLease(u) ==
    /\ job[u].stage = "renew"
    /\ IF ~Fenced(u) THEN Stop(u)
       ELSE Go(u, IF meta[job[u].workflow].type = "unknown"
                  THEN "fail" ELSE "process")
    /\ UNCHANGED <<wf, meta, record, indexed, history, failures, recoveries>>

\* processMaterialRegistration and processPurchase: look for the record, then
\* for a txHash.
Process(u) ==
    LET w == job[u].workflow
        awaitsMint == /\ meta[w].type = "material_registration"
                      /\ meta[w].tokenURI /\ ~meta[w].txHash
    IN
    /\ job[u].stage = "process"
    /\ CASE record[w] = "confirmed" -> Go(u, "confirmExisting")
         [] record[w] # "confirmed" /\ awaitsMint -> Go(u, "postpone")
         [] record[w] # "confirmed" /\ meta[w].txHash -> Go(u, "reconcile")
         [] OTHER -> Stop(u)
    /\ UNCHANGED <<wf, meta, record, indexed, history, failures, recoveries>>

\* nextCheckAt: the state the worker claimed is written back, by id alone.
Postpone(u) ==
    /\ job[u].stage = "postpone"
    /\ wf' = [wf EXCEPT ![job[u].workflow].state = job[u].state]
    /\ \/ Stop(u) /\ failures' = failures
       \/ Threw(u)
    /\ UNCHANGED <<meta, record, indexed, history, recoveries>>

reconcileTransaction(u) ==
    /\ job[u].stage = "reconcile"
    /\ IF job[u].workflow \in indexed THEN Go(u, "confirm")
       ELSE job' = [job EXCEPT ![u] = ToRetry(@, 3)]
    /\ UNCHANGED <<wf, meta, record, indexed, history, failures, recoveries>>

\* FencingTokenMismatchError: whichever catch meets it, the unit is abandoned.
Refused(u) ==
    /\ ~Fenced(u)
    /\ Stop(u)

\* confirmWorkflow or failWorkflow with the token, and no record to update.
Settle(u) ==
    /\ job[u].stage \in {"confirmExisting", "fail"}
    /\ \/ Refused(u) /\ UNCHANGED <<wf, failures>>
       \/ /\ Fenced(u)
          /\ wf' = [wf EXCEPT ![job[u].workflow] =
                       Released(@, IF job[u].stage = "fail" THEN "failed"
                                   ELSE "confirmed")]
          /\ \/ Stop(u) /\ failures' = failures
             \/ Threw(u)
    /\ UNCHANGED <<meta, record, indexed, history, recoveries>>

\* Mutant: the record is not updated after the confirmation.
ConfirmOnly(u) ==
    LET w == job[u].workflow IN
    /\ job[u].stage = "confirm"
    /\ \/ Refused(u) /\ UNCHANGED <<wf, failures, history>>
       \/ /\ Fenced(u)
          /\ wf' = [wf EXCEPT ![w] = Released(@, "confirmed")]
          /\ committed' = committed \cup {w}
          /\ Stop(u) /\ UNCHANGED <<failures, dropped>>
          /\ UNCHANGED written
    /\ UNCHANGED <<meta, record, indexed, recoveries>>

\* confirmWorkflow with the token, ahead of the record's update.
confirmWorkflow(u) ==
    LET w == job[u].workflow IN
    /\ job[u].stage = "confirm"
    /\ \/ Refused(u) /\ UNCHANGED <<wf, failures, history>>
       \/ /\ Fenced(u)
          /\ wf' = [wf EXCEPT ![w] = Released(@, "confirmed")]
          /\ committed' = committed \cup {w}
          /\ \/ Go(u, "record") /\ UNCHANGED <<failures, dropped>>
             \/ Threw(u) /\ dropped' = dropped \cup {w}
          /\ UNCHANGED written
    /\ UNCHANGED <<meta, record, indexed, recoveries>>

\* updateOne without upsert: nothing happens when there is no record.
UpdateRecord(u) ==
    LET w == job[u].workflow IN
    /\ job[u].stage = "record"
    /\ record' = [record EXCEPT ![w] = IF @ = "missing" THEN @ ELSE "confirmed"]
    /\ written' = written \cup {w}
    /\ dropped' = dropped \ {w}
    /\ \/ Stop(u) /\ failures' = failures
       \/ Threw(u)
    /\ UNCHANGED <<wf, meta, indexed, committed, recoveries>>

\* addRetryAttempt reads the document by id ...
ReadRetries(u) ==
    LET w == job[u].workflow IN
    /\ job[u].stage = "retry"
    /\ job' = [job EXCEPT ![u] = [@ EXCEPT !.stage = "retryWrite",
                                           !.state = wf[w].state,
                                           !.retries = wf[w].retries]]
    /\ UNCHANGED <<wf, meta, record, indexed, history, failures, recoveries>>

\* ... and transitions it to what it has read, one retry later.
addRetryAttempt(u) ==
    LET j == job[u] IN
    /\ j.stage = "retryWrite"
    /\ \/ Refused(u) /\ UNCHANGED <<wf, failures>>
       \/ /\ Fenced(u)
          /\ wf' = [wf EXCEPT ![j.workflow] = Retried(@, j.state, j.retries)]
          /\ \/ Stop(u) /\ failures' = failures
             \/ Threw(u)
    /\ UNCHANGED <<meta, record, indexed, history, recoveries>>

\* poisonWorkflow, by id alone.
poisonWorkflow(u) ==
    /\ job[u].stage = "poison"
    /\ wf' = [wf EXCEPT ![job[u].workflow] =
                 [Released(@, "poisoned") EXCEPT !.poisoned = TRUE]]
    /\ Stop(u)
    /\ UNCHANGED <<meta, record, indexed, history, failures, recoveries>>

\* The call of this step throws before it takes effect.
Throws(u) ==
    /\ job[u].stage # "idle"
    /\ Threw(u)
    /\ dropped' = IF job[u].stage = "record" THEN dropped \cup {job[u].workflow}
                  ELSE dropped
    /\ UNCHANGED <<wf, meta, record, indexed, committed, written, recoveries>>

Crash(u) ==
    /\ job[u].stage # "idle"
    /\ failures < MaxFailures
    /\ failures' = failures + 1
    /\ Stop(u)
    /\ dropped' = IF job[u].stage = "record" THEN dropped \cup {job[u].workflow}
                  ELSE dropped
    /\ UNCHANGED <<wf, meta, record, indexed, committed, written, recoveries>>

----------------------------------------------------------------------------

Work(u) ==
    \/ \E w \in Workflows : claimWorkflowForProcessing(u, w)
    \/ renewWorkflowLease(u) \/ Process(u) \/ Postpone(u)
    \/ reconcileTransaction(u) \/ Settle(u) \/ confirmWorkflow(u)
    \/ UpdateRecord(u) \/ ReadRetries(u) \/ addRetryAttempt(u)
    \/ poisonWorkflow(u)

Next ==
    \/ \E w \in Workflows :
          \/ updateWorkflowState(w) \/ Index(w) \/ ConfirmRecord(w)
          \/ recoverWorkflow(w) \/ RetryAges(w) \/ LeaseRunsOut(w)
    \/ \E u \in Workers : Work(u) \/ Throws(u) \/ Crash(u)

\* runWorker loops for ever, so a worker at a step takes it and an idle one
\* claims what there is; time passes.
Fairness ==
    /\ \A u \in Workers : WF_vars(Work(u))
    /\ \A w \in Workflows : WF_vars(LeaseRunsOut(w)) /\ WF_vars(RetryAges(w))

Spec == Init /\ [][Next]_vars /\ Fairness

----------------------------------------------------------------------------
(* Properties.                                                             *)

\* A worker updates the material or purchase record only for a workflow whose
\* confirmation the fence accepted: a worker that lost its lease between the
\* index lookup and the commit changes no record.
RecordsFollowCommits == written \subseteq committed

\* A workflow that was confirmed from the index but whose record is still
\* open is in the hands of a worker about to update it, unless the process
\* died or the database failed between the two writes of
\* reconcileTransaction.
RecordLagsOnlyWhenDropped ==
    \A w \in committed :
        record[w] = "open" =>
            \/ w \in dropped
            \/ \E u \in Workers : job[u].stage = "record" /\ job[u].workflow = w

\* The workflow documents, which the fence protects, and the records, which it
\* does not, tell the same story: no record runs ahead of its workflow, and
\* none lags behind but for a crash between the two writes.
RecordsMatchCommits == TypeOK /\ RecordsFollowCommits /\ RecordLagsOnlyWhenDropped

\* No retry is charged to a workflow that is confirmed or failed, whatever
\* replies were lost: only the operator's recovery resets its counter.
SettledTakesNoRetry ==
    [][\A w \in Workflows :
          wf[w].state \in {"confirmed", "failed"} =>
              \/ wf'[w].retries = wf[w].retries
              \/ recoveries' # recoveries]_vars

\* poisonWorkflow and the postponing updateWorkflowState bypass the fence, and
\* still do not undo a confirmation as long as no call fails, no lease is
\* overrun and no operator intervenes.
UnfencedWritesAreHarmlessInGoodTimes ==
    [][\A w \in Workflows :
          /\ wf[w].state = "confirmed" /\ failures = 0 /\ recoveries = 0
          => wf'[w].state = "confirmed" \/ recoveries' # recoveries]_vars

\* What a settled workflow has to expect from a worker that is still at it:
\* never a retry, and in good times not a change of state either.
SettledIsLeftAlone == SettledTakesNoRetry /\ UnfencedWritesAreHarmlessInGoodTimes

\* A workflow with a transaction hash that is up for reconciliation is
\* eventually confirmed, failed or poisoned: crashes, refused commits and
\* lookups that come too early do not keep it in the queue for ever.
Reconcilable(w) ==
    /\ meta[w].txHash
    /\ \/ wf[w].state = "needs_reconciliation"
       \/ wf[w].state = "submitted" /\ wf[w].lastRetryAt # "never"

ReconciliationEnds ==
    \A w \in Workflows :
        Reconcilable(w) ~> wf[w].state \in {"confirmed", "failed", "poisoned"}
=============================================================================
