--------------------------- MODULE WorkflowProofs ---------------------------
(***************************************************************************)
(* What the fence of WorkflowOrchestrator guarantees, for any number of    *)
(* workflows and workers.                                                  *)
(***************************************************************************)
EXTENDS WorkflowOrchestrator, FiniteSetTheorems, TLAPS

-----------------------------------------------------------------------------
(* The invariant. *)

Working(u) == job[u].stage # "idle"

\* No two workers hold the same token.
TokensAreUnique ==
    \A u, v \in Workers :
        Working(u) /\ Working(v) /\ u # v => job[u].fencingToken # job[v].fencingToken

\* A workflow that has ended is in nobody's hands, so nothing fenced is
\* written to it.
EndedIsUnclaimed ==
    \A w \in Workflows :
        wf[w].poisoned \/ wf[w].state \in {"confirmed", "failed"} =>
            wf[w].fencingToken = NoToken

\* The last retry poisons, and whoever reads a retry count that is used up has
\* lost its claim: the count is never written back one higher.
RetriesAreBounded ==
    /\ \A w \in Workflows : wf[w].retries = maxRetries => wf[w].poisoned
    /\ \A u \in Workers :
          job[u].stage = "retryWrite" /\ job[u].retries = maxRetries =>
              wf[job[u].workflow].fencingToken # job[u].fencingToken

\* The state a worker writes back when it postpones is one it could claim.
ClaimedState ==
    \A u \in Workers :
        job[u].stage \in {"renew", "process", "postpone"} =>
            job[u].state \in {"needs_reconciliation", "submitted"}

\* Without failures and recoveries a worker holds what it works on, until its
\* confirmation gives the claim up.
HoldsWhatItWorksOn ==
    failures = 0 /\ recoveries = 0 =>
        \A u \in Workers :
            /\ job[u].stage # "poison"
            /\ Working(u) /\ job[u].stage # "record" =>
                  /\ job[u].fencingToken = wf[job[u].workflow].fencingToken
                  /\ wf[job[u].workflow].lease = "live"

\* A record is updated only after the commit, and then by its worker.
RecordAfterCommit ==
    \A u \in Workers : job[u].stage = "record" => job[u].workflow \in committed

FenceInv ==
    /\ TypeOK
    /\ TokensAreUnique /\ EndedIsUnclaimed /\ RetriesAreBounded
    /\ ClaimedState /\ HoldsWhatItWorksOn /\ RecordAfterCommit
    /\ RecordsFollowCommits /\ RecordLagsOnlyWhenDropped

-----------------------------------------------------------------------------
(* Tokens. *)

\* Whoever is idle leaves a token unused, so a claim gets a new one.
LEMMA FreeToken ==
    ASSUME TypeOK, NEW u \in Workers, ~Working(u)
    PROVE  /\ newFencingToken \in Tokens
           /\ \A w \in Workflows : wf[w].fencingToken # newFencingToken
           /\ \A v \in Workers : Working(v) => job[v].fencingToken # newFencingToken
<1> DEFINE W == Workflows
           V == Workers \ {u}
           f == [w \in W |-> wf[w].fencingToken]
           g == [v \in V |-> job[v].fencingToken]
           F == {f[w] : w \in W}
           G == {g[v] : v \in V}
<1>1. /\ IsFiniteSet(F) /\ Cardinality(F) <= Cardinality(W)
      /\ Cardinality(W) \in Nat /\ Cardinality(F) \in Nat
  <2>1. f \in Surjection(W, F)
    BY DEF Surjection
  <2>2. IsFiniteSet(W)
    BY WorkflowConstants
  <2> HIDE DEF f, F, W
  <2>3. QED
    BY <2>1, <2>2, FS_Surjection, FS_CardinalityType
<1>2. /\ IsFiniteSet(G) /\ Cardinality(G) <= Cardinality(V)
      /\ Cardinality(V) \in Nat /\ Cardinality(G) \in Nat
      /\ Cardinality(V) = Cardinality(Workers) - 1 /\ Cardinality(Workers) \in Nat
  <2>1. g \in Surjection(V, G)
    BY DEF Surjection
  <2>2. IsFiniteSet(V) /\ Cardinality(V) = Cardinality(Workers) - 1
    BY WorkflowConstants, FS_RemoveElement
  <2>3. Cardinality(Workers) \in Nat
    BY WorkflowConstants, FS_CardinalityType
  <2> HIDE DEF g, G, V
  <2>4. QED
    BY <2>1, <2>2, <2>3, FS_Surjection, FS_CardinalityType
<1>3. PICK t \in Tokens : t \notin F \cup G
  <2> HIDE DEF F, G, W, V
  <2>1. /\ IsFiniteSet(F \cup G) /\ Cardinality(F \cup G) \in Nat
        /\ Cardinality(F \cup G) = Cardinality(F) + Cardinality(G) - Cardinality(F \cap G)
    BY <1>1, <1>2, FS_Union, FS_CardinalityType
  <2>2. Cardinality(F \cap G) \in Nat
    BY <1>1, FS_Intersection, FS_CardinalityType
  <2>3. Cardinality(Tokens) = Cardinality(W) + Cardinality(Workers)
    BY <1>1, <1>2, FS_Interval DEF Tokens, W
  <2>4. ~ (Tokens \subseteq F \cup G)
    <3>1. SUFFICES ASSUME Tokens \subseteq F \cup G PROVE FALSE
      OBVIOUS
    <3>2. Cardinality(Tokens) <= Cardinality(F \cup G)
      BY <2>1, <3>1, FS_Subset
    <3>3. QED
      BY <1>1, <1>2, <2>1, <2>2, <2>3, <3>2
  <2>5. QED
    BY <2>4
<1>4. /\ \A w \in Workflows : wf[w].fencingToken # t
      /\ \A v \in Workers : job[v].stage # "idle" => job[v].fencingToken # t
  BY <1>3 DEF Working
<1>5. QED
  BY <1>4 DEF newFencingToken, Working

-----------------------------------------------------------------------------
(* What a step does to the job of the worker that takes it. *)

Moved(u) ==
    /\ job' \in [Workers -> Jobs \cup {Idle}]
    /\ \A v \in Workers \ {u} : job'[v] = job[v]
    /\ job'[u].stage # "idle" =>
          /\ job[u].stage # "idle"
          /\ job'[u].workflow = job[u].workflow
          /\ job'[u].fencingToken = job[u].fencingToken

JobTypeOK == job \in [Workers -> Jobs \cup {Idle}]

\* Whoever is not idle has a unit of work.
LEMMA WorkingJob ==
    ASSUME JobTypeOK, NEW u \in Workers, Working(u)
    PROVE  job[u] \in Jobs
BY DEF JobTypeOK, Working, Idle

\* The three ways to leave a step: abandon the unit, go on, or throw.
LEMMA StopMoves ==
    ASSUME JobTypeOK, NEW u \in Workers, Stop(u)
    PROVE  Moved(u) /\ job'[u].stage = "idle"
BY DEF JobTypeOK, Stop, Moved, Idle

LEMMA GoMoves ==
    ASSUME JobTypeOK, NEW u \in Workers, Working(u), NEW s \in Stages, Go(u, s)
    PROVE  /\ Moved(u) /\ job'[u].stage = s
           /\ job'[u].state = job[u].state /\ job'[u].retries = job[u].retries
<1>1. job[u] \in Jobs
  BY WorkingJob
<1>2. job' = [job EXCEPT ![u] = [job[u] EXCEPT !.stage = s]]
  BY DEF Go
<1>3. [job[u] EXCEPT !.stage = s] \in Jobs
  BY <1>1 DEF Jobs
<1>4. job'[u] = [job[u] EXCEPT !.stage = s]
  BY <1>2 DEF JobTypeOK
<1>5. QED
  BY <1>1, <1>2, <1>3, <1>4 DEF JobTypeOK, Moved, Working, Jobs

\* A throw leads to an addRetryAttempt, to poisonWorkflow or out of the unit.
LEMMA RetryJob ==
    ASSUME NEW j \in Jobs, NEW n \in 0..3
    PROVE  /\ ToRetry(j, n) \in Jobs /\ ToRetry(j, n).stage = "retry"
           /\ ToRetry(j, n).workflow = j.workflow
           /\ ToRetry(j, n).fencingToken = j.fencingToken
BY DEF ToRetry, Jobs, Stages

LEMMA CaughtJob ==
    ASSUME NEW j \in Jobs, j.stage # "idle"
    PROVE  /\ Caught(j) \in Jobs \cup {Idle}
           /\ Caught(j).stage \in {"retry", "poison", "idle"}
           /\ Caught(j).stage # "idle" =>
                 /\ Caught(j).workflow = j.workflow
                 /\ Caught(j).fencingToken = j.fencingToken
<1>1. /\ \A n \in 0..3 : /\ ToRetry(j, n) \in Jobs /\ ToRetry(j, n).stage = "retry"
                         /\ ToRetry(j, n).workflow = j.workflow
                         /\ ToRetry(j, n).fencingToken = j.fencingToken
      /\ [j EXCEPT !.stage = "poison"] \in Jobs
      /\ j.tries \in 0..3 /\ j.stage \in Stages
  BY RetryJob DEF Jobs, Stages
<1>2. CASE j.stage \in {"process", "confirmExisting", "postpone"}
  BY <1>1, <1>2 DEF Caught
<1>3. CASE j.stage \in {"reconcile", "confirm", "record"}
  BY <1>1, <1>3 DEF Caught
<1>4. CASE j.stage \in {"retry", "retryWrite"} /\ j.tries > 1
  <2>1. Caught(j) = ToRetry(j, j.tries - 1)
    BY <1>4 DEF Caught
  <2>2. QED
    BY <1>1, <1>4, <2>1
<1>5. CASE j.stage = "poison"
  BY <1>5 DEF Caught, Idle
<1>6. CASE \/ j.stage \in {"renew", "fail"}
           \/ j.stage \in {"retry", "retryWrite"} /\ ~(j.tries > 1)
  <2>1. Caught(j) = [j EXCEPT !.stage = "poison"]
    BY <1>6 DEF Caught
  <2>2. QED
    BY <1>1, <2>1 DEF Jobs
<1>7. QED
  BY <1>1, <1>2, <1>3, <1>4, <1>5, <1>6 DEF Stages

LEMMA ThrowMoves ==
    ASSUME JobTypeOK, failures \in 0..MaxFailures, NEW u \in Workers, Working(u), Threw(u)
    PROVE  /\ Moved(u) /\ job'[u].stage \in {"retry", "poison", "idle"}
           /\ failures' # 0 /\ failures' \in 0..MaxFailures
<1>1. job[u] \in Jobs
  BY WorkingJob
<1>2. job'[u] = Caught(job[u])
  BY DEF Threw, JobTypeOK
<1> DEFINE c == Caught(job[u])
<1>3. c \in Jobs \cup {Idle} /\ job' = [job EXCEPT ![u] = c]
  BY <1>1, CaughtJob DEF Threw, Working
<1>4. /\ c.stage \in {"retry", "poison", "idle"}
      /\ c.stage # "idle" => c.workflow = job[u].workflow /\ c.fencingToken = job[u].fencingToken
  BY <1>1, CaughtJob DEF Working
<1> HIDE DEF c
<1>5. failures' # 0 /\ failures' \in 0..MaxFailures
  BY WorkflowConstants DEF Threw
<1>6. QED
  BY <1>3, <1>4, <1>5 DEF JobTypeOK, Moved, Working

-----------------------------------------------------------------------------
(* What a step does to the documents. *)

\* Whatever transitionWorkflow writes, it clears the token.
LEMMA ReleasedDoc ==
    ASSUME NEW doc \in Docs, NEW s \in WorkflowStates
    PROVE  /\ Released(doc, s) \in Docs
           /\ [Released(doc, s) EXCEPT !.poisoned = TRUE] \in Docs
           /\ Released(doc, s).fencingToken = NoToken
           /\ Released(doc, s).retries = doc.retries
           /\ Released(doc, s).poisoned = doc.poisoned
           /\ Released(doc, s).state = s
BY DEF Released, Docs

LEMMA RetriedDoc ==
    ASSUME NEW doc \in Docs, NEW s \in WorkflowStates,
           NEW n \in 0..maxRetries, n # maxRetries
    PROVE  /\ Retried(doc, s, n) \in Docs
           /\ Retried(doc, s, n).fencingToken = NoToken
           /\ Retried(doc, s, n).retries = maxRetries => Retried(doc, s, n).poisoned
<1>1. n + 1 \in 0..maxRetries /\ maxRetries \in Nat
  BY WorkflowConstants
<1>2. CASE n + 1 >= maxRetries
  BY <1>1, <1>2 DEF Retried, Released, Docs, WorkflowStates
<1>3. CASE ~(n + 1 >= maxRetries)
  <2> DEFINE r == [Released(doc, s) EXCEPT !.lastRetryAt = "recent", !.retries = n + 1]
  <2>1. Retried(doc, s, n) = r /\ n + 1 # maxRetries
    BY <1>1, <1>3 DEF Retried
  <2>2. r \in Docs /\ r.fencingToken = NoToken /\ r.retries = n + 1
    BY <1>1 DEF Released, Docs
  <2>3. QED
    BY <2>1, <2>2
<1>4. QED
  BY <1>2, <1>3

\* The claim on a workflow is given up.
GivesBack(w) ==
    /\ wf' \in [Workflows -> Docs]
    /\ \A x \in Workflows \ {w} : wf'[x] = wf[x]
    /\ wf'[w].fencingToken = NoToken
    /\ wf'[w].retries = maxRetries => wf'[w].poisoned

\* The parts of the invariant about documents and tokens hold after every
\* move of a worker that leaves the documents alone ...
LEMMA QuietMove ==
    ASSUME FenceInv, NEW u \in Workers, Moved(u), UNCHANGED <<wf, recoveries>>,
           failures' = 0 => failures = 0 /\ job'[u].stage # "poison"
                            /\ (job[u].stage = "record" => job'[u].stage \in {"idle", "record"}),
           job'[u].stage = "retryWrite" /\ job'[u].retries = maxRetries =>
               wf[job[u].workflow].poisoned
    PROVE  /\ TokensAreUnique' /\ EndedIsUnclaimed' /\ RetriesAreBounded'
           /\ HoldsWhatItWorksOn'
<1>1. TokensAreUnique'
  BY DEF FenceInv, TokensAreUnique, Working, Moved
<1>2. EndedIsUnclaimed'
  BY DEF FenceInv, EndedIsUnclaimed
<1>3. RetriesAreBounded'
  <2>1. ASSUME job'[u].stage = "retryWrite", job'[u].retries = maxRetries
        PROVE  wf'[job'[u].workflow].fencingToken # job'[u].fencingToken
    <3>1. /\ job[u] \in Jobs /\ job'[u].workflow = job[u].workflow
          /\ job'[u].fencingToken = job[u].fencingToken
      BY <2>1, WorkingJob DEF Moved, FenceInv, TypeOK, JobTypeOK, Working
    <3>2. wf[job[u].workflow].fencingToken = NoToken
      BY <2>1, <3>1 DEF FenceInv, EndedIsUnclaimed, Jobs
    <3>3. job[u].fencingToken \in Tokens /\ NoToken \notin Tokens
      BY <3>1 DEF Jobs, Tokens, NoToken
    <3>4. QED
      BY <3>1, <3>2, <3>3
  <2>2. QED
    BY <2>1 DEF FenceInv, RetriesAreBounded, Moved
<1>4. HoldsWhatItWorksOn'
  BY DEF FenceInv, HoldsWhatItWorksOn, Moved, Working
<1>5. QED
  BY <1>1, <1>2, <1>3, <1>4

\* ... and after a fenced worker has given its document back.
LEMMA GivingBack ==
    ASSUME FenceInv, NEW u \in Workers, Moved(u), Working(u), recoveries' = recoveries,
           GivesBack(job[u].workflow),
           job[u].stage # "record",
           failures' = 0 => failures = 0 /\ job'[u].stage \in {"idle", "record"},
           job'[u].stage # "retryWrite"
    PROVE  /\ TokensAreUnique' /\ EndedIsUnclaimed' /\ RetriesAreBounded'
           /\ HoldsWhatItWorksOn'
<1> DEFINE w == job[u].workflow
<1>0. w \in Workflows
  BY WorkingJob DEF Jobs, FenceInv, TypeOK, JobTypeOK
<1>1. TokensAreUnique'
  BY DEF FenceInv, TokensAreUnique, Working, Moved
<1>2. EndedIsUnclaimed'
  BY <1>0 DEF FenceInv, EndedIsUnclaimed, GivesBack
<1>3. RetriesAreBounded'
  <2>1. ASSUME NEW v \in Workers, job'[v].stage = "retryWrite", job'[v].retries = maxRetries
        PROVE  wf'[job'[v].workflow].fencingToken # job'[v].fencingToken
    <3>1. v # u /\ job'[v] = job[v]
      BY <2>1 DEF Moved
    <3>2. job[v] \in Jobs
      BY <2>1, <3>1, WorkingJob DEF FenceInv, TypeOK, JobTypeOK, Working
    <3>3. job[v].fencingToken # NoToken
      BY <3>2 DEF Jobs, Tokens, NoToken
    <3>4. wf[job[v].workflow].fencingToken # job[v].fencingToken
      BY <2>1, <3>1 DEF FenceInv, RetriesAreBounded
    <3>5. QED
      BY <1>0, <3>1, <3>2, <3>3, <3>4 DEF GivesBack, Jobs
  <2>2. QED
    BY <1>0, <2>1 DEF FenceInv, RetriesAreBounded, GivesBack
<1>4. HoldsWhatItWorksOn'
  <2>1. SUFFICES ASSUME failures' = 0, recoveries' = 0, NEW v \in Workers, v # u,
                        job[v].stage # "idle", job[v].stage # "record"
                 PROVE  /\ job[v].fencingToken = wf'[job[v].workflow].fencingToken
                        /\ wf'[job[v].workflow].lease = "live"
    BY DEF HoldsWhatItWorksOn, FenceInv, Moved, Working
  <2>2. /\ job[v].fencingToken = wf[job[v].workflow].fencingToken
        /\ wf[job[v].workflow].lease = "live"
        /\ job[u].fencingToken = wf[w].fencingToken
    BY <2>1 DEF FenceInv, HoldsWhatItWorksOn, Working
  <2>3. job[v].workflow # w
    BY <2>1, <2>2 DEF FenceInv, TokensAreUnique, Working
  <2>4. job[v].workflow \in Workflows
    BY <2>1, WorkingJob DEF Jobs, FenceInv, TypeOK, JobTypeOK, Working
  <2>5. QED
    BY <2>2, <2>3, <2>4 DEF GivesBack
<1>5. QED
  BY <1>1, <1>2, <1>3, <1>4

-----------------------------------------------------------------------------
(* The steps. *)

\* The parts of the invariant that are about jobs and records.
RestInv == ClaimedState /\ RecordAfterCommit /\ RecordsFollowCommits
           /\ RecordLagsOnlyWhenDropped

\* A move to a step that neither writes a state back nor touches the record.
LEMMA OrdinaryMove ==
    ASSUME FenceInv, NEW u \in Workers, Moved(u),
           UNCHANGED <<record, committed, written>>, dropped \subseteq dropped',
           job[u].stage = "record" => job[u].workflow \in dropped',
           job'[u].stage # "record",
           job'[u].stage \in {"renew", "process", "postpone"} =>
               job'[u].state \in {"needs_reconciliation", "submitted"}
    PROVE  RestInv'
<1>1. ClaimedState'
  BY DEF FenceInv, ClaimedState, Moved
<1>2. RecordAfterCommit' /\ RecordsFollowCommits'
  BY DEF FenceInv, RecordAfterCommit, RecordsFollowCommits, Moved
<1>3. RecordLagsOnlyWhenDropped'
  BY DEF FenceInv, RecordLagsOnlyWhenDropped, Moved
<1>4. QED
  BY <1>1, <1>2, <1>3 DEF RestInv

\* Every step keeps the invariant.
LEMMA StepKeepsFence ==
    ASSUME FenceInv, [Next]_vars
    PROVE  FenceInv'
<1> USE DEF history
<1>0. /\ TypeOK /\ JobTypeOK /\ failures \in 0..MaxFailures
      /\ wf \in [Workflows -> Docs]
  BY WorkflowConstants DEF FenceInv, TypeOK, JobTypeOK
<1>1. ASSUME NEW u \in Workers, Working(u)
      PROVE  /\ job[u] \in Jobs /\ job[u].workflow \in Workflows
             /\ wf[job[u].workflow] \in Docs
  <2>1. job[u] \in Jobs
    BY <1>0, <1>1, WorkingJob
  <2>2. QED
    BY <1>0, <2>1 DEF Jobs
\* Workers.
<1>2. ASSUME NEW u \in Workers, renewWorkflowLease(u) PROVE FenceInv'
  <2>1. Moved(u) /\ job'[u].stage \in {"idle", "fail", "process"}
        /\ (job'[u].stage # "idle" => job'[u].state = job[u].state)
    BY <1>0, <1>2, StopMoves, GoMoves DEF renewWorkflowLease, Stages, Working
  <2>2. TokensAreUnique' /\ EndedIsUnclaimed' /\ RetriesAreBounded' /\ HoldsWhatItWorksOn'
    BY <1>2, <2>1, QuietMove DEF renewWorkflowLease
  <2>3. RestInv'
    BY <1>2, <2>1, OrdinaryMove DEF renewWorkflowLease, FenceInv, ClaimedState
  <2>4. TypeOK'
    BY <1>0, <1>2, <2>1 DEF renewWorkflowLease, TypeOK, Moved
  <2>5. QED
    BY <2>2, <2>3, <2>4 DEF FenceInv, RestInv
<1>3. ASSUME NEW u \in Workers, Process(u) PROVE FenceInv'
  <2>1. Moved(u)
        /\ job'[u].stage \in {"idle", "confirmExisting", "postpone", "reconcile"}
        /\ (job'[u].stage # "idle" => job'[u].state = job[u].state)
    BY <1>0, <1>3, StopMoves, GoMoves DEF Process, Stages, Working
  <2>2. TokensAreUnique' /\ EndedIsUnclaimed' /\ RetriesAreBounded' /\ HoldsWhatItWorksOn'
    BY <1>3, <2>1, QuietMove DEF Process
  <2>3. RestInv'
    BY <1>3, <2>1, OrdinaryMove DEF Process, FenceInv, ClaimedState
  <2>4. TypeOK'
    BY <1>0, <1>3, <2>1 DEF Process, TypeOK, Moved
  <2>5. QED
    BY <2>2, <2>3, <2>4 DEF FenceInv, RestInv
<1>4. ASSUME NEW u \in Workers, Postpone(u) PROVE FenceInv'
  <2> DEFINE w == job[u].workflow
  <2>0. Working(u) /\ job[u].state \in {"needs_reconciliation", "submitted"}
    BY <1>4 DEF Postpone, Working, FenceInv, ClaimedState
  <2>1. /\ Moved(u) /\ job'[u].stage \in {"idle", "retry", "poison"}
        /\ failures' = 0 => failures = 0 /\ job'[u].stage = "idle"
        /\ failures' \in 0..MaxFailures
    BY <1>0, <1>4, <2>0, StopMoves, ThrowMoves DEF Postpone
  <2>2. /\ wf' \in [Workflows -> Docs]
        /\ \A x \in Workflows :
              /\ wf'[x].fencingToken = wf[x].fencingToken
              /\ wf'[x].lease = wf[x].lease
              /\ wf'[x].retries = wf[x].retries
              /\ wf'[x].poisoned = wf[x].poisoned
              /\ wf'[x].state \in {wf[x].state, "needs_reconciliation", "submitted"}
    BY <1>0, <1>1, <1>4, <2>0 DEF Postpone, Docs, WorkflowStates
  <2>3. TokensAreUnique' /\ EndedIsUnclaimed'
    BY <2>1, <2>2 DEF FenceInv, TokensAreUnique, EndedIsUnclaimed, Moved, Working
  <2>4. RetriesAreBounded'
    <3>1. \A v \in Workers : job[v].stage = "retryWrite" => job[v].workflow \in Workflows
      BY <1>1 DEF Working
    <3>2. QED
      BY <2>1, <2>2, <3>1 DEF FenceInv, RetriesAreBounded, Moved
  <2>5. HoldsWhatItWorksOn'
    <3>1. \A v \in Workers : job[v].stage # "idle" => job[v].workflow \in Workflows
      BY <1>1 DEF Working
    <3>2. QED
      BY <1>4, <2>1, <2>2, <3>1 DEF FenceInv, HoldsWhatItWorksOn, Moved, Working, Postpone
  <2>6. RestInv'
    BY <1>4, <2>1, OrdinaryMove DEF Postpone
  <2>7. TypeOK'
    BY <1>0, <1>4, <2>1, <2>2 DEF Postpone, TypeOK, Moved
  <2>8. QED
    BY <2>3, <2>4, <2>5, <2>6, <2>7 DEF FenceInv, RestInv
<1>5. ASSUME NEW u \in Workers, reconcileTransaction(u) PROVE FenceInv'
  <2>1. Moved(u) /\ job'[u].stage \in {"confirm", "retry"}
    <3>1. CASE job[u].workflow \in indexed
      BY <1>0, <1>5, <3>1, GoMoves DEF reconcileTransaction, Stages, Working
    <3>2. CASE job[u].workflow \notin indexed
      <4> DEFINE j == ToRetry(job[u], 3)
      <4>1. j \in Jobs /\ j.stage = "retry" /\ j.workflow = job[u].workflow
            /\ j.fencingToken = job[u].fencingToken
        <5>1. job[u] \in Jobs
          BY <1>1, <1>5 DEF reconcileTransaction, Working
        <5>2. QED
          BY <5>1, RetryJob
      <4>2. job' = [job EXCEPT ![u] = j]
        BY <1>5, <3>2 DEF reconcileTransaction
      <4> HIDE DEF j
      <4>3. QED
        BY <1>0, <1>5, <4>1, <4>2 DEF reconcileTransaction, Moved, JobTypeOK
    <3>3. QED
      BY <3>1, <3>2
  <2>2. TokensAreUnique' /\ EndedIsUnclaimed' /\ RetriesAreBounded' /\ HoldsWhatItWorksOn'
    BY <1>5, <2>1, QuietMove DEF reconcileTransaction
  <2>3. RestInv'
    BY <1>5, <2>1, OrdinaryMove DEF reconcileTransaction
  <2>4. TypeOK'
    BY <1>0, <1>5, <2>1 DEF reconcileTransaction, TypeOK, Moved
  <2>5. QED
    BY <2>2, <2>3, <2>4 DEF FenceInv, RestInv
<1>6. ASSUME NEW u \in Workers, ReadRetries(u) PROVE FenceInv'
  <2> DEFINE j == [job[u] EXCEPT !.stage = "retryWrite",
                                 !.state = wf[job[u].workflow].state,
                                 !.retries = wf[job[u].workflow].retries]
  <2>0. Working(u)
    BY <1>6 DEF ReadRetries, Working
  <2>1. /\ j \in Jobs /\ j.stage = "retryWrite" /\ j.workflow = job[u].workflow
        /\ j.fencingToken = job[u].fencingToken
        /\ j.retries = wf[job[u].workflow].retries
    BY <1>1, <2>0 DEF Jobs, Docs, Stages
  <2>2. job' = [job EXCEPT ![u] = j]
    BY <1>6 DEF ReadRetries
  <2> HIDE DEF j
  <2>3. Moved(u) /\ job'[u] = j
    BY <1>0, <2>0, <2>1, <2>2 DEF Moved, JobTypeOK, Working
  <2>4. j.retries = maxRetries => wf[job[u].workflow].poisoned
    BY <1>1, <2>0, <2>1 DEF FenceInv, RetriesAreBounded
  <2>5. TokensAreUnique' /\ EndedIsUnclaimed' /\ RetriesAreBounded' /\ HoldsWhatItWorksOn'
    BY <1>6, <2>1, <2>3, <2>4, QuietMove DEF ReadRetries
  <2>6. RestInv'
    BY <1>6, <2>1, <2>3, OrdinaryMove DEF ReadRetries
  <2>7. TypeOK'
    BY <1>0, <1>6, <2>3 DEF ReadRetries, TypeOK, Moved
  <2>8. QED
    BY <2>5, <2>6, <2>7 DEF FenceInv, RestInv
<1>7. ASSUME NEW u \in Workers, Refused(u), Working(u), job[u].stage # "record",
             UNCHANGED <<wf, meta, record, indexed, history, failures, recoveries>>
      PROVE  FenceInv'
  <2>1. Moved(u) /\ job'[u].stage = "idle"
    BY <1>0, <1>7, StopMoves DEF Refused
  <2>2. TokensAreUnique' /\ EndedIsUnclaimed' /\ RetriesAreBounded' /\ HoldsWhatItWorksOn'
    BY <1>7, <2>1, QuietMove
  <2>3. RestInv'
    BY <1>7, <2>1, OrdinaryMove
  <2>4. TypeOK'
    BY <1>0, <1>7, <2>1 DEF TypeOK, Moved
  <2>5. QED
    BY <2>2, <2>3, <2>4 DEF FenceInv, RestInv
<1>8. ASSUME NEW u \in Workers, Settle(u) PROVE FenceInv'
  <2> DEFINE w == job[u].workflow
  <2>0. Working(u) /\ job[u].stage # "record"
    BY <1>8 DEF Settle, Working
  <2>1. CASE Refused(u) /\ UNCHANGED <<wf, failures>>
    BY <1>7, <1>8, <2>0, <2>1 DEF Settle
  <2>2. CASE ~(Refused(u) /\ UNCHANGED <<wf, failures>>)
    <3>1. PICK s \in {"failed", "confirmed"} : wf' = [wf EXCEPT ![w] = Released(wf[w], s)]
      BY <1>8, <2>2 DEF Settle
    <3>2. /\ Moved(u) /\ job'[u].stage \in {"idle", "retry", "poison"}
          /\ failures' = 0 => failures = 0 /\ job'[u].stage = "idle"
          /\ failures' \in 0..MaxFailures
      BY <1>0, <1>8, <2>0, <2>2, StopMoves, ThrowMoves DEF Settle
    <3> s \in WorkflowStates
      BY DEF WorkflowStates
    <3>3. /\ Released(wf[w], s) \in Docs /\ Released(wf[w], s).fencingToken = NoToken
          /\ Released(wf[w], s).retries = wf[w].retries
          /\ Released(wf[w], s).poisoned = wf[w].poisoned
      BY <1>1, <2>0, ReleasedDoc
    <3>4. GivesBack(w)
      BY <1>0, <1>1, <2>0, <3>1, <3>3 DEF GivesBack, FenceInv, RetriesAreBounded
    <3>5. TokensAreUnique' /\ EndedIsUnclaimed' /\ RetriesAreBounded' /\ HoldsWhatItWorksOn'
      BY <1>8, <2>0, <3>2, <3>4, GivingBack DEF Settle
    <3>6. RestInv'
      BY <1>8, <2>0, <3>2, OrdinaryMove DEF Settle
    <3>7. TypeOK'
      BY <1>0, <1>8, <3>2, <3>4 DEF Settle, TypeOK, Moved, GivesBack
    <3>8. QED
      BY <3>5, <3>6, <3>7 DEF FenceInv, RestInv
  <2>3. QED
    BY <2>1, <2>2
<1>9. ASSUME NEW u \in Workers, confirmWorkflow(u) PROVE FenceInv'
  <2> DEFINE w == job[u].workflow
  <2>0. Working(u) /\ job[u].stage # "record"
    BY <1>9 DEF confirmWorkflow, Working
  <2>1. CASE Refused(u) /\ UNCHANGED <<wf, failures, history>>
    BY <1>7, <1>9, <2>0, <2>1 DEF confirmWorkflow
  <2>2. CASE ~(Refused(u) /\ UNCHANGED <<wf, failures, history>>)
    <3>1. /\ wf' = [wf EXCEPT ![w] = Released(wf[w], "confirmed")]
          /\ committed' = committed \cup {w}
      BY <1>9, <2>2 DEF confirmWorkflow
    <3>2. /\ Moved(u) /\ job'[u].stage \in {"idle", "record", "retry", "poison"}
          /\ failures' = 0 => failures = 0 /\ job'[u].stage = "record"
          /\ failures' \in 0..MaxFailures
          /\ IF job'[u].stage = "record" THEN dropped' = dropped
             ELSE dropped' = dropped \cup {w}
      BY <1>0, <1>9, <2>0, <2>2, GoMoves, ThrowMoves DEF confirmWorkflow, Stages
    <3>3. /\ Released(wf[w], "confirmed") \in Docs
          /\ Released(wf[w], "confirmed").fencingToken = NoToken
          /\ Released(wf[w], "confirmed").retries = wf[w].retries
          /\ Released(wf[w], "confirmed").poisoned = wf[w].poisoned
      BY <1>1, <2>0, ReleasedDoc DEF WorkflowStates
    <3>4. GivesBack(w)
      BY <1>0, <1>1, <2>0, <3>1, <3>3 DEF GivesBack, FenceInv, RetriesAreBounded
    <3>5. TokensAreUnique' /\ EndedIsUnclaimed' /\ RetriesAreBounded' /\ HoldsWhatItWorksOn'
      BY <1>9, <2>0, <3>2, <3>4, GivingBack DEF confirmWorkflow
    <3>6. ClaimedState' /\ RecordAfterCommit' /\ RecordsFollowCommits'
      BY <1>9, <3>1, <3>2 DEF confirmWorkflow, FenceInv, ClaimedState,
         RecordAfterCommit, RecordsFollowCommits, Moved
    <3>7. RecordLagsOnlyWhenDropped'
      BY <1>9, <2>0, <3>1, <3>2 DEF confirmWorkflow, FenceInv,
         RecordLagsOnlyWhenDropped, Moved
    <3>8. TypeOK'
      BY <1>0, <1>1, <1>9, <2>0, <3>1, <3>2, <3>4
         DEF confirmWorkflow, TypeOK, Moved, GivesBack
    <3>9. QED
      BY <3>5, <3>6, <3>7, <3>8 DEF FenceInv
  <2>3. QED
    BY <2>1, <2>2
<1>10. ASSUME NEW u \in Workers, UpdateRecord(u) PROVE FenceInv'
  <2> DEFINE w == job[u].workflow
  <2>0. Working(u) /\ job[u].stage = "record"
    BY <1>10 DEF UpdateRecord, Working
  <2>1. /\ Moved(u) /\ job'[u].stage \in {"idle", "retry", "poison"}
        /\ failures' = 0 => failures = 0 /\ job'[u].stage = "idle"
        /\ failures' \in 0..MaxFailures
    BY <1>0, <1>10, <2>0, StopMoves, ThrowMoves DEF UpdateRecord
  <2>2. TokensAreUnique' /\ EndedIsUnclaimed' /\ RetriesAreBounded' /\ HoldsWhatItWorksOn'
    BY <1>10, <2>0, <2>1, QuietMove DEF UpdateRecord
  <2>3. w \in committed /\ w \in Workflows
    BY <1>1, <2>0 DEF FenceInv, RecordAfterCommit
  <2>4. ClaimedState' /\ RecordAfterCommit' /\ RecordsFollowCommits'
    BY <1>10, <2>1, <2>3 DEF UpdateRecord, FenceInv, ClaimedState,
       RecordAfterCommit, RecordsFollowCommits, Moved
  <2>5. record' \in [Workflows -> {"missing", "open", "confirmed"}]
        /\ record'[w] # "open"
        /\ \A x \in Workflows \ {w} : record'[x] = record[x]
    BY <1>0, <1>10, <2>3 DEF UpdateRecord, TypeOK
  <2>6. RecordLagsOnlyWhenDropped'
    BY <1>0, <1>10, <2>1, <2>5 DEF UpdateRecord, FenceInv, TypeOK,
       RecordLagsOnlyWhenDropped, Moved
  <2>7. TypeOK'
    BY <1>0, <1>10, <2>1, <2>3, <2>5 DEF UpdateRecord, TypeOK, Moved
  <2>8. QED
    BY <2>2, <2>4, <2>6, <2>7 DEF FenceInv
<1>11. ASSUME NEW u \in Workers, addRetryAttempt(u) PROVE FenceInv'
  <2> DEFINE w == job[u].workflow
             d == Retried(wf[w], job[u].state, job[u].retries)
  <2>0. Working(u) /\ job[u].stage = "retryWrite"
    BY <1>11 DEF addRetryAttempt, Working
  <2>1. CASE Refused(u) /\ UNCHANGED <<wf, failures>>
    BY <1>7, <1>11, <2>0, <2>1 DEF addRetryAttempt
  <2>2. CASE ~(Refused(u) /\ UNCHANGED <<wf, failures>>)
    <3>1. wf' = [wf EXCEPT ![w] = d] /\ wf[w].fencingToken = job[u].fencingToken
      BY <1>11, <2>2 DEF addRetryAttempt, Fenced
    <3>2. /\ Moved(u) /\ job'[u].stage \in {"idle", "retry", "poison"}
          /\ failures' = 0 => failures = 0 /\ job'[u].stage = "idle"
          /\ failures' \in 0..MaxFailures
      BY <1>0, <1>11, <2>0, <2>2, StopMoves, ThrowMoves DEF addRetryAttempt
    <3>3. job[u].retries # maxRetries
      BY <2>0, <3>1 DEF FenceInv, RetriesAreBounded
    <3>4. d \in Docs /\ d.fencingToken = NoToken /\ (d.retries = maxRetries => d.poisoned)
      BY <1>1, <2>0, <3>3, RetriedDoc DEF Jobs
    <3> HIDE DEF d
    <3>5. GivesBack(w)
      BY <1>0, <1>1, <2>0, <3>1, <3>4 DEF GivesBack
    <3>6. TokensAreUnique' /\ EndedIsUnclaimed' /\ RetriesAreBounded' /\ HoldsWhatItWorksOn'
      BY <1>11, <2>0, <3>2, <3>5, GivingBack DEF addRetryAttempt
    <3>7. RestInv'
      BY <1>11, <2>0, <3>2, OrdinaryMove DEF addRetryAttempt
    <3>8. TypeOK'
      BY <1>0, <1>11, <3>2, <3>5 DEF addRetryAttempt, TypeOK, Moved, GivesBack
    <3>9. QED
      BY <3>6, <3>7, <3>8 DEF FenceInv, RestInv
  <2>3. QED
    BY <2>1, <2>2
<1>12. ASSUME NEW u \in Workers, poisonWorkflow(u) PROVE FenceInv'
  <2> DEFINE w == job[u].workflow
             d == [Released(wf[w], "poisoned") EXCEPT !.poisoned = TRUE]
  <2>0. Working(u) /\ job[u].stage = "poison"
    BY <1>12 DEF poisonWorkflow, Working
  <2>1. Moved(u) /\ job'[u].stage = "idle"
    BY <1>0, <1>12, StopMoves DEF poisonWorkflow
  <2>2. d \in Docs /\ d.fencingToken = NoToken /\ d.poisoned
    BY <1>1, <2>0 DEF Released, Docs, WorkflowStates
  <2>3. wf' = [wf EXCEPT ![w] = d]
    BY <1>12 DEF poisonWorkflow
  <2> HIDE DEF d
  <2>4. GivesBack(w)
    BY <1>0, <1>1, <2>0, <2>2, <2>3 DEF GivesBack
  <2>5. TokensAreUnique' /\ EndedIsUnclaimed' /\ RetriesAreBounded' /\ HoldsWhatItWorksOn'
    BY <1>12, <2>0, <2>1, <2>4, GivingBack DEF poisonWorkflow
  <2>6. RestInv'
    BY <1>12, <2>0, <2>1, OrdinaryMove DEF poisonWorkflow
  <2>7. TypeOK'
    BY <1>0, <1>12, <2>1, <2>4 DEF poisonWorkflow, TypeOK, Moved, GivesBack
  <2>8. QED
    BY <2>5, <2>6, <2>7 DEF FenceInv, RestInv
<1>13. ASSUME NEW u \in Workers, Throws(u) \/ Crash(u) PROVE FenceInv'
  <2>0. Working(u)
    BY <1>13 DEF Throws, Crash, Working
  <2>1. /\ Moved(u) /\ job'[u].stage \in {"idle", "retry", "poison"}
        /\ failures' # 0 /\ failures' \in 0..MaxFailures
    <3>1. CASE Throws(u)
      BY <1>0, <2>0, <3>1, ThrowMoves DEF Throws
    <3>2. CASE Crash(u)
      BY <1>0, <3>2, WorkflowConstants, StopMoves DEF Crash
    <3>3. QED
      BY <1>13, <3>1, <3>2
  <2>2. TokensAreUnique' /\ EndedIsUnclaimed' /\ RetriesAreBounded' /\ HoldsWhatItWorksOn'
    BY <1>13, <2>1, QuietMove DEF Throws, Crash
  <2>3. RestInv'
    BY <1>13, <2>0, <2>1, OrdinaryMove DEF Throws, Crash
  <2>4. TypeOK'
    BY <1>0, <1>1, <1>13, <2>0, <2>1 DEF Throws, Crash, TypeOK, Moved
  <2>5. QED
    BY <2>2, <2>3, <2>4 DEF FenceInv, RestInv
\* The claim.
<1>14. ASSUME NEW u \in Workers, NEW w \in Workflows, claimWorkflowForProcessing(u, w)
       PROVE  FenceInv'
  <2> DEFINE t == newFencingToken
             d == [wf[w] EXCEPT !.lease = "live", !.fencingToken = t]
             j == [stage |-> "renew", workflow |-> w, fencingToken |-> t,
                   state |-> wf[w].state, retries |-> 0, tries |-> 0]
  <2>0. /\ job[u].stage = "idle" /\ Claimable(w)
        /\ wf' = [wf EXCEPT ![w] = d] /\ job' = [job EXCEPT ![u] = j]
        /\ UNCHANGED <<meta, record, indexed, history, failures, recoveries>>
    BY <1>14 DEF claimWorkflowForProcessing
  <2>1. /\ t \in Tokens /\ t # NoToken
        /\ \A x \in Workflows : wf[x].fencingToken # t
        /\ \A v \in Workers : Working(v) => job[v].fencingToken # t
    <3>1. ~Working(u)
      BY <2>0 DEF Working
    <3>2. NoToken \notin Tokens
      BY DEF NoToken, Tokens
    <3>3. QED
      BY <1>0, <3>1, <3>2, FreeToken
  <2> HIDE DEF t
  <2>2. /\ d \in Docs /\ d.lease = "live" /\ d.fencingToken = t
        /\ d.state = wf[w].state /\ d.retries = wf[w].retries
        /\ d.poisoned = wf[w].poisoned
    <3>1. wf[w] \in Docs
      BY <1>0
    <3>2. QED
      BY <2>1, <3>1 DEF Docs
  <2>3. /\ j \in Jobs /\ j.stage = "renew" /\ j.workflow = w
        /\ j.fencingToken = t /\ j.state = wf[w].state
    <3>1. wf[w].state \in WorkflowStates /\ 0 \in 0..maxRetries
      BY <1>0, WorkflowConstants DEF Docs
    <3>2. QED
      BY <2>1, <3>1 DEF Jobs, Stages
  <2> HIDE DEF d, j
  <2>4. /\ wf' \in [Workflows -> Docs] /\ wf'[w] = d
        /\ \A x \in Workflows \ {w} : wf'[x] = wf[x]
        /\ job' \in [Workers -> Jobs \cup {Idle}] /\ job'[u] = j
        /\ \A v \in Workers \ {u} : job'[v] = job[v]
    BY <1>0, <2>0, <2>2, <2>3 DEF JobTypeOK
  <2>5. /\ ~wf[w].poisoned /\ wf[w].lease # "live"
        /\ wf[w].state \in {"needs_reconciliation", "submitted"}
    BY <2>0 DEF Claimable
  <2>6. TokensAreUnique'
    BY <2>1, <2>3, <2>4 DEF FenceInv, TokensAreUnique, Working
  <2>7. EndedIsUnclaimed'
    BY <2>2, <2>4, <2>5 DEF FenceInv, EndedIsUnclaimed
  <2>8. RetriesAreBounded'
    <3>1. ASSUME NEW v \in Workers, job'[v].stage = "retryWrite", job'[v].retries = maxRetries
          PROVE  wf'[job'[v].workflow].fencingToken # job'[v].fencingToken
      <4>1. v # u /\ job'[v] = job[v]
        BY <2>3, <2>4, <3>1
      <4>2. Working(v) /\ job[v].workflow \in Workflows
        BY <1>1, <3>1, <4>1 DEF Working
      <4>3. wf[job[v].workflow].fencingToken # job[v].fencingToken
        BY <3>1, <4>1 DEF FenceInv, RetriesAreBounded
      <4>4. QED
        BY <2>1, <2>2, <2>4, <4>1, <4>2, <4>3
    <3>2. QED
      BY <2>2, <2>4, <3>1 DEF FenceInv, RetriesAreBounded
  <2>9. HoldsWhatItWorksOn'
    <3>1. ASSUME failures' = 0, recoveries' = 0, NEW v \in Workers, v # u,
                 job[v].stage # "idle", job[v].stage # "record"
          PROVE  /\ job[v].fencingToken = wf'[job[v].workflow].fencingToken
                 /\ wf'[job[v].workflow].lease = "live"
      <4>1. /\ job[v].fencingToken = wf[job[v].workflow].fencingToken
            /\ wf[job[v].workflow].lease = "live"
        BY <2>0, <3>1 DEF FenceInv, HoldsWhatItWorksOn, Working
      <4>2. job[v].workflow \in Workflows
        BY <1>1, <3>1 DEF Working
      <4>3. QED
        BY <2>4, <2>5, <4>1, <4>2
    <3>2. QED
      BY <2>0, <2>2, <2>3, <2>4, <3>1 DEF FenceInv, HoldsWhatItWorksOn, Working
  <2>10. RestInv'
    BY <2>0, <2>3, <2>4, <2>5 DEF FenceInv, RestInv, ClaimedState, RecordAfterCommit,
       RecordsFollowCommits, RecordLagsOnlyWhenDropped
  <2>11. TypeOK'
    BY <1>0, <2>0, <2>4 DEF TypeOK
  <2>12. QED
    BY <2>6, <2>7, <2>8, <2>9, <2>10, <2>11 DEF FenceInv, RestInv
\* Clients, chain, operator and time.
<1>15. ASSUME UNCHANGED <<wf, job, recoveries, failures, committed, written>>,
              TypeOK', RecordLagsOnlyWhenDropped'
       PROVE  FenceInv'
  BY <1>15 DEF FenceInv, TokensAreUnique, Working, EndedIsUnclaimed, RetriesAreBounded,
     ClaimedState, HoldsWhatItWorksOn, RecordAfterCommit, RecordsFollowCommits
<1>16. ASSUME NEW w \in Workflows, Index(w) PROVE FenceInv'
  BY <1>0, <1>15, <1>16 DEF Index, TypeOK, FenceInv, RecordLagsOnlyWhenDropped
<1>17. ASSUME NEW w \in Workflows, ConfirmRecord(w) PROVE FenceInv'
  <2>1. TypeOK'
    BY <1>0, <1>17 DEF ConfirmRecord, TypeOK
  <2>2. RecordLagsOnlyWhenDropped'
    BY <1>0, <1>17 DEF ConfirmRecord, TypeOK, FenceInv, RecordLagsOnlyWhenDropped
  <2>3. QED
    BY <1>15, <1>17, <2>1, <2>2 DEF ConfirmRecord
<1>18. ASSUME NEW w \in Workflows, NEW d \in Docs,
              wf' = [wf EXCEPT ![w] = d],
              UNCHANGED <<meta, job, record, indexed, history>>,
              failures' \in 0..MaxFailures, recoveries' \in 0..MaxRecoveries,
              d.fencingToken = NoToken
                \/ /\ d.fencingToken = wf[w].fencingToken
                   /\ d.poisoned = wf[w].poisoned
                   /\ d.state = wf[w].state \/ d.state \notin {"confirmed", "failed"},
              d.retries = maxRetries => d.poisoned,
              failures' = 0 /\ recoveries' = 0 =>
                  /\ failures = 0 /\ recoveries = 0
                  /\ d.fencingToken = wf[w].fencingToken
                  /\ d.lease = wf[w].lease \/ ~\E u \in Workers : Holds(u, w)
       PROVE  FenceInv'
  <2>1. /\ wf' \in [Workflows -> Docs] /\ wf'[w] = d
        /\ \A x \in Workflows \ {w} : wf'[x] = wf[x]
    BY <1>0, <1>18
  <2>2. TypeOK'
    BY <1>0, <1>18, <2>1 DEF TypeOK
  <2>3. TokensAreUnique' /\ RestInv'
    BY <1>18 DEF FenceInv, TokensAreUnique, Working, RestInv, ClaimedState,
       RecordAfterCommit, RecordsFollowCommits, RecordLagsOnlyWhenDropped
  <2>4. EndedIsUnclaimed'
    BY <1>18, <2>1 DEF FenceInv, EndedIsUnclaimed
  <2>5. \A v \in Workers : Working(v) =>
            job[v].workflow \in Workflows /\ job[v].fencingToken # NoToken
    BY <1>1 DEF Jobs, Tokens, NoToken
  <2>6. RetriesAreBounded'
    BY <1>18, <2>1, <2>5 DEF FenceInv, RetriesAreBounded, Working
  <2>7. HoldsWhatItWorksOn'
    BY <1>18, <2>1, <2>5 DEF FenceInv, HoldsWhatItWorksOn, Working, Holds
  <2>8. QED
    BY <2>2, <2>3, <2>4, <2>6, <2>7 DEF FenceInv, RestInv
<1>19. ASSUME NEW w \in Workflows,
              \/ updateWorkflowState(w) \/ recoverWorkflow(w)
              \/ RetryAges(w) \/ LeaseRunsOut(w)
       PROVE  FenceInv'
  <2>0. /\ wf[w] \in Docs /\ recoveries \in 0..MaxRecoveries
        /\ MaxRecoveries \in Nat /\ MaxFailures \in Nat /\ 0 # maxRetries
        /\ 0 \in 0..maxRetries
        /\ wf[w].retries = maxRetries => wf[w].poisoned
    BY <1>0, WorkflowConstants DEF TypeOK, FenceInv, RetriesAreBounded
  <2>1. CASE updateWorkflowState(w)
    <3>1. PICK s \in {"submitted", "needs_reconciliation"}, at \in {"never", "recent"} :
             wf' = [wf EXCEPT ![w] = [wf[w] EXCEPT !.state = s, !.lastRetryAt = at]]
      BY <2>1 DEF updateWorkflowState
    <3> DEFINE d == [wf[w] EXCEPT !.state = s, !.lastRetryAt = at]
    <3>2. /\ d \in Docs /\ d.fencingToken = wf[w].fencingToken
          /\ d.poisoned = wf[w].poisoned /\ d.lease = wf[w].lease
          /\ d.state = s /\ d.retries = wf[w].retries
      BY <2>0 DEF Docs, WorkflowStates
    <3> HIDE DEF d
    <3>3. wf' = [wf EXCEPT ![w] = d]
      BY <3>1 DEF d
    <3>4. QED
      BY <1>0, <1>18, <2>0, <2>1, <3>2, <3>3 DEF updateWorkflowState
  <2>2. CASE recoverWorkflow(w)
    <3> DEFINE d == [wf[w] EXCEPT !.state = "needs_reconciliation",
                                  !.poisoned = FALSE, !.lease = "none",
                                  !.fencingToken = NoToken, !.retries = 0]
    <3>1. wf' = [wf EXCEPT ![w] = d] /\ recoveries' = recoveries + 1
          /\ recoveries < MaxRecoveries
          /\ UNCHANGED <<meta, job, record, indexed, history, failures>>
      BY <2>2 DEF recoverWorkflow
    <3>2. d \in Docs /\ d.fencingToken = NoToken /\ d.retries = 0
      BY <2>0 DEF Docs, WorkflowStates
    <3> HIDE DEF d
    <3>3. recoveries' \in 0..MaxRecoveries /\ recoveries' # 0
      BY <2>0, <3>1
    <3>4. QED
      BY <1>0, <1>18, <2>0, <3>1, <3>2, <3>3
  <2>3. CASE RetryAges(w)
    <3> DEFINE d == [wf[w] EXCEPT !.lastRetryAt = "old"]
    <3>1. wf' = [wf EXCEPT ![w] = d]
          /\ UNCHANGED <<meta, job, record, indexed, history, failures, recoveries>>
      BY <2>3 DEF RetryAges
    <3>2. /\ d \in Docs /\ d.fencingToken = wf[w].fencingToken
          /\ d.poisoned = wf[w].poisoned /\ d.lease = wf[w].lease
          /\ d.state = wf[w].state /\ d.retries = wf[w].retries
      BY <2>0 DEF Docs
    <3> HIDE DEF d
    <3>3. QED
      BY <1>0, <1>18, <2>0, <3>1, <3>2
  <2>4. CASE LeaseRunsOut(w)
    <3> DEFINE d == [wf[w] EXCEPT !.lease = "over"]
    <3>1. wf' = [wf EXCEPT ![w] = d]
          /\ UNCHANGED <<meta, job, record, indexed, history, recoveries>>
          /\ IF \E u \in Workers : Holds(u, w)
             THEN failures < MaxFailures /\ failures' = failures + 1
             ELSE failures' = failures
      BY <2>4 DEF LeaseRunsOut
    <3>2. /\ d \in Docs /\ d.fencingToken = wf[w].fencingToken
          /\ d.poisoned = wf[w].poisoned
          /\ d.state = wf[w].state /\ d.retries = wf[w].retries
      BY <2>0 DEF Docs
    <3> HIDE DEF d
    <3>3. /\ failures' \in 0..MaxFailures
          /\ failures' = 0 => failures = 0 /\ ~\E u \in Workers : Holds(u, w)
      BY <1>0, <2>0, <3>1
    <3>4. QED
      BY <1>18, <2>0, <3>1, <3>2, <3>3
  <2>5. QED
    BY <1>19, <2>1, <2>2, <2>3, <2>4
<1>20. ASSUME UNCHANGED vars PROVE FenceInv'
  BY <1>15, <1>20 DEF vars, FenceInv, TypeOK, RecordLagsOnlyWhenDropped
<1>21. QED
  BY <1>2, <1>3, <1>4, <1>5, <1>6, <1>8, <1>9, <1>10, <1>11, <1>12, <1>13, <1>14,
     <1>16, <1>17, <1>19, <1>20 DEF Next, Work

-----------------------------------------------------------------------------
(* The theorems. *)

\* The invariant: a document that has ended is unclaimed, tokens are never
\* shared, the retry count stays within its limit, a worker without its claim
\* writes nothing fenced, and records follow commits.
THEOREM FenceHolds == Spec => []FenceInv
<1>1. Init => FenceInv
  <2> SUFFICES ASSUME Init PROVE FenceInv
    OBVIOUS
  <2>1. TypeOK
    BY WorkflowConstants DEF Init, TypeOK, Docs, WorkflowStates, Idle
  <2>2. \A u \in Workers : job[u].stage = "idle"
    BY DEF Init, Idle
  <2>3. \A w \in Workflows : wf[w].state = "pending" /\ ~wf[w].poisoned
                              /\ wf[w].retries = 0
    BY DEF Init
  <2>4. QED
    BY <2>1, <2>2, <2>3, WorkflowConstants DEF Init, FenceInv, TokensAreUnique,
       Working, EndedIsUnclaimed, RetriesAreBounded, ClaimedState,
       HoldsWhatItWorksOn, RecordAfterCommit, RecordsFollowCommits,
       RecordLagsOnlyWhenDropped
<1>2. QED
  BY <1>1, StepKeepsFence, PTL DEF Spec

\* A record is updated only after a commit that the fence accepted, and lags
\* behind a confirmed workflow only when a crash or a failing call fell between
\* the two writes of reconcileTransaction.
THEOREM RecordsAndWorkflowsAgree == Spec => []RecordsMatchCommits
<1>1. FenceInv => RecordsMatchCommits
  BY DEF FenceInv, RecordsMatchCommits
<1>2. QED
  BY <1>1, FenceHolds, PTL

\* What a step of a worker may do to a document that has ended.
LEMMA EndedStep ==
    ASSUME FenceInv, [Next]_vars, NEW w \in Workflows,
           wf[w].state \in {"confirmed", "failed"}
    PROVE  /\ wf'[w].retries = wf[w].retries \/ recoveries' # recoveries
           /\ failures = 0 /\ recoveries = 0 =>
                  wf'[w].state = wf[w].state \/ recoveries' # recoveries
<1> USE DEF history
<1>0. /\ wf \in [Workflows -> Docs] /\ wf[w] \in Docs /\ wf[w].fencingToken = NoToken
      /\ JobTypeOK /\ recoveries \in 0..MaxRecoveries
  BY DEF FenceInv, TypeOK, EndedIsUnclaimed, JobTypeOK
<1>1. ASSUME NEW u \in Workers, Working(u)
      PROVE  /\ job[u].workflow \in Workflows /\ wf[job[u].workflow] \in Docs
             /\ job[u].workflow = w => ~Fenced(u)
             /\ failures = 0 /\ recoveries = 0 /\ job[u].workflow = w =>
                   job[u].stage = "record"
  <2>1. job[u] \in Jobs
    BY <1>0, <1>1, WorkingJob
  <2>2. job[u].workflow \in Workflows /\ job[u].fencingToken # NoToken
    BY <2>1 DEF Jobs, Tokens, NoToken
  <2>3. QED
    BY <1>0, <1>1, <2>2 DEF FenceInv, HoldsWhatItWorksOn, Working, Fenced
<1>2. ASSUME NEW u \in Workers, Work(u) PROVE wf'[w].retries = wf[w].retries
  <2>1. CASE Postpone(u)
    BY <1>0, <1>1, <2>1 DEF Postpone, Working, Docs
  <2>2. CASE poisonWorkflow(u)
    <3>1. wf'[w] = wf[w] \/ wf'[w] = [Released(wf[w], "poisoned") EXCEPT !.poisoned = TRUE]
      BY <1>0, <1>1, <2>2 DEF poisonWorkflow, Working
    <3>2. QED
      BY <1>0, <3>1 DEF Released, Docs
  <2>3. CASE Settle(u) \/ confirmWorkflow(u) \/ addRetryAttempt(u)
    BY <1>0, <1>1, <2>3 DEF Settle, confirmWorkflow, addRetryAttempt, Working
  <2>4. CASE \E x \in Workflows : claimWorkflowForProcessing(u, x)
    BY <1>0, <2>4 DEF claimWorkflowForProcessing, Claimable
  <2>5. QED
    BY <1>2, <2>1, <2>2, <2>3, <2>4 DEF Work, renewWorkflowLease, Process,
       reconcileTransaction, UpdateRecord, ReadRetries
<1>3. ASSUME NEW u \in Workers, Work(u), failures = 0, recoveries = 0
      PROVE  wf'[w].state = wf[w].state
  <2>1. CASE Postpone(u) \/ poisonWorkflow(u)
    BY <1>0, <1>1, <1>3, <2>1 DEF Postpone, poisonWorkflow, Working
  <2>3. CASE Settle(u) \/ confirmWorkflow(u) \/ addRetryAttempt(u)
    BY <1>0, <1>1, <2>3 DEF Settle, confirmWorkflow, addRetryAttempt, Working
  <2>4. CASE \E x \in Workflows : claimWorkflowForProcessing(u, x)
    BY <1>0, <2>4 DEF claimWorkflowForProcessing, Claimable
  <2>5. QED
    BY <1>3, <2>1, <2>3, <2>4 DEF Work, renewWorkflowLease, Process,
       reconcileTransaction, UpdateRecord, ReadRetries
<1>4. ASSUME NEW x \in Workflows,
             \/ updateWorkflowState(x) \/ Index(x) \/ ConfirmRecord(x)
             \/ RetryAges(x) \/ LeaseRunsOut(x)
      PROVE  wf'[w].retries = wf[w].retries /\ wf'[w].state = wf[w].state
  BY <1>0, <1>4 DEF updateWorkflowState, Index, ConfirmRecord, RetryAges,
     LeaseRunsOut, Docs
<1>5. ASSUME NEW x \in Workflows, recoverWorkflow(x) PROVE recoveries' # recoveries
  BY <1>0, <1>5 DEF recoverWorkflow
<1>6. ASSUME NEW u \in Workers, Throws(u) \/ Crash(u) PROVE wf' = wf
  BY <1>6 DEF Throws, Crash
<1>7. ASSUME UNCHANGED vars PROVE wf' = wf
  BY <1>7 DEF vars
<1>8. QED
  BY <1>2, <1>3, <1>4, <1>5, <1>6, <1>7 DEF Next

\* A confirmed or failed workflow is charged no retry, whatever replies were
\* lost; and as long as nothing fails, the writes that bypass the fence do not
\* reach a confirmed one either.
THEOREM EndedStaysEnded == Spec => SettledIsLeftAlone
<1>1. FenceInv /\ [Next]_vars =>
        [\A w \in Workflows :
            wf[w].state \in {"confirmed", "failed"} =>
              \/ wf'[w].retries = wf[w].retries
              \/ recoveries' # recoveries]_vars
  BY EndedStep
<1>2. FenceInv /\ [Next]_vars =>
        [\A w \in Workflows :
            /\ wf[w].state = "confirmed" /\ failures = 0 /\ recoveries = 0
            => wf'[w].state = "confirmed" \/ recoveries' # recoveries]_vars
  BY EndedStep
<1>3. QED
  BY <1>1, <1>2, FenceHolds, PTL
     DEF Spec, SettledIsLeftAlone, SettledTakesNoRetry, UnfencedWritesAreHarmlessInGoodTimes

=============================================================================
