# BirthHub 360: a TLA+ verification project

This directory specifies, model-checks and proves parts of the BirthHub 360
platform: a TypeScript monorepo whose API (`apps/api`) takes requests and Stripe
webhooks, whose worker (`apps/worker`) runs agents and workflows from BullMQ
queues, and whose state lives in PostgreSQL (Prisma) and Redis.

## 1. Inventory

Each component with its state, its operations, what it talks to, what is hard
about it and what makes it correct.

| Component (source) | State | Operations | Talks to | Hard part | Correct when |
|---|---|---|---|---|---|
| Workflow engine (`apps/worker/src/engine`, `apps/api/src/modules/workflows`) | `WorkflowExecution.status, depth`; `StepResult` rows; jobs of queue `workflow-execution` | run now, trigger job, step job (load, run, record, deepen, fan out / retry / fail) | BullMQ, step executors, quota | at-least-once jobs, joins, two layers of retry, crash between writes, stale depth | a step settles once and only when opened; the status is justified; nothing is lost without trace; executions end |
| Queues and DLQ (`apps/worker/src/queues`) | BullMQ jobs, DLQ jobs | create worker, forward failed job | every worker | stalled jobs, DLQ copy lost | every given-up job is in the failed set or the DLQ |
| Canvas validation (`packages/workflows-core/src/parser`) | none | `validateDag` | API | pure algorithm | accepts exactly the acyclic, connected, single-root canvases |
| Step executors (`packages/workflows-core/src/nodes`) | none | one per node type | connectors, agents, HTTP | side effects re-run on retry | - |
| Outbound webhooks (`apps/worker/src/webhooks`, `apps/api/src/modules/webhooks/settings.service.ts`) | `WebhookEndpoint.status, consecutiveFailures`; `WebhookDelivery` rows | fan out a topic, deliver, retry, enable/disable | BullMQ, HTTP | stale counter across the HTTP call | a failing endpoint is disabled, a disabled one stays so |
| Agent task processing (`worker.process-job.ts`, `worker.execution-state.ts`, `worker.billing.ts`) | `AgentExecution.status`; cached billing lock | start, run, finish, notify | runtime, queues, Redis | retry of finished work, notification failing after success, stale lock | a finished execution is final; a locked tenant does not run |
| Plan executor (`executors/planExecutor.ts`) | Redis result cache, lock, circuit breaker | execute with lock, retry, breaker | Redis, tools | lock outlived by its owner | a plan runs once per cache lifetime |
| Agent budget (`agents/runtime.budget.ts`, `modules/budget`) | `AgentBudget.consumedBrl`, events | head-room check, consume, set limit | agent runtime, task submission | check and charge apart, read and write back apart | the row agrees with its events; only overlapping charges go past the limit |
| Stripe webhooks (`modules/webhooks/stripe.*`) | `BillingEvent`, `Subscription`, `Invoice`; event lock; billing cache | receive, lock, process, fail, invalidate | Stripe, Redis | redelivery, disorder, lock expiry | an event answered 200 was applied, once unless a lock was outlived; a paying tenant is not locked out for long |
| Sessions (`modules/auth`) | `Session` rows, MFA challenges | log in, answer a challenge, refresh, revoke, limit | users, memberships | insert, read and revoke are separate calls; refreshes race revocations | the limit holds; a token is spent once; revoking all sessions is final |
| Quotas (`engine/runner.shared.ts`, `jobs/quotaReset.ts`) | `QuotaUsage` rows | check and count a step, new month | engine | check then increment, month boundary | only overlapping steps go past the limit |
| Pack installer (`modules/packs`) | `Agent` rows | install, update, uninstall | plan limits, workflows | checks outside the transaction | one installation per pack; a removal spares agents in use |
| Workflow catalog (`modules/workflows/service.ts`, `runnerQueue.ts`) | `Workflow` rows, repeatable jobs | create, save, archive | plan limits, BullMQ | decisions from a row read before the transaction | a CRON workflow is scheduled; the limit holds but for restores and outdated counts |
| Connectors (`modules/connectors`, `worker/src/integrations`) | accounts, credentials, OAuth state | connect, callback, sync | providers | racing callbacks | credentials match status |
| Organizations, invites (`modules/organizations`, `modules/invites`) | memberships, invites | invite, accept, revoke, change role, remove | email, sessions | status checked outside the accepting transaction | an invite admits once |
| Audit buffers (`api/src/audit`, `worker/src/jobs/auditFlush.ts`) | in-memory buffer | record, flush | database | batch lost on failure | every audited event is stored |
| Rate limiting and cache (`middleware/rate-limit.ts`, `common/cache`) | Redis counters | consume | Redis | window edges, Redis down | - |
| Email queue, notifications, privacy, retention, analytics, dashboard, admin, marketplace | rows | single-row handlers | - | little | - |
| Web app, satellites, generated packs, vendored SDK, legacy dashboard | - | - | - | not core logic | - |

The component interactions that matter: the API and the worker share the
database and the queues and never call each other; BullMQ redelivers (stalled
jobs) and retries (failed jobs) at least once; workflow steps call agents,
agents consume budgets, outcomes fan out to emails and outbound webhooks.

## 2. Modules and plan

| Part | Modules | Composition |
|---|---|---|
| Workflow engine (3) | `WorkflowCanvas`, `WorkflowFlow`, `WorkflowEngine`, `WorkflowEngineMC`, `WorkflowEngineProofs` | `WorkflowEngine` implements the abstract `WorkflowFlow` |
| Outbound webhooks (4) | `JobQueue`, `OutboundWebhooks`, `OutboundWebhooksMC`, `JobQueueProofs`, `OutboundWebhooksProofs` | the queue's actions are conjoined to the component's |
| Agent executions (5) | `PlanExecutor`, `AgentTasks`, `AgentTasksMC`, `AgentTasksProofs` | with `JobQueue` and `PlanExecutor` |
| Billing (6) | `BillingLock`, `StripeWebhooks`, `StripeWebhooksMC`, `StripeWebhooksProofs` | the events change the subscription that the cached verdicts are read from |
| Accounts (7) | `Memberships`, `Sessions`, `SessionsMC`, `SessionsProofs` | a session's role is the membership's; removal ends both |
| Tenant (8) | `WorkflowCatalog`, `PackInstaller`, `Budgets`, `DagValidator`, `TenantMC`, `DagValidatorProofs`, `TenantProofs` | workflows name the agents that the installer removes; budgets and the validator stand alone |

Every safety property that a passing run checks is also proved (section 9), the
exactness of `validateDag` included. What is left is to say more about the parts
that section 11 leaves outside the models.

## 3. The workflow engine

### Modules

* `WorkflowCanvas` - the canvas the runner reads: finitely many step keys and routed transitions,
  `onError`; the routing rule (`shouldFollowTransition`,
  `findMatchingTransitions`, `handleFallbackTransitions`). A step's output is
  abstracted to the truth value of `output.result`, all that routing looks at.
* `WorkflowFlow` - the abstract specification: a step settles at most once and
  only after a settled step opened it; an execution closes only for a reason
  its settled steps show.
* `WorkflowEngine` - the implementation. Variables are the two tables
  (`status`, `depth`, `results`), how far the start of an execution got
  (`launch`), the queue (`jobs`, `tries`, `stalls`, `lock`) and the worker slots
  (`pc`, `job`, `seen`, `out`, `todo`).
* `WorkflowEngineMC` - canvases for TLC.
* `WorkflowEngineProofs` - theorems and their proofs.

### Actions and code

Every `await` of `processWorkflowExecutionJob` is one action, so that two
handlers interleave wherever JavaScript lets them:

| Action | Code |
|---|---|
| `CreateExecution`, `EnqueueTrigger`, `LaunchLost` | `runWorkflowNow` (and `processTriggerJob`): row, then job, with the process dying between |
| `Take` | BullMQ hands a waiting job to a slot |
| `Load`, `FailTooDeep` | `resolveExecutionContext` |
| `RunStep` | `resolveStepOutput`: an output or an exception |
| `RecordSuccess`, `Deepen` | the two writes of `recordSuccessfulStep`; the unique key on (execution, step, attempt) sends a second create to the catch |
| `MarkSuccess`, `EnqueueNext` | `handleSuccessfulExecution`, one `add` at a time |
| `RecordFailure` | `recordFailedStep`, inside the catch: a second row throws out of the handler |
| `ScheduleRetry`, `EnqueueNext`, `FailExecution` | retry with the next attempt, fallback transitions, or failure |
| `Finish`, `Throw` | BullMQ completes the job, retries it or leaves it failed |
| `Fault` | a database or Redis call rejects at any await |
| `Crash`, `LockExpires`, `Redeliver` | a worker process dies, loses its job lock while it works on, and the stalled check's redelivery |
| `Cancel` | the row set to CANCELLED from outside: the runner honours it, nothing in the repository writes it |

A job that a transition adds carries `Date.now()` in its id. A *stamp* stands for
a millisecond: an add takes a fresh stamp (a new job), or the stamp of an add
whose job nobody has taken yet (ignored by BullMQ).

### Runs

| Run | Bounds | What it shows |
|---|---|---|
| `engine_join` | 1 execution, 3 steps, 2 slots, 1 attempt, 2 BullMQ attempts, depth 2, 1 fault | fork and join: `TypeOK`, `NoDuplicateFanOut`, `DepthNeverOvercounts`, `NoLostFollowUp`, and the refinement `ImplementsFlow` |
| `engine_retry` | 1 execution, 2 steps, 2 slots, 2 attempts, 2 faults | `AttemptsLinear`, `NoLostFollowUp`, `ImplementsFlow` with retries and a failure branch |
| `engine_live` | 1 execution, 2 steps, 2 slots, 2 attempts, 1 fault, fairness | `EventuallyClosed` |
| `engine_failure_branch` | 1 execution, 1 slot, no fault | the violated promise `FailureBranchTaken` (section 10) |

Why the bounds suffice: executions share nothing but slots, so one execution
exercises every race between handlers of an execution; two slots give every
pairwise interleaving; three steps are the smallest canvas that forks and joins;
two attempts distinguish first, middle-of-retry and last; one fault puts one
crash at every point of every interleaving and `engine_retry` puts two. The
stamps bound (3) is above the in-degree of every step. `MAX_ATTEMPTS` and the
BullMQ attempts are 5 in the code and constants here; the proofs hold for any.
Deadlock is not checked: the system rests when every execution is closed.

### Fairness

`FairSpec` assumes that a slot's handler advances, that some waiting job is taken
while a slot is idle, and that the stalled check sweeps: the worker processes
stay up and BullMQ polls. Nothing is assumed of the API (an execution whose
start was lost is out of the property's reach), of operators or of faults, and a
delayed job is a waiting one.

## 4. Outbound webhooks

### Modules

* `JobQueue` - a BullMQ queue as `WorkerFactory` sets it up: states of a job,
  attempts, stalled deliveries and the lock of the slot that runs it. Its actions
  are conjoined to those of the component that uses it.
* `OutboundWebhooks` - one endpoint row (`status`, `failures` for
  `consecutiveFailures`, `subscribed` for its topics), the history of
  `WebhookDelivery` rows (`missed` counts those with `success = false`,
  `delivered[j]` those of job *j* with `success = true`), the jobs, the slots
  (`pc`, `job`, `seen` for the count read at the start, `answer`) and what the
  receiver accepted (`received`). `streak` observes failed attempts in a row.
* `OutboundWebhooksMC` - symmetry; `OutboundWebhooksProofs` - the theorems.

### Actions and code

| Action | Code |
|---|---|
| `SetStatus`, `SetTopics` | `updateTenantWebhookEndpoint`; a new status leaves the count alone |
| `Publish`, `Enqueue` | `enqueueWebhookTopicDeliveries`: the query, then the adds |
| `RetryDelivery` | `retryWebhookDelivery`: a fresh job for a recorded delivery |
| `Take`, `Load`, `LogDelivery` | the handler starts: endpoint read once, skipped if off, one row per attempt |
| `Limit`, `Call` | the shared rate limit, then the POST: accepted, refused with an error status, or no answer |
| `Note`, `Write` | the row gets the answer, the endpoint a reset or a `Penalty` computed from `seen` |
| `Explain`, `PenaliseError`, `Throw` | the catch: the row gets the message; an error that was not counted in the try block is counted here; rethrown |
| `Finish` | the job completes |
| `LateAnswer` | the receiver accepts after the timer aborted the call |
| `Fault`, `Crash`, `LockExpires`, `StalledCheck` | as in the engine |

### Runs

| Run | Bounds | What it shows |
|---|---|---|
| `webhooks` | 2 jobs, 2 slots, 2 attempts, threshold 2, 1 update, 1 fault | `TypeOK`, `NothingLostQuietly`, `OneRepetitionPerFault`, `PenaltiesJustified` |
| `webhooks_live` | same without updates, fairness | `EventuallyResolved` |
| `webhooks_streak` | same without updates or faults | the violated promise `StreakDisables` (section 10) |

Endpoints share nothing, so one is enough; two jobs on two slots are the smallest
setting in which a read of the count goes stale across another delivery's call;
with threshold 2 both a first and a disabling failure occur; one fault can hit
every await of every interleaving. In the code the threshold is 10 and a job has 5
attempts; the proofs hold for any. The rate limiter's window is shared with
deliveries to other endpoints of the host, so a refusal is a free choice. The
system rests when the jobs are used up, so deadlock is not checked.

Fairness is the engine's: handlers advance, waiting jobs are taken, the stalled
check sweeps. `EventuallyResolved` speaks of jobs already queued; nothing is
assumed of publishers, administrators or faults.

## 5. Agent executions

### Modules

* `PlanExecutor` - what the executor keeps in Redis per execution: the cached
  result and the lock, which does not say whose it is, and both keys' expiry.
* `AgentTasks` - composes it with `JobQueue`: the execution's row (`status`), how
  far the API got with it (`launch`), the slots (`pc`, `job`, `out`) and, as
  histories, the plans that ran to their end (`ran`), the budget events of kind
  CONSUME (`charged`), the output artifacts (`outputs`), the outcomes whose
  fan-out ended (`announced`) and the outcome the job completed with (`value`).
  `overruled` collects the executions whose handler lost its job's lock or that the
  API took for refused after it had queued them.
* `AgentTasksMC` - symmetry; `AgentTasksProofs` - the theorems.

### Actions and code

| Action | Code |
|---|---|
| `CreateExecution`, `Enqueue`, `Accept` | `queueInstalledAgentExecution`: row, job, update of the row |
| `Refuse`, `AcceptFails`, `LaunchLost` | its catch after a refused job, its catch after the job was queued, and the API's death in between |
| `EnqueueTask` | `enqueueTask`: the legacy queue, whose job may ask for a dry run or an approval |
| `Take`, `Start` | `persistExecutionStarted`, before the try block |
| `CheckBilling`, `Block` | `resolveBillingLock`; a locked tenant's execution fails and the job completes |
| `Preflight` | everything of `executeManifestAgentRuntime` before the executor; the budget check may refuse |
| `Peek`, `Lock`, `Locked`, `RunPlan`, `StoreResult`, `ReleasePlan` | `PlanExecutor.execute`: cached result, `SET NX`, the tools, the result, the finally block |
| `Charge`, `CreateOutput` | `consumeBudget` and `createOutputArtifact` |
| `Finish`, `Announce`, `Done` | `persistExecutionFinished`, `fanOutExecutionOutcome`, the job completes |
| `MarkFailed`, `AnnounceFailed`, `Throw` | the catch |
| `Fault` | a call rejects before it takes effect; where the error goes depends on the await |
| `KeyLapses` | a key of the executor runs out of time |
| `Crash`, `LockExpires`, `StalledCheck` | as in the engine |

### Runs

| Run | Bounds | What it shows |
|---|---|---|
| `tasks` | 1 execution, 2 slots, 2 attempts, 3 faults, fairness | `TypeOK`, `OneRunnerPerLease`, `NothingCompletesSilently`, `RowAgreesWithJob`, `ChargesPaidFor`, `OrphansNeedAFault`, and the liveness property `EventuallySettled` |
| `tasks_billing` | same with 1 fault | the violated promise `ChargedOnce` (section 10) |

Executions meet only in the agent's budget, whose answer is a free choice here
(`Budgets`, section 8, has the amounts), so one is enough. Two handlers of one
execution need a lost job lock, two runners of its plan a lapsed plan lock as well:
three faults leave one more for what they do to each other. In the code a job has
5 attempts; the proofs hold for any. An
expired key counts as a fault although time alone causes it: the lock's 15
minutes and the result's hour are far beyond a plan's deadline (2 minutes) and a
job's retries (seconds). The system rests when the jobs are used up, so deadlock is
not checked. Fairness is the engine's.

## 6. Billing

### Modules

* `BillingLock` - the subscription row as far as the lock for non-payment looks at
  it (`sub`: status, grace period, and whether `updatedAt` is old), and the cached
  verdicts of the worker (`createBillingLockResolver`) and of the API
  (`getBillingSnapshot`): `cache`, the resolver's position and reading, and `late`,
  the copies set from a reading that no longer held.
* `StripeWebhooks` - the events of one customer (`kind`, `row` for
  `BillingEvent.status`, `known` for the idempotency keys, `credited`), the
  requests that process them (`at`, `event`), the customer's lock (`owner`), and as
  histories the committed transactions (`applied`), the answers 200 (`acked`),
  whether a lock was outlived (`lapsed`) and the copies that a commit has not
  been taken out of (`skipped`).

### Actions and code

| Action | Code |
|---|---|
| `Deliver`, `Repeat` | Stripe sends an event until it is answered 200, at times twice |
| `Acquire`, `GiveUp`, `Lapse`, `OrphanExpires` | `withStripeEventLock`: a Redlock of ten seconds that nothing extends |
| `ReadKey`, `VerifyKey` | `readDuplicateResult`: the key is believed only if the row agrees |
| `EnsureRow`, `RememberAgain`, `MarkProcessing` | `ensurePendingBillingEvent`, the answer to a duplicate, `markBillingEventProcessing` |
| `Apply`, `ApplyAborts`, `ApplyFails`, `RecordFailure` | the reconciling transaction, its failure and the catch |
| `Remember`, `Invalidate` | the key and the deletion of the verdicts, after the commit |
| `Accept`, `Refuse` | the answer and the release of the lock |
| `CallFails`, `LateCallFails`, `Crash`, `KeyExpires` | a call rejects before or after the commit, the process dies, Redis drops a key |
| `Query`, `Fill`, `Expire`, `GraceEnds` | the resolvers, the TTL, and the end of a grace period |

### Run and bounds

`billing`: two events on two requests, one cached copy, two faults, under
fairness. Two events are needed for an event to meet the lock of another, two
requests for one to outlive its lock under the other, and two faults for a lapse
together with one more. The histories TLC considers pair the kinds of event that
lock, unlock and grant credit; `checkout`, `deleted` and `pastDue` differ from
them in the row they write, and are covered by the proofs. With several copies
nothing new happens: they do not read one another.

* `AckedWasApplied`, `RepeatsNeedALapse`, `AckedStaysProcessed` - what a 200
  means, and what only an outlived lock can do.
* `RefusalsExplained`, `StaleVerdictsExpire` - when a cached verdict may refuse
  an organization that has paid, and that it goes away.
* `EventuallyReconciled` - every event is applied in the end, and answered 200,
  except for one case: a credit that was granted and not answered. Its unique key
  makes the redelivered insert fail; the code catches that error, but PostgreSQL has
  aborted the transaction, so the event fails again on every redelivery.

Fairness: requests and resolvers go on, Redis expires what has a TTL, Stripe
redelivers. A delivery takes the lock if it is free infinitely often (`SF`): Stripe
redelivers for days with growing delays, so that an event does not always meet
the lock of another. The order in which Stripe's events arrive is not a property:
the code reconciles whatever comes.

## 7. Accounts

### Modules

* `Memberships` - the membership row of one user, the invites that create it, and
  the requests that accept one; `admitted` counts what each invite did, `stale`
  collects the invites that admitted when they were no longer pending, `raced` those
  that changed, or were read again, while a request was accepting them.
* `Sessions` - the sessions of that user (numbered by `createdAt`), MFA challenges,
  suspension, and the requests that make a session, each at one of its awaits. A
  session remembers the *epoch* - how often all sessions had been revoked - that
  its chain of refreshes started in. `loose` collects sessions on which the limit
  was never enforced: made without a role, or by a request that failed.

### Actions and code

| Action | Code |
|---|---|
| `Login`, `GiveChallenge`, `Verify`, `Consume` | `loginWithPassword`, `verifyMfaChallenge` up to its conditional update |
| `Present`, `ReadRole` | `refreshSession` up to the new session; a role that cannot be read is left out |
| `Impersonate` | the administrator's route, which makes a session without a role |
| `Create`, `ReadActive`, `RevokeExcess`, `Rotate` | `createSession`, `enforceConcurrentSessionLimit`, and the revocation of the refreshed session |
| `Fail` | a call throws or the process dies between any two |
| `Logout`, `LogoutAll`, `Suspend`, `Sweep`, `RevokeUserAccess`, `DeleteAccount` | what ends sessions; a suspension is two calls, `DELETE /users/:userId` and the privacy route's `deleteAccountAndPersonalData` one transaction each |
| `CreateInvite`, `ReadInvite`, `Admit`, `AdmitFails`, `RevokeInvite`, `CleanUpInvite`, `SetRole`, `RemoveMember` | the invite and member routes and the clean-up job |

`RemoveMember` leaves the sessions as they are; `RevokeUserAccess` ends them: two
routes, two behaviours, both in the model.

### Run and bounds

`accounts`: two requests make up to three sessions, roles with a limit of one and
of two (the code's largest is three), one invite, one challenge, and two events of
any other kind. A limit of two needs the third session to be exceeded; with two
requests every pair of calls interleaves; two events are a role change or a
revocation together with a failure.

* `LimitHolds` - sessions whose request is through with the limit are no more than
  the largest limit among their roles.
* `LogoutIsFinal` - a session whose chain goes back to before a revocation of all
  sessions is active only if some request overlapped that revocation, holding on to
  what it had read.
* `TokensSpentOnce` - a challenge makes one session, and a refresh token makes two
  only in the race named.
* `InviteSpentOnce` - an invite admits once and while it is pending: a second
  admission, or one after it was accepted or revoked, needs that change, or a second
  reading of the invite, to happen while a request was accepting it.

Nothing here is a liveness property: no request waits for another.

## 8. What a tenant keeps

### Modules

* `WorkflowCatalog` - `Workflow` rows (status, trigger, pattern, agents named), the
  repeatable jobs, and the requests that create and save: each counts or reads
  before its transaction and decides from that. A repeatable job is a pair of
  workflow and pattern because BullMQ derives its key from them; nothing in the
  repository removes one.
* `PackInstaller` - extends it with the agents: installation and removal, three
  calls each, and whether a workflow was saved naming agents that are gone or
  about to go (`unguarded`). `pastFlows` and `pastAgents` are history: what became
  active with the plan's limit already reached, because a save restored an archived
  workflow (`updateWorkflow` does not count) or because a request created from a
  count that had gone out of date. Two consecutive reads of an installation (the count and
  the rows) are one action: what is counted is what is listed.
* `Budgets` - an agent's budget with its two ways to charge (the worker's, checked
  before the plan; the API's, checked in its transaction) and the monthly quota of
  agent steps. Between a charge's read and its write there is no lock: an upsert
  with an empty update is a read. `together` says that two such transactions have
  been open at once.
* `DagValidator` - `validateDag` with everything it calls, one action per iteration
  of its loops. Nothing interleaves here; a machine is what can be reasoned about
  for graphs of every size. `path` is the stack of `getCyclePath`'s calls, whose
  nodes are `visiting`; the stack of `assertConnectedFromRoot` is a set, since the
  order of its visits has no effect. An id is a value, so that the refusal of a blank
  one is left out. `IsCanvas` says, by sets of nodes and without an algorithm, what a
  canvas has to be: acyclic, everything reached from one root.
* `TenantMC` - the instance. The three share no state, and a behaviour is about one
  of them while the others have no event left.
* `DagValidatorProofs`, `TenantProofs` - theorems and their proofs.

### Actions and code

| Action | Code |
|---|---|
| `CountFlows`, `CreateFlow` | `assertWorkflowLimit`, `createWorkflow` |
| `ReadFlow`, `SaveFlow`, `Schedule`, `SaveFails` | `updateWorkflow`, `upsertCronTrigger` |
| `ArchiveFlow` | `archiveWorkflow` |
| `ReadAgents`, `CreateAgent`, `KeepAgent` | `installPackAtomic` |
| `ReadPack`, `CheckUse`, `DeleteAgents`, `WorkFails` | `uninstallPackAtomic` |
| `Preflight`, `BlockRun`, `ReadForCharge`, `Charge` | `ensureBudgetHeadroom`, the worker's `consumeBudget` |
| `ReadForTask`, `RefuseTask`, `ChargeTask`, `SetLimit` | `BudgetService`; a refusal throws inside its transaction and so leaves no alert |
| `ReadQuota`, `CountStep`, `NewMonth` | `consumeSharedAgentBudget`, `quotaResetJob` |
| `CheckNodes`, `TakeEdge`, `CheckIsolated` | the first two loops of `validateDag`, `assertEdgeEndpoints`, `assertNoIsolatedNodes` |
| `SearchFrom`, `SearchTarget`, `LeaveNode` | `getCyclePath`: called for the next node, called for the next target, returning |
| `CheckRoots`, `Reach`, `CheckReachable` | the roots and `assertConnectedFromRoot` |
| `Shift`, `TakeTarget`, `CheckOrder` | `topologicalSort` |

### Run and bounds

`tenant`: two workflows, each naming one agent (one that names none has none to
lose), two packs, two requests, plan limits of one, four events;
two payments with costs 1 and 4 against limits 3 and 5, a quota of one, four
events; every list of up to four edges on up to three nodes (with repeated and
unknown ids) and every set of up to five edges on four. A limit of one is exceeded
by a second request, a stale read needs two; four events are two requests, an
edit and a failure. Three nodes with parallel edges and four without contain every
way the checks of `validateDag` can disagree with one another: isolated parts,
cycles off the root, two roots, diamonds.

* `ValidatorIsExact` - exactly the runnable canvases are accepted, with their root
  and an order no edge goes against; "cycle" is said only of a cycle, the roots are
  blamed only when there is none, and the checks of the reachable nodes and of the
  order never throw: an acyclic graph with one root passes both.
* `CronIsScheduled` - a CRON workflow has its job, or a save is about to add it, or
  failed to, or decided from a trigger that another save was changing.
* `DependenciesInstalled` - a removal spares the agents that drafts and published
  workflows name, but for workflows saved while it was between check and deletion.
* `PlanLimitsHold` - without `pastFlows` and `pastAgents` a tenant is within its
  plan's limits. What it leaves out is reachable: archive, create and restore, one
  request after the other, end past the limit, and so do two overlapping creations
  or installations.
* `OverspendNeedsOverlap` - whoever goes past a budget or a quota was let through by
  a reading that had gone stale.
* `BudgetBooks` - the budget agrees with its events unless two charges overlapped,
  and has an alert when it is nearly spent.

The run does not check deadlock (requests end, events are bounded).

## 9. Proofs

Each property below is also checked by TLC on a run's instance. The theorems hold
for every value of the constants that satisfies the named assumptions: these
say that numbers are numbers, that the values standing for "none" are not values,
and that what is counted is finite. Nothing is assumed about which faults occur or
how many.

| Theorem | Property | Invariant behind it |
|---|---|---|
| `WorkflowEngineProofs` `TypeCorrect` | `TypeOK` | itself |
| `AttemptsAreLinear` | `AttemptsLinear` | `LinearInv` |
| `DepthIsEarned`, `NoBranchIsLost` | `DepthNeverOvercounts`, `NoLostFollowUp` | `FactsInv` |
| `EngineImplementsFlow` | `ImplementsFlow` (refinement) | `FactsInv` |
| `FanOutIsBounded` | `NoDuplicateFanOut` | `FanInv` |
| `OutboundWebhooksProofs` `TypeCorrect`, `NothingIsLostQuietly`, `PenaltiesAreJustified` | `TypeOK`, `NothingLostQuietly`, `PenaltiesJustified` | `WebhookInv` |
| `RepetitionsAreFaults` | `OneRepetitionPerFault` | `WebhookInv`, `DeliveryInv` |
| `AgentTasksProofs` `TypeCorrect`, `RunnersHoldLeases`, `CompletionIsAnnounced`, `RowsAgree`, `NoOrphanWithoutFault` | `TypeOK`, `OneRunnerPerLease`, `NothingCompletesSilently`, `RowAgreesWithJob`, `OrphansNeedAFault` | `TaskInv` |
| `ChargesAreEarned` | `ChargesPaidFor` | `TaskInv`, `BillFact` |
| `StripeWebhooksProofs` `TypeCorrect`, `AckedEventsWereApplied`, `OneReconciliationPerLock`, `ProcessedIsFinal`, `RefusalsAreExplained` | `TypeOK`, `AckedWasApplied`, `RepeatsNeedALapse`, `AckedStaysProcessed`, `RefusalsExplained` | `StripeInv` |
| `SessionsProofs` `TypeCorrect`, `SessionsWithinLimit`, `RevocationEndsChains`, `TokensMakeOneSession`, `InvitesAdmitOnce` | `TypeOK`, `LimitHolds`, `LogoutIsFinal`, `TokensSpentOnce`, `InviteSpentOnce` | `SessionsInv` |
| `TenantProofs` `TenantTypeCorrect`, `CronWorkflowsAreScheduled`, `DependenciesStay`, `LimitsAreKept` | `TypeOK`, `CronIsScheduled`, `DependenciesInstalled`, `PlanLimitsHold` | `TenantInv` |
| `BudgetTypeCorrect`, `BooksBalance`, `OverspendingIsExplained` | `BudgetTypeOK`, `BudgetBooks`, `OverspendNeedsOverlap` (action property) | `BudgetInv` |
| `MCTypeCorrect`, `SideBySideIsSafe` | `MCTypeOK` and all that run `tenant` checks, of the composition | all three |
| `DagValidatorProofs` `ValidatorTypeCorrect`, `ValidatorDecides` | `ValidatorTypeOK`, `ValidatorIsExact` | `ValidatorInv` |

### The engine

`WorkflowEngineProofs` uses `CanvasAssumption`, `EngineAssumption` and
`NoJobAssumption`. A canvas is a JSON document, so its keys and transitions are
finitely many; nothing else is asked of it: it may have cycles, parallel
transitions and unreachable steps.

* `LinearInv`. `AttemptsLinear` is not inductive: a queued job of attempt 2 would
  let a handler record it although attempt 1 succeeded. `JobsLinear` adds that a job
  of attempt *a* is queued only when all earlier attempts failed, `SlotsLinear` that
  a slot about to add a retry has itself recorded the failure. `LinearFrame` handles
  steps that write no row, `LinearWrite` the two that do.
* `FactsInv` adds, in `Facts`, what the handlers know. `SlotFact`: what a slot's
  position says of the row it wrote, of the depth it read and of the transitions
  it has queued already. `JobFact`: a job in the queue belongs to a step that was
  reached, and a completed job of an open execution has nothing left to queue
  (`Followed`). `RowFact`: every row was written for some job. `ExecFact`: the depth
  is at most the number of success rows. `Grows` and `Accumulates` say that no step
  takes back rows, jobs, outcomes or anything queued, so that the facts of a slot
  survive whatever the others do (`SlotStays`); `HandlerArrives` then gives the
  facts of the one slot that moves, one case per await.
  `NoLostFollowUp` follows: a step that cannot be traced has only completed jobs,
  one of them wrote the row, and that one had queued everything.
* `EngineImplementsFlow`. Rows that settle a step become `Settle`
  (`RowSettles`: linear attempts make the outcome change once, from "none"),
  closing writes become `CloseSuccess` or `CloseFailed` (`CloseFlows`; for
  `max_depth`, the depth is at most the number of rows, which is at most the number
  of steps, by the pigeonhole principle), all else stutters.
* `FanInv`. The job ids of transitions do not deduplicate, so the bound of
  `NoDuplicateFanOut` rests on who may still add. A transition is *pending* until
  its source has settled and the slot that settled it has queued it; the stamps of a
  step and its pending transitions together are at most its incoming ones
  (`FanOut`). `Apart` makes an add pay exactly once: two slots never hold the
  follow-up of the same step, because whoever begins to finds it unsettled.

### Outbound webhooks

From `QueueAssumption` and `WebhookAssumption`. In `WebhookInv`, `SlotFacts` says
what a slot's position tells of its answer and of its job's history. `Ledger` is
the argument about stale counts: the *balance* is the number of unsuccessful rows
plus faults, less the attempts (`Pending`) that have a row and have not been
counted yet. Every count, in the endpoint or read by a slot, is at most the
balance; a failure raises the balance by one in the step that writes `seen + 1`, so
a write from a stale read stays below it, and a success takes back exactly its own
row. That rows of open attempts are still there (`Cardinality(Open) <= missed`) makes
`missed - 1` a natural number, which is why type correctness needs the ledger.
`TallyStep` says how one slot's move changes the two cardinalities, `SlotStep` and
`OutsideStep` reduce preservation to a few facts per action.

`DeliveryInv` counts acceptances before they happen: those a delivery has, the slots
that may still get one, and one more if the queue may run the job again without a
fault (`MayRun`, of `JobQueueProofs`), are at most one more than the faults. Only a
fault can make a job runnable while a slot is still at it.

### Agent executions

From `QueueAssumption` and `TaskAssumption`. The heart of `TaskInv` is that a slot's
execution, unless it is overruled, has that slot as its lock (`SlotFact`), and a
locked job is active and in that slot (`JobFact`): so no other handler writes its
row, and `status` stays what the slot's position says until the job completes.
`Calm` adds what holds while `faults = 0`. `LeaseBound` counts runners against the
lock *or* its lapses: a lock that lapsed and one deleted by a late runner weigh the
same, and that is why deleting without asking costs nothing more. `HandlerStep`
reduces the preservation of all facts by a handler's step to a few conditions on
that slot; `LeaseStep` does the same for the bound.

`BillFact` is the ledger of charges, built like that of deliveries: what ran (or was
charged), the slots that have still to run (or to charge), and the queue's next run
are together at most one more than the faults; an output that may come is charged.

### Billing

From `StripeAssumption` and `HistoryAssumption`. In `StripeInv`, `Evidence` says what
a request's position, an idempotency key or a processed row proves about the event's
transaction; `Exclusive` says that, until a lock has lapsed, only the lock's owner
stands past the lock, so that no second request reads the row before the first has
committed. `RefusalsExplained` is inductive together with type correctness: every
action that makes a copy stale puts it among `skipped` or `late`.

### Accounts

From `MembershipAssumption` and `SessionAssumption`. Each part of `SessionsInv` says
what a request will find when it goes on. `LimitFact` is the limit *foreseen*: take
any set of the requests that are about to revoke; of the settled sessions and their
own, whatever none of them revokes is within the limit. The bare property is not
inductive, because the revocations that keep it are still to come and each was
chosen from a list that other requests' sessions may have outdated. `RequestFact`
ties a request to the *epoch* it read in: every revocation since has marked it as
overlapped. `ChallengeFact` and `TokenFact` say who may still use up a challenge or
a refresh token: one request, unless the token is among `forked`. `InviteFact` does
so for invites, and says that one being accepted is pending, deleted or `raced`.

### What a tenant keeps

`TenantProofs` is about the workflows and agents alone (`Spec`), the budgets alone
(`BudgetSpec`), and the two with the validator side by side, as the run has them
(`MCSpec`): they share no variable, so that a step of one is a stutter of the others
(`SideBySide`) and the three invariants are one of the composition.

For the workflows and agents it uses `CatalogAssumption`, `NoFlowAssumption` and
`InstallerAssumption` (`Flows` are finitely many, as the limit counts them;
`NoFlow` is not a row). `CronIsScheduled` is inductive once a request that saves or
schedules is known to have a workflow and a pattern (`SavingFact`).
`DependenciesInstalled` needs `GoingUnused`: what a removal is about to delete is
named by no workflow that is not `unguarded`. `PlanLimitsHold` rests on what a
request still knows of its count (`SavingFact`, `WorkFact`): a step adds one workflow
or agent at most, and one that is added with the limit reached was restored or was
counted below the limit, so that its count is out of date (`FlowLimitKeeps`,
`AgentLimitKeeps`).

For the budgets it uses `BudgetAssumption`, any number of payments and of events.
`PayerFact` says that what a payment has read is still the row unless two charges
were open together (`AloneUnlessTogether`) or a limit was set.

### The validator

`DagValidatorProofs` uses `GraphAssumption`: a graph is a sequence of ids and a
sequence of pairs of ids. `ValidatorInv` has one fact per data structure.

* `LinkFact`: the adjacency lists hold exactly the edges taken up so far; `Linked`
  turns this into "they are the graph" once all are.
* `CountFact`: an indegree is the number of places at which the node is still listed
  (`Left`): an entry goes when `topologicalSort` has been at it. That one set serves
  both loops that change the counter, the one that builds it up and the one that
  takes it down, and parallel edges are different places in it.
* `SearchFact`: the calls of `getCyclePath` in progress are a path, what it is done
  with is closed under edges and has no cycle. A call for a node on the path closes
  a set in which every node is entered from the set (`SearchTargetKeeps`): the cycle
  is a real one. A node that is left leads to done nodes only, and none of those
  leads back (`LeaveNodeKeeps`), so that a search that ends has shown the graph
  acyclic (`Searched`).
* `ReachFact`: nothing leads out of what has been reached but to the frontier. In an
  acyclic graph with one root the rest would contain a node that the rest does not
  enter, hence another root: nothing is unreachable (`CheckReachableKeeps`).
* `SortFact`: the nodes queued or ordered are those of indegree 0, and all that leads
  to an ordered node comes before it. What is left over when the queue is empty would
  again contain a node that nothing left over enters, whose indegree has come down
  to 0 (`CheckOrderKeeps`).
* `OneRoot` and `RootReaches` tie the check of the roots to `IsCanvas`: of an acyclic
  graph, being reachable from one node and having one root are the same.

### Only model-checked

Liveness under fairness, which this prover cannot reason about: `EventuallyClosed`,
`EventuallyResolved`, `EventuallySettled`, `EventuallyReconciled`,
`StaleVerdictsExpire`.

## 10. Findings

* **The failure branch is never taken.** `docs/workflows/template-customization-guide.md:31`
  advises an `OnFailure` branch to route a step's errors. The runner follows it
  only when the step's `onError` is `CONTINUE`; nothing in the repository writes
  that column, whose default is `STOP`. `engine_failure_branch` shows the
  execution failing past its `ON_FAILURE` transition.
* **Ten failures in a row may leave an endpoint active.** The test
  `processOutboundWebhookJob - 10 consecutive failures disables endpoint`
  (`apps/worker/test/outbound.webhooks.test.ts:239`) starts from a count of 9. The
  count a failed attempt writes is the one it read before its call, plus one, and
  the status is written with it: `webhooks_streak` shows two overlapping failures
  counted as one.

* **A redelivered execution is charged again.**
  `docs/architecture/Agent-Registry-Execution.md:12` demands idempotency of the
  executor under at-least-once delivery, with a cache lock against repeated
  "execuções de faturamento pelo Stripe". The cached result does keep the tools from
  running again, but `executeManifestAgentRuntime` consumes the agent's budget
  after the executor returned, whether the result is cached or not:
  `tasks_billing` shows two CONSUME events for one execution. What is charged twice
  is the agent's budget, which the line's general demand covers, not a Stripe invoice.

Facts about the design that the models make visible and that no document of the
repository contradicts: a step whose row was recorded before a crash is never
continued (its redelivery fails on the unique key until BullMQ gives up), the
second arrival at a join ends in the failed set in the same way, a leaf
reached early closes an execution whose other branches still run, restoring an
archived workflow takes a tenant past its plan's limit without any race, and a
failed delivery in flight sets an endpoint that was disabled meanwhile to active.

## 11. Not modelled

Of the modelled components:

* the engine's step output cache and the trigger queue's deduplication, and edits
  of a canvas during an execution (they delete, by cascade, the rows that keep a
  step from settling twice, so the engine's properties are stated for a canvas
  that stays as it is);
* the copy of a given-up job to the dead-letter queue, a best-effort record beside
  BullMQ's failed set, which the liveness properties speak of;
* of agent executions, the validation of payloads and signatures, the reuse of a
  running execution, tenants without an organization, and what happens inside a
  plan;
* of billing, signatures, invoices, checkout sessions and plans as data;
* of accounts, expiry dates, device alerts, recovery codes, API keys, the
  authentication of a request; the organization itself. The concurrent-session
  policy of `docs/Policy-Concurrent-Sessions.md` speaks of roles that the schema
  does not have, so the limits of the code are used;
* of a tenant, names, revisions and secrets of workflows, `updatePackVersion` and
  `getPackStatus`, the reports of budgets. `QuotaService.checkAndConsume` and
  `agents/runtime.orchestration.ts` have no caller.

Not at all: connectors (status and credentials are two writes and nothing brings
them together again), audit buffers (a batch is taken off before it is written; the
loss is what the code does), rate limiting, mail, exports and retention, single-row
request handlers, the web application, satellites.

Most of the repository's lines are none of these: generated agent packs
(`packages/agents/executivos/*`, several hundred lines each, the same shape with
other text), audit and maintenance scripts, pages of the web application, vendored
clients and the retired dashboard. They keep no state that two steps could
disagree about, which is why the mapped share of all lines stays small while the
code that does is covered.
