# A TLA+ verification of dsh-autopilot

dsh-autopilot turns issues of a tracker that a human marked ready into *runs*: a
coding agent works on the issue in a worktree, the verified result becomes a pull
request, and the tracker is told about it. One Host process operates one runtime
store. What makes the program hard is not any single operation but what happens
between them: durable updates are atomic, everything around them (tracker reads,
webhooks, agents, operator commands, code-host calls, a crash) interleaves.

This directory holds TLA+ models of that behaviour, TLC configurations that check
them on small instances, and proofs, checked by TLAPS, about all of them.
Paths below are relative to the repository's `src/`: `admission/` is its
`src/admission/`, `docs/` and `tests/` stand beside it.

- [Inventory](#inventory)
- [Modules](#modules)
- [What each run checks](#what-each-run-checks)
- [Bounds](#bounds)
- [Fairness](#fairness)
- [What is proved](#what-is-proved)
- [Disagreements between documents and code](#disagreements-between-documents-and-code)
- [Observations no run checks](#observations-no-run-checks)
- [What is not modelled](#what-is-not-modelled)
- [Plan](#plan)
- [Running it](#running-it)

## Inventory

| Component | State | Operations | Hard behaviour | What makes it correct | Module |
| --- | --- | --- | --- | --- | --- |
| Admission aggregate (`admission/`) | one durable record: runs with lifecycle, budget, pause, recovery, publication intent and deliveries; scheduler mode; deployment budget; receipts; queue sequence. Process-local run fences | reconcile, claim, record worktree, settle, pause, disable, withdraw, hold, resume (queued and active), cancel, publication claim/complete/fail, restart recovery | decisions taken on a snapshot or a tracker read and committed later; mode changes outside the run fences; crashes between any two updates | the record always validates, budgets stay within caps, nothing starts behind a closed gate, order of the queue, holds are the operator's, interrupted work is not resumed | `Admission` |
| Issue intake (`admission/reconciler.ts`, `candidates.ts`, `reconciliation/`) | durable runs and receipts; attempts in progress; a timer | webhook, startup, scheduled and manual reconciliation | one reading takes many calls while issues change; repeated deliveries; evicted receipts; full queue; a provider withdrawn under an attempt | one run per readiness transition and on the approved brief, no acknowledged delivery lost, lasting eligibility admitted | `Intake` |
| Dispatcher (`dispatch/`) | live execution owners | start, continue, stop, withdrawal, settlement of turns | owner, Agent, Session, worktree and durable run are five pieces of state | one Agent per Session, proven checkpoints, quiet after withdrawal, queued runs start | `Dispatch` |
| Workflow lane (`workflow/service.ts`) | a promise chain and a pending reconciliation | publications, deliveries, continuations and starts, one at a time | what bypasses the lane: queued resumption, retries, webhook reconciliation | see the components it serialises | `Dispatch`, `Admission`, `Delivery` |
| Publication (`publication/`) | intent in the run | read base, branch and pull requests; take the missing step; record | crash or lost answer after the effect, other people at the remote, settings changed in between | one pull request of the verified commits, an end to the attempts | `Publication` |
| Provider registries (`providers/generation-registry.ts`, `tracker/`, `code-host/registry.ts`) | the generation registered, operations it retains | register, retain, withdraw, reconcile with settings | withdrawal while in use, changes during a reconciliation | a held generation lasts, the next follows the settings | `CodeHostProvider`, `Intake` |
| Delivery outbox (`admission/deliver*`, `delivery/`) | durable deliveries; workers | append, claim, reconcile, write, record, retry, repair, restart | late workers, uncertain writes, two runs of one issue, retries outside the lane | reports once, the newest label last, every delivery ends | `Delivery` |
| Worktree cleanup and retention (`operations/cleanup*`, `retention.ts`) | previews; durable intent and audit; merge observations | preview, confirm, remove, retention pass, recover | the preview is stale when confirmed, people edit the worktree, the Host stops between Git and the record | only what is merged, aged, clean and unneeded goes; merged work does go | `Maintenance` |
| Operator commands (`web/commands.ts`, `client/state.ts`) | durable command log; tasks; browsers' calls | issue, accept, execute, abort, restart, follow | lost acknowledgements, replay after disconnect or restart, a full log | a recorded success had its effect, every command ends | `OperatorCommands` |
| Runtime-store owner (`operations/runtime-owner.ts`) | a directory beside the store; holds of services | acquire, reclaim, hold, release | several processes, crash at any file system call | one operating Host, no stuck fence | `RuntimeOwner` |
| Health and recovery participants (`operations/`) | registrations | gate on dispatch, startup recovery | participants fail or appear late | dispatch only when nothing needs recovery | parts of `Admission`, `Maintenance`, `Dispatch` |
| Adapters, settings, schema and migration, MCP tools, browser client | none of their own, or views | protocol and data translation | the order of their calls | see the components that call them | parts of `Intake`, `Delivery`, `Publication`, `Admission`, `OperatorCommands` |

How they interact: intake and the operator add and change runs in the aggregate;
the lane asks the aggregate for the head of the queue and hands it to the
dispatcher, which registers an owner and runs the Agent outside the lane; the
settlement writes the outcome and appends deliveries; the lane then publishes and
delivers through the registered providers. Health reads the aggregate and pending
cleanups and closes the dispatcher's gate. Run fences keep cleanup and the
lifecycle of a run apart. The runtime-store owner is acquired before, and released
after, all of them.

`PROJECT.json` lists every component with its status, and the hazards of the code
at their lines with the properties that address each.

## Modules

```
TokenLedger   RunLifecycle               abstract specifications
      ^            ^
      +--Admission-+                     the aggregate, gates and budgets
           ^      ^
  MCAdmission    AdmissionProofs         TLC instance, theorems

Dispatch <- DispatchProofs               lane, dispatcher, owners, Sessions, worktrees
Intake <- IntakeProofs                   attempts, timer, a tracker provider, issues
CodeHostProvider <- Publication <- PublicationProofs
                                         provider generations, attempts, the remote
Delivery <- DeliveryProofs               outbox, workers, the tracker
Maintenance <- MaintenanceProofs         cleanup, retention, Git, the audit
OperatorCommands <- OperatorCommandsProofs
                                         browsers, command log, tasks
RuntimeOwner <- MCRuntimeOwner, RuntimeOwnerProofs
```

Each module models one component with the part of its environment that makes it
hard; where another component matters only by what it allows or refuses, it is a
choice there and the subject of its own module. `Publication` extends
`CodeHostProvider` and is its composition with the worker: the provider retains
what the worker holds. `Admission` composes the aggregate with the gates of lane,
dispatcher and operator.

Beside an operator there is at times a variant with a longer name placed right
before it (`CanReserveSettledOnly` before `CanReserve`). A variant is a plausible
bug at that place and belongs to no specification: it documents which mistake the
properties would notice, and TLC finds a property violated when the operator is
defined by its variant. `PROJECT.json` pairs each property with one.

### Admission

The durable record of `admission/` with the processes around it. `state`,
`queue`, `hold`, `execution`, `ledger`, `publication`, `mode`, `budget` and
`nextSequence` are the record; `dispatcher`, `owners`, `lane`, `resuming` and
`pauseAll` are process-local and forgotten by `Restart`.

Each update of the record is one action, as the storage table makes it one. An
operation that reads before it commits is two actions or more: `SelectHead` and
`Claim`; `ResumeActiveRead` and `ResumeActiveCommit`; `ResumeQueuedRead` and
`ResumeQueuedCommit` or `ResumeQueuedReject`; `BeginPauseAll` and `CommitPauseAll`.
What the code checks again at the commit is a guard of the second action, what it
trusts is not. `FenceFree` stands for `admission/run-fence.ts`: an operation needs
the fences of the runs it names, held by readers between read and commit.

`StateIntegrity` is what the code itself parses at each commit and each load: the
schema of a run in each state (`RunSchema`, from `admission/state.ts`) and the rules
between runs (`ValidateStateIntegrity`, from `admission/state-integrity.ts`). That it is an
invariant of the operations says that no operation is refused by its own validation
and no Host finds a record it cannot load.

Abstractions: deliveries are left to `Delivery`, so `DispatchReady` is weaker than
health, which also waits for pending deliveries. Settings do not change. Retry
times are abstract: what is to be retried may be due at any time. A durable write
succeeds. A claim and the registration of its owner are one step, and so are a
settlement and the removal of the owner (`Dispatch` has them apart). One request to
pause every run is in progress at a time, and it takes all fences in one step.
A run is one readiness generation of an issue (`runId` is derived from both).

### TokenLedger and RunLifecycle

What the aggregate promises, without its mechanism. `TokenLedger`: reserve before
spending, spend no more than reserved, freeze when spending cannot be proved.
`RunLifecycle`: a run waits, executes, parks, hands off and ends once; a crash
strands what was executing, and stranded work never executes, parks or hands off
again. `Admission` implements both: `ImplementsTokenLedger` maps the deployment
budget, `ImplementsRunLifecycle` maps states by `PhaseOf` and the recovery
requirement to `stranded`. A blocked run has ended in this view: the code resumes
it under no condition, a new readiness generation is a new run.

### Dispatch

The workflow lane as a queue of operations (`lane`: reconciliations, starts,
resumptions, settlements), the dispatcher (`dispatcher`: accepting, draining,
quiescing, withdrawn) and one `owner` per execution, which composes the Agent,
mounts it, works, becomes idle, flushes and disposes, reads Git and the report, and
settles, or fails at any of these and takes the failure path of
`settleExecutionFailure`. `roots` counts Agents alive per Session, `tree` is what a
worktree holds, `run[r].git` what the record says of it. `Crash` forgets owners and
the lane and is followed by the recovery of the aggregate.

Budgets, tracker reads and compositions are choices: a claim or a resumption may be
refused. `recoverExternalIntents` is one step with the step of the lane after it;
flush and disposal of the Agent are one. A turn whose report is a violation or says
blocked ends its run as any other. A lost Session or worktree is a choice of the
resumption's inspection.

### Intake

Attempts of webhook deliveries and of the timer read the candidates from the
mounted provider, one call at a time, while the environment edits issues, and
commit what they saw (`CommitReconcile`, `CommitNothing`), with receipts,
acknowledgement, failures and restarts; the answer to a delivery may be lost after
its commit, and the delivery repeated. `adapter` says which of the two shipped
providers is mounted: Jira lists, then reads comments and change log of each issue
(`SearchIssues`, `ReadJiraComments`, `ReadChangelogs`); GitHub Issues lists by label,
then reads comments, timeline and dependencies (`ListLabelled`,
`ReadGitHubComments`, `ReadTimeline`, `ReadDependencies`), and notices a timeline that
disagrees with its listing. `provider` is available or withdrawn; an attempt that
holds a withdrawn generation is aborted.

An issue has `approvals`, the version of its Agent Brief at each human readiness
transition, `ready`, `blocked` and the current version `brief`. It is named by its place
in the admission order, a page holds one issue, a delivery is named by the readiness
transition it reports. A failing call is noticed when the reading would have ended:
reads have no effect, so nobody can tell. The claim takes the oldest queued run; the
full order is `Admission`'s. A commit appends what is fresh and fits the
queue, in the order of the reading (`Fresh`, `Admitted`, `InOrder`). `lapsed` is a history variable: the transitions whose
issue was not eligible all the time.

### CodeHostProvider and Publication

`CodeHostProvider` is the registry's one generation of the GitHub code host
(`provider`), the operation that retains it (`retained`), and the loop that follows
settings and tools (`Scheduled`, registration, withdrawal, draining). A
configuration is a number, 0 an incomplete one.

`Publication` adds the worker with its attempts and the remote. An attempt claims
the intent, checks Git, reads base, branch and pull requests one after another,
takes the one step that is missing and reads again; `requests` are calls on their
way, which take effect after the attempt that sent them gave up, or never. Other
people push to the base and to the run's branch and close, merge or make a draft of
the pull request.
A commit is known by its tree: the verified base's, the run's, or another. What the
worker calls `Ready` is what it records.

Abstractions: nobody closes or merges the pull request between an attempt's read
that missed it and the end of that attempt's request; a pull request keeps its base;
the configuration does not change to another repository. A failed run may own an
open pull request after the base moved or a permission was lost, as in the code.

### Delivery

The outbox of the deliveries about one issue, over several runs of it. `Start`,
`Pause` and `End` are the lifecycle events that append a report, a projection and, for
one subscription, a notification, and retire the run's earlier projections; a
resumption and a cancellation append nothing, as in the code. `worker` is
`Delivery.active` with the place of each worker between its awaits: claim, look at the
tracker (`reconcileDelivery`), assert ownership, write, record. `batch` is what
`deliverPending` waits for in the lane; `Retry` and `Repair` start a worker outside
it. `shown` and `received` are the tracker, with what the Jira writer reads and
writes, and the destination of the notifications, which no shipped provider can ask
what it received (`reconcile` is empty in both): `Notify` sends again whatever arrived
before. `MutationFailures`, `CallFailures`, `LookupFailures` and `PostFailures` say
what a failing call leaves known.

The place of a delivery in the outbox is the order of `runRevision`, which every
append takes from the growing revision of the record. Retry times are abstract. A
write takes effect before its caller learns how it ended, or never; a projection
checks the readiness and writes in one step, although Jira's "completed" is two
mutations (labels, then a transition), of which a permanent failure may leave the
first. "implementing" stands for pausing and publishing too, "completed" for
failed. The disposal of the service is an uncertain end at any stage, as `Fail`
allows. `repairTrackerProjection` is modelled although no command of the web
interface calls it. `operated` counts retries and repairs: it bounds them and lets a
property speak of unattended delivery.

### Maintenance

Two callers remove worktrees: the operator, by a preview and its confirmation, and
the retention pass, run after run. `caller` has the step of each: previewing,
confirming, inspecting again behind the run's fence, intent, Git, outcome.
`pending` is the durable intent (`state.pendingCleanup`), `outcome` the audit a
replayed command is answered from, `observations` and `aged` the merge observations.
`run` and `generation` are what the aggregate says of a run; a change of the run
takes the fence and moves the generation. `worktree` is what Git sees: clean, dirty
or gone, with commits the code host has or not. Its owner edits it at any time.
`PreservesCommits` says whether the code host keeps the commits it is handed or
makes its own, which decides whether `rev-list` in the worktree's clone can work.

### OperatorCommands

Browsers issue pauses, resumptions and cancellations of one run: `browser` is what
each shows, `calls` are requests on their way (`client/state.ts`). The durable
`commands` keep one record per request and evict finished ones when full; `tasks`
are the executions, which outlive calls and are started again with the service
(`Restartable`). The run moves by itself between any two steps. `reached` is a
history variable: the requests whose effect was there at some time since they were
recorded or a browser's check let them in, which is as long as anybody may still
act on them. "publishing" stands for the states after it, "blocked"
for failed; the scheduler does not resume runs by itself here.

### RuntimeOwner

`acquire` and `release` of `operations/runtime-owner.ts`, one file system call a
step, for several process lifetimes that may exit between any two steps. A fence is
the directory at `lockPath`, with an identity, so that a process may judge one
directory and rename another. The five seconds an incomplete fence must have rested
are abstract: it is taken for stale only when no live process is still completing
it, i.e. no live process is suspended that long inside `acquire`. Reuse of process
identifiers is not modelled. Directories renamed aside are looked at by nobody again.

## What each run checks

| Run | Question | Properties |
| --- | --- | --- |
| `admission` | Do two runs with one slot, tokens for less than both and usage beyond the reservation keep record, budget, order and gates, whatever interleaves? | `StateIntegrity`, `WithinCaps`, `ReservationsAreOwed`, `ImplementsTokenLedger`, `ImplementsRunLifecycle`, `HoldIsOperators`, `RecoveryIsNotResumption`, `NoStartWhileGated`, `NoOvertaking` |
| `dispatch` | Do lane, owners, Agents, Sessions and worktrees stay together through pauses, resumptions, failures, a withdrawal and a crash? | `OneRootPerSession`, `CheckpointIsProven`, `WithdrawnIsQuiet`, `QueuedStarts`, `TypeOK` |
| `intake` | Is every ready issue admitted, once, on a brief that was approved? | `UniqueRuns`, `BriefsWereApproved`, `AcknowledgedIsAdmitted`, `EligibleIsAdmitted`, `TypeOK` |
| `intake_blocked` | Does a queued run start although its issue was blocked since? Yes | `NewlyBlockedNeverStarts` (violated) |
| `publication` | Is a verified run handed over as one pull request of its commits, and does the provider follow its settings without leaving an operation behind? | `OnePullRequest`, `CompletedIsHandedOver`, `PublicationEnds`, `HeldGenerationIsKept`, `ProviderFollowsSettings`, `TypeOK` |
| `delivery` | Are label projections of one issue serialised and the newest the last, across two runs, an operator's retry or repair, and restarts? | `ProjectionsAreSerialized`, `LabelIsCurrent`, `NeverRevived` |
| `delivery_fair` | Is a report written once, did what is recorded as succeeded arrive, and does every delivery end, notifications included? | `ReportedOnce`, `DeliveriesEnd` |
| `maintenance` | Does only a worktree go that may, is the audit true, does merged work go in the end, and does maintenance give way to work? | `RemovalIsAuthorized`, `OutcomeIsTrue`, `MergedIsCleaned`, `MaintenanceGivesWay`, `TypeOK` |
| `maintenance_unpushed` | And with a code host that makes commits of its own? Merged work stays | `MergedIsCleaned` (violated) |
| `commands` | Had a command that succeeded its effect, and does each end? | `SucceededIsEffective`, `CommandsEnd`, `TypeOK` |
| `runtime_owner` | Do two process lifetimes exclude each other, with crashes at any call? | `OwnersAreFenced`, `AttemptsEnd` |
| `runtime_owner_contended` | And three? No: see below | `SecondHostRefuses` (violated) |

The comment above each property says what code behaviour it is about. Limits of
what the passing runs say: `LabelIsCurrent` is conditional on no operator having
retried or repaired; `ProjectionsAreSerialized` excepts a worker whose claim an
event of its own run has retired, which the code lets go on;
`AcknowledgedIsAdmitted` and `EligibleIsAdmitted` speak of issues that stay eligible,
the latter of providers that come and go at first only; `BriefsWereApproved` excludes
a brief that is too new, not one that is too old; `PublicationEnds` counts an
exhausted intent as an end; `QueuedStarts` begins when no continuation is left to
prefer; `CommandsEnd` assumes that agents end and the Host is started again.

Deadlock is checked for `Admission`, `Dispatch` and `Maintenance`, which always have
a next step. It is not for the others, which really may stop: every process lifetime
over, every readiness transition used, every delivery made, every request answered,
the run published.

## Bounds

- `Admission`: two runs. Every property relates at most two runs (order, the
  shared budget, one lane); two are the fewest with a head and a follower. The cap 4
  with allowance 2 and run cap 3 makes the second claim fit exactly once, makes a
  continuation reserve less than the allowance, and refuses the next; `Reports` are
  one within the reservation and one beyond it. One slot makes starts compete with
  continuations. Both requests to pause every run take part.
- `Dispatch`: two runs compete for one slot; two changes of a worktree separate what
  was reported, recorded and saved; one pause, disable or withdrawal and one crash fall
  at any step, and resumptions at any time, one waiting at a time. More of either grows
  the state space past what a run is given.
- `Intake`: one issue, two readiness generations, two versions of the brief and three
  edits are the fewest with a transition that is withdrawn, edited and made again
  inside one reading. One queue place makes deferral, one receipt makes eviction, one
  webhook attempt next to the timed one makes two readers. Order among issues is
  checked in `Admission`.
- `Publication`: two configurations and two changes make a change during a change;
  two attempts are the fewest with a retry; one action of other people and one restart
  fall at any step.
- `Maintenance`: two runs make a pass that goes on after the first; two changes
  (a worktree dirtied, cleaned or committed to, a delivery repeated, which moves its
  run) fall around inspections and the call of Git; an operator previews once; one
  restart. The limit of merge observations is beyond the runs here.
- `OperatorCommands`: two requests against each other, a log of two records, one
  broken call and one restart.
- `Delivery`: two generations, three projections and one operator request: an
  older, a newer and a repaired projection, within a run and across runs. The
  liveness run has one event with all three kinds and no operator but for one retry
  or repair: its properties are about each delivery by itself. Two attempts are the fewest with a retry.
- `RuntimeOwner`: two lifetimes are a contender and an owner (or its remains); five
  directories suffice for two fences each. Three lifetimes show the violation; hosts
  are interchangeable there, which the symmetry uses (an invariant only).

Every bound is a constant named in its module and stands in the guard of the
environment's action it limits, never of a step of the program.

## Fairness

- `Dispatch`: the timer is armed again after each reconciliation, the lane runs its
  operations one after another, an owner's calls are awaited and an Agent ends because
  its tokens do: weak fairness. What the lane attempts is not refused for ever: strong
  fairness of a claim and of the publication that keeps health from permitting
  dispatch (`PublicationEnds` is `Publication`'s).
- `Intake`: the timer schedules its next attempt after each, failed or not
  (`reconciliation/service.ts`, `runTimed` and `scheduleNext`), a withdrawn generation
  makes way for the next, steps of an attempt are awaited. A reading that is repeated
  for ever commits at times: strong fairness, the assumption that failures of
  tracker and Host are transient. Claimed work ends, or nothing frees a full queue.
- `Publication`: an attempt's steps are awaited, a call is answered or times out, a
  retry that is due is made (`WF` of `HostStep`); the provider's loop goes on (`WF` of
  `LoopStep`). Nothing is assumed of people, of the remote's success or of settings.
- `Maintenance`: steps of an operation that began are awaited, retention passes are
  scheduled for ever, time passes and deliveries are made. The fence serves its
  waiters in turn (`admission/run-fence.ts`), hence strong fairness of `Recheck`.
- `OperatorCommands`: tasks and a browser's polling go on, a call that arrived is
  answered, the Host is started again after a crash, an Agent ends. Nothing is
  assumed of connections.
- `Delivery`: every reconciliation drains the outbox through the lane
  (`workflow/service.ts`, `recoverExternalIntents`), hence weak fairness of
  `DeliverPending`; a worker's calls are awaited; restarts are rare enough that a claim
  which is possible again and again happens: strong fairness of `Claim`. No fairness
  is assumed of the tracker's success: a write may fail for ever.
- `RuntimeOwner`: file system calls are awaited in a loop, and a disposed service
  drops its hold. Nothing is assumed of exits.
- `Admission` has no liveness property: `Dispatch` asks whether work starts.

## What is proved

For every value of the constants that the named assumptions of the modules allow
(those of `Admission` on tokens are conditions the settings' validation enforces; the
others only say of which kind each constant is):

| Module | Theorem | States | Argument |
| --- | --- | --- | --- |
| `AdmissionProofs` | `TypeInvariant` | `[]TypeOK` | inductive by itself; lemmas type the results of admission and settlement |
| | `CapsInvariant` | `[]WithinCaps` | inductive with `TypeOK`; `TokenMoves` reduces the 30-odd actions to the four ways tokens move |
| | `OwedReservations` | `[]ReservationsAreOwed` | needs `UncertaintyAgrees`, that the deployment is uncertain exactly if a run is; their conjunction `OwedInv` is inductive |
| | `TokenLedgerRefinement` | `Spec => ImplementsTokenLedger` | initial states map; each step is a `Reserve`, `Settle`, `Freeze` or stutter, given `OwedInv` (a settlement gives back what was really reserved) |
| | `GatedStarts` | `NoStartWhileGated` | every step that starts a run carries the gate: `OnlyStarts` |
| | `DisabledStops` | `[]DisabledMeansStopped` | the mode change takes no fence, so the invariant must survive a claim in progress: its commit looks at the mode again |
| | `OperatorHolds` | `HoldIsOperators` | `HoldInv`: only an operator's resumption ever has the lane for a held run |
| | `QueueOrder` | `NoOvertaking` | `SequenceInv`: queued sequences lie below the next one, and fresh positions respect priority (`FreshPositionsOrdered`, `FreshPositionBelow`) |
| | `IntegrityProven` | `[]StateIntegrity` | the schema of a run is `RecordInv`: what each state, hold, publication and recovery requirement presupposes. The totals are `TotalsAgree`: a step changes one run's part of a sum by what it adds to the deployment's |
| | `RecoveryProven` | `RecoveryIsNotResumption` | from `RecordInv`: no live owner executes a run that requires recovery, so no settlement, checkpoint or resumption reaches it |
| | `LifecycleRefinement` | `Spec => ImplementsRunLifecycle` | `RunFollowsLifecycle`: each step of a run moves it as an abstract action does, or leaves its phase (`LifecycleMoves`, `LifecycleStutters`); `RecordInv` excludes the moves that would resume a stranded run |
| `DispatchProofs` | `DispatchTypeCorrect` | `[]TypeOK` | part of `DispatchInv`, with the rows below |
| | `OneRootProven` | `[]OneRootPerSession` | `LaneInv`: only the first operation of the lane is under way, and one that starts or resumes a run has found room for it. That nobody else takes the room in between is the work of the lane, so the bound on running work needs both; cardinalities of sets of owners |
| | `WithdrawalProven` | `[]WithdrawnIsQuiet` | a dispatcher past its drain has no start or resumption left in the lane, and the disposer waits for every owner |
| | `CheckpointsProven` | `CheckpointIsProven` | `OwnerInv`: the phases of an execution tell what was flushed, disposed and read |
| `IntakeProofs` | `IntakeTypeCorrect` | `[]TypeOK` | part of `IntakeInv` |
| | `UniquenessProven` | `[]UniqueRuns` | a commit appends runs of different issues, none with the identity of an earlier one |
| | `ApprovalProven` | `[]BriefsWereApproved` | `AttemptInv`: what a half-read page holds of an issue are earlier values of growing approvals, whichever adapter reads and whatever is edited between two calls |
| | `AcknowledgementProven` | `[]AcknowledgedIsAdmitted` | `SteadyInv` and `Witnessed`: as long as an issue stayed eligible, an attempt for its delivery reads the transition it was sent for, and its commit admits it; receipts are evicted only after that |
| `PublicationProofs` | `PublicationTypeCorrect` | `[]TypeOK` | `PublicationInv` relates provider, attempt, remote and what the attempt knows |
| | `OnePullRequestProven` | `[]OnePullRequest` | `KnowledgeInv`: a pull request is created only where one was seen missing, by one call at a time. It rests on the abstraction that nobody closes the pull request during that attempt |
| | `HandOverProven` | `[]CompletedIsHandedOver` | `KnowledgeInv`: the recorded head was read with the verified tree, commits are never rewritten |
| | `GenerationKept` | `[]HeldGenerationIsKept` | `ProviderInv`: the loop registers only when nothing is retained |
| `DeliveryProofs` | `DeliveryTypeCorrect` | `[]TypeOK` | `TypeOK` is not inductive alone: a repair projects the state of the delivery's run, which must be one that has a label. `RunsOfDeliveries` says that only runs that started have deliveries; the conjunction `DeliveryInv` is inductive |
| | `DeliveriesNeverRevived` | `NeverRevived` | from `DeliveryInv`: an append keeps what is there, and each of the ways a status changes starts from one that has not ended |
| | `SerializationProven` | `[]ProjectionsAreSerialized` | `SerialInv`: whoever writes a projection claimed it when every older one had ended, and an ended one is never claimed again |
| | `LabelProven` | `[]LabelIsCurrent` | `LaneInv`, which holds while no operator intervened (`operated = 0 => LaneInv`): every worker belongs to the lane's batch, so none of an older projection outlives the newest one's start |
| | `ReportsProven` | `[]ReportedOnce` | `ReportInv`: a worker looks for the report before it writes it, and `received` follows its place |
| `MaintenanceProofs` | `MaintenanceTypeCorrect` | `[]TypeOK` | part of `MaintenanceInv` |
| | `OutcomeProven` | `[]OutcomeIsTrue` | `CallerInv`: from the durable intent on, one caller is under way and knows what Git did; who removed a worktree is never forgotten |
| | `RemovalProven` | `RemovalIsAuthorized` | `CallerInv`: between the inspection behind the fence and Git, the run keeps what made it eligible; Git itself refuses a dirty worktree |
| `OperatorCommandsProofs` | `CommandsTypeCorrect` | `[]TypeOK` | part of `CommandsInv`; that eviction spares running tasks needs an account of the log as a value (`WellKept`) |
| | `SuccessProven` | `[]SucceededIsEffective` | `HistoryInv`: a run that is where a known command wants it has been seen there |
| `RuntimeOwnerProofs` | `OwnerTypeCorrect` | `[]TypeOK` | inductive by itself, one case per file system call |
| | `FenceProven` | `AtMostTwo`: `[]OwnersAreFenced` | `FenceInv`: a fence that nobody holds was left by a dead process, and then the other is alone |

`FenceProven` has a hypothesis because the property is false without it: with three
process lifetimes the run `runtime_owner_contended` shows two owners.

The inductive invariants stand at the beginning of the proof modules, or before the
theorem they are for in `AdmissionProofs` and `DeliveryProofs`; each was checked by
TLC as an invariant of the instances before it was proved. `StateMoves`,
`ActivityMoves`, `HoldMoves`, `LaneMoves`, `QueueMoves` and `SequenceMoves` of
`AdmissionProofs` each say, once, which actions may change a
variable; the invariance proofs then have a case for each kind of change. The other
modules have a lemma for each action or group of actions, and frame lemmas that say
what a step of one run, caller or attempt leaves alone.

Sums over runs are folds, which a proof by induction would have to unfold. They are
avoided by least counterexamples: of the sets of runs for which a fact fails, one is
minimal (`MinimalRuns`), and the fact holds of it because it holds of what is left
when one run is taken out (`PartialSums`, `SumChanges`). `LeastNumber` and, in
`DispatchProofs`, `LeastRun` replace inductions over numbers in the same way.

Only model-checked: liveness (`QueuedStarts`, `EligibleIsAdmitted`, `DeliveriesEnd`,
`PublicationEnds`, `ProviderFollowsSettings`, `MergedIsCleaned`, `MaintenanceGivesWay`,
`CommandsEnd`, `AttemptsEnd`), which needs `ENABLED` and fairness, out of the
prover's reach; and the three violated properties, which have counterexamples. Every
invariant and action property of a passing run, and both refinements, are theorems.

What the proofs found in the models: `SucceededIsEffective` failed with three
requests and a log of two records, because `reached` did not observe a request whose
record had finished, although a repeated call of it may still be let in. The history
variable was wrong, not the code; two requests, as TLC runs it, could not show it.

## Disagreements between documents and code

Each has a run whose counterexample TLC prints, and an entry under `findings`.

1. **Two Hosts may own the store** (`operations/runtime-owner.ts:191`). Two starting
   Hosts judge the fence of a dead third stale; one renames it and acquires, the
   other then renames the *new* fence and acquires too. The documents promise that a
   second Host refuses. It takes three process lifetimes; with two it cannot happen.
2. **A newly blocked issue starts** (`admission/execution-control.ts:47`). The claim
   trusts the facts of the admission; only resumptions read the tracker again.
3. **Merged work is never cleaned up** (`operations/cleanup-inspector.ts:66`). The
   shipped GitHub code host makes commits of its own, which no local clone knows; the
   count of unpushed commits stays unknown, and unknown counts as unpushed.

## Observations no run checks

Met while modelling; each is a sequence of steps in the source, described here so
that nobody has to find it again.

- **An older label after an operator's retry** (`admission/deliveries.ts:20`). A
  lifecycle event retires a projection a worker is writing; the newer projection no
  longer sees it in flight and does not wait (`delivery-control.ts:279`). The lane hides
  this; a retry, which runs outside the lane, does not. `docs/specs/integrations.md:79`
  says that delayed projections are superseded. Dropping `operated = 0` from
  `LabelIsCurrent` makes TLC print the sequence.
- **Two unfinished runs of one issue** (`admission/reconciler.ts:79`). The identity
  of a run contains its readiness generation, so a second human transition admits a
  second run while the first is unfinished. `docs/specs/lifecycle.md:9` says "at most
  one unfinished run".
- **An old brief under a new approval** (`providers/jira/provider.ts:140`,
  `providers/github-issues/provider.ts:180`). The comments with the brief are read
  before the readiness history. Withdrawn, edited and made ready again between the
  two calls, the new generation's run has the old brief. `BriefsWereApproved` shows
  that the opposite, a brief nobody approved, is excluded.
- **A run of a binding that was switched away** (`admission/service.ts:181`). The
  switch is refused while runs depend on the old tracker, but an attempt in flight
  that holds the old generation commits such a run after the check.
- **A pausing run without an owner** (`dispatch/service.ts:75`). A setup that fails, or
  a settlement that fails, while a pause is requested leaves the run pausing; only a
  restart moves it on. `Dispatch` has this behaviour; no document rules it out.
- **A continuation that starves the queue** (`dispatch/service.ts:88`). The scheduler
  goes on with the first paused run; while that one is refused, no queued run starts.
- **A publication left exhausted** (`admission/service.ts:529`). A restart in the last
  automatic attempt leaves the run publishing with an exhausted intent: nothing moves
  it until an operator does, and health permits no dispatch.
- **A rejected command that is executed** (`client/state.ts`). A browser whose status
  call is refused shows the command as rejected although the Host goes on with it;
  and a command whose acknowledgement was lost, whose record was evicted before the
  browser asked again, is executed a second time.
- **The last merge observation** (`operations/state.ts`). Observations of merges are
  never taken away and at most a hundred fit: the next merged run fails the
  maintenance store at each inspection, which closes health. `Maintenance` has this
  (`RecordFull`); with a limit below the number of runs `MaintenanceGivesWay` fails.
- **A pause in the middle of a model request** makes usage uncertain, which stops all
  further spending until an operator resolves it.

## What is not modelled

Request building and response schemas of the adapters, the
agent, its prompts and the counting of its tokens, parsing and storing of settings,
the one-time migration of old records, the composition of the maintenance storage,
MCP result shapes and cursors, web views and the rendering of the browser client:
they have no state of their own that interleaves, or only views of it. Sizes are not
modelled: the record's limit, the byte bounds of a reading (with them the repeated
cursor of `admission/candidates.ts:23`) and the limit of previews. Failures of durable writes are not:
the storage layer is external, and every service rejects for recovery then. A Git
subprocess that outlives its Host, recovery participants' registration, and the
order in which run fences are taken are not modelled either.

## Plan

Done: `TokenLedger`, `RunLifecycle`, `Admission`, `RuntimeOwner`, `Intake`,
`Delivery`, `CodeHostProvider`, `Publication`, `Maintenance`, `OperatorCommands`,
`Dispatch`; proofs of every safety property of theirs that a run checks. Left:

1. `RunFence`: the fences one by one (`admission/run-fence.ts`), implementing the
   one-step fences of `Admission`; freedom from deadlock between a pause of every run
   and resumptions.
2. The reset of uncertain usage and the switch of the tracker's binding in `Admission`.
3. Recovery participants and their registration, which the gate of `Dispatch` takes
   for granted.

The modules are written to be proved about: parameters are constants with named assumptions,
one action per operation, no recursive operator.

## Running it

```
tlasany Admission.tla
tlc -workers 2 -config MCAdmission.cfg MCAdmission
tlapm AdmissionProofs.tla
```

The `runs` of `PROJECT.json` name the module and configuration of every run; the
longest takes about three minutes.
