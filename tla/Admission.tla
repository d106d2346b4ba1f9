----------------------------- MODULE Admission -----------------------------
(***************************************************************************)
(* The durable admission aggregate of Autopilot (admission/) together with *)
(* the dispatcher (dispatch/) and the workflow lock (workflow/) that drive *)
(* it in one Host process.                                                 *)
(*                                                                         *)
(* Every operation of the aggregate is one atomic update of one storage    *)
(* record.  What interleaves is everything around these updates: the       *)
(* per-run operation fence, held across a tracker read by resumptions and  *)
(* taken run by run by a disable, the workflow lane that serialises        *)
(* claims, resumptions and publications, the live execution owners, and a  *)
(* Host restart that forgets all process-local state.  The tracker is the  *)
(* environment: a read, however stale when its result is committed, may    *)
(* report any runs eligible.                                               *)
(***************************************************************************)
EXTENDS Integers, FiniteSets, Functions

CONSTANTS
    Runs,                 \* run identities; their order is the identity order
    Priority,             \* normalised tracker priority of a run's issue
    MaxQueued,            \* settings.maxQueued
    MaxRunning,           \* settings.maxRunning
    DeploymentCap,        \* settings.deploymentTokenCap
    RunCap,               \* settings.perRunTokenCap
    Allowance,            \* settings.runTokenAllowance
    Reports,              \* token counts a usage recorder may report
    MaxExternalAttempts,  \* MAX_AUTOMATIC_EXTERNAL_ATTEMPTS
    PauseKinds,           \* the requests to pause every run that occur
    NoRun                 \* "no run" in the workflow lane

ASSUME RunsAssumption == Runs \subseteq Nat /\ IsFiniteSet(Runs) /\ NoRun \notin Runs
ASSUME PriorityAssumption == Priority \in [Runs -> Nat]
ASSUME LimitAssumption ==
    /\ MaxQueued \in Nat \ {0} /\ MaxRunning \in Nat \ {0}
    /\ MaxExternalAttempts \in Nat \ {0}
    /\ PauseKinds \subseteq {"disable", "withdrawal"}
(* validateExecutionSettings rejects any other setting before a claim.     *)
ASSUME TokenAssumption ==
    /\ Allowance \in Nat \ {0} /\ RunCap \in Nat /\ DeploymentCap \in Nat
    /\ Allowance <= RunCap /\ Allowance <= DeploymentCap
    /\ Reports \subseteq Nat

VARIABLES
    \* the durable record
    state,         \* lifecycle state of each run
    queue,         \* queueClass and queueSequence of each run
    hold,          \* pause.operatorHold of each run
    execution,     \* recorded Git facts and the recovery requirement of each run
    ledger,        \* token budget of each run
    publication,   \* publication intent of each run
    mode,          \* scheduler.mode
    budget,        \* deployment token budget
    nextSequence,
    \* one Host process
    dispatcher,    \* the dispatcher's service phase
    owners,        \* Dispatch.active: runs with a live execution owner
    lane,          \* what holds the workflow's exclusive section
    resuming,      \* queued resumptions between their tracker read and commit
    pauseAll       \* a disable or withdrawal request waiting for the run fences

runVars == <<state, queue, hold, execution, ledger, publication>>
schedulerVars == <<mode, budget, nextSequence>>
processVars == <<dispatcher, owners, lane, resuming, pauseAll>>
vars == <<state, queue, hold, execution, ledger, publication, mode, budget,
          nextSequence, dispatcher, owners, lane, resuming, pauseAll>>

----------------------------------------------------------------------------
(* Values.                                                                 *)

RunStates == {"absent", "queued", "paused-queued", "implementing", "pausing",
              "paused-active", "publishing", "blocked", "failed", "completed",
              "cancelled"}
Active == {"implementing", "pausing"}
Modes == {"enabled", "draining", "disabled"}
Publications == {"none", "pending", "in-flight", "uncertain", "retryable",
                 "failed", "exhausted", "succeeded"}
Authorizations == {"none", "operator", "scheduler"}

Idle == [op |-> "idle", run |-> NoRun, by |-> "none"]
NoBudget == [reserved |-> 0, settled |-> 0, uncertain |-> FALSE]
NoPauseAll == [kind |-> "none", targets |-> {}]

(* A report of a usage recorder: a token count, provable or not.           *)
Usage == [kind : {"known", "uncertain"}, tokens : Reports]

----------------------------------------------------------------------------
(* Order, capacity and readiness (policy.ts, health.ts).                   *)

Existing == {r \in Runs : state[r] # "absent"}
Queued == {r \in Runs : state[r] = "queued"}
OccupiesQueueCapacity == {r \in Runs : state[r] \in {"queued", "paused-queued"}}

RunFactsBefore(q, r) ==
    \/ Priority[q] < Priority[r]
    \/ Priority[q] = Priority[r] /\ queue[q].sequence < queue[r].sequence

QueuedBefore(q, r) ==
    \/ queue[q].class = "resumption" /\ queue[r].class = "new"
    \/ queue[q].class = queue[r].class /\ RunFactsBefore(q, r)

IsQueueHead(r) == r \in Queued /\ \A q \in Queued \ {r} : QueuedBefore(r, q)

(* Paused runs the scheduler may continue by itself, and the one it picks. *)
Continuations ==
    {r \in Runs : state[r] = "paused-active" /\ ~hold[r] /\ ~execution[r].recovery}

IsContinuation(r) ==
    r \in Continuations /\ \A q \in Continuations \ {r} : RunFactsBefore(r, q)

(* Operations health permits dispatch: no run requires recovery and, once  *)
(* the recovery participant has run, no publication is left unfinished.    *)
DispatchReady ==
    \A r \in Runs : ~execution[r].recovery /\ state[r] # "publishing"

(* The per-run operation fence is free for another operation.              *)
FenceFree(r) ==
    /\ r \notin resuming
    /\ ~(lane.op = "resume" /\ lane.run = r)

HasRunningCapacity == Cardinality(owners) < MaxRunning

(* A report that skips the reservation check still respects the run's cap. *)
UsageKnownUnreserved(r, usage) ==
    usage.kind = "known" /\ ledger[r].settled + usage.tokens <= RunCap

(* validUsageSettlement                                                    *)
UsageKnown(r, usage) ==
    /\ usage.kind = "known"
    /\ usage.tokens <= ledger[r].reserved
    /\ ledger[r].settled + usage.tokens <= RunCap

(* What settling usage does to a run's budget and to the deployment's.     *)
RunLedgerAfterKept(r, usage) ==
    IF UsageKnown(r, usage)
    THEN [ledger[r] EXCEPT !.settled = @ + usage.tokens]
    ELSE [ledger[r] EXCEPT !.uncertain = TRUE]

RunLedgerAfter(r, usage) ==
    IF UsageKnown(r, usage)
    THEN [reserved |-> 0, settled |-> ledger[r].settled + usage.tokens, uncertain |-> FALSE]
    ELSE [ledger[r] EXCEPT !.uncertain = TRUE]

BudgetAfter(r, usage) ==
    IF UsageKnown(r, usage)
    THEN [reserved |-> budget.reserved - ledger[r].reserved,
          settled |-> budget.settled + usage.tokens, uncertain |-> budget.uncertain]
    ELSE [budget EXCEPT !.uncertain = TRUE]

CanReserveSettledOnly(tokens) == budget.settled + tokens <= DeploymentCap
CanReserve(tokens) == budget.settled + budget.reserved + tokens <= DeploymentCap

BudgetReserving(tokens) ==
    [reserved |-> budget.reserved + tokens, settled |-> budget.settled,
     uncertain |-> budget.uncertain]

ContinuationReservation(r) ==
    IF Allowance <= RunCap - ledger[r].settled THEN Allowance ELSE RunCap - ledger[r].settled

----------------------------------------------------------------------------
Init ==
    /\ state = [r \in Runs |-> "absent"]
    /\ queue = [r \in Runs |-> [class |-> "new", sequence |-> 0]]
    /\ hold = [r \in Runs |-> FALSE]
    /\ execution = [r \in Runs |-> [git |-> FALSE, recovery |-> FALSE]]
    /\ ledger = [r \in Runs |-> NoBudget]
    /\ publication = [r \in Runs |-> [status |-> "none", attempts |-> 0]]
    /\ mode = "enabled"
    /\ budget = NoBudget
    /\ nextSequence = 1
    /\ dispatcher = "accepting"
    /\ owners = {}
    /\ lane = Idle
    /\ resuming = {}
    /\ pauseAll = NoPauseAll

----------------------------------------------------------------------------
(* Admission: reconciler.ts.                                               *)

(* Eligible issues without a retained run, in admission order.             *)
Fresh(seen) == {r \in seen : state[r] = "absent"}

FreshPosition(r, seen) ==
    Cardinality({q \in Fresh(seen) :
        Priority[q] < Priority[r] \/ (Priority[q] = Priority[r] /\ q < r)})

Admitted(seen) ==
    {r \in Fresh(seen) : Cardinality(OccupiesQueueCapacity) + FreshPosition(r, seen) < MaxQueued}

(* The commit of a reconciliation that read the eligible runs in seen.     *)
Reconcile(seen) ==
    /\ mode = "enabled"
    /\ state' = [r \in Runs |-> IF r \in Admitted(seen) THEN "queued" ELSE state[r]]
    /\ queue' = [r \in Runs |->
          IF r \in Admitted(seen)
          THEN [class |-> "new", sequence |-> nextSequence + FreshPosition(r, seen)]
          ELSE queue[r]]
    /\ nextSequence' = nextSequence + Cardinality(Admitted(seen))
    /\ UNCHANGED <<hold, execution, ledger, publication, mode, budget, processVars>>

----------------------------------------------------------------------------
(* Dispatch: the workflow lane claims the head of the queue.               *)

(* guardDispatch and prepareNext: recovery is complete, a slot is free and *)
(* no paused run is waiting to be continued by the scheduler.              *)
PrepareClaim ==
    /\ dispatcher = "accepting"
    /\ lane = Idle
    /\ HasRunningCapacity
    /\ mode = "enabled" => Continuations = {}
    /\ DispatchReady
    /\ lane' = [op |-> "claim", run |-> NoRun, by |-> "none"]
    /\ UNCHANGED <<runVars, schedulerVars, dispatcher, owners, resuming, pauseAll>>

(* Admission.claimNext: the head of a snapshot, whose fence is then taken. *)
SelectHead(r) ==
    /\ lane.op = "claim" /\ lane.run = NoRun
    /\ mode = "enabled"
    /\ ~budget.uncertain
    /\ IsQueueHead(r)
    /\ lane' = [lane EXCEPT !.run = r]
    /\ UNCHANGED <<runVars, schedulerVars, dispatcher, owners, resuming, pauseAll>>

(* The run whose fence was taken is still the head of the queue.           *)
StillHeadUnchecked(r) == lane.run = r /\ state[r] = "queued"
StillHead(r) == lane.run = r /\ IsQueueHead(r)

(* ExecutionControl.claimNext: everything but the tracker is read again.   *)
Claim(r) ==
    /\ lane.op = "claim"
    /\ FenceFree(r)
    /\ mode = "enabled"
    /\ ~budget.uncertain
    /\ StillHead(r)
    /\ CanReserve(Allowance)
    /\ state' = [state EXCEPT ![r] = "implementing"]
    /\ ledger' = [ledger EXCEPT ![r] = [reserved |-> Allowance, settled |-> 0, uncertain |-> FALSE]]
    /\ budget' = BudgetReserving(Allowance)
    /\ owners' = owners \cup {r}
    /\ lane' = Idle
    /\ UNCHANGED <<queue, hold, execution, publication, mode, nextSequence, dispatcher, resuming, pauseAll>>

(* The head changed before its fence was taken: the loop starts over.      *)
ClaimAgain(r) ==
    /\ lane.op = "claim" /\ lane.run = r
    /\ FenceFree(r)
    /\ mode = "enabled"
    /\ ~budget.uncertain
    /\ Queued # {} /\ ~IsQueueHead(r)
    /\ lane' = [lane EXCEPT !.run = NoRun]
    /\ UNCHANGED <<runVars, schedulerVars, dispatcher, owners, resuming, pauseAll>>

(* A claim or a resumption that rejects or finds nothing leaves the lane.  *)
LeaveLane ==
    /\ lane.op \in {"claim", "prepare", "resume"}
    /\ lane' = Idle
    /\ UNCHANGED <<runVars, schedulerVars, dispatcher, owners, resuming, pauseAll>>

----------------------------------------------------------------------------
(* Execution: what the owner of a live turn writes.                        *)

RecordWorktree(r) ==
    /\ r \in owners
    /\ FenceFree(r)
    /\ state[r] \in Active
    /\ ~execution[r].recovery
    /\ execution' = [execution EXCEPT ![r].git = TRUE]
    /\ UNCHANGED <<state, queue, hold, ledger, publication, schedulerVars, processVars>>

(* The state an outcome settles to: unprovable usage is always a failure.  *)
SettledState(r, outcome, usage) ==
    IF ~UsageKnown(r, usage) THEN "failed"
    ELSE IF outcome = "verified" THEN "publishing" ELSE outcome

(* ExecutionControl.settle, after which the dispatcher drops its owner.    *)
Settle(r, outcome, usage) ==
    /\ r \in owners
    /\ FenceFree(r)
    /\ state[r] = "implementing"
    /\ outcome = "verified" => execution[r].git
    /\ state' = [state EXCEPT ![r] = SettledState(r, outcome, usage)]
    /\ ledger' = [ledger EXCEPT ![r] = RunLedgerAfter(r, usage)]
    /\ budget' = BudgetAfter(r, usage)
    /\ publication' = IF SettledState(r, outcome, usage) = "publishing"
                      THEN [publication EXCEPT ![r] = [status |-> "pending", attempts |-> 0]]
                      ELSE publication
    /\ owners' = owners \ {r}
    /\ UNCHANGED <<queue, hold, execution, mode, nextSequence, dispatcher,
                   lane, resuming, pauseAll>>

(* PauseControl.checkpointPaused: the owner has a quiescent root, a        *)
(* durable Session and observed Git facts.                                 *)
CheckpointPaused(r, usage) ==
    /\ r \in owners
    /\ FenceFree(r)
    /\ state[r] = "pausing"
    /\ execution[r].git
    /\ state' = [state EXCEPT ![r] = "paused-active"]
    /\ ledger' = [ledger EXCEPT ![r] = RunLedgerAfter(r, usage)]
    /\ budget' = BudgetAfter(r, usage)
    /\ owners' = owners \ {r}
    /\ UNCHANGED <<queue, hold, execution, publication, mode, nextSequence, dispatcher, lane, resuming, pauseAll>>

(* settleExecutionFailure rethrows while pausing without quiescence proof: *)
(* the owner is gone and the run stays pausing.                            *)
LoseOwner(r) ==
    /\ r \in owners
    /\ state[r] = "pausing"
    /\ owners' = owners \ {r}
    /\ UNCHANGED <<runVars, schedulerVars, dispatcher, lane, resuming, pauseAll>>

----------------------------------------------------------------------------
(* Pause, hold and cancel.                                                 *)

(* Dispatch.stopRun and an aborted resumption: the caller saw a live owner *)
(* in this process, but its request may reach the fence after the          *)
(* checkpoint, or after the owner was lost.                                *)
RequestRunPause(r) ==
    /\ FenceFree(r)
    /\ \/ state[r] \in Active /\ ~execution[r].recovery
       \/ state[r] = "paused-active" /\ ~hold[r]
    /\ state' = [state EXCEPT ![r] = IF @ = "implementing" THEN "pausing" ELSE @]
    /\ hold' = [hold EXCEPT ![r] = TRUE]
    /\ UNCHANGED <<queue, execution, ledger, publication, schedulerVars, processVars>>

(* requestSchedulerDisable and requestServiceWithdrawalPause snapshot the  *)
(* retained runs and commit under the fences of all of these.              *)
BeginPauseAll(kind) ==
    /\ pauseAll = NoPauseAll
    /\ kind = "withdrawal" => dispatcher = "draining" /\ lane.op \notin {"claim", "prepare", "resume"}
    /\ pauseAll' = [kind |-> kind, targets |-> Existing]
    /\ UNCHANGED <<runVars, schedulerVars, dispatcher, owners, lane, resuming>>

PausedByAll == {r \in Runs : state[r] = "implementing"}

CommitPauseAll ==
    /\ pauseAll # NoPauseAll
    /\ \A r \in pauseAll.targets : FenceFree(r)
    /\ state' = [r \in Runs |-> IF r \in PausedByAll THEN "pausing" ELSE state[r]]
    /\ hold' = [r \in Runs |-> IF r \in PausedByAll THEN FALSE ELSE hold[r]]
    /\ mode' = IF pauseAll.kind = "disable" THEN "disabled" ELSE mode
    /\ dispatcher' = IF pauseAll.kind = "withdrawal" THEN "quiescing" ELSE dispatcher
    /\ pauseAll' = NoPauseAll
    /\ UNCHANGED <<queue, execution, ledger, publication, budget, nextSequence, owners, lane, resuming>>

(* The dispatcher's disposer stops new starts; a later mount accepts again *)
(* once every owner has quiesced.                                          *)
WithdrawDispatcher ==
    /\ "withdrawal" \in PauseKinds
    /\ dispatcher = "accepting"
    /\ dispatcher' = "draining"
    /\ UNCHANGED <<runVars, schedulerVars, owners, lane, resuming, pauseAll>>

MountDispatcher ==
    /\ dispatcher = "quiescing"
    /\ owners = {}
    /\ dispatcher' = "accepting"
    /\ UNCHANGED <<runVars, schedulerVars, owners, lane, resuming, pauseAll>>

(* PauseControl.setSchedulerMode takes no run fence.                       *)
ModeChangeAllowedAnyTime(m) ==
    m = "enabled" => \A r \in Runs : state[r] # "pausing"

ModeChangeAllowed(m) ==
    /\ m = "disabled" => \A r \in Runs : state[r] # "implementing"
    /\ m = "enabled" => \A r \in Runs : state[r] # "pausing"

SetSchedulerMode(m) ==
    /\ mode # m
    /\ ModeChangeAllowed(m)
    /\ mode' = m
    /\ UNCHANGED <<runVars, budget, nextSequence, processVars>>

HoldQueued(r) ==
    /\ FenceFree(r)
    /\ state[r] = "queued"
    /\ state' = [state EXCEPT ![r] = "paused-queued"]
    /\ queue' = [queue EXCEPT ![r].class = "resumption"]
    /\ hold' = [hold EXCEPT ![r] = TRUE]
    /\ UNCHANGED <<execution, ledger, publication, schedulerVars, processVars>>

CancellableEarly == {"queued", "paused-queued", "pausing", "paused-active", "blocked"}
Cancellable == {"queued", "paused-queued", "paused-active", "blocked"}

CancelRun(r) ==
    /\ FenceFree(r)
    /\ state[r] \in Cancellable
    /\ state' = [state EXCEPT ![r] = "cancelled"]
    /\ UNCHANGED <<queue, hold, execution, ledger, publication, schedulerVars, processVars>>

----------------------------------------------------------------------------
(* Resumption: both kinds hold the run's fence across a tracker read.      *)

ResumePermittedAnyMode == ~budget.uncertain
ResumePermitted == mode = "enabled" /\ ~budget.uncertain

ResumeQueuedRead(r) ==
    /\ FenceFree(r)
    /\ ResumePermitted
    /\ state[r] = "paused-queued" /\ hold[r]
    /\ resuming' = resuming \cup {r}
    /\ UNCHANGED <<runVars, schedulerVars, dispatcher, owners, lane, pauseAll>>

ResumeQueuedCommit(r) ==
    /\ r \in resuming
    /\ ResumePermitted
    /\ state[r] = "paused-queued" /\ hold[r]
    /\ state' = [state EXCEPT ![r] = "queued"]
    /\ queue' = [queue EXCEPT ![r].class = "resumption"]
    /\ hold' = [hold EXCEPT ![r] = FALSE]
    /\ resuming' = resuming \ {r}
    /\ UNCHANGED <<execution, ledger, publication, schedulerVars, dispatcher,
                   owners, lane, pauseAll>>

ResumeQueuedReject(r) ==
    /\ r \in resuming
    /\ resuming' = resuming \ {r}
    /\ UNCHANGED <<runVars, schedulerVars, dispatcher, owners, lane, pauseAll>>

(* validateActiveResumeFacts with matching routing and Git facts.          *)
ResumeFactsDespiteHold(r, by) ==
    /\ state[r] = "paused-active"
    /\ ~execution[r].recovery
    /\ execution[r].git
    /\ ~ledger[r].uncertain
    /\ ledger[r].settled < RunCap

ResumeFacts(r, by) ==
    /\ state[r] = "paused-active"
    /\ by = "scheduler" => ~hold[r]
    /\ ~execution[r].recovery
    /\ execution[r].git
    /\ ~ledger[r].uncertain
    /\ ledger[r].settled < RunCap

(* prepareResume: the scheduler continues its first candidate; an operator *)
(* names a run.                                                            *)
PrepareResume(r, by) ==
    /\ dispatcher = "accepting"
    /\ lane = Idle
    /\ HasRunningCapacity
    /\ by = "scheduler" => IsContinuation(r)
    /\ DispatchReady
    /\ ResumePermitted
    /\ state[r] = "paused-active"
    /\ ledger[r].settled < RunCap
    /\ lane' = [op |-> "prepare", run |-> r, by |-> by]
    /\ UNCHANGED <<runVars, schedulerVars, dispatcher, owners, resuming, pauseAll>>

(* rejectResumeForRecovery: a retained resource is gone or changed.        *)
RequireActiveRecovery(r) ==
    /\ lane.op = "prepare" /\ lane.run = r
    /\ FenceFree(r)
    /\ state[r] = "paused-active"
    /\ ~execution[r].recovery
    /\ execution' = [execution EXCEPT ![r].recovery = TRUE]
    /\ lane' = Idle
    /\ UNCHANGED <<state, queue, hold, ledger, publication, schedulerVars, dispatcher, owners, resuming, pauseAll>>

ResumeActiveRead(r) ==
    /\ lane.op = "prepare" /\ lane.run = r
    /\ FenceFree(r)
    /\ ResumePermitted
    /\ ResumeFacts(r, lane.by)
    /\ lane' = [lane EXCEPT !.op = "resume"]
    /\ UNCHANGED <<runVars, schedulerVars, dispatcher, owners, resuming, pauseAll>>

ResumeActiveCommit(r) ==
    /\ lane.op = "resume" /\ lane.run = r
    /\ ResumePermitted
    /\ ResumeFacts(r, lane.by)
    /\ CanReserve(ContinuationReservation(r))
    /\ state' = [state EXCEPT ![r] = "implementing"]
    /\ queue' = [queue EXCEPT ![r].class = "resumption"]
    /\ hold' = [hold EXCEPT ![r] = FALSE]
    /\ ledger' = [ledger EXCEPT ![r].reserved = ContinuationReservation(r)]
    /\ budget' = BudgetReserving(ContinuationReservation(r))
    /\ owners' = owners \cup {r}
    /\ lane' = Idle
    /\ UNCHANGED <<execution, publication, mode, nextSequence, dispatcher,
                   resuming, pauseAll>>

----------------------------------------------------------------------------
(* Publication: publication-control.ts under the workflow lane.            *)

ClaimPublication(r) ==
    /\ lane = Idle
    /\ FenceFree(r)
    /\ state[r] = "publishing"
    /\ publication[r].status \in {"pending", "uncertain", "retryable"}
    /\ publication' = [publication EXCEPT ![r] = [status |-> "in-flight", attempts |-> @.attempts + 1]]
    /\ lane' = [op |-> "publish", run |-> r, by |-> "none"]
    /\ UNCHANGED <<state, queue, hold, execution, ledger, schedulerVars, dispatcher, owners, resuming, pauseAll>>

OwnsPublication(r) ==
    /\ lane.op = "publish" /\ lane.run = r
    /\ FenceFree(r)
    /\ state[r] = "publishing" /\ publication[r].status = "in-flight"

CompletePublication(r) ==
    /\ OwnsPublication(r)
    /\ state' = [state EXCEPT ![r] = "completed"]
    /\ publication' = [publication EXCEPT ![r].status = "succeeded"]
    /\ lane' = Idle
    /\ UNCHANGED <<queue, hold, execution, ledger, schedulerVars, dispatcher, owners, resuming, pauseAll>>

(* What a failed attempt leaves: the last automatic attempt is exhausted.  *)
FailedStatus(r, status) ==
    IF status # "failed" /\ publication[r].attempts >= MaxExternalAttempts THEN "exhausted" ELSE status

FailPublication(r, status) ==
    /\ OwnsPublication(r)
    /\ publication' = [publication EXCEPT ![r].status = FailedStatus(r, status)]
    /\ state' = [state EXCEPT ![r] =
                    IF FailedStatus(r, status) \in {"failed", "exhausted"} THEN "failed" ELSE @]
    /\ lane' = Idle
    /\ UNCHANGED <<queue, hold, execution, ledger, schedulerVars, dispatcher, owners, resuming, pauseAll>>

----------------------------------------------------------------------------
(* A Host restart keeps the record, forgets the process and marks what was *)
(* interrupted (Admission init, markInterruptedRunsForRecovery).           *)

InterruptedImplementing(r) == state[r] = "implementing"
Interrupted(r) == state[r] \in Active

InterruptedStatus(r) ==
    IF publication[r].attempts >= MaxExternalAttempts THEN "exhausted" ELSE "uncertain"

Restart ==
    /\ execution' = [r \in Runs |->
          IF Interrupted(r) THEN [execution[r] EXCEPT !.recovery = TRUE] ELSE execution[r]]
    /\ publication' = [r \in Runs |->
          IF state[r] = "publishing" /\ publication[r].status = "in-flight"
          THEN [publication[r] EXCEPT !.status = InterruptedStatus(r)] ELSE publication[r]]
    /\ dispatcher' = "accepting"
    /\ owners' = {}
    /\ lane' = Idle
    /\ resuming' = {}
    /\ pauseAll' = NoPauseAll
    /\ UNCHANGED <<state, queue, hold, ledger, schedulerVars>>

----------------------------------------------------------------------------
RunStep(r) ==
    \/ SelectHead(r) \/ Claim(r) \/ ClaimAgain(r)
    \/ RecordWorktree(r)
    \/ \E outcome \in {"verified", "blocked", "failed"}, usage \in Usage : Settle(r, outcome, usage)
    \/ \E usage \in Usage : CheckpointPaused(r, usage)
    \/ LoseOwner(r)
    \/ RequestRunPause(r) \/ HoldQueued(r) \/ CancelRun(r)
    \/ ResumeQueuedRead(r) \/ ResumeQueuedCommit(r) \/ ResumeQueuedReject(r)
    \/ \E by \in {"operator", "scheduler"} : PrepareResume(r, by)
    \/ RequireActiveRecovery(r) \/ ResumeActiveRead(r) \/ ResumeActiveCommit(r)
    \/ ClaimPublication(r) \/ CompletePublication(r)
    \/ \E status \in {"uncertain", "retryable", "failed"} : FailPublication(r, status)

Next ==
    \/ \E r \in Runs : RunStep(r)
    \/ \E seen \in SUBSET Runs : Reconcile(seen)
    \/ PrepareClaim \/ LeaveLane
    \/ \E kind \in PauseKinds : BeginPauseAll(kind)
    \/ CommitPauseAll \/ WithdrawDispatcher \/ MountDispatcher
    \/ \E m \in Modes : SetSchedulerMode(m)
    \/ Restart

Spec == Init /\ [][Next]_vars

----------------------------------------------------------------------------
(* What a commit and a load validate (state.ts, state-integrity.ts).       *)

(* runSchema: the shape of a run in each state.  Work that was never       *)
(* claimed has neither Git facts nor a budget; a cancelled run keeps the   *)
(* shape of the state it was cancelled from.                               *)
RunSchema(r) ==
    /\ queue[r].sequence > 0
    /\ state[r] \in {"queued", "paused-queued"} => ledger[r] = NoBudget /\ ~execution[r].git
    /\ state[r] = "paused-queued" => queue[r].class = "resumption" /\ hold[r]
    /\ hold[r] => state[r] \in {"paused-queued", "pausing", "paused-active", "cancelled"}
    /\ publication[r].status # "none" => state[r] \in {"publishing", "completed", "failed"}

(* validateStateIntegrity, without the identities, digests, outcomes and   *)
(* receipts that one assignment writes together with the state.            *)
ValidateStateIntegrity ==
    /\ \A q, r \in Existing : queue[q].sequence = queue[r].sequence => q = r
    /\ \A r \in Existing : queue[r].sequence < nextSequence
    /\ mode = "disabled" => \A r \in Runs : state[r] # "implementing"
    /\ budget.reserved = SumFunction([r \in Runs |-> ledger[r].reserved])
    /\ budget.settled = SumFunction([r \in Runs |-> ledger[r].settled])
    /\ budget.uncertain <=> \E r \in Runs : ledger[r].uncertain
    /\ \A r \in Runs :
          /\ state[r] \in Active => ~ledger[r].uncertain
          /\ ledger[r].settled + ledger[r].reserved <= RunCap
          /\ ledger[r].reserved <= Allowance
          /\ state[r] \in {"publishing", "completed"} => publication[r].status # "none"
          /\ state[r] = "completed" => publication[r].status = "succeeded"

----------------------------------------------------------------------------
(* Properties.                                                             *)

(* Every variable has its type.  The deployment reservation is an integer  *)
(* here: that it is never negative follows from StateIntegrity.            *)
TypeOK ==
    /\ state \in [Runs -> RunStates]
    /\ queue \in [Runs -> [class : {"new", "resumption"}, sequence : Nat]]
    /\ hold \in [Runs -> BOOLEAN]
    /\ execution \in [Runs -> [git : BOOLEAN, recovery : BOOLEAN]]
    /\ ledger \in [Runs -> [reserved : Nat, settled : Nat, uncertain : BOOLEAN]]
    /\ publication \in [Runs -> [status : Publications, attempts : Nat]]
    /\ mode \in Modes
    /\ budget \in [reserved : Int, settled : Nat, uncertain : BOOLEAN]
    /\ nextSequence \in Nat
    /\ dispatcher \in {"accepting", "draining", "quiescing"}
    /\ owners \subseteq Runs
    /\ lane \in [op : {"idle", "claim", "prepare", "resume", "publish"},
                 run : Runs \cup {NoRun}, by : Authorizations]
    /\ resuming \subseteq Runs
    /\ pauseAll \in [kind : {"none", "disable", "withdrawal"},
                     targets : SUBSET Runs]

(* Every record the Host commits satisfies the schema that each commit and *)
(* each load parses: whatever order claims, settlements, pauses, mode      *)
(* changes, cancellations and restarts take, no operation is refused by    *)
(* its own validation, and no Host finds a record it cannot load.          *)
StateIntegrity ==
    /\ \A r \in Existing : RunSchema(r)
    /\ ValidateStateIntegrity

(* No run and no deployment ever spends or reserves beyond its cap.        *)
WithinCaps ==
    /\ budget.settled + budget.reserved <= DeploymentCap
    /\ \A r \in Runs :
          /\ ledger[r].settled + ledger[r].reserved <= RunCap
          /\ ledger[r].reserved <= Allowance

(* Tokens stay reserved only for a run that may still spend them or whose  *)
(* usage could not be proved; an active run has provable usage and holds a *)
(* positive reservation.                                                   *)
ReservationsAreOwed ==
    \A r \in Runs :
        /\ ledger[r].reserved > 0 => state[r] \in Active \/ ledger[r].uncertain
        /\ state[r] \in Active => ledger[r].reserved > 0 /\ ~ledger[r].uncertain

(* A disabled scheduler has no implementing run, although the mode change  *)
(* takes no run fence and a claim may be in progress.                      *)
DisabledMeansStopped == mode = "disabled" => \A r \in Runs : state[r] # "implementing"

(* Only an operator's resumption lifts an operator hold: neither the       *)
(* scheduler's resumption, a disable or withdrawal, nor a restart does.    *)
HoldIsOperators ==
    [][\A r \in Runs : hold[r] /\ ~hold'[r] =>
          \/ r \in resuming
          \/ lane.op = "resume" /\ lane.run = r /\ lane.by = "operator"]_vars

(* An interrupted run is never mistaken for a clean pause: once recovery   *)
(* is required it stays required, and the run neither executes, settles,   *)
(* resumes nor publishes; only a quiescent one can still be cancelled.     *)
RecoveryIsNotResumption ==
    [][\A r \in Runs : execution[r].recovery =>
          /\ execution'[r].recovery
          /\ ledger'[r] = ledger[r]
          /\ \/ state'[r] = state[r]
             \/ state[r] = "implementing" /\ state'[r] = "pausing"
             \/ state[r] = "paused-active" /\ state'[r] = "cancelled"]_vars

(* While usage is uncertain, or the scheduler is not enabled, no run       *)
(* enters execution and nothing more is reserved, even if the claim or the *)
(* resumption began before.                                                *)
NoStartWhileGated ==
    [][mode # "enabled" \/ budget.uncertain =>
          /\ budget'.reserved <= budget.reserved
          /\ \A r \in Runs : state'[r] = "implementing" => state[r] = "implementing"]_vars

(* Nobody is overtaken: work that starts leaves no queued run before it,   *)
(* whatever was queued, held or cancelled between the snapshot and the     *)
(* claim; an admitted issue goes behind queued runs of at least its        *)
(* priority; and runs that stay queued keep their order.                   *)
NoOvertaking ==
    [][\A q, r \in Runs : q # r /\ state[q] = "queued" /\ state'[q] = "queued" =>
          /\ state[r] = "queued" /\ state'[r] = "implementing" => ~QueuedBefore(q, r)
          /\ state[r] = "absent" /\ state'[r] = "queued" /\ Priority[q] <= Priority[r]
                => QueuedBefore(q, r)'
          /\ state[r] = "queued" /\ state'[r] = "queued" /\ QueuedBefore(q, r)
                => QueuedBefore(q, r)']_vars

----------------------------------------------------------------------------
(* The aggregate implements two abstract specifications.                   *)

(* How an operator sees a run.  A blocked run has ended: the code resumes  *)
(* it under no condition, and a new readiness generation is a new run.     *)
PhaseOf(s) ==
    CASE s = "absent" -> "unseen"
      [] s \in {"queued", "paused-queued"} -> "waiting"
      [] s \in Active -> "executing"
      [] s = "paused-active" -> "parked"
      [] s = "publishing" -> "handoff"
      [] OTHER -> "ended"

Ledger == INSTANCE TokenLedger
    WITH Cap <- DeploymentCap, reserved <- budget.reserved,
         spent <- budget.settled, frozen <- budget.uncertain

Lifecycle == INSTANCE RunLifecycle
    WITH phase <- [r \in Runs |-> PhaseOf(state[r])],
         stranded <- {r \in Runs : execution[r].recovery}

(* The deployment budget behaves as the abstract token ledger: nothing is  *)
(* spent that was not reserved, and uncertain usage freezes reservations.  *)
ImplementsTokenLedger == Ledger!Spec

(* Every run follows the abstract lifecycle, through crashes as well.      *)
ImplementsRunLifecycle == Lifecycle!Spec

=============================================================================
