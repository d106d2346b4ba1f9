------------------------------ MODULE Dispatch ------------------------------
(***************************************************************************)
(* How runs are executed: the workflow lane (workflow/service.ts), the     *)
(* dispatcher's starts, resumptions and withdrawal (dispatch/service.ts,   *)
(* dispatch/resume.ts), and one execution from its worktree to its         *)
(* recorded end (dispatch/execute.ts, dispatch/git.ts, dispatch/report.ts).*)
(*                                                                         *)
(* The lane is a chain of operations that run one after another; what an   *)
(* operation prepared is executed outside the lane by an owner.  Between   *)
(* any two steps operators pause and resume runs, switch the scheduler, or *)
(* the dispatcher is withdrawn, and the Host may crash.  A pause must hold *)
(* on to what its checkpoint says: the Agent is quiescent, its Session is  *)
(* on disk and the recorded Git facts are those of the worktree.           *)
(*                                                                         *)
(* Budgets, tracker reads and Agent compositions are abstract: a claim or  *)
(* a resumption may be refused.  What is in a worktree is a number that    *)
(* each change increases.                                                  *)
(***************************************************************************)
EXTENDS Integers, FiniteSets, SequencesExt

CONSTANTS
    Runs,           \* run numbers, in the order of the durable record
    MaxRunning,     \* settings.maxRunning
    MaxChanges,     \* bound: changes to one worktree
    MaxCommands,    \* bound: what operators request, withdrawals included
    MaxCrashes      \* bound: crashes of the Host

ASSUME DispatchAssumption ==
    /\ Runs \subseteq Nat \ {0} /\ IsFiniteSet(Runs)
    /\ {MaxRunning, MaxChanges} \subseteq Nat \ {0}
    /\ {MaxCommands, MaxCrashes} \subseteq Nat

VARIABLES
    run,            \* durable: [state, hold, recovery, git] of each run
    mode,           \* durable: the scheduler's mode
    lane,           \* Workflow.tail: the operations of the lane, the first one running
    reconciling,    \* Workflow.reconciliation
    dispatcher,     \* Dispatch.accepting, and how far a withdrawal is
    owner,          \* Dispatch.active and the execution's progress
    roots,          \* Agent roots alive on each run's Session
    tree,           \* what each run's worktree holds
    bounds          \* history: [commands, crashes]

durableVars == <<run, mode>>
laneVars == <<lane, reconciling>>
agentVars == <<roots, tree>>
vars == <<durableVars, laneVars, dispatcher, owner, agentVars, bounds>>

----------------------------------------------------------------------------
(* Runs, operations of the lane, and owners.                               *)

(* "ended" stands for completed, blocked, failed and cancelled.            *)
RunStates == {"queued", "implementing", "pausing", "paused", "publishing", "ended"}
Executing(r) == run[r].state \in {"implementing", "pausing"}
NoGit == 0
NoRun == 0

Op(kind, r) == [kind |-> kind, run |-> r, stage |-> "waiting"]
Kinds == {"reconcile", "dispatch", "resume", "settled"}
LaneStages == {"waiting", "starting", "resuming", "committing"}

(* An owner: who waits for it (a drain loop of the lane, or an operator's  *)
(* command); whether its Agent exists; what it has proved; whether its     *)
(* Agent knows more than the Session on disk; the Agent's report, which is *)
(* of what the worktree held; and whether it aborts its resumption.        *)
NoReport == -1
NoOwner == [phase |-> "none", by |-> "none", mounted |-> FALSE, pauseRequested |-> FALSE,
            quiescent |-> FALSE, durable |-> FALSE, unsaved |-> FALSE, report |-> NoReport,
            cancelling |-> FALSE]
Phases == {"none", "setup", "mounting", "ready", "working", "idle", "disposed",
           "settling", "failing", "settlingFailure", "leaving"}
Active == {r \in Runs : owner[r].phase # "none"}
HasRunningCapacityLate == Cardinality(Active) <= MaxRunning
HasRunningCapacity == Cardinality(Active) < MaxRunning

Init ==
    /\ run = [r \in Runs |-> [state |-> "queued", hold |-> FALSE, recovery |-> FALSE, git |-> NoGit]]
    /\ mode = "enabled"
    /\ lane = <<>>
    /\ reconciling = FALSE
    /\ dispatcher = "accepting"
    /\ owner = [r \in Runs |-> NoOwner]
    /\ roots = [r \in Runs |-> 0]
    /\ tree = [r \in Runs |-> 0]
    /\ bounds = [commands |-> 0, crashes |-> 0]

Own(r, phase) == owner' = [owner EXCEPT ![r].phase = phase]
SetRun(r, state) == run' = [run EXCEPT ![r].state = state]

----------------------------------------------------------------------------
(* The lane.                                                               *)

InLaneAtOnce(i) == i \in DOMAIN lane
InLane(i) == lane # <<>> /\ i = 1
At(i, kind, stage) == InLane(i) /\ lane[i].kind = kind /\ lane[i].stage = stage
ToStage(i, stage) == lane' = [lane EXCEPT ![i].stage = stage]
Leave(i) == lane' = RemoveAt(lane, i)

(* reconcile, at each turn of the timer, one at a time.                    *)
ReconcileTimer ==
    /\ ~reconciling
    /\ reconciling' = TRUE
    /\ lane' = Append(lane, Op("reconcile", NoRun))
    /\ UNCHANGED <<durableVars, dispatcher, owner, agentVars, bounds>>

(* recoverExternalIntents, the first step of an operation: unfinished      *)
(* publications are attempted; an attempt may leave its run publishing.    *)
Publishing == {r \in Runs : run[r].state = "publishing"}
Published(done) == [r \in Runs |-> IF r \in done THEN [run[r] EXCEPT !.state = "ended"] ELSE run[r]]

(* advanceExecution: as many drain loops as runs may execute.              *)
Lanes ==
    IF dispatcher # "withdrawn" /\ mode = "enabled"
    THEN [k \in 1 .. MaxRunning |-> Op("dispatch", NoRun)]
    ELSE <<>>

(* The reconciliation ends, and execution is advanced, or it has failed;   *)
(* another one may be requested in both cases.                             *)
StillReconciling(failed) == failed
ReconcilingAfter(failed) == FALSE
Reconciled(i, done) ==
    /\ At(i, "reconcile", "waiting")
    /\ run' = Published(done)
    /\ reconciling' = ReconcilingAfter(FALSE)
    /\ lane' = RemoveAt(lane, i) \o Lanes
    /\ UNCHANGED <<mode, dispatcher, owner, agentVars, bounds>>
ReconcileFails(i, done) ==
    /\ At(i, "reconcile", "waiting")
    /\ run' = Published(done)
    /\ reconciling' = ReconcilingAfter(TRUE)
    /\ Leave(i)
    /\ UNCHANGED <<mode, dispatcher, owner, agentVars, bounds>>

(* assertDispatchReady: no recovery is required, nothing is unpublished.   *)
DispatchReady(done) == (\A r \in Runs : ~run[r].recovery) /\ Publishing \subseteq done

(* prepareNext: the first paused run that may go on precedes the queue.    *)
Continuations == {r \in Runs : run[r].state = "paused" /\ ~run[r].hold /\ ~run[r].recovery}
Startable(done) == dispatcher = "accepting" /\ HasRunningCapacity /\ DispatchReady(done)
PrepareNext(i, done) ==
    /\ At(i, "dispatch", "waiting")
    /\ run' = Published(done)
    /\ IF ~Startable(done) THEN Leave(i)
       ELSE IF mode = "enabled" /\ Continuations # {}
       THEN lane' = [lane EXCEPT ![i].stage = "resuming",
                                 ![i].run = CHOOSE r \in Continuations :
                                               \A q \in Continuations : r <= q]
       ELSE ToStage(i, "starting")
    /\ UNCHANGED <<mode, reconciling, dispatcher, owner, agentVars, bounds>>

(* claimNext, and the registration of the owner.                           *)
Claim(i) ==
    /\ At(i, "dispatch", "starting")
    /\ mode = "enabled"
    /\ \E r \in Runs :
          /\ run[r].state = "queued"
          /\ \A q \in Runs : run[q].state = "queued" => r <= q
          /\ SetRun(r, "implementing")
          /\ owner' = [owner EXCEPT ![r] = [NoOwner EXCEPT !.phase = "setup", !.by = "lane"]]
    /\ Leave(i)
    /\ UNCHANGED <<mode, reconciling, dispatcher, agentVars, bounds>>

(* Nothing is claimed: no queued run, no budget, no scheduler any more.    *)
LeaveClaim(i) ==
    /\ At(i, "dispatch", "starting")
    /\ Leave(i)
    /\ UNCHANGED <<durableVars, reconciling, dispatcher, owner, agentVars, bounds>>

NothingClaimed(i) == LeaveClaim(i)

(* prepareAgentComposition fails, before the claim: no preset, permission  *)
(* or model that an unattended Agent may be given.                         *)
CompositionRefused(i) == LeaveClaim(i)

(* resumeRun                                                               *)
BeginResume(i, done) ==
    /\ At(i, "resume", "waiting")
    /\ run' = Published(done)
    /\ IF Startable(done) THEN ToStage(i, "resuming") ELSE Leave(i)
    /\ UNCHANGED <<mode, reconciling, dispatcher, owner, agentVars, bounds>>

(* preparePausedResume: a worktree that is not the one of the checkpoint   *)
(* requires recovery, and so does any other retained resource that is      *)
(* gone; else an Agent root is created on the retained Session.            *)
Resumable(r) == mode = "enabled" /\ run[r].state = "paused" /\ ~run[r].recovery
Observed(r) == tree[r]
SameGit(r) == run[r].git = Observed(r)
Inspect(i) ==
    /\ InLane(i) /\ lane[i].stage = "resuming"
    /\ LET r == lane[i].run IN
       \/ ~Resumable(r) /\ Leave(i) /\ UNCHANGED <<run, roots>>
       \/ /\ Resumable(r)
          /\ Leave(i)
          /\ run' = [run EXCEPT ![r].recovery = TRUE]
          /\ UNCHANGED roots
       \/ /\ Resumable(r) /\ SameGit(r)
          /\ ToStage(i, "committing")
          /\ roots' = [roots EXCEPT ![r] = @ + 1]
          /\ UNCHANGED run
    /\ UNCHANGED <<mode, reconciling, dispatcher, owner, tree, bounds>>

(* resumeActiveRun: only an operator's resumption lifts a hold.            *)
Authorized(op) == op.kind = "resume" \/ ~run[op.run].hold
CommitResume(i) ==
    /\ InLane(i) /\ lane[i].stage = "committing"
    /\ LET op == lane[i] IN
       /\ Resumable(op.run) /\ Authorized(op)
       /\ run' = [run EXCEPT ![op.run].state = "implementing", ![op.run].hold = FALSE]
       /\ owner' = [owner EXCEPT ![op.run] = [NoOwner EXCEPT !.phase = "ready", !.mounted = TRUE,
                        !.by = IF op.kind = "resume" THEN "operator" ELSE "lane"]]
    /\ Leave(i)
    /\ UNCHANGED <<mode, reconciling, dispatcher, agentVars, bounds>>

(* The tracker, the budget or the run does not allow it: the root goes.    *)
ResumeRefused(i) ==
    /\ InLane(i) /\ lane[i].stage = "committing"
    /\ roots' = [roots EXCEPT ![lane[i].run] = @ - 1]
    /\ Leave(i)
    /\ UNCHANGED <<durableVars, reconciling, dispatcher, owner, tree, bounds>>

(* A drain loop publishes what it has executed, and goes on.               *)
Settled(i) ==
    /\ At(i, "settled", "waiting")
    /\ \E done \in SUBSET (Publishing \cap {lane[i].run}) : run' = Published(done)
    /\ lane' = RemoveAt(lane, i) \o
                  (IF mode = "enabled" THEN <<Op("dispatch", NoRun)>> ELSE <<>>)
    /\ UNCHANGED <<mode, reconciling, dispatcher, owner, agentVars, bounds>>

LaneStep ==
    \E i \in DOMAIN lane :
        \/ \E done \in SUBSET Publishing :
              Reconciled(i, done) \/ ReconcileFails(i, done) \/ PrepareNext(i, done) \/ BeginResume(i, done)
        \/ Claim(i) \/ NothingClaimed(i) \/ CompositionRefused(i)
        \/ Inspect(i) \/ CommitResume(i) \/ ResumeRefused(i) \/ Settled(i)

----------------------------------------------------------------------------
(* One execution.                                                          *)

(* executeClaimed: the worktree is made and recorded, then the root.       *)
AddWorktree(r) ==
    /\ owner[r].phase = "setup"
    /\ tree' = [tree EXCEPT ![r] = 1]
    /\ run' = [run EXCEPT ![r].git = 1]
    /\ Own(r, "mounting")
    /\ UNCHANGED <<lane, roots>>
Mount(r) ==
    /\ owner[r].phase = "mounting"
    /\ roots' = [roots EXCEPT ![r] = @ + 1]
    /\ owner' = [owner EXCEPT ![r].phase = "ready", ![r].mounted = TRUE]
    /\ UNCHANGED <<run, lane, tree>>
SetupFails(r) ==
    /\ owner[r].phase = "setup"
    /\ Own(r, "failing")
    /\ UNCHANGED <<run, lane, agentVars>>

(* mountAgentComposition: what the claim captured is not there any more,   *)
(* before or after the Agent is given it.                                  *)
MountFails(r) ==
    /\ owner[r].phase = "mounting"
    /\ Own(r, "failing")
    /\ UNCHANGED <<run, lane, agentVars>>

(* executeOwnedTurn: a run whose pause was requested meanwhile gets no     *)
(* prompt.                                                                 *)
Prompt(r) ==
    /\ owner[r].phase = "ready"
    /\ Own(r, IF run[r].state = "pausing" \/ owner[r].pauseRequested THEN "idle" ELSE "working")
    /\ UNCHANGED <<run, lane, agentVars>>

(* The Agent changes the worktree and reports what it holds, which it may  *)
(* follow by further changes.                                              *)
Work(r) ==
    /\ owner[r].phase = "working"
    /\ tree[r] < MaxChanges
    /\ tree' = [tree EXCEPT ![r] = @ + 1]
    /\ owner' = [owner EXCEPT ![r].unsaved = TRUE]
    /\ UNCHANGED <<run, lane, roots>>
Report(r) ==
    /\ owner[r].phase = "working"
    /\ owner[r].report = NoReport
    /\ owner' = [owner EXCEPT ![r].report = tree[r], ![r].unsaved = TRUE]
    /\ UNCHANGED <<run, lane, agentVars>>

(* whenIdle: the Agent is done, or has obeyed a cancellation.              *)
AgentIdle(r) ==
    /\ owner[r].phase = "working"
    /\ Own(r, "idle")
    /\ UNCHANGED <<run, lane, agentVars>>

(* The Session is flushed, or its provider has done so while closing, and  *)
(* the root is disposed of, whatever failed.                               *)
Disposing(r) == roots' = [roots EXCEPT ![r] = @ - 1]
TurnFails(r) ==
    /\ owner[r].phase \in {"ready", "working"}
    /\ Own(r, "failing")
    /\ Disposing(r)
    /\ UNCHANGED <<run, lane, tree>>
Flushed(r, next) ==
    [owner EXCEPT ![r].phase = next, ![r].quiescent = TRUE, ![r].durable = TRUE, ![r].unsaved = FALSE]
Flush(r) ==
    /\ owner[r].phase = "idle" /\ ~owner[r].cancelling
    /\ owner' = Flushed(r, "disposed") \/ owner' = Flushed(r, "failing")
    /\ Disposing(r)
    /\ UNCHANGED <<run, lane, tree>>
FlushFails(r) ==
    /\ owner[r].phase = "idle" /\ ~owner[r].cancelling
    /\ owner' = [owner EXCEPT ![r].phase = "failing", ![r].quiescent = TRUE]
    /\ Disposing(r)
    /\ UNCHANGED <<run, lane, tree>>

(* The owner ends, after its pause request if it aborts its resumption; if *)
(* it was a drain loop's, the loop goes on, unless it was thrown an error. *)
Gone(r) ==
    owner' = [owner EXCEPT ![r] = IF @.cancelling THEN [@ EXCEPT !.phase = "leaving"] ELSE NoOwner]
Ended(r) ==
    /\ Gone(r)
    /\ lane' = IF owner[r].by = "lane" THEN Append(lane, Op("settled", r)) ELSE lane
Thrown(r) == Gone(r) /\ UNCHANGED lane

(* inspectGit and recordWorktree, once the root is gone; then the run's    *)
(* state decides.  An aborted resumption waits for its own pause request.  *)
CheckpointAt(r, git) == run' = [run EXCEPT ![r].state = "paused", ![r].git = git] /\ Ended(r)
Conclude(r) ==
    /\ owner[r].phase = "disposed"
    /\ ~owner[r].cancelling
    /\ IF run[r].state = "pausing"
       THEN CheckpointAt(r, Observed(r))
       ELSE /\ run' = [run EXCEPT ![r].git = Observed(r)]
            /\ Own(r, "settling")
            /\ UNCHANGED lane
    /\ UNCHANGED agentVars
(* A Git command fails, takes too long, says too much or does not quiesce. *)
ObserveFails(r) ==
    /\ owner[r].phase = "disposed"
    /\ Own(r, "failing")
    /\ UNCHANGED <<run, lane, agentVars>>

(* validatedOutcome: a report of other Git facts than those observed is a  *)
(* failure, like none; a report of being blocked, and a second report, end *)
(* the run as well.                                                        *)
Outcome(r) == IF owner[r].report = run[r].git THEN "publishing" ELSE "ended"

(* settle: refused, if a pause was requested since the owner looked.       *)
Settle(r) ==
    /\ owner[r].phase = "settling"
    /\ IF run[r].state = "implementing"
       THEN (SetRun(r, Outcome(r)) \/ SetRun(r, "ended")) /\ Ended(r)
       ELSE Own(r, "failing") /\ UNCHANGED <<run, lane>>
    /\ UNCHANGED agentVars

(* settleExecutionFailure: the worktree, if there is one, is observed again*)
(* if it can be.  A pausing run is checkpointed if everything a checkpoint *)
(* says is proved; if not, it is left as it is, without an owner.          *)
ProvenUnflushed(r, observed) == owner[r].quiescent /\ observed
Proven(r, observed) == owner[r].quiescent /\ owner[r].durable /\ observed
ConcludeFailure(r) ==
    /\ owner[r].phase = "failing"
    /\ \E observed \in {FALSE, run[r].git # NoGit} :
          LET git == IF observed THEN Observed(r) ELSE run[r].git IN
          IF run[r].state # "pausing"
          THEN run' = [run EXCEPT ![r].git = git] /\ Own(r, "settlingFailure") /\ UNCHANGED lane
          ELSE IF Proven(r, observed)
          THEN CheckpointAt(r, git)
          ELSE run' = [run EXCEPT ![r].git = git] /\ Thrown(r)
    /\ UNCHANGED agentVars
SettleFailure(r) ==
    /\ owner[r].phase = "settlingFailure"
    /\ IF run[r].state = "implementing"
       THEN SetRun(r, "ended") /\ Ended(r)
       ELSE Thrown(r) /\ UNCHANGED run
    /\ UNCHANGED agentVars

(* An operator's command that waits for a resumption it requested is       *)
(* aborted: the Agent is cancelled at once, and the run's pause requested. *)
CancelResumption(r) ==
    /\ owner[r].by = "operator" /\ owner[r].phase # "leaving"
    /\ ~owner[r].cancelling /\ ~owner[r].pauseRequested
    /\ owner' = [owner EXCEPT ![r].cancelling = TRUE, ![r].pauseRequested = TRUE]
    /\ UNCHANGED <<run, lane, agentVars>>
PauseRequestAccepted(r) == run[r].state \in {"implementing", "pausing", "paused"}
CancellationRequested(r) ==
    /\ owner[r].cancelling
    /\ owner' = [owner EXCEPT ![r] = IF @.phase = "leaving" THEN NoOwner ELSE [@ EXCEPT !.cancelling = FALSE]]
    /\ run' = IF ~PauseRequestAccepted(r) THEN run
              ELSE [run EXCEPT ![r].state = IF @ = "implementing" THEN "pausing" ELSE @, ![r].hold = TRUE]
    /\ UNCHANGED <<lane, agentVars>>

ExecutionStep(r) ==
    \/ AddWorktree(r) \/ Mount(r) \/ SetupFails(r) \/ MountFails(r)
    \/ Prompt(r) \/ Work(r) \/ Report(r) \/ AgentIdle(r) \/ TurnFails(r)
    \/ Flush(r) \/ FlushFails(r) \/ Conclude(r) \/ ObserveFails(r) \/ Settle(r)
    \/ ConcludeFailure(r) \/ SettleFailure(r) \/ CancellationRequested(r)
OwnerStep(r) ==
    /\ ExecutionStep(r) \/ CancelResumption(r)
    /\ UNCHANGED <<mode, reconciling, dispatcher, bounds>>
OwnerGoesOn(r) == ExecutionStep(r) /\ OwnerStep(r)

----------------------------------------------------------------------------
(* Operators, the process and the world.                                   *)

Command ==
    /\ bounds.commands < MaxCommands
    /\ bounds' = [bounds EXCEPT !.commands = @ + 1]

PauseEvery ==
    run' = [r \in Runs |-> IF run[r].state = "implementing"
                           THEN [run[r] EXCEPT !.state = "pausing"] ELSE run[r]]
PauseRequested(targets) ==
    [r \in Runs |-> IF r \in targets /\ owner[r].phase # "none"
                    THEN [owner[r] EXCEPT !.pauseRequested = TRUE] ELSE owner[r]]
Pausing == {r \in Runs : Executing(r)}

(* stopRun: only a run that has an owner can be paused.                    *)
StopRun(r) ==
    /\ dispatcher = "accepting"
    /\ Command
    /\ r \in Active /\ Executing(r) /\ ~run[r].recovery
    /\ run' = [run EXCEPT ![r].state = "pausing", ![r].hold = TRUE]
    /\ owner' = PauseRequested({r})
    /\ UNCHANGED <<mode, laneVars, dispatcher, agentVars>>

(* disableScheduler pauses what is implementing.                           *)
DisableScheduler ==
    /\ dispatcher = "accepting" /\ mode = "enabled"
    /\ Command
    /\ mode' = "disabled"
    /\ PauseEvery
    /\ owner' = PauseRequested(Pausing)
    /\ UNCHANGED <<laneVars, dispatcher, agentVars>>
EnableScheduler ==
    /\ mode = "disabled"
    /\ \A r \in Runs : run[r].state # "pausing"
    /\ mode' = "enabled"
    /\ UNCHANGED <<run, laneVars, dispatcher, owner, agentVars, bounds>>

(* resumeRun: a run that is not paused any more at its turn is refused.    *)
(* Bound: one request at a time.                                           *)
ResumeRun(r) ==
    /\ dispatcher = "accepting"
    /\ run[r].state = "paused" /\ ~run[r].recovery
    /\ \A i \in DOMAIN lane : lane[i].kind # "resume"
    /\ lane' = Append(lane, Op("resume", r))
    /\ UNCHANGED <<durableVars, reconciling, dispatcher, owner, agentVars, bounds>>

(* The disposer: no start is accepted any more; those under way are waited *)
(* for, then whatever executes is paused, and its owners are waited for.   *)
Withdraw ==
    /\ dispatcher = "accepting"
    /\ Command
    /\ dispatcher' = "draining"
    /\ UNCHANGED <<durableVars, laneVars, owner, agentVars>>
StartsSettledAtOnce == TRUE
StartsSettled ==
    /\ \A i \in DOMAIN lane : lane[i].stage \notin {"starting", "resuming", "committing"}
    /\ \A r \in Active : owner[r].mounted
PauseForWithdrawal ==
    /\ dispatcher = "draining"
    /\ StartsSettled
    /\ PauseEvery
    /\ owner' = PauseRequested(Pausing)
    /\ dispatcher' = "quiescing"
    /\ UNCHANGED <<mode, laneVars, agentVars, bounds>>
Withdrawn ==
    /\ dispatcher = "quiescing"
    /\ Active = {}
    /\ dispatcher' = "withdrawn"
    /\ UNCHANGED <<durableVars, laneVars, owner, agentVars, bounds>>
MountDispatch ==
    /\ dispatcher = "withdrawn"
    /\ dispatcher' = "accepting"
    /\ UNCHANGED <<durableVars, laneVars, owner, agentVars, bounds>>

(* A person changes the worktree of a paused run.                          *)
Edit(r) ==
    /\ run[r].state = "paused" /\ tree[r] < MaxChanges
    /\ tree' = [tree EXCEPT ![r] = @ + 1]
    /\ UNCHANGED <<durableVars, laneVars, dispatcher, owner, roots, bounds>>

(* markInterruptedRunsForRecovery: what was executing is never taken for   *)
(* paused.                                                                 *)
Crash ==
    /\ bounds.crashes < MaxCrashes
    /\ bounds' = [bounds EXCEPT !.crashes = @ + 1]
    /\ run' = [r \in Runs |-> IF Executing(r) THEN [run[r] EXCEPT !.recovery = TRUE] ELSE run[r]]
    /\ lane' = <<>> /\ reconciling' = FALSE
    /\ dispatcher' = "accepting"
    /\ owner' = [r \in Runs |-> NoOwner]
    /\ roots' = [r \in Runs |-> 0]
    /\ UNCHANGED <<mode, tree>>

----------------------------------------------------------------------------
Next ==
    \/ ReconcileTimer
    \/ LaneStep
    \/ \E r \in Runs : OwnerStep(r) \/ StopRun(r) \/ ResumeRun(r) \/ Edit(r)
    \/ DisableScheduler \/ EnableScheduler
    \/ Withdraw \/ PauseForWithdrawal \/ Withdrawn \/ MountDispatch
    \/ Crash

(* The timer turns, the lane and the owners go on: an Agent ends, because  *)
(* its tokens do.  What the lane attempts is not refused for ever: an      *)
(* unfinished publication ends, and a queued run gets its tokens.          *)
Fairness ==
    /\ WF_vars(ReconcileTimer)
    /\ WF_vars(LaneStep)
    /\ \A r \in Runs : WF_vars(OwnerGoesOn(r))
    /\ SF_vars(\E i \in DOMAIN lane : Claim(i))
    /\ SF_vars(\E i \in DOMAIN lane : Reconciled(i, Publishing))

Spec == Init /\ [][Next]_vars /\ Fairness

----------------------------------------------------------------------------
RunRecords == [state : RunStates, hold : BOOLEAN, recovery : BOOLEAN, git : 0 .. MaxChanges]
Operations == [kind : Kinds, run : Runs \cup {NoRun}, stage : LaneStages]
Owners ==
    [phase : Phases, by : {"none", "lane", "operator"}, mounted : BOOLEAN,
     pauseRequested : BOOLEAN, quiescent : BOOLEAN, durable : BOOLEAN, unsaved : BOOLEAN,
     report : NoReport .. MaxChanges, cancelling : BOOLEAN]

TypeOK ==
    /\ run \in [Runs -> RunRecords]
    /\ mode \in {"enabled", "disabled"}
    /\ \A i \in DOMAIN lane : lane[i] \in Operations
    /\ reconciling \in BOOLEAN
    /\ dispatcher \in {"accepting", "draining", "quiescing", "withdrawn"}
    /\ owner \in [Runs -> Owners]
    /\ roots \in [Runs -> {0, 1}]
    /\ tree \in [Runs -> 0 .. MaxChanges]
    /\ bounds \in [commands : 0 .. MaxCommands, crashes : 0 .. MaxCrashes]

(* A Session has an Agent only while an execution owns it, and then one,   *)
(* and no more runs execute than are allowed to, whatever starts and       *)
(* resumptions are requested together (Dispatch.hasRunningCapacity, the    *)
(* workflow lane, preparePausedResume, executeOwnedTurn).                  *)
Resuming(r) == \E i \in DOMAIN lane : lane[i].run = r /\ lane[i].stage = "committing"
OneRootPerSession ==
    /\ Cardinality(Active) <= MaxRunning
    /\ \A r \in Runs :
          roots[r] = IF owner[r].phase \in {"ready", "working", "idle"} \/ Resuming(r) THEN 1 ELSE 0

(* A run becomes paused, or publishes, only when its Agent is gone, its    *)
(* Session on disk knows what the Agent knew, the recorded Git facts are   *)
(* those of the worktree, and what is published is what the Agent reported *)
(* (executeOwnedTurn, settleExecutionFailure, validatedOutcome).           *)
CheckpointIsProven ==
    [][\A r \in Runs : Executing(r) /\ run'[r].state \in {"paused", "publishing"} =>
          /\ roots[r] = 0
          /\ ~owner[r].unsaved
          /\ run'[r].git = tree[r]
          /\ run'[r].state = "publishing" => owner[r].report = tree[r]]_vars

(* When the dispatcher's disposer has ended, nothing of it executes: no    *)
(* run has an owner or an Agent, and none is implementing, until another   *)
(* dispatcher is there.                                                    *)
WithdrawnIsQuiet ==
    dispatcher = "withdrawn" =>
        \A r \in Runs : roots[r] = 0 /\ owner[r].phase = "none" /\ run[r].state # "implementing"

(* A queued run starts in the end, if from some time on the scheduler is   *)
(* enabled, the dispatcher is there, no run requires recovery, and no      *)
(* paused run is resumed instead (Workflow.reconcile, drainExecutionLane,*)
(* Dispatch.prepareNext).                                                  *)
Favourable ==
    /\ mode = "enabled" /\ dispatcher = "accepting"
    /\ \A r \in Runs : ~run[r].recovery
    /\ Continuations = {} /\ \A i \in DOMAIN lane : lane[i].kind # "resume"
QueuedStarts == <>[]Favourable => \A r \in Runs : <>(run[r].state # "queued")

=============================================================================
