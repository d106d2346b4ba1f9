---------------------------- MODULE Publication ----------------------------
(***************************************************************************)
(* Publication of one run's verified change (publication/service.ts,       *)
(* publication/git.ts, admission/publication-control.ts) through the       *)
(* code-host provider, at a remote repository that other people use too.   *)
(*                                                                         *)
(* An attempt claims the durable intent, checks the local Git facts, and   *)
(* then reconciles: it reads the base, the branch and the pull requests,   *)
(* one after another, takes the one step that is missing, and reads again. *)
(* A request to the remote may take effect after the attempt that sent it  *)
(* has given up, and a restart forgets every attempt but not its requests. *)
(*                                                                         *)
(* Commits are numbered as they come into being; commit 1 is the verified  *)
(* base.  Of a commit only its tree matters: the verified base's, the      *)
(* verified outcome's ("run") or another.                                  *)
(***************************************************************************)
EXTENDS CodeHostProvider, FiniteSets

CONSTANTS
    MaxAttempts,     \* MAX_AUTOMATIC_EXTERNAL_ATTEMPTS
    MaxOthers,       \* bound: commits of other people, to the base or the branch
    MaxRestarts      \* bound: Host restarts

ASSUME PublicationAssumption ==
    /\ MaxAttempts \in Nat \ {0}
    /\ {MaxOthers, MaxRestarts} \subseteq Nat

VARIABLES
    run,             \* durable: the run's lifecycle state
    intent,          \* durable: [status, attempts, branchReceipt, receipt, head]
    worker,          \* where publishOwned is: [step, stage, reply]
    observed,        \* what it read: [base, branch, pullRequest, state, head]
    requests,        \* requests on their way to the remote
    trees,           \* remote: the tree of each commit
    base,            \* remote: head of the base branch
    branch,          \* remote: head of the run's branch, 0 if there is none
    pullRequests,    \* remote: pull requests of the branch, oldest first
    others,          \* history: commits of other people
    restarts         \* history: Host restarts

hostVars == <<run, intent, worker, observed>>
remoteVars == <<requests, trees, base, branch, pullRequests, others>>
vars == <<providerVars, hostVars, remoteVars, restarts>>

Statuses == {"pending", "in-flight", "uncertain", "retryable-failure", "failed", "exhausted",
             "succeeded"}
Kinds == {"createBranch", "publishChanges", "createPullRequest"}
Commits == DOMAIN trees

Idle == [step |-> "idle", stage |-> "first", reply |-> "none"]
Nothing == [base |-> 0, branch |-> 0, pullRequest |-> 0, state |-> "none", head |-> 0]

Init ==
    /\ wanted \in {0} \cup Configurations
    /\ Mounted
    /\ run = "publishing"
    /\ intent = [status |-> "pending", attempts |-> 0, branchReceipt |-> 0,
                receipt |-> 0, head |-> 0]
    /\ worker = Idle
    /\ observed = Nothing
    /\ requests = {}
    /\ trees = <<"base">>
    /\ base = 1
    /\ branch = 0
    /\ pullRequests = <<>>
    /\ others = 0
    /\ restarts = 0

----------------------------------------------------------------------------
(* The durable intent.                                                     *)

Claimable == intent.status \in {"pending", "uncertain", "retryable-failure"}

(* claim: one owner at a time, and one more attempt.                       *)
Claim ==
    /\ worker = Idle
    /\ run = "publishing"
    /\ Claimable
    /\ intent' = [intent EXCEPT !.status = "in-flight", !.attempts = @ + 1]
    /\ worker' = [Idle EXCEPT !.step = "preparing"]
    /\ observed' = Nothing
    /\ UNCHANGED <<providerVars, run, remoteVars, restarts>>

(* fail: an attempt that is not a definite failure may be repeated until   *)
(* the attempts are used up; then the run fails.                           *)
StatusAfterLate(status) ==
    IF status # "failed" /\ intent.attempts > MaxAttempts THEN "exhausted" ELSE status
StatusAfter(status) ==
    IF status # "failed" /\ intent.attempts >= MaxAttempts THEN "exhausted" ELSE status

Fail(status) ==
    /\ intent' = [intent EXCEPT !.status = StatusAfter(status)]
    /\ run' = IF StatusAfter(status) \in {"failed", "exhausted"} THEN "failed" ELSE run
    /\ worker' = Idle
    /\ observed' = Nothing
    /\ retained' = 0
    /\ UNCHANGED <<wanted, revision, queue, loop, active, provider, remoteVars, restarts>>

----------------------------------------------------------------------------
(* Local preparation, and the hold on a provider generation.               *)

Failures == {"uncertain", "retryable-failure", "failed"}

(* The service is taken down while an attempt runs: its signal aborts.     *)
OwnerRetires ==
    /\ worker # Idle
    /\ Fail("uncertain")

(* preparePublication finds the recorded Git facts unchanged.              *)
Prepare ==
    /\ worker.step = "preparing"
    /\ worker' = [worker EXCEPT !.step = "retaining"]
    /\ UNCHANGED <<providerVars, run, intent, observed, remoteVars, restarts>>

(* A changed fact and a failed Git command are definite.                   *)
PrepareFails ==
    /\ worker.step = "preparing"
    /\ Fail("failed")

(* withProvider                                                            *)
Retain ==
    /\ worker.step = "retaining"
    /\ provider.accepting
    /\ retained' = provider.config
    /\ worker' = [worker EXCEPT !.step = "reading base"]
    /\ UNCHANGED <<wanted, revision, queue, loop, active, provider, run, intent, observed,
                   remoteVars, restarts>>

ProviderMissing ==
    /\ worker.step = "retaining"
    /\ ~provider.accepting
    /\ Fail("retryable-failure")

----------------------------------------------------------------------------
(* Reconciliation: three reads, each at its own time.                      *)

Reading == worker.step \in {"reading base", "reading branch", "reading pull requests"}

Read(step, next, observation) ==
    /\ worker.step = step
    /\ provider.accepting
    /\ observed' = observation
    /\ worker' = [worker EXCEPT !.step = next]
    /\ UNCHANGED <<providerVars, run, intent, remoteVars, restarts>>

ReadBase == Read("reading base", "reading branch", [Nothing EXCEPT !.base = base])

ReadBranch == Read("reading branch", "reading pull requests", [observed EXCEPT !.branch = branch])

(* All pull requests of the head and base branch, whatever their state.    *)
OpenOnes == SelectSeq(pullRequests, LAMBDA p : p.state = "open")
Existing == pullRequests

ObservedPullRequest ==
    CASE Len(Existing) = 0 -> [number |-> 0, state |-> "missing", head |-> 0]
      [] Len(Existing) = 1 -> [number |-> 1, state |-> Existing[1].state, head |-> Existing[1].head]
      [] OTHER -> [number |-> 0, state |-> "conflict", head |-> 0]

ReadPullRequests ==
    Read("reading pull requests", "deciding",
         [observed EXCEPT !.pullRequest = ObservedPullRequest.number,
                          !.state = ObservedPullRequest.state,
                          !.head = ObservedPullRequest.head])

(* What a failed read means: nothing was changed by it, unless it was to   *)
(* confirm a pull request.  A withdrawn generation sends nothing.          *)
ReadFailures ==
    IF worker.stage = "confirm" THEN {"uncertain"}
    ELSE IF provider.accepting THEN Failures
    ELSE {"retryable-failure"}

ReadFails ==
    /\ Reading
    /\ \E status \in ReadFailures : Fail(status)

----------------------------------------------------------------------------
(* What the observation means.                                             *)

BranchKind ==
    CASE observed.branch = 0 -> "missing"
      [] observed.branch = observed.base -> "base"
      [] OTHER -> IF trees[observed.branch] = "run" THEN "published" ELSE "conflict"

Missing == observed.state = "missing"

(* assertBaseAndConflict                                                   *)
Unrelated ==
    \/ observed.base # 1
    \/ BranchKind = "conflict"
    \/ observed.state \in {"conflict", "draft"}

(* assertReadyReceipt                                                      *)
ReadyAnyHead == observed.state = "open" /\ observed.branch # 0
Ready == observed.state = "open" /\ observed.branch # 0 /\ observed.head = observed.branch

(* The step of the remote that is missing, if any, by where the attempt is.*)
NextRequest ==
    IF worker.stage = "first" /\ ~Missing THEN "none"
    ELSE CASE BranchKind = "missing" /\ worker.stage = "first" -> "createBranch"
           [] BranchKind = "base" /\ worker.stage \in {"first", "branch"} -> "publishChanges"
           [] BranchKind = "published" /\ Missing /\ worker.stage # "confirm" -> "createPullRequest"
           [] OTHER -> "none"

(* A branch that carries the verified tree, or the head of the pull        *)
(* request that was found first of all, is recorded before anything else.  *)
MayRecord ==
    IF worker.stage = "first" /\ ~Missing THEN Ready
    ELSE worker.stage # "confirm" /\ BranchKind = "published"

RecordBranch ==
    /\ worker.step = "deciding"
    /\ ~Unrelated
    /\ MayRecord
    /\ intent' = [intent EXCEPT !.branchReceipt = observed.branch]
    /\ worker' = [worker EXCEPT !.step = "recorded"]
    /\ UNCHANGED <<providerVars, run, observed, remoteVars, restarts>>

Confirming == worker.step = "deciding" /\ worker.stage = "confirm"

Complete ==
    /\ \/ worker.step = "recorded" /\ ~Missing
       \/ Confirming /\ ~Unrelated
    /\ Ready
    /\ run' = "completed"
    /\ intent' = [intent EXCEPT !.status = "succeeded", !.receipt = observed.pullRequest,
                               !.head = observed.head]
    /\ worker' = Idle
    /\ observed' = Nothing
    /\ retained' = 0
    /\ UNCHANGED <<wanted, revision, queue, loop, active, provider, remoteVars, restarts>>

(* A conflict is definite, except where a pull request was just created.   *)
Reject ==
    /\ \/ worker.step = "deciding" /\ Unrelated
       \/ Confirming /\ ~Ready
       \/ worker.step = "deciding" /\ ~Confirming /\ ~MayRecord /\ NextRequest = "none"
       \/ worker.step = "recorded" /\ ~Missing /\ ~Ready
    /\ Fail(IF worker.stage = "confirm" THEN "uncertain" ELSE "failed")

----------------------------------------------------------------------------
(* Requests that change the remote.                                        *)

Sending ==
    \/ worker.step = "deciding" /\ ~Unrelated /\ NextRequest \in {"createBranch", "publishChanges"}
    \/ worker.step = "recorded" /\ NextRequest = "createPullRequest"

Send ==
    /\ Sending
    /\ provider.accepting
    /\ requests' = requests \cup {[kind |-> NextRequest, attempt |-> intent.attempts]}
    /\ worker' = [worker EXCEPT !.step = NextRequest]
    /\ UNCHANGED <<providerVars, run, intent, observed, trees, base, branch, pullRequests, others,
                   restarts>>

(* The actor's identity is read first, and may fail like any read.         *)
SendFails ==
    /\ Sending
    /\ \E status \in IF provider.accepting THEN Failures ELSE {"uncertain"} : Fail(status)

StageAfter == [createBranch |-> "branch", publishChanges |-> "changes",
               createPullRequest |-> "confirm"]

(* The acknowledgement arrives, and the remote is read once more.          *)
Acknowledged ==
    /\ worker.step \in Kinds
    /\ worker.reply = "done"
    /\ provider.accepting
    /\ worker' = [step |-> "reading base", stage |-> StageAfter[worker.step], reply |-> "none"]
    /\ UNCHANGED <<providerVars, run, intent, observed, remoteVars, restarts>>

(* mutation: without a clear refusal the outcome is ambiguous.             *)
AnswerFailures == IF worker.reply = "refused" /\ provider.accepting THEN Failures ELSE {"uncertain"}

AnswerFails ==
    /\ worker.step \in Kinds
    /\ \E status \in AnswerFailures : Fail(status)

----------------------------------------------------------------------------
(* The remote.                                                             *)

NewCommit == Len(trees) + 1

IsOwn(r) == worker.step = r.kind /\ intent.attempts = r.attempt

Reply(r, reply) ==
    worker' = IF IsOwn(r) THEN [worker EXCEPT !.reply = reply] ELSE worker

(* Open pull requests follow the branch.                                   *)
Following(head) ==
    [p \in DOMAIN pullRequests |->
        IF pullRequests[p].state \in {"open", "draft"}
        THEN [pullRequests[p] EXCEPT !.head = head] ELSE pullRequests[p]]

Arrive(r) ==
    /\ r \in requests
    /\ requests' = requests \ {r}
    /\ UNCHANGED <<providerVars, run, intent, observed, base, others, restarts>>

BranchCreated(r) ==
    /\ r.kind = "createBranch"
    /\ Arrive(r)
    /\ branch = 0
    /\ branch' = base
    /\ Reply(r, IF base = 1 THEN "done" ELSE "unexpected")
    /\ UNCHANGED <<trees, pullRequests>>

ChangesPushed(r) ==
    /\ r.kind = "publishChanges"
    /\ Arrive(r)
    /\ branch # 0
    /\ trees' = Append(trees, IF branch = 1 \/ trees[branch] = "run" THEN "run" ELSE "other")
    /\ branch' = NewCommit
    /\ pullRequests' = Following(NewCommit)
    /\ Reply(r, "done")

OpenedAlready == \E p \in DOMAIN pullRequests : pullRequests[p].state \in {"open", "draft"}

PullRequestOpened(r) ==
    /\ r.kind = "createPullRequest"
    /\ Arrive(r)
    /\ ~OpenedAlready
    /\ pullRequests' = Append(pullRequests, [state |-> "open", head |-> branch])
    /\ Reply(r, "done")
    /\ UNCHANGED <<trees, branch>>

(* A branch that exists is not created again, nor a second pull request    *)
(* opened; any request may also be refused for another reason.             *)
Refused(r) ==
    /\ Arrive(r)
    /\ Reply(r, "refused")
    /\ UNCHANGED <<trees, branch, pullRequests>>

(* People: they commit to the base or to the branch at any time.  They     *)
(* turn to a pull request at any time but one: while a request is under    *)
(* way, or about to be, that was decided on before the pull request was.   *)
OtherCommit ==
    /\ others < MaxOthers
    /\ others' = others + 1
    /\ trees' = Append(trees, "other")
    /\ \/ base' = NewCommit /\ UNCHANGED <<branch, pullRequests>>
       \/ branch # 0 /\ branch' = NewCommit /\ pullRequests' = Following(NewCommit) /\ UNCHANGED base
    /\ UNCHANGED <<providerVars, hostVars, requests, restarts>>

Review(state) ==
    /\ requests = {}
    /\ observed.state # "missing"
    /\ OpenedAlready
    /\ pullRequests' = [pullRequests EXCEPT ![Len(pullRequests)].state = state]
    /\ UNCHANGED <<providerVars, hostVars, requests, branch, others, restarts>>

ClosePullRequest == Review("closed") /\ UNCHANGED <<trees, base>>
DraftPullRequest == Review("draft") /\ UNCHANGED <<trees, base>>
MergePullRequest == Review("merged") /\ trees' = Append(trees, trees[branch]) /\ base' = NewCommit

----------------------------------------------------------------------------
(* markInterruptedRunsForRecovery, and a plugin that starts anew.          *)
InterruptedInFlight == intent.status
Interrupted ==
    IF intent.status # "in-flight" THEN intent.status
    ELSE IF intent.attempts >= MaxAttempts THEN "exhausted" ELSE "uncertain"

Restart ==
    /\ restarts < MaxRestarts
    /\ restarts' = restarts + 1
    /\ intent' = [intent EXCEPT !.status = Interrupted]
    /\ worker' = Idle
    /\ observed' = Nothing
    /\ revision' = 1 /\ queue' = <<1>> /\ loop' = Resting
    /\ active' = 0 /\ provider' = Absent /\ retained' = 0
    /\ UNCHANGED <<wanted, run, remoteVars>>

HostStep ==
    \/ Claim \/ OwnerRetires \/ Prepare \/ PrepareFails \/ Retain \/ ProviderMissing
    \/ ReadBase \/ ReadBranch \/ ReadPullRequests \/ ReadFails
    \/ RecordBranch \/ Complete \/ Reject
    \/ Send \/ SendFails \/ Acknowledged \/ AnswerFails

LoopStep ==
    /\ TakeRequest \/ ForgetGeneration \/ Register
    /\ UNCHANGED <<hostVars, remoteVars, restarts>>

RemoteStep ==
    \/ \E r \in requests : BranchCreated(r) \/ ChangesPushed(r) \/ PullRequestOpened(r) \/ Refused(r)
    \/ OtherCommit \/ ClosePullRequest \/ DraftPullRequest \/ MergePullRequest

Next ==
    \/ HostStep
    \/ LoopStep
    \/ ChangeSettings /\ UNCHANGED <<hostVars, remoteVars, restarts>>
    \/ RemoteStep
    \/ Restart

(* Attempts take their steps and are claimed again when due; a call to the *)
(* remote is answered or times out; the reconciliation loop takes its own. *)
Fairness == WF_vars(HostStep) /\ WF_vars(LoopStep)

Spec == Init /\ [][Next]_vars /\ Fairness

----------------------------------------------------------------------------
(* Properties.                                                             *)

(* Types; attempts never exceed their limit, and a run that publishes has  *)
(* an attempt in flight exactly while a worker is at it.                   *)
TypeOK ==
    /\ ProviderTypeOK
    /\ run \in {"publishing", "completed", "failed"}
    /\ intent.status \in Statuses
    /\ intent.attempts \in 0 .. MaxAttempts
    /\ {intent.branchReceipt, intent.head} \subseteq {0} \cup Commits
    /\ worker # Idle <=> intent.status = "in-flight"
    /\ \A r \in requests : r.kind \in Kinds /\ r.attempt \in 1 .. intent.attempts
    /\ {base, branch} \subseteq {0} \cup Commits

(* However often publication is repeated after a failure, an uncertain     *)
(* answer or a restart, and whatever became of the first pull request, the *)
(* run's branch has at most one (README.md:50).                            *)
OnePullRequest == Len(pullRequests) <= 1

(* A run is completed only over a pull request whose head, as recorded,    *)
(* carries the verified tree: branch and pull request are read at          *)
(* different times, and someone may push in between.                       *)
CompletedIsHandedOver ==
    run = "completed" =>
        /\ intent.receipt \in DOMAIN pullRequests
        /\ trees[intent.head] = "run"
        /\ trees[intent.branchReceipt] = "run"

(* A generation that an operation holds is not forgotten, let alone        *)
(* replaced, before the operation has ended.                               *)
HeldGenerationIsKept == retained # 0 => provider.config = retained

(* Every publication ends: completed, failed, or exhausted in an attempt   *)
(* that a restart cut off.                                                 *)
PublicationEnds == <>(run # "publishing" \/ intent.status = "exhausted")

(* When settings and tools rest, the registered provider comes to be what  *)
(* they say, though changes came during a reconciliation or a publication. *)
ProviderFollowsSettings ==
    <>[](provider = IF wanted = 0 THEN Absent ELSE [config |-> wanted, accepting |-> TRUE])

=============================================================================
