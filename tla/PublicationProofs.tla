-------------------------- MODULE PublicationProofs --------------------------
(* Machine-checked proofs about Publication and the CodeHostProvider it    *)
(* goes through, for every set of configurations and every limit.          *)
EXTENDS Publication, SequenceTheorems, TLAPS

----------------------------------------------------------------------------
(* The inductive invariant.                                                *)

ObservedStates == {"none", "missing", "open", "draft", "closed", "merged", "conflict"}
PullRequestStates == {"open", "draft", "closed", "merged"}
WorkerSteps == {"idle", "preparing", "retaining", "reading base", "reading branch",
                "reading pull requests", "deciding", "recorded"} \cup Kinds
Stages == {"first", "branch", "changes", "confirm"}
Replies == {"none", "done", "refused", "unexpected"}

Loops == [step : {"resting", "draining", "registering"}, requested : Nat,
          snapshot : {0} \cup Configurations]
Generations == [config : {0} \cup Configurations, accepting : BOOLEAN]
Intents == [status : Statuses, attempts : Nat, branchReceipt : Nat, receipt : Nat, head : Nat]
Workers == [step : WorkerSteps, stage : Stages, reply : Replies]
Observations == [base : Nat, branch : Nat, pullRequest : Nat, state : ObservedStates, head : Nat]
Requests == [kind : Kinds, attempt : Nat]
PullRequests == [state : PullRequestStates, head : Nat]

(* The provider.                                                           *)
ProviderInv ==
    /\ wanted \in {0} \cup Configurations
    /\ revision \in 1 .. MaxChanges + 1
    /\ queue \in Seq(1 .. revision)
    /\ loop \in Loops
    /\ loop.requested <= revision
    /\ active \in {0} \cup Configurations
    /\ provider \in Generations
    /\ retained \in {0} \cup Configurations
    /\ active # 0 => provider.config = active
    /\ provider.accepting <=> active # 0
    /\ loop.step # "resting" => active = 0
    /\ loop.step = "registering" => retained = 0 /\ loop.snapshot # 0
    /\ HeldGenerationIsKept

(* The Host's attempt.                                                     *)
AttemptInv ==
    /\ run \in {"publishing", "completed", "failed"}
    /\ intent \in Intents
    /\ intent.attempts <= MaxAttempts
    /\ worker \in Workers
    /\ observed \in Observations
    /\ worker # Idle <=> intent.status = "in-flight"
    /\ intent.status = "in-flight" => run = "publishing" /\ intent.attempts > 0
    /\ Claimable => intent.attempts < MaxAttempts
    /\ requests \subseteq Requests
    /\ \A r \in requests : r.attempt \in 1 .. intent.attempts

(* The remote.                                                             *)
RemoteInv ==
    /\ trees \in Seq({"base", "run", "other"})
    /\ trees # <<>>
    /\ trees[1] = "base"
    /\ base \in Commits
    /\ branch \in {0} \cup Commits
    /\ pullRequests \in Seq(PullRequests)
    /\ OnePullRequest
    /\ pullRequests # <<>> => branch > 1 /\ pullRequests[1].head \in Commits /\ pullRequests[1].head > 1

(* What the Host knows of the remote.                                      *)
Creating == observed.state = "missing" \/ \E r \in requests : r.kind = "createPullRequest"

KnowledgeInv ==
    /\ {observed.base, observed.branch, observed.head} \subseteq {0} \cup Commits
    /\ {intent.branchReceipt, intent.head} \subseteq {0} \cup Commits
    /\ observed.state = "open" => observed.head > 1 /\ observed.pullRequest \in DOMAIN pullRequests
    /\ observed.branch > 1 => branch > 1
    /\ Creating /\ pullRequests # <<>> => pullRequests[1].state \in {"open", "draft"}
    /\ (\E r \in requests : r.kind = "createPullRequest") => branch > 1
    /\ worker.step = "recorded" => intent.branchReceipt = observed.branch /\ observed.branch # 0
    /\ worker.step = "createPullRequest" \/ worker.stage = "confirm" => intent.branchReceipt # 0
    /\ intent.branchReceipt # 0 => trees[intent.branchReceipt] = "run"
    /\ run = "completed" => intent.branchReceipt # 0 /\ intent.head # 0
    /\ CompletedIsHandedOver

PublicationInv == ProviderInv /\ AttemptInv /\ RemoteInv /\ KnowledgeInv

(* The invariant holds at first.                                           *)
LEMMA PublicationInit == Init => PublicationInv
<1> SUFFICES ASSUME Init PROVE PublicationInv
  OBVIOUS
<1> USE DEF Init, Mounted, Absent, Resting, Idle, Nothing
<1>1. ProviderInv
  BY PublicationAssumption, CodeHostProviderAssumption
     DEF ProviderInv, Loops, Generations, HeldGenerationIsKept
<1>2. AttemptInv
  BY PublicationAssumption
     DEF AttemptInv, Intents, Workers, Observations, Requests, Statuses, Kinds, WorkerSteps, Stages,
         Replies, ObservedStates, Claimable
<1>3. RemoteInv
  BY DEF RemoteInv, Commits, OnePullRequest, PullRequests
<1>4. KnowledgeInv
  BY DEF KnowledgeInv, Commits, Creating, CompletedIsHandedOver
<1> QED
  BY <1>1, <1>2, <1>3, <1>4 DEF PublicationInv

----------------------------------------------------------------------------
(* The provider.                                                           *)

(* A change of settings and each step of the reconciliation loop keep the  *)
(* provider's part; a generation that is held is not forgotten, because    *)
(* only a drained one is.                                                  *)
LEMMA ProviderStep ==
    ASSUME ProviderInv, ChangeSettings \/ TakeRequest \/ ForgetGeneration \/ Register
    PROVE  ProviderInv'
<1>1. CASE ChangeSettings
  <2>1. queue' \in Seq(1 .. revision')
    <3>1. queue \in Seq(1 .. revision')
      BY <1>1 DEF ProviderInv, ChangeSettings
    <3> QED
      BY <1>1, <3>1 DEF ProviderInv, ChangeSettings, Scheduled
  <2> QED
    BY <1>1, <2>1, CodeHostProviderAssumption
       DEF ProviderInv, ChangeSettings, Loops, HeldGenerationIsKept
<1>2. CASE TakeRequest
  <2>1. /\ queue' \in Seq(1 .. revision)
        /\ Head(queue) \in 1 .. revision
    BY <1>2 DEF ProviderInv, TakeRequest
  <2>2. CASE wanted # 0 /\ active = wanted
    BY <1>2, <2>1, <2>2 DEF ProviderInv, TakeRequest, HeldGenerationIsKept
  <2>3. CASE ~(wanted # 0 /\ active = wanted)
    <3>1. /\ loop' = [step |-> "draining", requested |-> Head(queue), snapshot |-> wanted]
          /\ active' = 0
          /\ provider' \in Generations
          /\ provider'.config = provider.config
          /\ ~provider'.accepting
      BY <1>2, <2>3 DEF ProviderInv, TakeRequest, Withdrawn, Generations
    <3>2. loop' \in Loops /\ loop'.requested <= revision /\ loop'.step = "draining"
      BY <2>1, <3>1 DEF ProviderInv, Loops
    <3> QED
      BY <1>2, <2>1, <3>1, <3>2 DEF ProviderInv, TakeRequest, HeldGenerationIsKept
  <2> QED
    BY <2>2, <2>3
<1>3. CASE ForgetGeneration
  <2>1. /\ active = 0
        /\ retained = 0
        /\ provider' \in Generations
        /\ provider'.config = 0
        /\ ~provider'.accepting
    BY <1>3 DEF ProviderInv, ForgetGeneration, Drained, Absent, Generations
  <2>2. /\ loop' \in Loops
        /\ loop'.requested <= revision
        /\ loop'.step = "registering" => loop.snapshot # 0 /\ loop'.snapshot = loop.snapshot
    BY <1>3 DEF ProviderInv, ForgetGeneration, Resting, Loops
  <2> QED
    BY <1>3, <2>1, <2>2 DEF ProviderInv, ForgetGeneration, HeldGenerationIsKept
<1>4. CASE Register
  <2>1. loop' \in Loops /\ loop'.requested <= revision /\ loop'.step = "resting"
    BY <1>4 DEF ProviderInv, Register, Resting, Loops
  <2>2. /\ provider' \in Generations
        /\ active' \in {0} \cup Configurations
        /\ active' # 0 => provider'.config = active'
        /\ provider'.accepting <=> active' # 0
    <3>1. CASE IsNewest
      <4>1. loop.snapshot # 0 /\ loop.snapshot \in {0} \cup Configurations
        BY <1>4 DEF ProviderInv, Register, Loops
      <4>2. active' = loop.snapshot /\ provider' = [config |-> loop.snapshot, accepting |-> TRUE]
        BY <1>4, <3>1 DEF Register
      <4> QED
        BY <4>1, <4>2 DEF Generations
    <3>2. CASE ~IsNewest
      BY <1>4, <3>2 DEF ProviderInv, Register
    <3> QED
      BY <3>1, <3>2
  <2> QED
    BY <1>4, <2>1, <2>2 DEF ProviderInv, Register, HeldGenerationIsKept
<1> QED
  BY <1>1, <1>2, <1>3, <1>4

(* An operation that takes hold of the accepting generation, or lets go of *)
(* it, keeps it too.                                                       *)
LEMMA ProviderFrame ==
    ASSUME ProviderInv, UNCHANGED <<wanted, revision, queue, loop, active, provider>>,
           \/ retained' \in {0, retained}
           \/ provider.accepting /\ retained' = provider.config
    PROVE  ProviderInv'
BY DEF ProviderInv, Generations, HeldGenerationIsKept

(* A step that leaves the code host alone.                                 *)
LEMMA RemoteFrame ==
    ASSUME RemoteInv, UNCHANGED <<trees, base, branch, pullRequests>>
    PROVE  RemoteInv'
BY DEF RemoteInv, Commits, OnePullRequest

----------------------------------------------------------------------------
(* The Host's attempt.                                                     *)

(* A step that learns nothing new, records nothing and sends nothing.      *)
LEMMA KnowledgeFrame ==
    ASSUME KnowledgeInv, UNCHANGED <<trees, branch, pullRequests, requests>>,
           observed' \in {observed, Nothing},
           /\ intent'.branchReceipt = intent.branchReceipt
           /\ intent'.receipt = intent.receipt
           /\ intent'.head = intent.head,
           run' = "completed" => run = "completed",
           worker'.step \notin {"recorded", "createPullRequest"},
           worker'.stage = "confirm" =>
               worker.stage = "confirm" \/ worker.step = "createPullRequest"
    PROVE  KnowledgeInv'
<1>1. observed' = observed \/ observed' = Nothing
  OBVIOUS
<1>2. /\ {observed'.base, observed'.branch, observed'.head} \subseteq {0} \cup Commits
      /\ observed'.state = "open" => observed'.head > 1 /\ observed'.pullRequest \in DOMAIN pullRequests
      /\ observed'.branch > 1 => branch > 1
      /\ observed'.state = "missing" => observed.state = "missing"
  BY <1>1 DEF KnowledgeInv, Nothing
<1>3. Creating' => Creating
  BY <1>2 DEF Creating
<1>4. CompletedIsHandedOver'
  BY DEF KnowledgeInv, CompletedIsHandedOver
<1> QED
  BY <1>2, <1>3, <1>4 DEF KnowledgeInv, Commits

(* An attempt that fails may be repeated only while attempts are left.     *)
LEMMA FailKeepsInv ==
    ASSUME PublicationInv, worker # Idle, NEW status \in Failures, Fail(status)
    PROVE  PublicationInv'
<1>1. ProviderInv' /\ RemoteInv'
  BY ProviderFrame, RemoteFrame DEF PublicationInv, Fail, remoteVars
<1>2. intent.status = "in-flight" /\ run = "publishing"
  BY DEF PublicationInv, AttemptInv
<1>3. /\ StatusAfter(status) \in {"uncertain", "retryable-failure", "failed", "exhausted"}
      /\ StatusAfter(status) \in {"uncertain", "retryable-failure"} => intent.attempts < MaxAttempts
  BY PublicationAssumption DEF PublicationInv, AttemptInv, StatusAfter, Failures, Intents
<1>4. /\ intent' \in Intents
      /\ intent' = [intent EXCEPT !.status = StatusAfter(status)]
  BY <1>3 DEF PublicationInv, AttemptInv, Intents, Statuses, Fail
<1>5. AttemptInv'
  <2>1. run' \in {"publishing", "failed"}
    BY <1>2 DEF Fail
  <2>2. worker' = Idle /\ worker' \in Workers
    BY DEF Fail, Idle, Workers, WorkerSteps, Stages, Replies
  <2>3. observed' \in Observations
    BY DEF Fail, Nothing, Observations, ObservedStates
  <2>4. intent'.status = StatusAfter(status) /\ intent'.attempts = intent.attempts
    BY <1>4 DEF PublicationInv, AttemptInv, Intents
  <2>5. requests' = requests
    BY DEF Fail, remoteVars
  <2> QED
    BY <1>3, <1>4, <2>1, <2>2, <2>3, <2>4, <2>5 DEF PublicationInv, AttemptInv, Claimable
<1>6. KnowledgeInv'
  <2>1. UNCHANGED <<trees, branch, pullRequests, requests>> /\ observed' = Nothing
    BY DEF Fail, remoteVars
  <2>2. worker'.step = "idle" /\ worker'.stage = "first"
    BY DEF Fail, Idle
  <2>3. /\ intent'.branchReceipt = intent.branchReceipt
        /\ intent'.receipt = intent.receipt
        /\ intent'.head = intent.head
    BY <1>4 DEF PublicationInv, AttemptInv, Intents
  <2>4. run' # "completed"
    BY <1>2 DEF Fail
  <2> QED
    BY <2>1, <2>2, <2>3, <2>4, KnowledgeFrame DEF PublicationInv
<1> QED
  BY <1>1, <1>5, <1>6 DEF PublicationInv

(* Every step that ends an attempt without success is such a failure.      *)
LEMMA FailuresKeepInv ==
    ASSUME PublicationInv,
           \/ OwnerRetires \/ PrepareFails \/ ProviderMissing \/ ReadFails
           \/ Reject \/ SendFails \/ AnswerFails
    PROVE  PublicationInv'
<1> USE DEF Failures
<1>1. worker.step # "idle" => worker # Idle
  BY DEF Idle
<1>2. CASE OwnerRetires
  BY <1>2, FailKeepsInv DEF OwnerRetires
<1>3. CASE PrepareFails
  BY <1>1, <1>3, FailKeepsInv DEF PrepareFails
<1>4. CASE ProviderMissing
  BY <1>1, <1>4, FailKeepsInv DEF ProviderMissing
<1>5. CASE ReadFails
  <2>1. worker # Idle
    BY <1>1, <1>5 DEF ReadFails, Reading
  <2>2. PICK status \in ReadFailures : Fail(status)
    BY <1>5 DEF ReadFails
  <2>3. status \in Failures
    BY <2>2 DEF ReadFailures
  <2> QED
    BY <2>1, <2>2, <2>3, FailKeepsInv
<1>6. CASE Reject
  <2>1. worker # Idle
    BY <1>1, <1>6 DEF Reject, Confirming
  <2>2. PICK status \in Failures : Fail(status)
    BY <1>6 DEF Reject
  <2> QED
    BY <2>1, <2>2, FailKeepsInv
<1>7. CASE SendFails
  <2>1. worker # Idle
    BY <1>1, <1>7 DEF SendFails, Sending
  <2>2. PICK status \in Failures : Fail(status)
    BY <1>7 DEF SendFails
  <2> QED
    BY <2>1, <2>2, FailKeepsInv
<1>8. CASE AnswerFails
  <2>1. worker # Idle
    BY <1>1, <1>8 DEF AnswerFails, Kinds
  <2>2. PICK status \in Failures : Fail(status)
    BY <1>8 DEF AnswerFails, AnswerFailures
  <2> QED
    BY <2>1, <2>2, FailKeepsInv
<1> QED
  BY <1>2, <1>3, <1>4, <1>5, <1>6, <1>7, <1>8

(* An attempt under way goes on: its status and number stay.               *)
LEMMA AttemptFrame ==
    ASSUME AttemptInv, worker.step # "idle", UNCHANGED run,
           worker' \in Workers, worker'.step # "idle", observed' \in Observations,
           /\ intent' \in Intents
           /\ intent'.status = intent.status
           /\ intent'.attempts = intent.attempts,
           requests' \subseteq Requests,
           \A r \in requests' : r.attempt \in 1 .. intent.attempts
    PROVE  AttemptInv'
BY DEF AttemptInv, Idle, Claimable

(* A claim starts an attempt that knows nothing yet.                       *)
LEMMA ClaimKeepsInv ==
    ASSUME PublicationInv, Claim
    PROVE  PublicationInv'
<1>1. ProviderInv' /\ RemoteInv'
  BY ProviderFrame, RemoteFrame DEF PublicationInv, Claim, remoteVars, providerVars
<1>2. /\ intent.attempts \in Nat
      /\ intent.attempts < MaxAttempts
  BY DEF PublicationInv, AttemptInv, Claim, Intents
<1>3. /\ intent' = [intent EXCEPT !.status = "in-flight", !.attempts = intent.attempts + 1]
      /\ worker' = [Idle EXCEPT !.step = "preparing"]
      /\ observed' = Nothing
      /\ UNCHANGED <<run, requests, trees, branch, pullRequests>>
      /\ run = "publishing"
  BY DEF Claim, remoteVars
<1>4. /\ intent' \in Intents
      /\ intent'.status = "in-flight"
      /\ intent'.attempts = intent.attempts + 1
      /\ intent'.branchReceipt = intent.branchReceipt
      /\ intent'.receipt = intent.receipt
      /\ intent'.head = intent.head
  <2> DEFINE claimed == [intent EXCEPT !.status = "in-flight"]
  <2>1. /\ claimed \in Intents
        /\ claimed.status = "in-flight"
        /\ claimed.attempts = intent.attempts
        /\ claimed.branchReceipt = intent.branchReceipt
        /\ claimed.receipt = intent.receipt
        /\ claimed.head = intent.head
    BY DEF PublicationInv, AttemptInv, Intents, Statuses
  <2>2. intent' = [claimed EXCEPT !.attempts = intent.attempts + 1]
    BY <1>3
  <2> HIDE DEF claimed
  <2> QED
    BY <1>2, <2>1, <2>2 DEF Intents
<1>5. worker' \in Workers /\ worker'.step = "preparing" /\ worker'.stage = "first"
  BY <1>3 DEF Idle, Workers, WorkerSteps, Stages, Replies
<1>6. observed' \in Observations
  BY <1>3 DEF Nothing, Observations, ObservedStates
<1>7. AttemptInv'
  <2>1. worker' # Idle
    BY <1>5 DEF Idle
  <2> QED
    BY <1>2, <1>3, <1>4, <1>5, <1>6, <2>1, PublicationAssumption
       DEF PublicationInv, AttemptInv, Claimable
<1>8. KnowledgeInv'
  BY <1>3, <1>4, <1>5, KnowledgeFrame DEF PublicationInv
<1> QED
  BY <1>1, <1>7, <1>8 DEF PublicationInv

(* The steps that only move the attempt on.                                *)
LEMMA WorkerMovesKeepInv ==
    ASSUME PublicationInv, Prepare \/ Retain \/ Acknowledged
    PROVE  PublicationInv'
<1>1. ProviderInv' /\ RemoteInv'
  BY ProviderFrame, RemoteFrame
     DEF PublicationInv, Prepare, Retain, Acknowledged, remoteVars, providerVars
<1>2. UNCHANGED <<run, intent, observed, requests, trees, branch, pullRequests>>
  BY DEF Prepare, Retain, Acknowledged, remoteVars
<1>3. /\ worker.step # "idle"
      /\ worker' \in Workers
      /\ worker'.step \in {"retaining", "reading base"}
      /\ worker'.stage = "confirm" => worker.stage = "confirm" \/ worker.step = "createPullRequest"
  <2>1. CASE Prepare
    BY <2>1 DEF PublicationInv, AttemptInv, Prepare, Workers, WorkerSteps
  <2>2. CASE Retain
    BY <2>2 DEF PublicationInv, AttemptInv, Retain, Workers, WorkerSteps
  <2>3. CASE Acknowledged
    <3>1. worker.step \in Kinds
          /\ worker' = [step |-> "reading base", stage |-> StageAfter[worker.step], reply |-> "none"]
      BY <2>3 DEF Acknowledged
    <3>2. /\ StageAfter[worker.step] \in Stages
          /\ StageAfter[worker.step] = "confirm" => worker.step = "createPullRequest"
      <4>1. CASE worker.step = "createBranch"
        BY <4>1 DEF StageAfter, Stages
      <4>2. CASE worker.step = "publishChanges"
        BY <4>2 DEF StageAfter, Stages
      <4>3. CASE worker.step = "createPullRequest"
        BY <4>3 DEF StageAfter, Stages
      <4> QED
        BY <3>1, <4>1, <4>2, <4>3 DEF Kinds
    <3> QED
      BY <3>1, <3>2 DEF Workers, WorkerSteps, Replies, Kinds
  <2> QED
    BY <2>1, <2>2, <2>3
<1>4. AttemptInv'
  BY <1>2, <1>3, AttemptFrame DEF PublicationInv, AttemptInv
<1>5. KnowledgeInv'
  BY <1>2, <1>3, KnowledgeFrame DEF PublicationInv
<1> QED
  BY <1>1, <1>4, <1>5 DEF PublicationInv

(* A read learns what the remote holds at that moment; only an absent pull *)
(* request is observed as missing.                                         *)
LEMMA ReadsKeepInv ==
    ASSUME PublicationInv, ReadBase \/ ReadBranch \/ ReadPullRequests
    PROVE  PublicationInv'
<1>1. UNCHANGED <<providerVars, run, intent, remoteVars, restarts>>
  BY DEF ReadBase, ReadBranch, ReadPullRequests, Read
<1>2. ProviderInv' /\ RemoteInv'
  BY <1>1, ProviderFrame, RemoteFrame DEF PublicationInv, remoteVars, providerVars
<1>3. /\ worker.step # "idle"
      /\ worker' \in Workers
      /\ worker'.step \in {"reading branch", "reading pull requests", "deciding"}
      /\ worker'.stage = worker.stage
  BY DEF PublicationInv, AttemptInv, ReadBase, ReadBranch, ReadPullRequests, Read, Workers,
         WorkerSteps
<1>4. /\ observed' \in Observations
      /\ {observed'.base, observed'.branch, observed'.head} \subseteq {0} \cup Commits
      /\ observed'.state = "open" => observed'.head > 1 /\ observed'.pullRequest \in DOMAIN pullRequests
      /\ observed'.branch > 1 => branch > 1
      /\ observed'.state = "missing" => observed.state = "missing" \/ pullRequests = <<>>
  <2>0. Commits \subseteq Nat
    BY DEF PublicationInv, RemoteInv, Commits
  <2>1. CASE ReadBase
    <3>1. observed' = [Nothing EXCEPT !.base = base] /\ base \in Commits
      BY <2>1 DEF ReadBase, Read, PublicationInv, RemoteInv
    <3> QED
      BY <2>0, <3>1 DEF Nothing, Observations, ObservedStates
  <2>2. CASE ReadBranch
    <3>1. observed' = [observed EXCEPT !.branch = branch] /\ branch \in {0} \cup Commits
      BY <2>2 DEF ReadBranch, Read, PublicationInv, RemoteInv
    <3> QED
      BY <2>0, <3>1 DEF PublicationInv, AttemptInv, KnowledgeInv, Observations
  <2>3. CASE ReadPullRequests
    <3> DEFINE seen == ObservedPullRequest
    <3>1. /\ seen.number \in Nat
          /\ seen.state \in ObservedStates
          /\ seen.head \in {0} \cup Commits
          /\ seen.state = "open" => seen.head > 1 /\ seen.number \in DOMAIN pullRequests
          /\ seen.state = "missing" => pullRequests = <<>>
      <4>1. pullRequests \in Seq(PullRequests) /\ Len(pullRequests) <= 1
        BY DEF PublicationInv, RemoteInv, OnePullRequest
      <4>2. CASE Len(pullRequests) = 0
        BY <4>1, <4>2 DEF ObservedPullRequest, Existing, ObservedStates
      <4>3. CASE Len(pullRequests) = 1
        <5>0. pullRequests # <<>> /\ 1 \in DOMAIN pullRequests
          BY <4>1, <4>3
        <5>1. pullRequests[1].state \in PullRequestStates
          <6>1. pullRequests[1] \in PullRequests
            BY <4>1, <5>0, ElementOfSeq, <4>3
          <6> QED
            BY <6>1 DEF PullRequests
        <5>2. pullRequests[1].head \in Commits /\ pullRequests[1].head > 1
          BY <5>0 DEF PublicationInv, RemoteInv
        <5>3. seen = [number |-> 1, state |-> pullRequests[1].state, head |-> pullRequests[1].head]
          BY <4>3 DEF ObservedPullRequest, Existing
        <5> QED
          BY <5>0, <5>1, <5>2, <5>3 DEF ObservedStates, PullRequestStates
      <4>4. Len(pullRequests) = 0 \/ Len(pullRequests) = 1
        <5>1. Len(pullRequests) \in Nat
          BY <4>1, LenProperties
        <5> QED
          BY <4>1, <5>1
      <4> QED
        BY ONLY <4>2, <4>3, <4>4 DEF seen
    <3>2. observed' = [observed EXCEPT !.pullRequest = seen.number,
                                       !.state = seen.state,
                                       !.head = seen.head]
      BY <2>3 DEF ReadPullRequests, Read
    <3> HIDE DEF seen
    <3>3. observed \in Observations
      BY DEF PublicationInv, AttemptInv
    <3>4. /\ observed' \in Observations
          /\ observed'.base = observed.base
          /\ observed'.branch = observed.branch
          /\ observed'.pullRequest = seen.number
          /\ observed'.state = seen.state
          /\ observed'.head = seen.head
      <4> DEFINE numbered == [observed EXCEPT !.pullRequest = seen.number]
                 stated == [numbered EXCEPT !.state = seen.state]
      <4>1. /\ numbered \in Observations
            /\ numbered.base = observed.base
            /\ numbered.branch = observed.branch
            /\ numbered.pullRequest = seen.number
        BY <3>1, <3>3 DEF Observations
      <4>2. observed' = [stated EXCEPT !.head = seen.head]
        BY <3>2
      <4> HIDE DEF numbered
      <4>3. /\ stated \in Observations
            /\ stated.base = observed.base
            /\ stated.branch = observed.branch
            /\ stated.pullRequest = seen.number
            /\ stated.state = seen.state
        BY <3>1, <4>1 DEF Observations
      <4> HIDE DEF stated
      <4> QED
        BY <2>0, <3>1, <4>2, <4>3 DEF Observations
    <3> QED
      BY <3>1, <3>4 DEF PublicationInv, KnowledgeInv
  <2> QED
    BY <2>1, <2>2, <2>3
<1>5. AttemptInv'
  BY <1>1, <1>3, <1>4, AttemptFrame DEF PublicationInv, AttemptInv, remoteVars
<1>6. KnowledgeInv'
  <2>1. Creating' /\ pullRequests # <<>> => Creating
    BY <1>1, <1>4 DEF Creating, remoteVars
  <2>2. CompletedIsHandedOver'
    BY <1>1 DEF PublicationInv, KnowledgeInv, CompletedIsHandedOver, remoteVars
  <2> QED
    BY <1>1, <1>3, <1>4, <2>1, <2>2 DEF PublicationInv, KnowledgeInv, Commits, remoteVars
<1> QED
  BY <1>2, <1>5, <1>6 DEF PublicationInv

(* What may be recorded carries the verified tree: a pull request's head   *)
(* is never the verified base, so a branch that agrees with it and does    *)
(* not conflict is the published one.                                      *)
LEMMA DecidedTree ==
    ASSUME PublicationInv, ~Unrelated, Ready \/ BranchKind = "published"
    PROVE  observed.branch # 0 /\ observed.branch \in Commits /\ trees[observed.branch] = "run"
<1>1. observed.branch \in {0} \cup Commits
  BY DEF PublicationInv, KnowledgeInv
<1>2. CASE Ready
  <2>1. observed.branch # 0 /\ observed.branch # observed.base
    BY <1>2 DEF PublicationInv, KnowledgeInv, Ready, Unrelated
  <2> QED
    BY <1>1, <2>1 DEF Unrelated, BranchKind
<1>3. CASE BranchKind = "published"
  BY <1>1, <1>3 DEF BranchKind
<1> QED
  BY <1>2, <1>3

(* The recorded branch is what the attempt found at the code host.         *)
LEMMA RecordBranchKeepsInv ==
    ASSUME PublicationInv, RecordBranch
    PROVE  PublicationInv'
<1>1. /\ intent' = [intent EXCEPT !.branchReceipt = observed.branch]
      /\ worker' = [worker EXCEPT !.step = "recorded"]
      /\ UNCHANGED <<providerVars, run, observed, remoteVars, restarts>>
      /\ worker.step = "deciding"
  BY DEF RecordBranch
<1>2. ProviderInv' /\ RemoteInv'
  BY <1>1, ProviderFrame, RemoteFrame DEF PublicationInv, remoteVars, providerVars
<1>3. observed.branch # 0 /\ observed.branch \in Commits /\ trees[observed.branch] = "run"
  BY DecidedTree DEF RecordBranch, MayRecord
<1>4. /\ intent' \in Intents
      /\ intent'.status = intent.status
      /\ intent'.attempts = intent.attempts
      /\ intent'.branchReceipt = observed.branch
      /\ intent'.receipt = intent.receipt
      /\ intent'.head = intent.head
  BY <1>1 DEF PublicationInv, AttemptInv, Intents, Observations
<1>5. worker' \in Workers /\ worker'.step = "recorded"
  BY <1>1 DEF PublicationInv, AttemptInv, Workers, WorkerSteps
<1>6. AttemptInv'
  BY <1>1, <1>4, <1>5, AttemptFrame DEF PublicationInv, AttemptInv, remoteVars
<1>7. KnowledgeInv'
  <2>1. Creating' => Creating
    BY <1>1 DEF Creating, remoteVars
  <2>2. run' # "completed"
    BY <1>1 DEF PublicationInv, AttemptInv, Idle
  <2> QED
    BY <1>1, <1>3, <1>4, <1>5, <2>1, <2>2
       DEF PublicationInv, KnowledgeInv, Commits, remoteVars, CompletedIsHandedOver
<1> QED
  BY <1>2, <1>6, <1>7 DEF PublicationInv

(* A run is completed over what was recorded, or confirmed once more.      *)
LEMMA CompleteKeepsInv ==
    ASSUME PublicationInv, Complete
    PROVE  PublicationInv'
<1>1. ProviderInv' /\ RemoteInv'
  BY ProviderFrame, RemoteFrame DEF PublicationInv, Complete, remoteVars
<1>2. /\ run' = "completed"
      /\ intent' = [intent EXCEPT !.status = "succeeded", !.receipt = observed.pullRequest,
                                  !.head = observed.head]
      /\ worker' = Idle
      /\ observed' = Nothing
      /\ UNCHANGED <<requests, trees, branch, pullRequests>>
  BY DEF Complete, remoteVars
<1>3. /\ intent' \in Intents
      /\ intent'.status = "succeeded"
      /\ intent'.attempts = intent.attempts
      /\ intent'.branchReceipt = intent.branchReceipt
      /\ intent'.receipt = observed.pullRequest
      /\ intent'.head = observed.head
  <2> DEFINE succeeded == [intent EXCEPT !.status = "succeeded"]
             received == [succeeded EXCEPT !.receipt = observed.pullRequest]
  <2>0. observed.pullRequest \in Nat /\ observed.head \in Nat
    BY DEF PublicationInv, AttemptInv, Observations
  <2>1. /\ succeeded \in Intents
        /\ succeeded.status = "succeeded"
        /\ succeeded.attempts = intent.attempts
        /\ succeeded.branchReceipt = intent.branchReceipt
    BY DEF PublicationInv, AttemptInv, Intents, Statuses
  <2>2. intent' = [received EXCEPT !.head = observed.head]
    BY <1>2
  <2> HIDE DEF succeeded
  <2>3. /\ received \in Intents
        /\ received.status = "succeeded"
        /\ received.attempts = intent.attempts
        /\ received.branchReceipt = intent.branchReceipt
        /\ received.receipt = observed.pullRequest
    BY <2>0, <2>1 DEF Intents
  <2> HIDE DEF received
  <2> QED
    BY <2>0, <2>2, <2>3 DEF Intents
<1>4. AttemptInv'
  <2>1. worker' = Idle /\ worker' \in Workers
    BY <1>2 DEF Idle, Workers, WorkerSteps, Stages, Replies
  <2>2. observed' \in Observations
    BY <1>2 DEF Nothing, Observations, ObservedStates
  <2> QED
    BY <1>2, <1>3, <2>1, <2>2 DEF PublicationInv, AttemptInv, Claimable
<1>5. /\ intent.branchReceipt # 0
      /\ trees[intent.branchReceipt] = "run"
      /\ trees[observed.head] = "run"
      /\ observed.head # 0
      /\ observed.pullRequest \in DOMAIN pullRequests
  <2>1. Ready /\ observed.head = observed.branch /\ observed.head # 0 /\ observed.pullRequest \in DOMAIN pullRequests
    BY DEF PublicationInv, KnowledgeInv, Complete, Ready
  <2>2. CASE worker.step = "recorded"
    BY <2>1, <2>2 DEF PublicationInv, KnowledgeInv
  <2>3. CASE Confirming /\ ~Unrelated
    BY <2>1, <2>3, DecidedTree DEF PublicationInv, KnowledgeInv, Confirming
  <2> QED
    BY <2>2, <2>3 DEF Complete
<1>6. KnowledgeInv'
  <2>1. worker'.step = "idle" /\ worker'.stage = "first"
    BY <1>2 DEF Idle
  <2>2. /\ observed'.base = 0 /\ observed'.branch = 0 /\ observed'.head = 0
        /\ observed'.state = "none"
    BY <1>2 DEF Nothing
  <2>3. Creating' => Creating
    BY <1>2, <2>2 DEF Creating
  <2>4. CompletedIsHandedOver'
    BY <1>2, <1>3, <1>5 DEF CompletedIsHandedOver
  <2> QED
    BY <1>2, <1>3, <1>5, <2>1, <2>2, <2>3, <2>4 DEF PublicationInv, KnowledgeInv, Commits
<1> QED
  BY <1>1, <1>4, <1>6 DEF PublicationInv

(* A pull request is asked for only where none was seen and the branch     *)
(* carries the verified tree.                                              *)
LEMMA SendKeepsInv ==
    ASSUME PublicationInv, Send
    PROVE  PublicationInv'
<1>1. /\ requests' = requests \cup {[kind |-> NextRequest, attempt |-> intent.attempts]}
      /\ worker' = [worker EXCEPT !.step = NextRequest]
      /\ UNCHANGED <<providerVars, run, intent, observed, trees, base, branch, pullRequests>>
  BY DEF Send
<1>2. ProviderInv' /\ RemoteInv'
  BY <1>1, ProviderFrame, RemoteFrame DEF PublicationInv, providerVars
<1>3. NextRequest \in Kinds /\ worker.step \in {"deciding", "recorded"}
  BY DEF Send, Sending, Kinds
<1>4. NextRequest = "createPullRequest" =>
        /\ worker.step = "recorded"
        /\ observed.state = "missing"
        /\ branch > 1
  <2>1. SUFFICES ASSUME NextRequest = "createPullRequest"
                 PROVE  /\ worker.step = "recorded"
                        /\ observed.state = "missing"
                        /\ branch > 1
    OBVIOUS
  <2>2. worker.step = "recorded"
    BY <2>1 DEF Send, Sending
  <2>3. BranchKind = "published" /\ Missing
    BY <2>1 DEF NextRequest
  <2>4. observed.branch # 0 /\ trees[observed.branch] = "run" /\ observed.branch \in Commits
    BY <2>3 DEF BranchKind, PublicationInv, KnowledgeInv
  <2>5. observed.branch > 1
    BY <2>4 DEF PublicationInv, RemoteInv, Commits
  <2> QED
    BY <2>2, <2>3, <2>5 DEF Missing, PublicationInv, KnowledgeInv
<1>5. AttemptInv'
  <2>1. worker' \in Workers /\ worker'.step # "idle"
    BY <1>1, <1>3 DEF PublicationInv, AttemptInv, Workers, WorkerSteps, Kinds
  <2>2. intent.attempts \in Nat /\ intent.attempts > 0
    BY <1>3 DEF PublicationInv, AttemptInv, Intents, Idle
  <2>3. /\ requests' \subseteq Requests
        /\ \A r \in requests' : r.attempt \in 1 .. intent.attempts
    BY <1>1, <1>3, <2>2 DEF PublicationInv, AttemptInv, Requests
  <2> QED
    BY <1>1, <1>3, <2>1, <2>3, AttemptFrame DEF PublicationInv, AttemptInv
<1>6. KnowledgeInv'
  <2>1. worker'.step = NextRequest /\ worker'.stage = worker.stage
    BY <1>1 DEF PublicationInv, AttemptInv, Workers
  <2>2. \A r \in requests' : r.kind = "createPullRequest" =>
          (\E q \in requests : q.kind = "createPullRequest") \/ NextRequest = "createPullRequest"
    BY <1>1
  <2>3. Creating' => Creating
    BY <1>1, <1>4, <2>2 DEF Creating
  <2>4. (\E r \in requests' : r.kind = "createPullRequest") => branch > 1
    BY <1>4, <2>2 DEF PublicationInv, KnowledgeInv
  <2>5. CompletedIsHandedOver'
    BY <1>1 DEF PublicationInv, KnowledgeInv, CompletedIsHandedOver
  <2>6. worker'.step # "recorded"
    BY <1>3, <2>1 DEF Kinds
  <2>7. worker'.step = "createPullRequest" \/ worker'.stage = "confirm" => intent.branchReceipt # 0
    BY <1>4, <2>1 DEF PublicationInv, KnowledgeInv
  <2> QED
    BY <1>1, <2>3, <2>4, <2>5, <2>6, <2>7 DEF PublicationInv, KnowledgeInv, Commits
<1> QED
  BY <1>2, <1>5, <1>6 DEF PublicationInv

(* Every step of the Host's attempt keeps the invariant.                   *)
LEMMA HostStepKeepsInv ==
    ASSUME PublicationInv, HostStep
    PROVE  PublicationInv'
BY ClaimKeepsInv, FailuresKeepInv, WorkerMovesKeepInv, ReadsKeepInv, RecordBranchKeepsInv,
   CompleteKeepsInv, SendKeepsInv DEF HostStep

----------------------------------------------------------------------------
(* The remote.                                                             *)

(* What happens at the remote reaches an attempt only as a reply.          *)
LEMMA RemoteReplies ==
    ASSUME PublicationInv, UNCHANGED <<providerVars, run, intent, observed>>,
           requests' \subseteq requests,
           \/ UNCHANGED worker
           \/ \E r \in requests, reply \in Replies : Reply(r, reply)
    PROVE  /\ ProviderInv'
           /\ AttemptInv'
           /\ worker'.step = worker.step
           /\ worker'.stage = worker.stage
<1>1. ProviderInv'
  BY ProviderFrame DEF PublicationInv, providerVars
<1>2. /\ worker' \in Workers
      /\ worker'.step = worker.step
      /\ worker'.stage = worker.stage
      /\ worker' = worker \/ worker.step # "idle"
  <2>1. CASE UNCHANGED worker
    BY <2>1 DEF PublicationInv, AttemptInv
  <2>2. CASE \E r \in requests, reply \in Replies : Reply(r, reply)
    <3>1. PICK r \in requests, reply \in Replies : Reply(r, reply)
      BY <2>2
    <3> QED
      BY <3>1 DEF PublicationInv, AttemptInv, Reply, IsOwn, Workers, Requests, Kinds
  <2> QED
    BY <2>1, <2>2
<1>3. AttemptInv'
  <2>1. requests' \subseteq Requests /\ \A r \in requests' : r.attempt \in 1 .. intent.attempts
    BY DEF PublicationInv, AttemptInv
  <2>2. CASE worker' = worker
    BY <2>1, <2>2 DEF PublicationInv, AttemptInv, Claimable
  <2>3. CASE worker.step # "idle"
    BY <1>2, <2>1, <2>3, AttemptFrame DEF PublicationInv, AttemptInv
  <2> QED
    BY <1>2, <2>2, <2>3
<1> QED
  BY <1>1, <1>2, <1>3

(* Commits and pull requests only come to be, a branch that has left the   *)
(* verified base does not return to it, and no first pull request is       *)
(* turned to while one is being created.                                   *)
LEMMA KnowledgeStays ==
    ASSUME PublicationInv, UNCHANGED <<run, intent, observed>>,
           requests' \subseteq requests,
           worker'.step = worker.step, worker'.stage = worker.stage,
           Commits \subseteq Commits',
           \A c \in Commits : trees'[c] = trees[c],
           DOMAIN pullRequests \subseteq DOMAIN pullRequests',
           branch > 1 => branch' > 1,
           Creating /\ pullRequests' # <<>> => pullRequests'[1].state \in {"open", "draft"}
    PROVE  KnowledgeInv'
<1>1. Creating' => Creating
  BY DEF Creating
<1>2. intent.branchReceipt # 0 => trees'[intent.branchReceipt] = "run"
  BY DEF PublicationInv, KnowledgeInv
<1>3. CompletedIsHandedOver'
  <2>1. ASSUME run = "completed"
        PROVE  /\ intent.receipt \in DOMAIN pullRequests'
               /\ trees'[intent.head] = "run"
               /\ trees'[intent.branchReceipt] = "run"
    <3>1. /\ intent.receipt \in DOMAIN pullRequests
          /\ trees[intent.head] = "run"
          /\ trees[intent.branchReceipt] = "run"
      BY <2>1 DEF PublicationInv, KnowledgeInv, CompletedIsHandedOver
    <3>2. intent.head \in Commits /\ intent.branchReceipt \in Commits
      BY <2>1 DEF PublicationInv, KnowledgeInv
    <3> QED
      BY <3>1, <3>2
  <2> QED
    BY <2>1 DEF CompletedIsHandedOver
<1> QED
  BY <1>1, <1>2, <1>3 DEF PublicationInv, KnowledgeInv

(* A pull request follows the branch, and stays what it was.               *)
LEMMA FollowingBranch ==
    ASSUME RemoteInv, NEW head \in Nat, head > 1
    PROVE  /\ Following(head) \in Seq(PullRequests)
           /\ Len(Following(head)) = Len(pullRequests)
           /\ DOMAIN Following(head) = DOMAIN pullRequests
           /\ pullRequests # <<>> =>
                 /\ Following(head)[1].state = pullRequests[1].state
                 /\ Following(head)[1].head \in {head, pullRequests[1].head}
           /\ Following(head) # <<>> <=> pullRequests # <<>>
<1> DEFINE follow(p) == IF pullRequests[p].state \in {"open", "draft"}
                        THEN [pullRequests[p] EXCEPT !.head = head] ELSE pullRequests[p]
<1>1. /\ pullRequests \in Seq(PullRequests)
      /\ Len(pullRequests) \in Nat
      /\ DOMAIN pullRequests = 1 .. Len(pullRequests)
  BY LenProperties DEF RemoteInv
<1>2. \A p \in 1 .. Len(pullRequests) :
        /\ follow(p) \in PullRequests
        /\ follow(p).state = pullRequests[p].state
        /\ follow(p).head \in {head, pullRequests[p].head}
  <2>1. \A p \in 1 .. Len(pullRequests) : pullRequests[p] \in PullRequests
    BY <1>1, ElementOfSeq
  <2> QED
    BY <2>1 DEF PullRequests
<1>3. Following(head) = [p \in 1 .. Len(pullRequests) |-> follow(p)]
  BY <1>1 DEF Following
<1> HIDE DEF follow
<1>4. Following(head) \in Seq(PullRequests) /\ Len(Following(head)) = Len(pullRequests)
  BY <1>1, <1>2, <1>3, IsASeq
<1>5. pullRequests # <<>> => 1 \in 1 .. Len(pullRequests)
  BY <1>1
<1>6. Following(head) # <<>> <=> pullRequests # <<>>
  BY <1>1, <1>4
<1> QED
  BY <1>1, <1>2, <1>3, <1>4, <1>5, <1>6

(* A new commit is none of the old ones, and changes none.                 *)
LEMMA NewCommits ==
    ASSUME RemoteInv, NEW tree \in {"base", "run", "other"}, trees' = Append(trees, tree)
    PROVE  /\ trees' \in Seq({"base", "run", "other"})
           /\ trees' # <<>>
           /\ trees'[1] = "base"
           /\ NewCommit \in Commits' /\ NewCommit \in Nat /\ NewCommit > 1
           /\ Commits \subseteq Commits'
           /\ \A c \in Commits : trees'[c] = trees[c]
BY DEF RemoteInv, Commits, NewCommit

(* People commit, and turn to a pull request while nobody decides about    *)
(* one.                                                                    *)
LEMMA PeopleKeepInv ==
    ASSUME PublicationInv,
           OtherCommit \/ ClosePullRequest \/ DraftPullRequest \/ MergePullRequest
    PROVE  PublicationInv'
<1>1. UNCHANGED <<providerVars, hostVars, requests, restarts>>
  BY DEF OtherCommit, ClosePullRequest, DraftPullRequest, MergePullRequest, Review
<1>2. /\ ProviderInv'
      /\ AttemptInv'
      /\ worker'.step = worker.step
      /\ worker'.stage = worker.stage
  BY <1>1, RemoteReplies DEF hostVars
<1>3. RemoteInv
  BY DEF PublicationInv
<1>4. CASE OtherCommit
  <2>1. trees' = Append(trees, "other")
    BY <1>4 DEF OtherCommit
  <2>2. /\ trees' \in Seq({"base", "run", "other"})
        /\ trees' # <<>>
        /\ trees'[1] = "base"
        /\ NewCommit \in Commits' /\ NewCommit \in Nat /\ NewCommit > 1
        /\ Commits \subseteq Commits'
        /\ \A c \in Commits : trees'[c] = trees[c]
    BY <1>3, <2>1, NewCommits
  <2>3. /\ base' \in Commits'
        /\ branch' \in {0} \cup Commits'
        /\ pullRequests' \in Seq(PullRequests)
        /\ OnePullRequest'
        /\ pullRequests' # <<>> =>
              branch' > 1 /\ pullRequests'[1].head \in Commits' /\ pullRequests'[1].head > 1
        /\ DOMAIN pullRequests \subseteq DOMAIN pullRequests'
        /\ branch > 1 => branch' > 1
        /\ pullRequests' # <<>> => pullRequests # <<>> /\ pullRequests'[1].state = pullRequests[1].state
    <3>1. CASE base' = NewCommit /\ UNCHANGED <<branch, pullRequests>>
      BY <1>3, <2>2, <3>1 DEF RemoteInv, OnePullRequest
    <3>2. CASE branch' = NewCommit /\ pullRequests' = Following(NewCommit) /\ UNCHANGED base
      <4>1. /\ pullRequests' \in Seq(PullRequests)
            /\ Len(pullRequests') = Len(pullRequests)
            /\ DOMAIN pullRequests' = DOMAIN pullRequests
            /\ pullRequests # <<>> =>
                  /\ pullRequests'[1].state = pullRequests[1].state
                  /\ pullRequests'[1].head \in {NewCommit, pullRequests[1].head}
            /\ pullRequests' # <<>> <=> pullRequests # <<>>
        BY <1>3, <2>2, <3>2, FollowingBranch
      <4> QED
        BY <1>3, <2>2, <3>2, <4>1 DEF RemoteInv, OnePullRequest
    <3> QED
      BY <1>4, <3>1, <3>2 DEF OtherCommit
  <2>4. RemoteInv'
    BY <2>2, <2>3 DEF RemoteInv
  <2>5. KnowledgeInv'
    <3>1. Creating /\ pullRequests' # <<>> => pullRequests'[1].state \in {"open", "draft"}
      BY <2>3 DEF PublicationInv, KnowledgeInv
    <3> QED
      BY <1>1, <1>2, <2>2, <2>3, <3>1, KnowledgeStays DEF hostVars
  <2> QED
    BY <1>2, <2>4, <2>5 DEF PublicationInv
<1>5. CASE ClosePullRequest \/ DraftPullRequest \/ MergePullRequest
  <2>1. PICK state \in {"closed", "draft", "merged"} : Review(state)
    BY <1>5 DEF ClosePullRequest, DraftPullRequest, MergePullRequest
  <2>2. /\ ~Creating
        /\ pullRequests # <<>>
        /\ branch' = branch /\ branch > 1
        /\ pullRequests' = [pullRequests EXCEPT ![Len(pullRequests)].state = state]
    BY <1>3, <2>1 DEF Review, Creating, OpenedAlready, RemoteInv
  <2>3. /\ pullRequests \in Seq(PullRequests)
        /\ Len(pullRequests) = 1
        /\ DOMAIN pullRequests = {1}
        /\ pullRequests[1] \in PullRequests
    <3>1. pullRequests \in Seq(PullRequests) /\ Len(pullRequests) <= 1
      BY <1>3 DEF RemoteInv, OnePullRequest
    <3>2. Len(pullRequests) = 1
      <4>1. Len(pullRequests) \in Nat
        BY <3>1, LenProperties
      <4>2. Len(pullRequests) # 0
        BY <2>2, <3>1, EmptySeq
      <4> QED
        BY <3>1, <4>1, <4>2
    <3>3. DOMAIN pullRequests = {1}
      BY <3>1, <3>2
    <3> QED
      BY <3>1, <3>2, <3>3, ElementOfSeq
  <2>4. /\ pullRequests' \in Seq(PullRequests)
        /\ Len(pullRequests') = 1
        /\ DOMAIN pullRequests' = {1}
        /\ pullRequests'[1].head = pullRequests[1].head
    <3> DEFINE turned == [pullRequests[1] EXCEPT !.state = state]
    <3>1. turned \in PullRequests /\ turned.head = pullRequests[1].head
      BY <2>3 DEF PullRequests, PullRequestStates
    <3>2. pullRequests' = [pullRequests EXCEPT ![1] = turned]
      BY <2>2, <2>3
    <3> HIDE DEF turned
    <3>3. Len(pullRequests') = Len(pullRequests) /\ DOMAIN pullRequests' = DOMAIN pullRequests
          /\ pullRequests' \in Seq(PullRequests)
      <4>1. 1 \in 1 .. Len(pullRequests)
        BY <2>3
      <4>2. pullRequests \in Seq(PullRequests)
        BY <2>3
      <4> DEFINE after == [pullRequests EXCEPT ![1] = turned]
      <4>3. Len(after) = Len(pullRequests) /\ after \in Seq(PullRequests)
        BY ONLY <3>1, <4>1, <4>2, ExceptSeq
      <4> QED
        BY <3>2, <4>3
    <3>4. pullRequests'[1] = turned
      BY <2>3, <3>2
    <3> QED
      BY <2>3, <3>1, <3>3, <3>4
  <2>5. /\ trees' \in Seq({"base", "run", "other"})
        /\ trees' # <<>>
        /\ trees'[1] = "base"
        /\ base' \in Commits'
        /\ Commits \subseteq Commits'
        /\ \A c \in Commits : trees'[c] = trees[c]
    <3>1. CASE ClosePullRequest \/ DraftPullRequest
      BY <1>3, <3>1 DEF ClosePullRequest, DraftPullRequest, RemoteInv, Commits
    <3>2. CASE MergePullRequest
      <4>1. trees' = Append(trees, trees[branch]) /\ base' = NewCommit
        BY <3>2 DEF MergePullRequest
      <4>2. trees[branch] \in {"base", "run", "other"}
        BY <1>3, <2>2, ElementOfSeq DEF RemoteInv, Commits
      <4> QED
        BY <1>3, <4>1, <4>2, NewCommits
    <3> QED
      BY <1>5, <3>1, <3>2
  <2>6. RemoteInv'
    BY <1>3, <2>2, <2>3, <2>4, <2>5 DEF RemoteInv, OnePullRequest
  <2>7. KnowledgeInv'
    BY <1>1, <1>2, <2>2, <2>3, <2>4, <2>5, KnowledgeStays DEF hostVars
  <2> QED
    BY <1>2, <2>6, <2>7 DEF PublicationInv
<1> QED
  BY <1>4, <1>5

(* A request takes effect, or is refused, whoever still waits for it.      *)
LEMMA ArrivalKeepsInv ==
    ASSUME PublicationInv, NEW r \in requests,
           BranchCreated(r) \/ ChangesPushed(r) \/ PullRequestOpened(r) \/ Refused(r)
    PROVE  PublicationInv'
<1> USE DEF Replies
<1>1. /\ requests' = requests \ {r}
      /\ UNCHANGED <<providerVars, run, intent, observed, base, others, restarts>>
  BY DEF BranchCreated, ChangesPushed, PullRequestOpened, Refused, Arrive
<1>2. \E reply \in Replies : Reply(r, reply)
  BY DEF BranchCreated, ChangesPushed, PullRequestOpened, Refused
<1>3. /\ ProviderInv'
      /\ AttemptInv'
      /\ worker'.step = worker.step
      /\ worker'.stage = worker.stage
  BY <1>1, <1>2, RemoteReplies
<1>4. RemoteInv
  BY DEF PublicationInv
<1>5. CASE BranchCreated(r)
  <2>1. branch = 0 /\ branch' = base /\ UNCHANGED <<trees, pullRequests>> /\ pullRequests = <<>>
    BY <1>4, <1>5 DEF BranchCreated, RemoteInv
  <2>2. RemoteInv'
    BY <1>1, <1>4, <2>1 DEF RemoteInv, Commits, OnePullRequest
  <2>3. KnowledgeInv'
    BY <1>1, <1>3, <2>1, KnowledgeStays DEF Commits
  <2> QED
    BY <1>3, <2>2, <2>3 DEF PublicationInv
<1>6. CASE ChangesPushed(r)
  <2>1. PICK tree \in {"base", "run", "other"} : trees' = Append(trees, tree)
    BY <1>6 DEF ChangesPushed
  <2>2. /\ trees' \in Seq({"base", "run", "other"})
        /\ trees' # <<>>
        /\ trees'[1] = "base"
        /\ NewCommit \in Commits' /\ NewCommit \in Nat /\ NewCommit > 1
        /\ Commits \subseteq Commits'
        /\ \A c \in Commits : trees'[c] = trees[c]
    BY <1>4, <2>1, NewCommits
  <2>3. branch' = NewCommit /\ pullRequests' = Following(NewCommit)
    BY <1>6 DEF ChangesPushed
  <2>4. /\ pullRequests' \in Seq(PullRequests)
        /\ Len(pullRequests') = Len(pullRequests)
        /\ DOMAIN pullRequests' = DOMAIN pullRequests
        /\ pullRequests # <<>> =>
              /\ pullRequests'[1].state = pullRequests[1].state
              /\ pullRequests'[1].head \in {NewCommit, pullRequests[1].head}
        /\ pullRequests' # <<>> <=> pullRequests # <<>>
    BY <1>4, <2>2, <2>3, FollowingBranch
  <2>5. RemoteInv'
    BY <1>1, <1>4, <2>2, <2>3, <2>4 DEF RemoteInv, OnePullRequest
  <2>6. KnowledgeInv'
    <3>1. Creating /\ pullRequests' # <<>> => pullRequests'[1].state \in {"open", "draft"}
      BY <2>4 DEF PublicationInv, KnowledgeInv
    <3> QED
      BY <1>1, <1>3, <2>2, <2>3, <2>4, <3>1, KnowledgeStays
  <2> QED
    BY <1>3, <2>5, <2>6 DEF PublicationInv
<1>7. CASE PullRequestOpened(r)
  <2>1. /\ ~OpenedAlready
        /\ pullRequests' = Append(pullRequests, [state |-> "open", head |-> branch])
        /\ UNCHANGED <<trees, branch>>
        /\ r.kind = "createPullRequest"
    BY <1>7 DEF PullRequestOpened
  <2>2. branch \in Commits /\ branch > 1 /\ Creating
    BY <1>4, <2>1 DEF PublicationInv, KnowledgeInv, RemoteInv, Creating
  <2>3. pullRequests = <<>>
    <3>1. SUFFICES ASSUME pullRequests # <<>> PROVE FALSE
      OBVIOUS
    <3>2. pullRequests[1].state \in {"open", "draft"}
      BY <2>2, <3>1 DEF PublicationInv, KnowledgeInv
    <3>3. 1 \in DOMAIN pullRequests
      BY <1>4, <3>1, EmptySeq, LenProperties DEF RemoteInv
    <3> QED
      BY <2>1, <3>2, <3>3 DEF OpenedAlready
  <2>4. /\ pullRequests' = <<[state |-> "open", head |-> branch]>>
        /\ [state |-> "open", head |-> branch] \in PullRequests
    BY <1>4, <2>1, <2>2, <2>3 DEF PullRequests, PullRequestStates, RemoteInv, Commits
  <2>5. RemoteInv'
    BY <1>1, <1>4, <2>1, <2>2, <2>4 DEF RemoteInv, Commits, OnePullRequest
  <2>6. KnowledgeInv'
    BY <1>1, <1>3, <2>1, <2>3, <2>4, KnowledgeStays DEF Commits
  <2> QED
    BY <1>3, <2>5, <2>6 DEF PublicationInv
<1>8. CASE Refused(r)
  <2>1. UNCHANGED <<trees, branch, pullRequests>>
    BY <1>8 DEF Refused
  <2>2. RemoteInv'
    BY <1>1, <1>4, <2>1, RemoteFrame
  <2>3. KnowledgeInv'
    BY <1>1, <1>3, <2>1, KnowledgeStays DEF Commits, PublicationInv, KnowledgeInv
  <2> QED
    BY <1>3, <2>2, <2>3 DEF PublicationInv
<1> QED
  BY <1>5, <1>6, <1>7, <1>8

(* A restart forgets the attempt and the provider, and leaves the requests *)
(* that are under way at large.                                            *)
LEMMA RestartKeepsInv ==
    ASSUME PublicationInv, Restart
    PROVE  PublicationInv'
<1>1. ProviderInv'
  <2>1. 1 \in 1 .. MaxChanges + 1
    BY CodeHostProviderAssumption
  <2> QED
    BY <2>1 DEF PublicationInv, ProviderInv, Restart, Resting, Absent, Loops, Generations,
                HeldGenerationIsKept
<1>2. RemoteInv'
  BY RemoteFrame DEF PublicationInv, Restart, remoteVars
<1>3. /\ intent' = [intent EXCEPT !.status = Interrupted]
      /\ worker' = Idle
      /\ observed' = Nothing
      /\ UNCHANGED <<run, requests, trees, branch, pullRequests>>
  BY DEF Restart, remoteVars
<1>4. /\ Interrupted \in Statuses \ {"in-flight"}
      /\ Interrupted \in {"pending", "uncertain", "retryable-failure"} => intent.attempts < MaxAttempts
  BY PublicationAssumption
     DEF PublicationInv, AttemptInv, Interrupted, Statuses, Claimable, Intents
<1>5. /\ intent' \in Intents
      /\ intent'.status = Interrupted
      /\ intent'.attempts = intent.attempts
      /\ intent'.branchReceipt = intent.branchReceipt
      /\ intent'.receipt = intent.receipt
      /\ intent'.head = intent.head
  BY <1>3, <1>4 DEF PublicationInv, AttemptInv, Intents
<1>6. AttemptInv'
  <2>1. worker' \in Workers
    BY <1>3 DEF Idle, Workers, WorkerSteps, Stages, Replies
  <2>2. observed' \in Observations
    BY <1>3 DEF Nothing, Observations, ObservedStates
  <2> QED
    BY <1>3, <1>4, <1>5, <2>1, <2>2 DEF PublicationInv, AttemptInv, Claimable
<1>7. KnowledgeInv'
  <2>1. worker'.step = "idle" /\ worker'.stage = "first"
    BY <1>3 DEF Idle
  <2> QED
    BY <1>3, <1>5, <2>1, KnowledgeFrame DEF PublicationInv
<1> QED
  BY <1>1, <1>2, <1>6, <1>7 DEF PublicationInv

(* Every step keeps the invariant.                                         *)
LEMMA PublicationStep == PublicationInv /\ [Next]_vars => PublicationInv'
<1> SUFFICES ASSUME PublicationInv, [Next]_vars PROVE PublicationInv'
  OBVIOUS
<1>1. CASE HostStep
  BY <1>1, HostStepKeepsInv
<1>2. CASE LoopStep \/ (ChangeSettings /\ UNCHANGED <<hostVars, remoteVars, restarts>>)
  <2>1. /\ ChangeSettings \/ TakeRequest \/ ForgetGeneration \/ Register
        /\ UNCHANGED <<hostVars, remoteVars, restarts>>
    BY <1>2 DEF LoopStep
  <2>2. ProviderInv'
    BY <2>1, ProviderStep DEF PublicationInv
  <2>3. AttemptInv' /\ RemoteInv' /\ KnowledgeInv'
    BY <2>1, RemoteFrame DEF PublicationInv, AttemptInv, KnowledgeInv, hostVars, remoteVars, Claimable,
           Commits, Creating, CompletedIsHandedOver
  <2> QED
    BY <2>2, <2>3 DEF PublicationInv
<1>3. CASE RemoteStep
  <2>1. CASE \E r \in requests :
                BranchCreated(r) \/ ChangesPushed(r) \/ PullRequestOpened(r) \/ Refused(r)
    BY <2>1, ArrivalKeepsInv
  <2>2. CASE OtherCommit \/ ClosePullRequest \/ DraftPullRequest \/ MergePullRequest
    BY <2>2, PeopleKeepInv
  <2> QED
    BY <1>3, <2>1, <2>2 DEF RemoteStep
<1>4. CASE Restart
  BY <1>4, RestartKeepsInv
<1>5. CASE UNCHANGED vars
  <2>1. ProviderInv' /\ RemoteInv'
    BY <1>5, ProviderFrame, RemoteFrame DEF PublicationInv, vars, providerVars, remoteVars
  <2>2. AttemptInv' /\ KnowledgeInv'
    BY <1>5 DEF PublicationInv, AttemptInv, KnowledgeInv, vars, hostVars, remoteVars, Claimable,
           Commits, Creating, CompletedIsHandedOver
  <2> QED
    BY <2>1, <2>2 DEF PublicationInv
<1> QED
  BY <1>1, <1>2, <1>3, <1>4, <1>5 DEF Next

----------------------------------------------------------------------------
(* Theorems.                                                               *)

(* The provider, the attempt, the remote and what the one knows of the     *)
(* other fit together in every state.                                      *)
THEOREM PublicationInvariant == Spec => []PublicationInv
BY PublicationInit, PublicationStep, PTL DEF Spec

(* Types; attempts never exceed their limit, and an attempt is in flight   *)
(* exactly while a worker is at it.                                        *)
THEOREM PublicationTypeCorrect == Spec => []TypeOK
<1>1. PublicationInv => TypeOK
  <2> SUFFICES ASSUME PublicationInv PROVE TypeOK
    OBVIOUS
  <2>1. ProviderTypeOK
    <3>1. \A i \in DOMAIN queue : queue[i] \in 1 .. revision
      BY ElementOfSeq, LenProperties DEF PublicationInv, ProviderInv
    <3> QED
      BY <3>1 DEF PublicationInv, ProviderInv, ProviderTypeOK, Loops, Generations
  <2>2. intent.status \in Statuses /\ intent.attempts \in 0 .. MaxAttempts
    BY PublicationAssumption DEF PublicationInv, AttemptInv, Intents
  <2>3. \A r \in requests : r.kind \in Kinds /\ r.attempt \in 1 .. intent.attempts
    BY DEF PublicationInv, AttemptInv, Requests
  <2> QED
    BY <2>1, <2>2, <2>3 DEF PublicationInv, AttemptInv, RemoteInv, KnowledgeInv, TypeOK
<1> QED
  BY <1>1, PublicationInvariant, PTL

(* However often publication is repeated, and whatever becomes of the      *)
(* first pull request, the run's branch has at most one.                   *)
THEOREM OnePullRequestProven == Spec => []OnePullRequest
<1>1. PublicationInv => OnePullRequest
  BY DEF PublicationInv, RemoteInv
<1> QED
  BY <1>1, PublicationInvariant, PTL

(* A run is completed only over a pull request and commits that carry the  *)
(* verified tree, though others push between its reads.                    *)
THEOREM HandOverProven == Spec => []CompletedIsHandedOver
<1>1. PublicationInv => CompletedIsHandedOver
  BY DEF PublicationInv, KnowledgeInv
<1> QED
  BY <1>1, PublicationInvariant, PTL

(* A provider generation that an operation holds is kept until the         *)
(* operation has ended, whatever settings and tools do meanwhile.          *)
THEOREM GenerationKept == Spec => []HeldGenerationIsKept
<1>1. PublicationInv => HeldGenerationIsKept
  BY DEF PublicationInv, ProviderInv
<1> QED
  BY <1>1, PublicationInvariant, PTL

============================================================================
