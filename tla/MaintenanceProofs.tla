-------------------------- MODULE MaintenanceProofs --------------------------
(* Machine-checked proofs about Maintenance, for every set of runs, every  *)
(* limit of the merge record and every number of restarts.                 *)
EXTENDS Maintenance, FiniteSetTheorems, TLAPS

----------------------------------------------------------------------------
(* The inductive invariant.                                                *)

Worktrees == [files : {"clean", "dirty", "gone"}, ahead : 0 .. 1, removedBy : Callers \cup {"nobody"}]
Requests == [step : Steps, run : Runs \cup {0}, merged : BOOLEAN, generation : Nat]
Begun == {"removing", "removed", "refused"}

(* What a caller knows or has done, where it is: a merge it has read took  *)
(* place; from the durable intent to the call of Git, under the fence, the *)
(* run keeps what made it eligible; and the audit waits for the outcome.   *)
CallerInv(c) ==
    LET r == caller[c].run IN
    /\ caller[c].step # "idle" => r \in Runs
    /\ caller[c].merged => caller[c].step # "idle" /\ pullRequest[r] = "merged"
    /\ caller[c].step = "removing" => run[r] = "completed" /\ r \in aged /\ caller[c].merged
    /\ caller[c].step \in {"removing", "refused"} => worktree[r].files # "gone"
    /\ caller[c].step = "removed" => worktree[r].removedBy = c
    /\ caller[c].step \in Begun => outcome[c][r] = "none"

MaintenanceInv ==
    /\ TypeOK
    /\ worktree \in [Runs -> Worktrees]
    /\ caller \in [Callers -> Requests]
    /\ outcome \in [Callers -> [Runs -> {"none", "completed", "retry-required"}]]
    /\ \A r \in Runs : worktree[r].files = "gone" <=> worktree[r].removedBy # "nobody"
    /\ \A c \in Callers : CallerInv(c)
    /\ pending # None => caller[pending.by].step \in Begun
    /\ OutcomeIsTrue

(* While a caller is between its durable intent and the outcome, no other  *)
(* one is, and the intent is the caller's.                                 *)
LEMMA OneRemoval ==
    ASSUME MaintenanceInv, NEW c \in Callers, caller[c].step \in Begun
    PROVE  /\ pending = [by |-> c, run |-> caller[c].run] /\ pending # None
           /\ caller[c].run \in Runs
           /\ \A b \in Callers : caller[b].step \in Begun => b = c
<1>1. Begun \subseteq Removing /\ Begun \subseteq Steps \ {"idle"}
  BY DEF Begun, Removing, Fenced, Steps
<1>2. pending = [by |-> c, run |-> caller[c].run]
  BY DEF MaintenanceInv, TypeOK, Begun
<1>3. pending # None
  BY <1>2 DEF None, Callers
<1>4. \A b \in Callers : caller[b].step \in Begun => b = c
  BY <1>1 DEF MaintenanceInv, TypeOK
<1> QED
  BY <1>1, <1>2, <1>3, <1>4 DEF MaintenanceInv, CallerInv

(* What a caller does before its intent is durable, or when it gives up.   *)
LEMMA RequestMoves ==
    ASSUME MaintenanceInv, NEW c \in Callers, NEW q \in Requests,
           caller' = [caller EXCEPT ![c] = q],
           caller[c].step \notin Begun, q.step \notin Begun,
           q.step # "idle" => q.run \in Runs,
           q.merged => q.step # "idle" /\ pullRequest[q.run] = "merged",
           q.step \in Removing => caller[c].step \in Removing \/ AttemptFree,
           UNCHANGED <<run, generation, worldVars, pending, outcome>>,
           observations' \in SUBSET Runs, observations \subseteq observations',
           Cardinality(observations') <= MaxObservations,
           pass' \subseteq Runs
    PROVE  MaintenanceInv'
<1>a. TypeOK /\ caller \in [Callers -> Requests]
  BY DEF MaintenanceInv
<1>1. /\ caller' \in [Callers -> Requests] /\ caller'[c] = q
      /\ \A b \in Callers \ {c} : caller'[b] = caller[b]
  BY <1>a
<1>2. UNCHANGED <<run, generation, worktree, pullRequest, aged, pending, outcome>>
  BY DEF worldVars
<1>3. ASSUME NEW b \in Callers
      PROVE  CallerInv(b)'
  <2>1. CallerInv(b)
    BY DEF MaintenanceInv
  <2>2. CASE b = c
    BY <1>1, <1>2, <2>2 DEF CallerInv, Begun
  <2>3. CASE b # c
    BY <1>1, <1>2, <2>1, <2>3 DEF CallerInv
  <2> QED
    BY <2>2, <2>3
<1>4. \A b \in Callers : /\ caller'[b].step \in Steps
                         /\ caller'[b].step \in Begun => pending = [by |-> b, run |-> caller'[b].run]
  BY <1>a, <1>1 DEF Requests, TypeOK, Begun
<1>5. ASSUME NEW b \in Callers, NEW d \in Callers, caller'[b].step \in Removing, caller'[d].step \in Removing
      PROVE  b = d
  <2>1. \A e \in Callers : caller'[e].step \in Removing /\ e # c => caller[e].step \in Removing
    BY <1>1
  <2>2. \A e \in Callers : caller[e].step \in Removing /\ caller'[c].step \in Removing => e = c
    BY <1>a, <1>1 DEF TypeOK, AttemptFree
  <2>3. \A e, f \in Callers : caller[e].step \in Removing /\ caller[f].step \in Removing => e = f
    BY <1>a DEF TypeOK
  <2> QED
    BY <1>5, <2>1, <2>2, <2>3
<1>6. TypeOK'
  BY <1>a, <1>2, <1>4, <1>5 DEF TypeOK, Begun
<1>7. pending' # None => caller'[pending'.by].step \in Begun
  <2> SUFFICES ASSUME pending # None PROVE caller'[pending.by].step \in Begun
    BY <1>2
  <2>1. pending.by \in Callers /\ caller[pending.by].step \in Begun
    BY <1>a DEF MaintenanceInv, TypeOK
  <2> QED
    BY <1>1, <2>1
<1> QED
  BY <1>1, <1>2, <1>3, <1>6, <1>7 DEF MaintenanceInv, OutcomeIsTrue

(* A step that changes no caller, audit or intent.                         *)
LEMMA WorldMoves ==
    ASSUME MaintenanceInv, UNCHANGED <<storeVars, caller, pass>>,
           run' \in [Runs -> RunStates], generation' \in [Runs -> Nat],
           worktree' \in [Runs -> Worktrees], pullRequest' \in [Runs -> {"open", "merged"}],
           aged' \in SUBSET observations, aged \subseteq aged',
           \A r \in Runs : /\ run'[r] = run[r] \/ FenceFree(r)
                           /\ worktree'[r].files = "gone" <=> worktree[r].files = "gone"
                           /\ worktree'[r].removedBy = worktree[r].removedBy
                           /\ pullRequest[r] = "merged" => pullRequest'[r] = "merged"
    PROVE  MaintenanceInv'
<1>a. TypeOK /\ caller \in [Callers -> Requests]
  BY DEF MaintenanceInv
<1>1. UNCHANGED <<observations, pending, outcome, caller, pass>>
  BY DEF storeVars
<1>2. \A r \in Runs : worktree'[r] \in Worktrees
  OBVIOUS
<1>3. TypeOK'
  BY <1>a, <1>1, <1>2 DEF TypeOK, Worktrees
<1>4. ASSUME NEW c \in Callers
      PROVE  CallerInv(c)'
  <2>1. CallerInv(c)
    BY DEF MaintenanceInv
  <2>2. caller[c].step = "removing" => ~FenceFree(caller[c].run)
    BY DEF FenceFree, Fenced, Steps
  <2>3. caller[c].step # "idle" => caller[c].run \in Runs
    BY <2>1 DEF CallerInv
  <2>4. CASE caller[c].step = "idle"
    BY <1>1, <2>1, <2>4 DEF CallerInv, Begun
  <2>5. CASE caller[c].step # "idle"
    BY <1>1, <2>1, <2>2, <2>3, <2>5 DEF CallerInv
  <2> QED
    BY <2>4, <2>5
<1>5. OutcomeIsTrue'
  BY <1>1 DEF MaintenanceInv, OutcomeIsTrue
<1> QED
  BY <1>1, <1>3, <1>4, <1>5 DEF MaintenanceInv

(* The run's lifecycle waits for the fence; the world does not.            *)
LEMMA LifecycleAndWorld ==
    ASSUME MaintenanceInv, NEW r \in Runs, Lifecycle(r) \/ World(r)
    PROVE  MaintenanceInv'
<1>a. TypeOK /\ worktree \in [Runs -> Worktrees]
  BY DEF MaintenanceInv
<1>1. CASE Lifecycle(r)
  <2>1. PICK to \in RunStates : FenceFree(r) /\ run' = [run EXCEPT ![r] = to]
           /\ generation' = [generation EXCEPT ![r] = @ + 1] /\ UNCHANGED <<worldVars, storeVars, caller, pass>>
    BY <1>1 DEF Lifecycle, Deliver, RetryDelivery, Mutate, RunStates
  <2> QED
    BY <1>a, <2>1, WorldMoves DEF TypeOK, worldVars
<1>2. CASE Merge(r)
  BY <1>2, <1>a, WorldMoves DEF Merge, TypeOK
<1>3. CASE Age(r)
  BY <1>3, <1>a, WorldMoves DEF Age, TypeOK
<1>4. CASE Edit(r)
  <2>1. PICK f \in {"clean", "dirty"} : worktree' = [worktree EXCEPT ![r] = [@ EXCEPT !.files = f]]
    BY <1>4 DEF Edit
  <2>2. worktree' \in [Runs -> Worktrees]
    BY <1>a, <2>1 DEF Worktrees
  <2>3. \A q \in Runs : /\ worktree'[q].files = "gone" <=> worktree[q].files = "gone"
                        /\ worktree'[q].removedBy = worktree[q].removedBy
    BY <1>4, <1>a, <2>1 DEF Worktrees, Edit
  <2> QED
    BY <1>4, <1>a, <2>2, <2>3, WorldMoves DEF Edit, TypeOK
<1>5. CASE Commit(r)
  <2> DEFINE cleaned == [worktree EXCEPT ![r].files = "clean"]
  <2>1. worktree' = [cleaned EXCEPT ![r].ahead = 1]
    BY <1>5 DEF Commit
  <2>2. cleaned \in [Runs -> Worktrees]
    BY <1>a DEF Worktrees
  <2>3. \A q \in Runs : /\ cleaned[q].files = "gone" <=> worktree[q].files = "gone"
                        /\ cleaned[q].removedBy = worktree[q].removedBy
    BY <1>5, <1>a DEF Worktrees, Commit
  <2> HIDE DEF cleaned
  <2>4. worktree' \in [Runs -> Worktrees]
    BY <2>1, <2>2 DEF Worktrees
  <2>5. \A q \in Runs : /\ worktree'[q].files = "gone" <=> worktree[q].files = "gone"
                        /\ worktree'[q].removedBy = worktree[q].removedBy
    BY <2>1, <2>2, <2>3 DEF Worktrees
  <2> QED
    BY <1>5, <1>a, <2>4, <2>5, WorldMoves DEF Commit, TypeOK
<1> QED
  BY <1>1, <1>2, <1>3, <1>4, <1>5 DEF World

----------------------------------------------------------------------------
(* The steps of the callers.                                               *)

(* A caller that has nothing under way is idle, and its request typed.     *)
LEMMA RequestTyped ==
    ASSUME MaintenanceInv, NEW c \in Callers
    PROVE  /\ Idle \in Requests /\ Idle.step = "idle" /\ ~Idle.merged
           /\ caller[c] \in Requests /\ CallerInv(c)
<1>1. Idle \in Requests /\ Idle.step = "idle" /\ ~Idle.merged
  BY DEF Idle, Requests, Steps
<1>2. caller[c] \in Requests /\ CallerInv(c)
  BY DEF MaintenanceInv
<1> QED
  BY <1>1, <1>2

(* A request goes on to its next step as it is.                            *)
LEMMA StepTyped ==
    ASSUME NEW q \in Requests, NEW s \in Steps
    PROVE  /\ [q EXCEPT !.step = s] \in Requests
           /\ [q EXCEPT !.step = s].step = s
           /\ [q EXCEPT !.step = s].run = q.run
           /\ [q EXCEPT !.step = s].merged = q.merged
           /\ [q EXCEPT !.step = s].generation = q.generation
BY DEF Requests

(* Giving up before the intent is durable changes nothing else.            *)
LEMMA GiveUpKeepsInv ==
    ASSUME MaintenanceInv, NEW c \in Callers, GiveUp(c), caller[c].step \notin Begun,
           UNCHANGED <<run, generation, worldVars, pending, outcome, observations>>
    PROVE  MaintenanceInv'
<1>1. caller' = [caller EXCEPT ![c] = Idle] /\ pass' \subseteq Runs
  BY DEF GiveUp, MaintenanceInv, TypeOK
<1>2. Idle \in Requests /\ Idle.step = "idle" /\ ~Idle.merged
  BY RequestTyped
<1>3. Idle.step \notin Begun \cup Removing
  BY <1>2 DEF Begun, Removing, Fenced, Steps
<1> QED
  BY <1>1, <1>2, <1>3, RequestMoves DEF MaintenanceInv, TypeOK

(* A run's inspection starts under its fence, with nothing known of it.    *)
LEMMA InspectKeepsInv ==
    ASSUME MaintenanceInv, NEW c \in Callers, NEW r \in Runs, Inspect(c, r),
           caller[c].step \notin Begun, pass' \subseteq Runs
    PROVE  MaintenanceInv'
<1> DEFINE q == [Idle EXCEPT !.step = "inspecting", !.run = r]
<1>1. q \in Requests /\ q.step = "inspecting" /\ q.run = r /\ ~q.merged
  BY MaintenanceAssumption DEF Idle, Requests, Steps
<1>2. q.step \notin Begun \cup Removing
  BY <1>1 DEF Begun, Removing, Fenced, Steps
<1>3. caller' = [caller EXCEPT ![c] = q] /\ UNCHANGED <<run, generation, worldVars, storeVars>>
  BY DEF Inspect
<1> HIDE DEF q
<1> QED
  BY <1>1, <1>2, <1>3, RequestMoves DEF MaintenanceInv, TypeOK, storeVars

(* What the pull request says is what is known of it from then on; a merge *)
(* is recorded if the record has room for it.                              *)
LEMMA ReadKeepsInv ==
    ASSUME MaintenanceInv, NEW c \in Callers, ReadPullRequest(c)
    PROVE  MaintenanceInv'
<1> DEFINE r == caller[c].run
           merged == pullRequest[r] = "merged"
<1>a. TypeOK /\ caller[c] \in Requests /\ CallerInv(c)
  BY RequestTyped DEF MaintenanceInv
<1>b. caller[c].step \in {"inspecting", "rechecking"}
  BY DEF ReadPullRequest, ReadStep
<1>c. r \in Runs /\ caller[c].step \notin Begun
  BY <1>a, <1>b DEF CallerInv, Begun
<1>1. CASE merged /\ RecordFull(r)
  BY <1>1, <1>c, GiveUpKeepsInv DEF ReadPullRequest
<1>2. CASE ~(merged /\ RecordFull(r))
  <2>1. PICK s \in {"reading", "rereading"} :
           /\ s = ReadStep[caller[c].step]
           /\ s = "rereading" => caller[c].step = "rechecking"
    BY <1>b DEF ReadStep
  <2> DEFINE q == [caller[c] EXCEPT !.step = s, !.merged = merged]
  <2>2. /\ caller' = [caller EXCEPT ![c] = q]
        /\ observations' = IF merged THEN observations \cup {r} ELSE observations
        /\ UNCHANGED <<pass, run, generation, worldVars, pending, outcome>>
    <3>1. caller' = [caller EXCEPT ![c].step = ReadStep[@], ![c].merged = merged]
      BY <1>2 DEF ReadPullRequest
    <3>2. caller' = [caller EXCEPT ![c].step = s, ![c].merged = merged]
      BY <2>1, <3>1
    <3>3. caller' = [caller EXCEPT ![c] = q]
      BY <3>2
    <3> QED
      BY <1>2, <3>3 DEF ReadPullRequest
  <2>3. q \in Requests /\ q.step = s /\ q.run = r /\ q.merged = merged
    <3> DEFINE read == [caller[c] EXCEPT !.step = s]
    <3>a. s \in Steps
      BY <2>1 DEF Steps
    <3>1. read \in Requests /\ read.step = s /\ read.run = r
      BY <1>a, <3>a, StepTyped
    <3>2. q = [read EXCEPT !.merged = merged]
      OBVIOUS
    <3>3. merged \in BOOLEAN
      OBVIOUS
    <3> HIDE DEF read, merged, r
    <3> QED
      BY <3>1, <3>2, <3>3 DEF Requests
  <2> HIDE DEF q
  <2>4. observations' \in SUBSET Runs /\ observations \subseteq observations'
        /\ Cardinality(observations') <= MaxObservations
    <3>1. CASE r \in observations \/ ~merged
      <4>1. observations' = observations
        BY <2>2, <3>1
      <4> QED
        BY <1>a, <4>1 DEF TypeOK
    <3>2. CASE r \notin observations /\ merged
      <4>1. IsFiniteSet(observations) /\ Cardinality(observations) \in Nat
        BY <1>a, MaintenanceAssumption, FS_Subset, FS_CardinalityType DEF TypeOK
      <4>2. ~(Cardinality(observations) >= MaxObservations)
        BY <1>2, <3>2 DEF RecordFull
      <4>3. Cardinality(observations \cup {r}) = Cardinality(observations) + 1
        BY <3>2, <4>1, FS_AddElement
      <4>4. Cardinality(observations \cup {r}) <= MaxObservations
        BY <4>1, <4>2, <4>3, MaintenanceAssumption
      <4> QED
        BY <1>a, <1>c, <2>2, <3>2, <4>4 DEF TypeOK
    <3> QED
      BY <3>1, <3>2
  <2>5. q.step \notin Begun /\ (q.step \in Removing => caller[c].step \in Removing)
    BY <2>1, <2>3 DEF Begun, Removing, Fenced, Steps
  <2>6. pass' \subseteq Runs
    BY <1>a, <2>2 DEF TypeOK
  <2> QED
    BY <1>c, <2>1, <2>2, <2>3, <2>4, <2>5, <2>6, RequestMoves
<1> QED
  BY <1>1, <1>2

(* A preview, its confirmation and the second inspection it leads to.      *)
LEMMA ConfirmationKeepsInv ==
    ASSUME MaintenanceInv, NEW c \in Callers, Preview(c) \/ Remove(c) \/ Recheck(c)
    PROVE  MaintenanceInv'
<1>a. TypeOK /\ caller[c] \in Requests /\ CallerInv(c)
  BY RequestTyped DEF MaintenanceInv
<1>b. caller[c].step \in {"reading", "previewed", "waiting"}
  BY DEF Preview, Remove, Recheck
<1>c. caller[c].run \in Runs /\ caller[c].step \notin Begun
  BY <1>a, <1>b DEF CallerInv, Begun
<1>1. ASSUME NEW s \in {"previewed", "waiting", "rechecking"}, Goto(c, s), UNCHANGED pass,
             s \in Removing => caller[c].step \in Removing \/ AttemptFree,
             UNCHANGED <<run, generation, worldVars, storeVars>>
      PROVE  MaintenanceInv'
  <2> DEFINE q == [caller[c] EXCEPT !.step = s]
  <2>a. s \in Steps
    BY <1>1 DEF Steps
  <2>1. q \in Requests /\ q.step = s /\ q.run = caller[c].run /\ q.merged = caller[c].merged
    BY <1>a, <2>a, StepTyped
  <2>2. caller' = [caller EXCEPT ![c] = q]
    BY <1>1 DEF Goto
  <2> HIDE DEF q
  <2>3. q.step \notin Begun /\ q.step # "idle"
    BY <1>1, <2>1 DEF Begun
  <2> QED
    BY <1>1, <1>a, <1>c, <2>1, <2>2, <2>3, RequestMoves DEF CallerInv, TypeOK, storeVars
<1>2. CASE Preview(c)
  <2> DEFINE r == caller[c].run
  <2>1. CASE Eligible(c, r)
    <3> DEFINE previewed == [caller[c] EXCEPT !.step = "previewed"]
               q == [previewed EXCEPT !.generation = generation[r]]
    <3>1. previewed \in Requests /\ previewed.step = "previewed" /\ previewed.run = caller[c].run
          /\ previewed.merged = caller[c].merged
      BY <1>a, StepTyped DEF Steps
    <3>2. caller' = [caller EXCEPT ![c] = q] /\ UNCHANGED <<pass, run, generation, worldVars, storeVars>>
      BY <1>2, <2>1 DEF Preview
    <3>3. generation[r] \in Nat
      BY <1>a, <1>c DEF TypeOK
    <3> HIDE DEF previewed
    <3>4. q \in Requests /\ q.step = "previewed" /\ q.run = caller[c].run /\ q.merged = caller[c].merged
      BY <3>1, <3>3 DEF Requests
    <3> HIDE DEF q
    <3>5. q.step \notin Begun /\ q.step \notin Removing /\ q.step # "idle"
      BY <3>4 DEF Begun, Removing, Fenced
    <3> QED
      BY <1>a, <1>c, <3>2, <3>4, <3>5, RequestMoves DEF CallerInv, TypeOK, storeVars
  <2>2. CASE ~Eligible(c, r)
    <3>1. caller' = [caller EXCEPT ![c] = Idle] /\ UNCHANGED <<pass, run, generation, worldVars, storeVars>>
      BY <1>2, <2>2 DEF Preview, PassAfterRejection
    <3>2. Idle \in Requests /\ Idle.step = "idle" /\ ~Idle.merged
      BY RequestTyped
    <3>3. Idle.step \notin Begun \cup Removing
      BY <3>2 DEF Begun, Removing, Fenced, Steps
    <3> QED
      BY <1>a, <1>c, <3>1, <3>2, <3>3, RequestMoves DEF TypeOK, storeVars
  <2> QED
    BY <2>1, <2>2
<1>3. CASE Remove(c) /\ AttemptFree
  BY <1>1, <1>3 DEF Remove
<1>4. CASE Recheck(c) /\ SameGeneration(c)
  BY <1>1, <1>4 DEF Recheck, Removing
<1>5. CASE (Remove(c) /\ ~AttemptFree) \/ (Recheck(c) /\ ~SameGeneration(c))
  BY <1>5, <1>c, GiveUpKeepsInv DEF Remove, Recheck, storeVars
<1> QED
  BY <1>2, <1>3, <1>4, <1>5

(* From the durable intent on: the worktree goes only while Git is called  *)
(* for it, and the audit says afterwards whether it went.                  *)
LEMMA BeginKeepsInv ==
    ASSUME MaintenanceInv, NEW c \in Callers, Begin(c)
    PROVE  MaintenanceInv'
<1> DEFINE r == caller[c].run
           q == [caller[c] EXCEPT !.step = "removing"]
<1>a. /\ TypeOK /\ caller \in [Callers -> Requests] /\ caller[c] \in Requests /\ CallerInv(c)
      /\ outcome \in [Callers -> [Runs -> {"none", "completed", "retry-required"}]]
  BY RequestTyped DEF MaintenanceInv
<1>b. caller[c].step = "rereading" /\ r \in Runs
  BY <1>a DEF Begin, CallerInv
<1>c. caller[c].step \notin Begun /\ caller[c].step \in Removing
  BY <1>b DEF Begun, Removing, Fenced, Steps
<1>1. CASE ~Eligible(c, r)
  BY <1>1, <1>c, GiveUpKeepsInv DEF Begin
<1>2. CASE Eligible(c, r)
  <2>1. /\ pending' = [by |-> c, run |-> r]
        /\ outcome' = [outcome EXCEPT ![c][r] = "none"]
        /\ caller' = [caller EXCEPT ![c] = q]
        /\ UNCHANGED <<pass, run, generation, worktree, pullRequest, aged, observations>>
    BY <1>2 DEF Begin, Goto, worldVars
  <2>2. q \in Requests /\ q.step = "removing" /\ q.run = r /\ q.merged = caller[c].merged
    <3>1. "removing" \in Steps
      BY DEF Steps
    <3> QED
      BY <1>a, <3>1, StepTyped
  <2> HIDE DEF q
  <2>3. /\ caller' \in [Callers -> Requests] /\ caller'[c] = q
        /\ \A b \in Callers \ {c} : caller'[b] = caller[b] /\ caller[b].step \notin Removing
    BY <1>a, <1>c, <2>1, <2>2 DEF TypeOK
  <2>4. /\ outcome' \in [Callers -> [Runs -> {"none", "completed", "retry-required"}]]
        /\ outcome'[c][r] = "none"
        /\ \A b \in Callers, p \in Runs : outcome'[b][p] # outcome[b][p] => outcome'[b][p] = "none"
    BY <1>a, <1>b, <2>1
  <2>5. ASSUME NEW b \in Callers
        PROVE  CallerInv(b)'
    <3>1. CASE b = c
      <4>1. run[r] = "completed" /\ r \in aged /\ caller[c].merged /\ worktree[r].files # "gone"
        BY <1>2 DEF Eligible
      <4>2. pullRequest[r] = "merged"
        BY <1>a, <4>1 DEF CallerInv
      <4> QED
        BY <1>b, <2>1, <2>2, <2>3, <2>4, <3>1, <4>1, <4>2 DEF CallerInv
    <3>2. CASE b # c
      <4>1. CallerInv(b) /\ caller'[b] = caller[b] /\ caller[b].step \notin Begun
        BY <2>3, <3>2 DEF MaintenanceInv, Begun, Removing, Fenced, Steps
      <4> QED
        BY <2>1, <4>1 DEF CallerInv
    <3> QED
      BY <3>1, <3>2
  <2>6. TypeOK'
    <3>1. \A b \in Callers \ {c} : caller'[b].step \notin Removing
      BY <2>3
    <3>2. \A b \in Callers : caller'[b].step \in Begun => b = c
      BY <3>1 DEF Begun, Removing, Fenced, Steps
    <3>3. pending' = [by |-> c, run |-> caller'[c].run] /\ pending' \in [by : Callers, run : Runs]
      BY <1>b, <2>1, <2>2, <2>3
    <3>4. \A b \in Callers : caller'[b].step \in Steps
      BY <2>3 DEF Requests
    <3> QED
      BY <1>a, <2>1, <3>1, <3>2, <3>3, <3>4 DEF TypeOK, Begun
  <2>7. OutcomeIsTrue'
    BY <2>1, <2>4 DEF MaintenanceInv, OutcomeIsTrue
  <2>8. caller'[pending'.by].step \in Begun
    BY <2>1, <2>2, <2>3 DEF Begun
  <2> QED
    BY <2>1, <2>3, <2>4, <2>5, <2>6, <2>7, <2>8 DEF MaintenanceInv
<1> QED
  BY <1>1, <1>2

(* Git's removal, or its refusal, keeps the invariant.                     *)
LEMMA GitRemoveKeepsInv ==
    ASSUME MaintenanceInv, NEW c \in Callers, GitRemove(c)
    PROVE  MaintenanceInv'
<1> DEFINE r == caller[c].run
<1>a. /\ TypeOK /\ caller \in [Callers -> Requests] /\ CallerInv(c) /\ worktree \in [Runs -> Worktrees]
  BY DEF MaintenanceInv
<1>b. caller[c].step = "removing" /\ caller[c].step \in Begun
  BY DEF GitRemove, Begun
<1>c. /\ pending = [by |-> c, run |-> r] /\ r \in Runs
      /\ \A b \in Callers : caller[b].step \in Begun => b = c
  BY <1>b, OneRemoval
<1>d. UNCHANGED <<run, generation, pullRequest, aged, observations, pending, outcome, pass>>
  BY DEF GitRemove, storeVars
<1>1. PICK s \in {"removed", "refused"} :
         /\ Goto(c, s)
         /\ \/ /\ s = "removed" /\ worktree[r].files = "clean"
               /\ worktree' = [worktree EXCEPT ![r].files = "gone", ![r].removedBy = c]
            \/ s = "refused" /\ worktree' = worktree
  BY DEF GitRemove
<1>2. /\ caller' \in [Callers -> Requests] /\ caller'[c].step = s /\ caller'[c].run = r
      /\ caller'[c].merged = caller[c].merged
      /\ \A b \in Callers \ {c} : caller'[b] = caller[b] /\ caller[b].step \notin Begun
  <2> DEFINE q == [caller[c] EXCEPT !.step = s]
  <2>1. s \in Steps
    BY <1>1 DEF Steps
  <2>2. q \in Requests /\ q.step = s /\ q.run = r /\ q.merged = caller[c].merged
    BY <1>a, <2>1, StepTyped
  <2>3. caller' = [caller EXCEPT ![c] = q]
    BY <1>1 DEF Goto
  <2> HIDE DEF q
  <2> QED
    BY <1>a, <1>c, <2>2, <2>3
<1>3. /\ worktree' \in [Runs -> Worktrees]
      /\ \A p \in Runs \ {r} : worktree'[p] = worktree[p]
      /\ s = "removed" => worktree'[r].files = "gone" /\ worktree'[r].removedBy = c
      /\ s = "refused" => worktree'[r] = worktree[r]
  <2>1. CASE s = "refused"
    BY <1>1, <1>a, <2>1
  <2>2. CASE s = "removed"
    <3> DEFINE gone == [worktree EXCEPT ![r].files = "gone"]
    <3>1. gone \in [Runs -> Worktrees] /\ gone[r].files = "gone" /\ \A p \in Runs \ {r} : gone[p] = worktree[p]
      BY <1>a, <1>c DEF Worktrees
    <3>2. worktree' = [gone EXCEPT ![r].removedBy = c]
      BY <1>1, <2>2
    <3> HIDE DEF gone
    <3> QED
      BY <1>c, <2>2, <3>1, <3>2 DEF Worktrees
  <2> QED
    BY <1>1, <2>1, <2>2
<1>4. ASSUME NEW b \in Callers
      PROVE  CallerInv(b)'
  <2>1. CASE b = c
    BY <1>1, <1>2, <1>3, <1>a, <1>b, <1>c, <1>d, <2>1 DEF CallerInv
  <2>2. CASE b # c
    <3>1. CallerInv(b) /\ caller'[b] = caller[b] /\ caller[b].step \notin Begun
      BY <1>2, <2>2 DEF MaintenanceInv
    <3> QED
      BY <1>d, <3>1 DEF CallerInv, Begun
  <2> QED
    BY <2>1, <2>2
<1>5. TypeOK'
  <2>1. \A b \in Callers : caller'[b].step \in Removing => caller[b].step \in Removing
    BY <1>b, <1>2 DEF Begun, Removing, Fenced, Steps
  <2>2. \A b \in Callers : /\ caller'[b].step \in Steps
                           /\ caller'[b].step \in Begun => pending = [by |-> b, run |-> caller'[b].run]
    BY <1>2, <1>c DEF Requests
  <2>3. \A p \in Runs : worktree'[p].files \in {"clean", "dirty", "gone"} /\ worktree'[p].ahead \in 0 .. 1
    BY <1>3 DEF Worktrees
  <2> QED
    BY <1>a, <1>d, <2>1, <2>2, <2>3 DEF TypeOK, Begun
<1>6. \A p \in Runs : worktree'[p].files = "gone" <=> worktree'[p].removedBy # "nobody"
  BY <1>1, <1>3 DEF MaintenanceInv, Callers
<1>7. OutcomeIsTrue'
  <2>1. outcome[c][r] = "none"
    BY <1>a, <1>b DEF CallerInv
  <2>2. s = "removed" => worktree[r].removedBy = "nobody"
    BY <1>a, <1>b, <1>c DEF MaintenanceInv, CallerInv
  <2>3. \A b \in Callers, p \in Runs : outcome'[b][p] = outcome[b][p]
    BY <1>d
  <2> QED
    BY <1>1, <1>3, <2>1, <2>2, <2>3 DEF MaintenanceInv, OutcomeIsTrue, Callers
<1>8. caller'[pending'.by].step \in Begun
  BY <1>1, <1>2, <1>c, <1>d DEF Begun
<1> QED
  BY <1>2, <1>3, <1>4, <1>5, <1>6, <1>7, <1>8, <1>d DEF MaintenanceInv

(* So does the end of an operation, which records the outcome and drops    *)
(* the intent.                                                             *)
LEMMA FinishKeepsInv ==
    ASSUME MaintenanceInv, NEW c \in Callers, Finish(c)
    PROVE  MaintenanceInv'
<1> DEFINE r == caller[c].run
           end == IF caller[c].step = "removed" THEN "completed" ELSE "retry-required"
<1>a. /\ TypeOK /\ caller \in [Callers -> Requests] /\ CallerInv(c)
      /\ outcome \in [Callers -> [Runs -> {"none", "completed", "retry-required"}]]
  BY DEF MaintenanceInv
<1>b. caller[c].step \in {"removed", "refused"} /\ caller[c].step \in Begun
  BY DEF Finish, Begun
<1>c. r \in Runs /\ \A b \in Callers : caller[b].step \in Begun => b = c
  BY <1>b, OneRemoval
<1>d. /\ UNCHANGED <<run, generation, worktree, pullRequest, aged, observations>>
      /\ pending' = None /\ outcome' = [outcome EXCEPT ![c][r] = end]
      /\ caller' = [caller EXCEPT ![c] = Idle] /\ pass' \subseteq Runs
  BY <1>a DEF Finish, worldVars, TypeOK
<1>1. /\ caller' \in [Callers -> Requests] /\ caller'[c] = Idle
      /\ \A b \in Callers \ {c} : caller'[b] = caller[b] /\ caller[b].step \notin Begun
      /\ Idle.step = "idle" /\ ~Idle.merged /\ Idle.step \notin Begun \cup Removing
  BY <1>a, <1>c, <1>d, RequestTyped DEF Begun, Removing, Fenced, Steps
<1>2. /\ outcome' \in [Callers -> [Runs -> {"none", "completed", "retry-required"}]]
      /\ outcome'[c][r] = end
      /\ \A b \in Callers, p \in Runs : b # c \/ p # r => outcome'[b][p] = outcome[b][p]
  BY <1>a, <1>c, <1>d
<1>3. ASSUME NEW b \in Callers
      PROVE  CallerInv(b)'
  <2>1. CASE b = c
    BY <1>1, <2>1 DEF CallerInv, Begun
  <2>2. CASE b # c
    <3>1. CallerInv(b) /\ caller'[b] = caller[b] /\ caller[b].step \notin Begun
      BY <1>1, <2>2 DEF MaintenanceInv
    <3> QED
      BY <1>d, <3>1 DEF CallerInv, Begun
  <2> QED
    BY <2>1, <2>2
<1>4. TypeOK'
  <2>1. \A b \in Callers : /\ caller'[b].step \in Steps /\ caller'[b].step \notin Begun
                           /\ caller'[b].step \in Removing => caller[b].step \in Removing /\ b # c
    BY <1>1 DEF Requests
  <2> QED
    BY <1>a, <1>d, <2>1 DEF TypeOK, Begun
<1>5. OutcomeIsTrue'
  <2>1. caller[c].step = "removed" => worktree[r].removedBy = c
    BY <1>a DEF CallerInv
  <2>2. caller[c].step = "refused" => worktree[r].removedBy = "nobody"
    BY <1>a, <1>c DEF CallerInv, MaintenanceInv
  <2>3. ASSUME NEW b \in Callers, NEW p \in Runs
        PROVE  /\ outcome'[b][p] = "completed" => worktree[p].removedBy = b
               /\ outcome'[b][p] = "retry-required" => worktree[p].removedBy # b
    <3>1. CASE b = c /\ p = r
      BY <1>2, <1>b, <2>1, <2>2, <3>1 DEF Callers
    <3>2. CASE b # c \/ p # r
      BY <1>2, <3>2 DEF MaintenanceInv, OutcomeIsTrue
    <3> QED
      BY <3>1, <3>2
  <2> QED
    BY <1>d, <2>3 DEF OutcomeIsTrue
<1> QED
  BY <1>1, <1>2, <1>3, <1>4, <1>5, <1>d DEF MaintenanceInv

(* A restart settles a removal that was begun by what it finds on disk.    *)
LEMMA RestartKeepsInv ==
    ASSUME MaintenanceInv, Restart
    PROVE  MaintenanceInv'
<1>a. /\ TypeOK /\ worktree \in [Runs -> Worktrees]
      /\ outcome \in [Callers -> [Runs -> {"none", "completed", "retry-required"}]]
  BY DEF MaintenanceInv
<1>b. /\ UNCHANGED <<run, generation, worktree, pullRequest, aged, observations>>
      /\ pending' = None /\ caller' = [c \in Callers |-> Idle] /\ pass' = {}
  BY DEF Restart, Recovered, worldVars
<1>c. Idle \in Requests /\ Idle.step = "idle" /\ ~Idle.merged /\ Idle.step \in Steps
      /\ Idle.step \notin Begun \cup Removing
  BY DEF Idle, Requests, Begun, Removing, Fenced, Steps
<1>1. \A c \in Callers : caller'[c] = Idle
  BY <1>b
<1>2. TypeOK'
  BY <1>1, <1>a, <1>b, <1>c DEF TypeOK, Begun
<1>3. \A c \in Callers : CallerInv(c)'
  BY <1>1, <1>c DEF CallerInv, Begun
<1>4. CASE pending = None
  <2>1. outcome' = outcome
    BY <1>4 DEF Restart, Recovered
  <2> QED
    BY <1>1, <1>2, <1>3, <1>b, <1>c, <2>1 DEF MaintenanceInv, OutcomeIsTrue
<1>5. CASE pending # None
  <2> DEFINE c == pending.by
             r == pending.run
             end == IF Remains(r) THEN "retry-required" ELSE "completed"
  <2>1. c \in Callers /\ r \in Runs
    BY <1>5, <1>a DEF TypeOK
  <2>2. caller[c].step \in Begun
    BY <1>5 DEF MaintenanceInv
  <2>3. caller[c].run = r
    BY <2>1, <2>2, OneRemoval
  <2>4. /\ Remains(r) => worktree[r].removedBy # c
        /\ ~Remains(r) => worktree[r].removedBy = c
    <3>1. CallerInv(c) /\ (worktree[r].files = "gone" <=> worktree[r].removedBy # "nobody")
      BY <2>1 DEF MaintenanceInv
    <3> QED
      BY <2>1, <2>2, <2>3, <3>1 DEF CallerInv, Remains, Begun, Callers
  <2>5. outcome' = [outcome EXCEPT ![c][r] = end]
    BY <1>5 DEF Restart, Recovered
  <2>6. end \in {"completed", "retry-required"}
    OBVIOUS
  <2> HIDE DEF c, r
  <2>7. /\ outcome' \in [Callers -> [Runs -> {"none", "completed", "retry-required"}]]
        /\ outcome'[c][r] = end
        /\ \A b \in Callers, p \in Runs : b # c \/ p # r => outcome'[b][p] = outcome[b][p]
    BY <1>a, <2>1, <2>5, <2>6
  <2>8. OutcomeIsTrue'
    <3>1. ASSUME NEW b \in Callers, NEW p \in Runs
          PROVE  /\ outcome'[b][p] = "completed" => worktree[p].removedBy = b
                 /\ outcome'[b][p] = "retry-required" => worktree[p].removedBy # b
      <4>1. CASE b = c /\ p = r
        BY <2>4, <2>7, <4>1
      <4>2. CASE b # c \/ p # r
        BY <2>7, <4>2 DEF MaintenanceInv, OutcomeIsTrue
      <4> QED
        BY <4>1, <4>2
    <3> QED
      BY <1>b, <3>1 DEF OutcomeIsTrue
  <2>9. caller' \in [Callers -> Requests]
    BY <1>b, <1>c
  <2> QED
    BY <1>2, <1>3, <1>a, <1>b, <2>7, <2>8, <2>9 DEF MaintenanceInv
<1> QED
  BY <1>4, <1>5

----------------------------------------------------------------------------
(* The theorems.                                                           *)

(* The invariant holds at first.                                           *)
LEMMA MaintenanceInit == Init => MaintenanceInv
<1> SUFFICES ASSUME Init PROVE MaintenanceInv
  OBVIOUS
<1>1. \A c \in Callers : caller[c] = Idle
  BY DEF Init
<1>2. Idle \in Requests /\ Idle.step = "idle" /\ ~Idle.merged /\ Idle.step \in Steps
      /\ Idle.step \notin Begun \cup Removing
  BY DEF Idle, Requests, Begun, Removing, Fenced, Steps
<1>3. Cardinality({}) <= MaxObservations
  BY FS_EmptySet, MaintenanceAssumption
<1>4. TypeOK
  BY <1>1, <1>2, <1>3 DEF Init, TypeOK, RunStates, Begun
<1>5. \A c \in Callers : CallerInv(c)
  BY <1>1, <1>2 DEF CallerInv, Begun
<1>6. worktree \in [Runs -> Worktrees] /\ \A r \in Runs : worktree[r].files = "clean" /\ worktree[r].removedBy = "nobody"
  BY DEF Init, Worktrees
<1>7. caller \in [Callers -> Requests]
  BY <1>2 DEF Init
<1> QED
  BY <1>4, <1>5, <1>6, <1>7 DEF Init, MaintenanceInv, OutcomeIsTrue

(* Every step keeps the invariant; one step of the proof per action.       *)
LEMMA MaintenanceStep ==
    ASSUME MaintenanceInv, [Next]_vars
    PROVE  MaintenanceInv'
<1>1. CASE UNCHANGED vars
  BY <1>1 DEF vars, MaintenanceInv, TypeOK, CallerInv, OutcomeIsTrue
<1>2. ASSUME NEW r \in Runs, RequestPreview(r)
      PROVE  MaintenanceInv'
  <2>1. caller["operator"].step \notin Begun /\ "operator" \in Callers /\ pass' \subseteq Runs
    BY <1>2 DEF RequestPreview, Begun, Callers, MaintenanceInv, TypeOK
  <2> QED
    BY <1>2, <2>1, InspectKeepsInv DEF RequestPreview
<1>3. ASSUME NEW c \in Callers, CallerStep(c)
      PROVE  MaintenanceInv'
  BY <1>3, ReadKeepsInv, ConfirmationKeepsInv, BeginKeepsInv, GitRemoveKeepsInv, FinishKeepsInv DEF CallerStep
<1>4. CASE StartPass
  <2>1. pass' = Runs /\ UNCHANGED <<run, generation, worktree, pullRequest, aged, observations, pending,
                                    outcome, caller>>
    BY <1>4 DEF StartPass, worldVars, storeVars
  <2>2. TypeOK'
    BY <2>1 DEF MaintenanceInv, TypeOK
  <2> QED
    BY <2>1, <2>2 DEF MaintenanceInv, CallerInv, OutcomeIsTrue
<1>5. CASE Remove("retention") \/ Remove("operator")
  BY <1>5, ConfirmationKeepsInv DEF Callers
<1>6. ASSUME NEW r \in Runs, PassOn(r)
      PROVE  MaintenanceInv'
  <2>1. caller["retention"].step \notin Begun /\ "retention" \in Callers /\ pass' \subseteq Runs
    BY <1>6 DEF PassOn, Begun, Callers, Idle, MaintenanceInv, TypeOK
  <2> QED
    BY <1>6, <2>1, InspectKeepsInv DEF PassOn
<1> QED
  BY <1>1, <1>2, <1>3, <1>4, <1>5, <1>6, LifecycleAndWorld, RestartKeepsInv DEF Next, RetentionStep

(* The invariant is one: callers, worktrees and receipts agree in every    *)
(* reachable state.                                                        *)
THEOREM MaintenanceInvariant == Spec => []MaintenanceInv
BY MaintenanceInit, MaintenanceStep, PTL DEF Spec

(* Every reachable state is typed; the merge record keeps its limit, one   *)
(* removal is under way at a time, and Git is called for a worktree only   *)
(* while the intent to remove it is durable.                               *)
THEOREM MaintenanceTypeCorrect == Spec => []TypeOK
<1>1. MaintenanceInv => TypeOK
  BY DEF MaintenanceInv
<1> QED
  BY <1>1, MaintenanceInvariant, PTL

(* The audit of a removal says what happened to the worktree, also when the*)
(* Host stopped in between.                                                *)
THEOREM OutcomeProven == Spec => []OutcomeIsTrue
<1>1. MaintenanceInv => OutcomeIsTrue
  BY DEF MaintenanceInv
<1> QED
  BY <1>1, MaintenanceInvariant, PTL

(* Only Git's call takes a worktree away, and what it takes is authorized. *)
LEMMA RemovalStep ==
    ASSUME MaintenanceInv, [Next]_vars, NEW r \in Runs,
           worktree[r].files # "gone", worktree'[r].files = "gone"
    PROVE  /\ run[r] = "completed" /\ run'[r] = "completed"
           /\ pullRequest[r] = "merged" /\ r \in aged
           /\ worktree[r].files = "clean"
           /\ pending.run = r
<1>a. worktree \in [Runs -> Worktrees]
  BY DEF MaintenanceInv
<1>1. \E c \in Callers : GitRemove(c)
  <2>1. worktree' # worktree
    OBVIOUS
  <2>2. ASSUME NEW q \in Runs, Edit(q)
        PROVE  FALSE
    BY <1>a, <2>2 DEF Edit, Worktrees
  <2>3. ASSUME NEW q \in Runs, Commit(q)
        PROVE  FALSE
    BY <1>a, <2>3 DEF Commit, Worktrees
  <2> QED
    BY <2>1, <2>2, <2>3 DEF Next, vars, worldVars, Lifecycle, Deliver, RetryDelivery, Mutate, World, Merge, Age,
       RequestPreview, Inspect, CallerStep, ReadPullRequest, Preview, Recheck, Begin, Finish, RetentionStep,
       StartPass, Remove, PassOn, Restart
<1>2. PICK c \in Callers : GitRemove(c)
  BY <1>1
<1>3. caller[c].step = "removing" /\ CallerInv(c) /\ caller[c].step \in Begun /\ UNCHANGED run
  BY <1>2 DEF GitRemove, MaintenanceInv, Begun
<1>4. pending.run = caller[c].run /\ caller[c].run \in Runs
  BY <1>3, OneRemoval
<1>5. r = caller[c].run /\ worktree[r].files = "clean"
  BY <1>2, <1>4, <1>a DEF GitRemove, Worktrees
<1> QED
  BY <1>3, <1>4, <1>5 DEF CallerInv

(* A worktree that goes belongs to a completed run, whose merge is older   *)
(* than the retention, and is clean, whatever happened since its preview.  *)
THEOREM RemovalProven == Spec => RemovalIsAuthorized
<1>1. MaintenanceInv /\ [Next]_vars =>
         [\A r \in Runs : worktree[r].files # "gone" /\ worktree'[r].files = "gone" =>
             /\ run[r] = "completed" /\ run'[r] = "completed"
             /\ pullRequest[r] = "merged" /\ r \in aged
             /\ worktree[r].files = "clean"
             /\ pending.run = r]_vars
  BY RemovalStep
<1> QED
  BY <1>1, MaintenanceInvariant, PTL DEF Spec, RemovalIsAuthorized

=============================================================================
