-------------------------- MODULE AdmissionProofs --------------------------
(* Machine-checked proofs about Admission, for every set of runs and every *)
(* limit its assumptions allow.                                            *)
EXTENDS Admission, FiniteSetTheorems, TLAPS

(* A position among fresh issues is a natural number.                      *)
LEMMA FreshPositionNat ==
    ASSUME NEW r \in Runs, NEW seen \in SUBSET Runs
    PROVE  FreshPosition(r, seen) \in Nat
<1> DEFINE P == {q \in Fresh(seen) :
        Priority[q] < Priority[r] \/ (Priority[q] = Priority[r] /\ q < r)}
<1>1. P \subseteq Runs
  BY DEF Fresh
<1>2. IsFiniteSet(P)
  BY <1>1, RunsAssumption, FS_Subset
<1>3. Cardinality(P) \in Nat
  BY <1>2, FS_CardinalityType
<1> QED
  BY <1>3 DEF FreshPosition

(* So is the number of issues a reconciliation admits.                     *)
LEMMA AdmittedNat ==
    ASSUME NEW seen \in SUBSET Runs
    PROVE  Cardinality(Admitted(seen)) \in Nat
<1>1. Admitted(seen) \subseteq Runs
  BY DEF Admitted, Fresh
<1>2. IsFiniteSet(Admitted(seen))
  BY <1>1, RunsAssumption, FS_Subset
<1> QED
  BY <1>2, FS_CardinalityType

(* Settling usage keeps the budgets typed.                                 *)
LEMMA SettlementTyped ==
    ASSUME TypeOK, NEW r \in Runs, NEW usage \in Usage
    PROVE  /\ RunLedgerAfter(r, usage) \in [reserved : Nat, settled : Nat, uncertain : BOOLEAN]
           /\ BudgetAfter(r, usage) \in [reserved : Int, settled : Nat, uncertain : BOOLEAN]
<1>1. /\ ledger[r] \in [reserved : Nat, settled : Nat, uncertain : BOOLEAN]
      /\ budget \in [reserved : Int, settled : Nat, uncertain : BOOLEAN]
  BY DEF TypeOK
<1>2. usage.tokens \in Nat
  BY TokenAssumption DEF Usage
<1>3. CASE UsageKnown(r, usage)
  <2>1. RunLedgerAfter(r, usage) \in [reserved : Nat, settled : Nat, uncertain : BOOLEAN]
    BY <1>1, <1>2, <1>3 DEF RunLedgerAfter
  <2>2. BudgetAfter(r, usage) \in [reserved : Int, settled : Nat, uncertain : BOOLEAN]
    BY <1>1, <1>2, <1>3 DEF BudgetAfter
  <2> QED
    BY <2>1, <2>2
<1>4. CASE ~UsageKnown(r, usage)
  <2>1. RunLedgerAfter(r, usage) \in [reserved : Nat, settled : Nat, uncertain : BOOLEAN]
    BY <1>1, <1>4 DEF RunLedgerAfter
  <2>2. BudgetAfter(r, usage) \in [reserved : Int, settled : Nat, uncertain : BOOLEAN]
    BY <1>1, <1>4 DEF BudgetAfter
  <2> QED
    BY <2>1, <2>2
<1> QED
  BY <1>3, <1>4

(* What is reserved for a continuation is positive and fits the run's cap. *)
LEMMA ContinuationFits ==
    ASSUME TypeOK, NEW r \in Runs, ledger[r].settled < RunCap
    PROVE  /\ ContinuationReservation(r) \in Nat \ {0}
           /\ ContinuationReservation(r) <= Allowance
           /\ ledger[r].settled + ContinuationReservation(r) <= RunCap
BY TokenAssumption DEF TypeOK, ContinuationReservation

(* The types hold at first.                                                *)
LEMMA InitTypeOK == Init => TypeOK
BY DEF Init, TypeOK, RunStates, Publications, Modes, Authorizations, Idle, NoPauseAll, NoBudget

(* What a resumption writes into the queue, and what a crash or a refused  *)
(* resumption writes into the execution, is of the type of the record.     *)
LEMMA MarksTyped ==
    ASSUME TypeOK, NEW r \in Runs
    PROVE  /\ [queue EXCEPT ![r].class = "resumption"] \in [Runs -> [class : {"new", "resumption"}, sequence : Nat]]
           /\ [execution EXCEPT ![r].recovery = TRUE] \in [Runs -> [git : BOOLEAN, recovery : BOOLEAN]]
<1>1. queue \in [Runs -> [class : {"new", "resumption"}, sequence : Nat]] /\ execution \in [Runs -> [git : BOOLEAN, recovery : BOOLEAN]]
  BY DEF TypeOK
<1>2. [queue[r] EXCEPT !.class = "resumption"] \in [class : {"new", "resumption"}, sequence : Nat]
  <2>1. queue[r] \in [class : {"new", "resumption"}, sequence : Nat]
    BY <1>1
  <2> QED
    BY <2>1
<1>3. [execution[r] EXCEPT !.recovery = TRUE] \in [git : BOOLEAN, recovery : BOOLEAN]
  <2>1. execution[r] \in [git : BOOLEAN, recovery : BOOLEAN]
    BY <1>1
  <2> QED
    BY <2>1
<1> QED
  BY <1>1, <1>2, <1>3

(* Every step keeps the types; one step of the proof per action.           *)
LEMMA NextTypeOK == TypeOK /\ [Next]_vars => TypeOK'
<1> SUFFICES ASSUME TypeOK, [Next]_vars PROVE TypeOK'
  OBVIOUS
<1> USE DEF TypeOK
<1> USE DEF runVars, schedulerVars, processVars
<1>1. ASSUME NEW r \in Runs, SelectHead(r) PROVE TypeOK'
  BY <1>1 DEF SelectHead
<1>2. ASSUME NEW r \in Runs, Claim(r) PROVE TypeOK'
  <2>1. lane' \in [op : {"idle", "claim", "prepare", "resume", "publish"},
                   run : Runs \cup {NoRun}, by : Authorizations]
    BY <1>2 DEF Claim, Idle, Authorizations
  <2>2. budget' \in [reserved : Int, settled : Nat, uncertain : BOOLEAN]
    <3>1. budget' = BudgetReserving(Allowance)
      BY <1>2 DEF Claim
    <3> QED
      BY <3>1, TokenAssumption DEF BudgetReserving
  <2>3. ledger' \in [Runs -> [reserved : Nat, settled : Nat, uncertain : BOOLEAN]]
    <3>1. ledger' = [ledger EXCEPT
              ![r] = [reserved |-> Allowance, settled |-> 0, uncertain |-> FALSE]]
      BY <1>2 DEF Claim
    <3> QED
      BY <3>1, TokenAssumption
  <2>4. state' \in [Runs -> RunStates]
    BY <1>2 DEF Claim, RunStates
  <2> QED
    BY <1>2, <2>1, <2>2, <2>3, <2>4 DEF Claim
<1>3. ASSUME NEW r \in Runs, ClaimAgain(r) PROVE TypeOK'
  BY <1>3 DEF ClaimAgain
<1>4. ASSUME NEW r \in Runs, RecordWorktree(r) PROVE TypeOK'
  BY <1>4 DEF RecordWorktree
<1>5. ASSUME NEW r \in Runs, NEW outcome \in {"verified", "blocked", "failed"}, NEW usage \in Usage, Settle(r, outcome, usage) PROVE TypeOK'
  BY <1>5, SettlementTyped DEF Settle, SettledState, RunStates, Publications
<1>6. ASSUME NEW r \in Runs, NEW usage \in Usage, CheckpointPaused(r, usage) PROVE TypeOK'
  BY <1>6, SettlementTyped DEF CheckpointPaused, RunStates
<1>7. ASSUME NEW r \in Runs, LoseOwner(r) PROVE TypeOK'
  BY <1>7 DEF LoseOwner
<1>8. ASSUME NEW r \in Runs, RequestRunPause(r) PROVE TypeOK'
  BY <1>8 DEF RequestRunPause, RunStates
<1>9. ASSUME NEW r \in Runs, HoldQueued(r) PROVE TypeOK'
  <2>1. state' \in [Runs -> RunStates] /\ hold' \in [Runs -> BOOLEAN]
    BY <1>9 DEF HoldQueued, RunStates
  <2>2. queue' \in [Runs -> [class : {"new", "resumption"}, sequence : Nat]]
    BY <1>9, MarksTyped DEF HoldQueued
  <2> QED
    BY <1>9, <2>1, <2>2 DEF HoldQueued
<1>10. ASSUME NEW r \in Runs, CancelRun(r) PROVE TypeOK'
  BY <1>10 DEF CancelRun, RunStates
<1>11. ASSUME NEW r \in Runs, ResumeQueuedRead(r) PROVE TypeOK'
  BY <1>11 DEF ResumeQueuedRead
<1>12. ASSUME NEW r \in Runs, ResumeQueuedCommit(r) PROVE TypeOK'
  <2>1. state' \in [Runs -> RunStates]
    BY <1>12 DEF ResumeQueuedCommit, RunStates
  <2>2. queue' \in [Runs -> [class : {"new", "resumption"}, sequence : Nat]]
    BY <1>12, MarksTyped DEF ResumeQueuedCommit
  <2> QED
    BY <1>12, <2>1, <2>2 DEF ResumeQueuedCommit
<1>13. ASSUME NEW r \in Runs, ResumeQueuedReject(r) PROVE TypeOK'
  BY <1>13 DEF ResumeQueuedReject
<1>14. ASSUME NEW r \in Runs, NEW by \in {"operator", "scheduler"}, PrepareResume(r, by) PROVE TypeOK'
  BY <1>14 DEF PrepareResume, Authorizations
<1>15. ASSUME NEW r \in Runs, RequireActiveRecovery(r) PROVE TypeOK'
  <2>1. execution' \in [Runs -> [git : BOOLEAN, recovery : BOOLEAN]]
    BY <1>15, MarksTyped DEF RequireActiveRecovery
  <2> QED
    BY <1>15, <2>1 DEF RequireActiveRecovery, Authorizations, Idle
<1>16. ASSUME NEW r \in Runs, ResumeActiveRead(r) PROVE TypeOK'
  BY <1>16 DEF ResumeActiveRead
<1>17. ASSUME NEW r \in Runs, ResumeActiveCommit(r) PROVE TypeOK'
  <2>1. ContinuationReservation(r) \in Nat
    BY <1>17, ContinuationFits DEF ResumeActiveCommit, ResumeFacts
  <2>2. lane' \in [op : {"idle", "claim", "prepare", "resume", "publish"},
                   run : Runs \cup {NoRun}, by : Authorizations]
    BY <1>17 DEF ResumeActiveCommit, Idle, Authorizations
  <2>3. budget' \in [reserved : Int, settled : Nat, uncertain : BOOLEAN]
    <3>1. budget' = BudgetReserving(ContinuationReservation(r))
      BY <1>17 DEF ResumeActiveCommit
    <3> QED
      BY <2>1, <3>1 DEF BudgetReserving
  <2>4. ledger' \in [Runs -> [reserved : Nat, settled : Nat, uncertain : BOOLEAN]]
    <3>1. ledger' = [ledger EXCEPT ![r].reserved = ContinuationReservation(r)]
      BY <1>17 DEF ResumeActiveCommit
    <3> QED
      BY <2>1, <3>1
  <2>5. state' \in [Runs -> RunStates]
    BY <1>17 DEF ResumeActiveCommit, RunStates
  <2>6. queue' \in [Runs -> [class : {"new", "resumption"}, sequence : Nat]]
    BY <1>17, MarksTyped DEF ResumeActiveCommit
  <2> QED
    BY <1>17, <2>2, <2>3, <2>4, <2>5, <2>6 DEF ResumeActiveCommit
<1>18. ASSUME NEW r \in Runs, ClaimPublication(r) PROVE TypeOK'
  BY <1>18 DEF ClaimPublication, Publications, Authorizations
<1>19. ASSUME NEW r \in Runs, CompletePublication(r) PROVE TypeOK'
  <2>1. publication' \in [Runs -> [status : Publications, attempts : Nat]]
    <3>1. [publication[r] EXCEPT !.status = "succeeded"] \in [status : Publications, attempts : Nat]
      <4>1. publication[r] \in [status : Publications, attempts : Nat]
        OBVIOUS
      <4> QED
        BY <4>1 DEF Publications
    <3> QED
      BY <1>19, <3>1 DEF CompletePublication
  <2>2. state' \in [Runs -> RunStates]
    BY <1>19 DEF CompletePublication, RunStates
  <2> QED
    BY <1>19, <2>1, <2>2 DEF CompletePublication, Authorizations, Idle
<1>20. ASSUME NEW r \in Runs, NEW status \in {"uncertain", "retryable", "failed"}, FailPublication(r, status) PROVE TypeOK'
  BY <1>20 DEF FailPublication, FailedStatus, RunStates, Publications, Authorizations, Idle
<1>21. ASSUME NEW seen \in SUBSET Runs, Reconcile(seen) PROVE TypeOK'
  <2>1. state' \in [Runs -> RunStates]
    BY <1>21 DEF Reconcile, RunStates
  <2>2. queue' \in [Runs -> [class : {"new", "resumption"}, sequence : Nat]]
    <3>1. queue' = [q \in Runs |->
              IF q \in Admitted(seen)
              THEN [class |-> "new", sequence |-> nextSequence + FreshPosition(q, seen)]
              ELSE queue[q]]
      BY <1>21 DEF Reconcile
    <3>2. \A q \in Runs : FreshPosition(q, seen) \in Nat
      BY FreshPositionNat
    <3>3. \A q \in Runs : nextSequence + FreshPosition(q, seen) \in Nat
      BY <3>2
    <3> QED
      BY <3>1, <3>3
  <2>3. nextSequence' \in Nat
    <3>1. Cardinality(Admitted(seen)) \in Nat
      BY AdmittedNat
    <3> QED
      BY <1>21, <3>1 DEF Reconcile
  <2> QED
    BY <1>21, <2>1, <2>2, <2>3 DEF Reconcile
<1>22. CASE PrepareClaim
  BY <1>22 DEF PrepareClaim, Authorizations
<1>23. CASE LeaveLane
  BY <1>23 DEF LeaveLane, Idle, Authorizations
<1>24. CASE CommitPauseAll
  BY <1>24 DEF CommitPauseAll, PausedByAll, RunStates, Modes, NoPauseAll
<1>25. CASE WithdrawDispatcher
  BY <1>25 DEF WithdrawDispatcher
<1>26. CASE MountDispatcher
  BY <1>26 DEF MountDispatcher
<1>27. ASSUME NEW kind \in PauseKinds, BeginPauseAll(kind) PROVE TypeOK'
  BY <1>27, LimitAssumption DEF BeginPauseAll, Existing
<1>28. ASSUME NEW m \in Modes, SetSchedulerMode(m) PROVE TypeOK'
  BY <1>28 DEF SetSchedulerMode
<1>29. CASE Restart
  <2>1. execution' \in [Runs -> [git : BOOLEAN, recovery : BOOLEAN]]
    <3>1. ASSUME NEW r \in Runs
          PROVE  [execution[r] EXCEPT !.recovery = TRUE] \in [git : BOOLEAN, recovery : BOOLEAN]
      <4>1. execution[r] \in [git : BOOLEAN, recovery : BOOLEAN]
        OBVIOUS
      <4> QED
        BY <4>1
    <3> QED
      BY <1>29, <3>1 DEF Restart
  <2>2. publication' \in [Runs -> [status : Publications, attempts : Nat]]
    <3>1. ASSUME NEW r \in Runs
          PROVE  [publication[r] EXCEPT !.status = InterruptedStatus(r)]
                    \in [status : Publications, attempts : Nat]
      <4>1. publication[r] \in [status : Publications, attempts : Nat]
        OBVIOUS
      <4> QED
        BY <4>1 DEF InterruptedStatus, Publications
    <3> QED
      BY <1>29, <3>1 DEF Restart
  <2> QED
    BY <1>29, <2>1, <2>2 DEF Restart, Idle, NoPauseAll, Authorizations
<1>30. CASE UNCHANGED vars
  BY <1>30 DEF vars
<1> QED
  BY <1>1, <1>2, <1>3, <1>4, <1>5, <1>6, <1>7, <1>8, <1>9, <1>10, <1>11, <1>12, <1>13, <1>14, <1>15, <1>16, <1>17, <1>18, <1>19, <1>20, <1>21, <1>22, <1>23, <1>24, <1>25, <1>26, <1>27, <1>28, <1>29, <1>30 DEF Next, RunStep

(* TypeOK is inductive, hence an invariant.                                *)
THEOREM TypeInvariant == Spec => []TypeOK
<1>1. Init => TypeOK
  BY InitTypeOK
<1>2. TypeOK /\ [Next]_vars => TypeOK'
  BY NextTypeOK
<1> QED
  BY <1>1, <1>2, PTL DEF Spec

----------------------------------------------------------------------------
(* Which actions touch what.  The invariants below concern few of the      *)
(* actions; these lemmas dispose of all others at once.                    *)

(* Tokens move only when work starts and when an owner settles it.         *)
LEMMA TokenMoves ==
    ASSUME [Next]_vars
    PROVE  \/ UNCHANGED <<ledger, budget>>
           \/ \E r \in Runs :
                \/ Claim(r) \/ ResumeActiveCommit(r)
                \/ \E outcome \in {"verified", "blocked", "failed"}, usage \in Usage :
                      Settle(r, outcome, usage)
                \/ \E usage \in Usage : CheckpointPaused(r, usage)
<1>1. ASSUME NEW r \in Runs, RunStep(r)
      PROVE  \/ UNCHANGED <<ledger, budget>>
             \/ Claim(r) \/ ResumeActiveCommit(r)
             \/ \E outcome \in {"verified", "blocked", "failed"}, usage \in Usage :
                   Settle(r, outcome, usage)
             \/ \E usage \in Usage : CheckpointPaused(r, usage)
  BY <1>1 DEF RunStep, schedulerVars, SelectHead, ClaimAgain, RecordWorktree, LoseOwner,
              RequestRunPause, HoldQueued, CancelRun, ResumeQueuedRead, ResumeQueuedCommit,
              ResumeQueuedReject, PrepareResume, RequireActiveRecovery, ResumeActiveRead,
              ClaimPublication, CompletePublication, FailPublication, runVars
<1>2. CASE ~\E r \in Runs : RunStep(r)
  BY <1>2 DEF Next, vars, runVars, schedulerVars, Reconcile, PrepareClaim, LeaveLane,
              BeginPauseAll, CommitPauseAll, WithdrawDispatcher, MountDispatcher,
              SetSchedulerMode, Restart
<1> QED
  BY <1>1, <1>2

(* No step of a run changes the scheduler's mode or issues a sequence.     *)
LEMMA SchedulerStays ==
    ASSUME NEW r \in Runs, RunStep(r)
    PROVE  UNCHANGED <<mode, nextSequence>>
<1>1. ASSUME NEW outcome \in {"verified", "blocked", "failed"}, NEW usage \in Usage,
             Settle(r, outcome, usage)
      PROVE  UNCHANGED <<mode, nextSequence>>
  BY <1>1 DEF Settle
<1>2. ASSUME NEW usage \in Usage, CheckpointPaused(r, usage)
      PROVE  UNCHANGED <<mode, nextSequence>>
  BY <1>2 DEF CheckpointPaused
<1> QED
  BY <1>1, <1>2
     DEF RunStep, schedulerVars, SelectHead, Claim, ClaimAgain, RecordWorktree, LoseOwner,
         RequestRunPause, HoldQueued, CancelRun, ResumeQueuedRead, ResumeQueuedCommit,
         ResumeQueuedReject, PrepareResume, RequireActiveRecovery, ResumeActiveRead,
         ResumeActiveCommit, ClaimPublication, CompletePublication, FailPublication

(* A run's lifecycle state is written by these actions only.               *)
LEMMA StateMoves ==
    ASSUME [Next]_vars
    PROVE  \/ UNCHANGED state
           \/ CommitPauseAll
           \/ \E seen \in SUBSET Runs : Reconcile(seen)
           \/ \E q \in Runs :
                \/ Claim(q) \/ ResumeActiveCommit(q)
                \/ \E outcome \in {"verified", "blocked", "failed"}, usage \in Usage :
                      Settle(q, outcome, usage)
                \/ \E usage \in Usage : CheckpointPaused(q, usage)
                \/ RequestRunPause(q) \/ HoldQueued(q) \/ CancelRun(q) \/ ResumeQueuedCommit(q)
                \/ CompletePublication(q)
                \/ \E status \in {"uncertain", "retryable", "failed"} : FailPublication(q, status)
BY DEF Next, RunStep, vars, runVars, schedulerVars, processVars, PrepareClaim, SelectHead,
       ClaimAgain, LeaveLane, RecordWorktree, LoseOwner, BeginPauseAll, WithdrawDispatcher,
       MountDispatcher, SetSchedulerMode, ResumeQueuedRead, ResumeQueuedReject,
       PrepareResume, RequireActiveRecovery, ResumeActiveRead, ClaimPublication, Restart

(* A run becomes active only by a claim or an active resumption, and stops *)
(* being active only when its owner settles or checkpoints it.             *)
LEMMA ActivityMoves ==
    ASSUME TypeOK, [Next]_vars, NEW r \in Runs
    PROVE  \/ Claim(r) \/ ResumeActiveCommit(r)
           \/ \E outcome \in {"verified", "blocked", "failed"}, usage \in Usage :
                 Settle(r, outcome, usage)
           \/ \E usage \in Usage : CheckpointPaused(r, usage)
           \/ state'[r] \in Active <=> state[r] \in Active
<1> USE DEF TypeOK, Active
<1>2. CASE UNCHANGED state
  BY <1>2
<1>3. CASE CommitPauseAll
  BY <1>3 DEF CommitPauseAll, PausedByAll
<1>4. ASSUME NEW seen \in SUBSET Runs, Reconcile(seen)
      PROVE  state'[r] \in Active <=> state[r] \in Active
  BY <1>4 DEF Reconcile, Admitted, Fresh
<1>5. ASSUME NEW q \in Runs, Claim(q)
      PROVE  Claim(r) \/ (state'[r] \in Active <=> state[r] \in Active)
  <2>1. q # r => state'[r] = state[r]
    BY <1>5 DEF Claim
  <2> QED
    BY <1>5, <2>1
<1>6. ASSUME NEW q \in Runs, ResumeActiveCommit(q)
      PROVE  ResumeActiveCommit(r) \/ (state'[r] \in Active <=> state[r] \in Active)
  <2>1. q # r => state'[r] = state[r]
    BY <1>6 DEF ResumeActiveCommit
  <2> QED
    BY <1>6, <2>1
<1>7. ASSUME NEW q \in Runs, NEW outcome \in {"verified", "blocked", "failed"},
             NEW usage \in Usage, Settle(q, outcome, usage)
      PROVE  Settle(r, outcome, usage) \/ (state'[r] \in Active <=> state[r] \in Active)
  <2>1. q # r => state'[r] = state[r]
    BY <1>7 DEF Settle
  <2> QED
    BY <1>7, <2>1
<1>8. ASSUME NEW q \in Runs, NEW usage \in Usage, CheckpointPaused(q, usage)
      PROVE  CheckpointPaused(r, usage) \/ (state'[r] \in Active <=> state[r] \in Active)
  <2>1. q # r => state'[r] = state[r]
    BY <1>8 DEF CheckpointPaused
  <2> QED
    BY <1>8, <2>1
<1>9. ASSUME NEW q \in Runs,
             \/ RequestRunPause(q) \/ HoldQueued(q) \/ CancelRun(q) \/ ResumeQueuedCommit(q)
      PROVE  state'[r] \in Active <=> state[r] \in Active
  BY <1>9 DEF RequestRunPause, HoldQueued, CancelRun, Cancellable, ResumeQueuedCommit
<1>10. ASSUME NEW q \in Runs, CompletePublication(q)
       PROVE  state'[r] \in Active <=> state[r] \in Active
  BY <1>10 DEF CompletePublication, OwnsPublication
<1>11. ASSUME NEW q \in Runs, NEW status \in {"uncertain", "retryable", "failed"},
              FailPublication(q, status)
       PROVE  state'[r] \in Active <=> state[r] \in Active
  BY <1>11 DEF FailPublication, OwnsPublication
<1> QED
  BY <1>2, <1>3, <1>4, <1>5, <1>6, <1>7, <1>8, <1>9, <1>10, <1>11, StateMoves

----------------------------------------------------------------------------
(* The budgets.                                                            *)

(* Every reservation fits what is left of both caps, and a settlement      *)
(* spends no more than was reserved.                                       *)
LEMMA NextWithinCaps == TypeOK /\ WithinCaps /\ [Next]_vars => WithinCaps'
<1> SUFFICES ASSUME TypeOK, WithinCaps, [Next]_vars PROVE WithinCaps'
  OBVIOUS
<1>1. CASE UNCHANGED <<ledger, budget>>
  BY <1>1 DEF WithinCaps
<1>2. ASSUME NEW r \in Runs, Claim(r) PROVE WithinCaps'
  <2>1. /\ budget' = BudgetReserving(Allowance)
        /\ ledger' = [ledger EXCEPT
              ![r] = [reserved |-> Allowance, settled |-> 0, uncertain |-> FALSE]]
        /\ budget.settled + budget.reserved + Allowance <= DeploymentCap
    BY <1>2 DEF Claim, CanReserve
  <2>2. budget'.settled + budget'.reserved <= DeploymentCap
    BY <2>1, TokenAssumption DEF BudgetReserving, TypeOK
  <2> QED
    BY <2>1, <2>2, TokenAssumption DEF WithinCaps, TypeOK
<1>3. ASSUME NEW r \in Runs, ResumeActiveCommit(r) PROVE WithinCaps'
  <2> DEFINE c == ContinuationReservation(r)
  <2>1. /\ budget' = BudgetReserving(c)
        /\ ledger' = [ledger EXCEPT ![r].reserved = c]
        /\ budget.settled + budget.reserved + c <= DeploymentCap
        /\ ledger[r].settled < RunCap
    BY <1>3 DEF ResumeActiveCommit, CanReserve, ResumeFacts
  <2>2. c \in Nat \ {0} /\ c <= Allowance /\ ledger[r].settled + c <= RunCap
    BY <2>1, ContinuationFits
  <2> HIDE DEF c
  <2>3. budget'.settled + budget'.reserved <= DeploymentCap
    BY <2>1, <2>2, TokenAssumption DEF BudgetReserving, TypeOK
  <2> QED
    BY <2>1, <2>2, <2>3 DEF WithinCaps, TypeOK
<1>4. ASSUME NEW r \in Runs, NEW usage \in Usage,
             ledger' = [ledger EXCEPT ![r] = RunLedgerAfter(r, usage)],
             budget' = BudgetAfter(r, usage)
      PROVE  WithinCaps'
  <2>1. usage.tokens \in Nat
    BY TokenAssumption DEF Usage
  <2>2. CASE UsageKnown(r, usage)
    <3>1. /\ ledger'[r] = [reserved |-> 0, settled |-> ledger[r].settled + usage.tokens,
                           uncertain |-> FALSE]
          /\ \A q \in Runs \ {r} : ledger'[q] = ledger[q]
      BY <1>4, <2>2 DEF RunLedgerAfter, TypeOK
    <3>2. budget' = [reserved |-> budget.reserved - ledger[r].reserved,
                     settled |-> budget.settled + usage.tokens, uncertain |-> budget.uncertain]
      BY <1>4, <2>2 DEF BudgetAfter
    <3>3. usage.tokens <= ledger[r].reserved /\ ledger[r].settled + usage.tokens <= RunCap
      BY <2>2 DEF UsageKnown
    <3>4. budget'.settled + budget'.reserved <= DeploymentCap
      BY <2>1, <3>2, <3>3, TokenAssumption DEF WithinCaps, TypeOK
    <3>5. ledger'[r].settled + ledger'[r].reserved <= RunCap /\ ledger'[r].reserved <= Allowance
      BY <2>1, <3>1, <3>3, TokenAssumption DEF TypeOK
    <3> QED
      BY <3>1, <3>4, <3>5 DEF WithinCaps
  <2>3. CASE ~UsageKnown(r, usage)
    <3>1. /\ ledger' = [ledger EXCEPT ![r].uncertain = TRUE]
          /\ budget' = [budget EXCEPT !.uncertain = TRUE]
      BY <1>4, <2>3 DEF RunLedgerAfter, BudgetAfter, TypeOK
    <3> QED
      BY <3>1 DEF WithinCaps, TypeOK
  <2> QED
    BY <2>2, <2>3
<1>5. ASSUME NEW r \in Runs, NEW outcome \in {"verified", "blocked", "failed"},
             NEW usage \in Usage, Settle(r, outcome, usage)
      PROVE  WithinCaps'
  BY <1>4, <1>5 DEF Settle
<1>6. ASSUME NEW r \in Runs, NEW usage \in Usage, CheckpointPaused(r, usage)
      PROVE  WithinCaps'
  BY <1>4, <1>6 DEF CheckpointPaused
<1> QED
  BY <1>1, <1>2, <1>3, <1>5, <1>6, TokenMoves

(* No run and no deployment ever spends or reserves beyond its cap,        *)
(* whatever the limits and however many runs there are.                    *)
THEOREM CapsInvariant == Spec => []WithinCaps
<1>1. Init => WithinCaps
  BY TokenAssumption DEF Init, NoBudget, WithinCaps
<1>2. TypeOK /\ WithinCaps /\ [Next]_vars => WithinCaps'
  BY NextWithinCaps
<1> QED
  BY <1>1, <1>2, TypeInvariant, PTL DEF Spec

(* Reservations are owed, and the deployment is uncertain exactly when a   *)
(* run is: together they are inductive, since a claim resets the budget of *)
(* a run only while nothing is uncertain.                                  *)
UncertaintyAgrees == budget.uncertain <=> \E r \in Runs : ledger[r].uncertain

OwedInv == ReservationsAreOwed /\ UncertaintyAgrees

(* Reservations stay owed: only a claim or a resumption reserves, and only *)
(* with the step that makes the run active.                                *)
LEMMA NextOwed == TypeOK /\ OwedInv /\ [Next]_vars => OwedInv'
<1> SUFFICES ASSUME TypeOK, ReservationsAreOwed, UncertaintyAgrees, [Next]_vars
             PROVE  ReservationsAreOwed' /\ UncertaintyAgrees'
  BY DEF OwedInv
<1>1. CASE UNCHANGED <<ledger, budget>>
  <2>1. UncertaintyAgrees'
    BY <1>1 DEF UncertaintyAgrees
  <2>2. ASSUME NEW r \in Runs
        PROVE  /\ ledger'[r].reserved > 0 => state'[r] \in Active \/ ledger'[r].uncertain
               /\ state'[r] \in Active => ledger'[r].reserved > 0 /\ ~ledger'[r].uncertain
    <3>1. ledger'[r] = ledger[r]
      BY <1>1
    <3>2. CASE state'[r] \in Active <=> state[r] \in Active
      BY <3>1, <3>2 DEF ReservationsAreOwed
    <3>3. CASE Claim(r)
      <4>1. ledger'[r].reserved > 0 /\ ~ledger'[r].uncertain /\ state'[r] \in Active
        BY <3>3, TokenAssumption DEF Claim, TypeOK, Active
      <4> QED
        BY <4>1
    <3>4. CASE ResumeActiveCommit(r)
      <4>1. ContinuationReservation(r) > 0 /\ ~ledger[r].uncertain
        BY <3>4, ContinuationFits DEF ResumeActiveCommit, ResumeFacts
      <4>2. ledger'[r].reserved = ContinuationReservation(r)
        BY <3>4 DEF ResumeActiveCommit, TypeOK
      <4>3. state'[r] \in Active
        BY <3>4 DEF ResumeActiveCommit, TypeOK, Active
      <4> QED
        BY <3>1, <4>1, <4>2, <4>3
    <3>5. ASSUME NEW usage \in Usage, state[r] \in Active, state'[r] \notin Active,
                 ledger' = [ledger EXCEPT ![r] = RunLedgerAfter(r, usage)]
          PROVE  ledger'[r].reserved > 0 => ledger'[r].uncertain
      BY <3>5 DEF RunLedgerAfter, TypeOK
    <3>6. ASSUME NEW outcome \in {"verified", "blocked", "failed"}, NEW usage \in Usage,
                 Settle(r, outcome, usage)
          PROVE  state'[r] \notin Active /\ (ledger'[r].reserved > 0 => ledger'[r].uncertain)
      BY <3>5, <3>6 DEF Settle, SettledState, Active, TypeOK
    <3>7. ASSUME NEW usage \in Usage, CheckpointPaused(r, usage)
          PROVE  state'[r] \notin Active /\ (ledger'[r].reserved > 0 => ledger'[r].uncertain)
      BY <3>5, <3>7 DEF CheckpointPaused, Active, TypeOK
    <3> QED
      BY <3>2, <3>3, <3>4, <3>6, <3>7, ActivityMoves
  <2> QED
    BY <2>1, <2>2 DEF ReservationsAreOwed
<1>2. ASSUME NEW r \in Runs, Claim(r) PROVE ReservationsAreOwed' /\ UncertaintyAgrees'
  <2>1. /\ ledger' = [ledger EXCEPT
              ![r] = [reserved |-> Allowance, settled |-> 0, uncertain |-> FALSE]]
        /\ state' = [state EXCEPT ![r] = "implementing"]
        /\ budget' = BudgetReserving(Allowance)
        /\ ~budget.uncertain
    BY <1>2 DEF Claim
  <2>2. UncertaintyAgrees'
    BY <2>1 DEF UncertaintyAgrees, BudgetReserving, TypeOK
  <2>3. ReservationsAreOwed'
    BY <2>1, TokenAssumption DEF ReservationsAreOwed, TypeOK, Active
  <2> QED
    BY <2>2, <2>3
<1>3. ASSUME NEW r \in Runs, ResumeActiveCommit(r)
      PROVE  ReservationsAreOwed' /\ UncertaintyAgrees'
  <2> DEFINE c == ContinuationReservation(r)
  <2>1. /\ ledger' = [ledger EXCEPT ![r].reserved = c]
        /\ state' = [state EXCEPT ![r] = "implementing"]
        /\ budget' = BudgetReserving(c)
        /\ ~ledger[r].uncertain
    BY <1>3 DEF ResumeActiveCommit, ResumeFacts
  <2>2. c \in Nat \ {0}
    BY <1>3, ContinuationFits DEF ResumeActiveCommit, ResumeFacts
  <2> HIDE DEF c
  <2>3. \A q \in Runs : ledger'[q].uncertain = ledger[q].uncertain
    BY <2>1 DEF TypeOK
  <2>4. UncertaintyAgrees'
    BY <2>1, <2>3 DEF UncertaintyAgrees, BudgetReserving
  <2>5. ReservationsAreOwed'
    BY <2>1, <2>2 DEF ReservationsAreOwed, TypeOK, Active
  <2> QED
    BY <2>4, <2>5
<1>4. ASSUME NEW r \in Runs, NEW usage \in Usage,
             state[r] \in Active, state'[r] \notin Active,
             \A q \in Runs \ {r} : state'[q] = state[q],
             ledger' = [ledger EXCEPT ![r] = RunLedgerAfter(r, usage)],
             budget' = BudgetAfter(r, usage)
      PROVE  ReservationsAreOwed' /\ UncertaintyAgrees'
  <2>1. ~ledger[r].uncertain
    BY <1>4 DEF ReservationsAreOwed
  <2>2. CASE UsageKnown(r, usage)
    <3>1. /\ ledger'[r].reserved = 0 /\ ledger'[r].uncertain = FALSE
          /\ \A q \in Runs \ {r} : ledger'[q] = ledger[q]
          /\ budget'.uncertain = budget.uncertain
      BY <1>4, <2>2 DEF RunLedgerAfter, BudgetAfter, TypeOK
    <3>2. UncertaintyAgrees'
      BY <2>1, <3>1 DEF UncertaintyAgrees
    <3>3. ReservationsAreOwed'
      BY <1>4, <3>1 DEF ReservationsAreOwed
    <3> QED
      BY <3>2, <3>3
  <2>3. CASE ~UsageKnown(r, usage)
    <3>1. /\ ledger'[r].uncertain = TRUE
          /\ \A q \in Runs \ {r} : ledger'[q] = ledger[q]
          /\ budget'.uncertain = TRUE
      BY <1>4, <2>3 DEF RunLedgerAfter, BudgetAfter, TypeOK
    <3>2. UncertaintyAgrees'
      BY <3>1 DEF UncertaintyAgrees
    <3>3. ReservationsAreOwed'
      BY <1>4, <3>1 DEF ReservationsAreOwed
    <3> QED
      BY <3>2, <3>3
  <2> QED
    BY <2>2, <2>3
<1>5. ASSUME NEW r \in Runs, NEW outcome \in {"verified", "blocked", "failed"},
             NEW usage \in Usage, Settle(r, outcome, usage)
      PROVE  ReservationsAreOwed' /\ UncertaintyAgrees'
  <2>1. state[r] \in Active /\ state'[r] \notin Active
    BY <1>5 DEF Settle, SettledState, Active, TypeOK
  <2>2. \A q \in Runs \ {r} : state'[q] = state[q]
    BY <1>5 DEF Settle, TypeOK
  <2> QED
    BY <1>4, <1>5, <2>1, <2>2 DEF Settle
<1>6. ASSUME NEW r \in Runs, NEW usage \in Usage, CheckpointPaused(r, usage)
      PROVE  ReservationsAreOwed' /\ UncertaintyAgrees'
  <2>1. state[r] \in Active /\ state'[r] \notin Active
    BY <1>6 DEF CheckpointPaused, Active, TypeOK
  <2>2. \A q \in Runs \ {r} : state'[q] = state[q]
    BY <1>6 DEF CheckpointPaused, TypeOK
  <2> QED
    BY <1>4, <1>6, <2>1, <2>2 DEF CheckpointPaused
<1> QED
  BY <1>1, <1>2, <1>3, <1>5, <1>6, TokenMoves

(* Hence reservations are owed, and uncertainty agrees, in every reachable *)
(* state.                                                                  *)
LEMMA OwedInvariant == Spec => []OwedInv
<1>1. Init => OwedInv
  BY DEF Init, NoBudget, OwedInv, ReservationsAreOwed, UncertaintyAgrees, Active
<1>2. TypeOK /\ OwedInv /\ [Next]_vars => OwedInv'
  BY NextOwed
<1> QED
  BY <1>1, <1>2, TypeInvariant, PTL DEF Spec

(* Tokens stay reserved only where they are owed: no order of pauses,      *)
(* disables, cancellations and restarts leaks a reservation.               *)
THEOREM OwedReservations == Spec => []ReservationsAreOwed
<1>1. OwedInv => ReservationsAreOwed
  BY DEF OwedInv
<1> QED
  BY <1>1, OwedInvariant, PTL

----------------------------------------------------------------------------
(* The deployment budget implements the abstract token ledger.             *)

(* The budget starts as an empty ledger.                                   *)
LEMMA LedgerInit == Init => Ledger!Init
BY DEF Init, NoBudget, Ledger!Init

(* Every step of the aggregate is a step of the ledger or leaves it alone. *)
LEMMA LedgerStep ==
    ASSUME TypeOK, OwedInv, [Next]_vars
    PROVE  [Ledger!Next]_(Ledger!ledgerVars)
<1> USE DEF Ledger!Next, Ledger!ledgerVars, Ledger!Reserve, Ledger!Settle, Ledger!Freeze
<1>1. CASE UNCHANGED <<ledger, budget>>
  BY <1>1
<1>2. ASSUME NEW tokens \in Nat \ {0}, ~budget.uncertain, CanReserve(tokens),
             budget' = BudgetReserving(tokens)
      PROVE  Ledger!Reserve
  BY <1>2 DEF CanReserve, BudgetReserving, TypeOK
<1>3. ASSUME NEW r \in Runs, Claim(r) PROVE Ledger!Reserve
  BY <1>2, <1>3, TokenAssumption DEF Claim
<1>4. ASSUME NEW r \in Runs, ResumeActiveCommit(r) PROVE Ledger!Reserve
  <2>1. ContinuationReservation(r) \in Nat \ {0}
    BY <1>4, ContinuationFits DEF ResumeActiveCommit, ResumeFacts
  <2> QED
    BY <1>2, <1>4, <2>1 DEF ResumeActiveCommit, ResumePermitted
<1>5. ASSUME NEW r \in Runs, NEW usage \in Usage, state[r] \in Active,
             budget' = BudgetAfter(r, usage)
      PROVE  Ledger!Settle \/ Ledger!Freeze
  <2>1. ledger[r].reserved \in Nat /\ ledger[r].reserved > 0
    BY <1>5 DEF OwedInv, ReservationsAreOwed, TypeOK
  <2>2. CASE UsageKnown(r, usage)
    <3>1. usage.tokens \in Nat /\ usage.tokens <= ledger[r].reserved
      BY <2>2, TokenAssumption DEF Usage, UsageKnown
    <3>2. budget' = [reserved |-> budget.reserved - ledger[r].reserved,
                     settled |-> budget.settled + usage.tokens, uncertain |-> budget.uncertain]
      BY <1>5, <2>2 DEF BudgetAfter
    <3> QED
      BY <2>1, <3>1, <3>2 DEF TypeOK
  <2>3. CASE ~UsageKnown(r, usage)
    BY <1>5, <2>3 DEF BudgetAfter, TypeOK
  <2> QED
    BY <2>2, <2>3
<1>6. ASSUME NEW r \in Runs, NEW outcome \in {"verified", "blocked", "failed"},
             NEW usage \in Usage, Settle(r, outcome, usage)
      PROVE  Ledger!Settle \/ Ledger!Freeze
  BY <1>5, <1>6 DEF Settle, Active
<1>7. ASSUME NEW r \in Runs, NEW usage \in Usage, CheckpointPaused(r, usage)
      PROVE  Ledger!Settle \/ Ledger!Freeze
  BY <1>5, <1>7 DEF CheckpointPaused, Active
<1> QED
  BY <1>1, <1>3, <1>4, <1>6, <1>7, TokenMoves

(* The deployment budget is an abstract token ledger, for any runs, limits *)
(* and usage reports: nothing is spent that was not reserved first, and    *)
(* uncertain usage freezes reservations for good.                          *)
THEOREM TokenLedgerRefinement == Spec => ImplementsTokenLedger
<1>1. Init => Ledger!Init
  BY LedgerInit
<1>2. TypeOK /\ OwedInv /\ [Next]_vars => [Ledger!Next]_(Ledger!ledgerVars)
  BY LedgerStep
<1> QED
  BY <1>1, <1>2, TypeInvariant, OwedInvariant, PTL DEF Spec, ImplementsTokenLedger, Ledger!Spec

----------------------------------------------------------------------------
(* Starting work.                                                          *)

(* Only a claim and an active resumption put a run into execution.         *)
LEMMA OnlyStarts ==
    ASSUME TypeOK, [Next]_vars, NEW r \in Runs, state'[r] = "implementing"
    PROVE  state[r] = "implementing" \/ Claim(r) \/ ResumeActiveCommit(r)
<1> USE DEF Active, TypeOK
<1>1. state[r] \notin Active => Claim(r) \/ ResumeActiveCommit(r)
  <2>1. ASSUME NEW outcome \in {"verified", "blocked", "failed"}, NEW usage \in Usage,
               Settle(r, outcome, usage)
        PROVE  FALSE
    BY <2>1 DEF Settle, SettledState
  <2>2. ASSUME NEW usage \in Usage, CheckpointPaused(r, usage)
        PROVE  FALSE
    BY <2>2 DEF CheckpointPaused
  <2> QED
    BY <2>1, <2>2, ActivityMoves
<1>2. state[r] # "pausing"
  <2> SUFFICES ASSUME state[r] = "pausing" PROVE FALSE
    OBVIOUS
  <2>1. CASE UNCHANGED state
    BY <2>1
  <2>2. CASE CommitPauseAll
    BY <2>2 DEF CommitPauseAll, PausedByAll
  <2>3. ASSUME NEW seen \in SUBSET Runs, Reconcile(seen) PROVE FALSE
    BY <2>3 DEF Reconcile, Admitted, Fresh
  <2>4. ASSUME NEW q \in Runs, Claim(q) PROVE FALSE
    BY <2>4 DEF Claim, StillHead, IsQueueHead, Queued
  <2>5. ASSUME NEW q \in Runs, ResumeActiveCommit(q) PROVE FALSE
    BY <2>5 DEF ResumeActiveCommit, ResumeFacts
  <2>6. ASSUME NEW q \in Runs, NEW outcome \in {"verified", "blocked", "failed"},
               NEW usage \in Usage, Settle(q, outcome, usage)
        PROVE  FALSE
    BY <2>6 DEF Settle, SettledState
  <2>7. ASSUME NEW q \in Runs, NEW usage \in Usage, CheckpointPaused(q, usage) PROVE FALSE
    BY <2>7 DEF CheckpointPaused
  <2>8. ASSUME NEW q \in Runs,
               RequestRunPause(q) \/ HoldQueued(q) \/ CancelRun(q) \/ ResumeQueuedCommit(q)
        PROVE  FALSE
    BY <2>8 DEF RequestRunPause, HoldQueued, CancelRun, ResumeQueuedCommit
  <2>9. ASSUME NEW q \in Runs, CompletePublication(q) PROVE FALSE
    BY <2>9 DEF CompletePublication
  <2>10. ASSUME NEW q \in Runs, NEW status \in {"uncertain", "retryable", "failed"},
                FailPublication(q, status)
         PROVE  FALSE
    BY <2>10 DEF FailPublication
  <2> QED
    BY <2>1, <2>2, <2>3, <2>4, <2>5, <2>6, <2>7, <2>8, <2>9, <2>10, StateMoves
<1> QED
  BY <1>1, <1>2

(* While usage is uncertain, or the scheduler is not enabled, nothing      *)
(* starts and nothing more is reserved.                                    *)
THEOREM GatedStarts == Spec => NoStartWhileGated
<1>1. TypeOK /\ [Next]_vars => [mode # "enabled" \/ budget.uncertain =>
          /\ budget'.reserved <= budget.reserved
          /\ \A r \in Runs : state'[r] = "implementing" => state[r] = "implementing"]_vars
  <2> SUFFICES ASSUME TypeOK, [Next]_vars, mode # "enabled" \/ budget.uncertain
               PROVE  /\ budget'.reserved <= budget.reserved
                      /\ \A r \in Runs : state'[r] = "implementing" => state[r] = "implementing"
    OBVIOUS
  <2>1. \A r \in Runs : ~Claim(r) /\ ~ResumeActiveCommit(r)
    BY DEF Claim, ResumeActiveCommit, ResumePermitted
  <2>2. ASSUME NEW r \in Runs, NEW usage \in Usage, budget' = BudgetAfter(r, usage)
        PROVE  budget'.reserved <= budget.reserved
    BY <2>2 DEF BudgetAfter, TypeOK
  <2>3. budget'.reserved <= budget.reserved
    <3>1. CASE UNCHANGED budget
      BY <3>1 DEF TypeOK
    <3> QED
      BY <2>1, <2>2, <3>1, TokenMoves DEF Settle, CheckpointPaused
  <2>4. \A r \in Runs : state'[r] = "implementing" => state[r] = "implementing"
    BY <2>1, OnlyStarts
  <2> QED
    BY <2>3, <2>4
<1> QED
  BY <1>1, TypeInvariant, PTL DEF Spec, NoStartWhileGated

(* A disabled scheduler has no implementing run, although the change of    *)
(* mode takes no run fence.                                                *)
THEOREM DisabledStops == Spec => []DisabledMeansStopped
<1>1. Init => DisabledMeansStopped
  BY DEF Init, DisabledMeansStopped
<1>2. TypeOK /\ DisabledMeansStopped /\ [Next]_vars => DisabledMeansStopped'
  <2> SUFFICES ASSUME TypeOK, DisabledMeansStopped, [Next]_vars, mode' = "disabled",
                      NEW r \in Runs, state'[r] = "implementing"
               PROVE  FALSE
    BY DEF DisabledMeansStopped
  <2>1. mode' # mode => CommitPauseAll \/ \E m \in Modes : SetSchedulerMode(m)
    BY SchedulerStays
       DEF Next, vars, schedulerVars, Reconcile, PrepareClaim, LeaveLane, BeginPauseAll,
           WithdrawDispatcher, MountDispatcher, Restart
  <2>2. CASE mode = "disabled"
    <3>1. state[r] # "implementing"
      BY <2>2 DEF DisabledMeansStopped
    <3>2. ~Claim(r) /\ ~ResumeActiveCommit(r)
      BY <2>2 DEF Claim, ResumeActiveCommit, ResumePermitted
    <3> QED
      BY <3>1, <3>2, OnlyStarts
  <2>3. CASE CommitPauseAll
    BY <2>3 DEF CommitPauseAll, PausedByAll, TypeOK
  <2>4. ASSUME NEW m \in Modes, SetSchedulerMode(m), mode # "disabled" PROVE FALSE
    BY <2>4 DEF SetSchedulerMode, ModeChangeAllowed, runVars
  <2> QED
    BY <2>1, <2>2, <2>3, <2>4
<1> QED
  BY <1>1, <1>2, TypeInvariant, PTL DEF Spec

----------------------------------------------------------------------------
(* Operator holds.                                                         *)

(* A held run is stopped, so pausing every implementing run at once lifts  *)
(* no hold; and whoever resumes an active run is known.                    *)
HoldInv ==
    /\ \A r \in Runs : state[r] \in {"absent", "queued", "implementing"} => ~hold[r]
    /\ lane.op \in {"prepare", "resume"} => lane.by \in {"operator", "scheduler"}

(* What moves a run into one of these states, and what moves its hold.     *)
LEMMA HoldMoves ==
    ASSUME [Next]_vars
    PROVE  \/ UNCHANGED hold
           \/ CommitPauseAll
           \/ \E q \in Runs : \/ RequestRunPause(q) \/ HoldQueued(q)
                              \/ ResumeQueuedCommit(q) \/ ResumeActiveCommit(q)
BY DEF Next, RunStep, vars, runVars, schedulerVars, processVars, Reconcile, PrepareClaim,
       SelectHead, Claim, ClaimAgain, LeaveLane, RecordWorktree, Settle, CheckpointPaused,
       LoseOwner, BeginPauseAll, WithdrawDispatcher, MountDispatcher, SetSchedulerMode,
       CancelRun, ResumeQueuedRead, ResumeQueuedReject, PrepareResume,
       RequireActiveRecovery, ResumeActiveRead, ClaimPublication, CompletePublication,
       FailPublication, Restart

(* Who resumes an active run is decided when its resumption is prepared.   *)
LEMMA LaneMoves ==
    ASSUME TypeOK, [Next]_vars, lane'.op \in {"prepare", "resume"}
    PROVE  \/ UNCHANGED lane
           \/ lane.op = "prepare" /\ lane'.by = lane.by
           \/ lane'.by \in {"operator", "scheduler"}
<1>1. \/ UNCHANGED lane
      \/ lane' = Idle
      \/ PrepareClaim
      \/ \E r \in Runs :
           \/ SelectHead(r) \/ ClaimAgain(r) \/ ResumeActiveRead(r) \/ ClaimPublication(r)
           \/ \E by \in {"operator", "scheduler"} : PrepareResume(r, by)
  <2>1. ASSUME NEW r \in Runs, RunStep(r)
        PROVE  \/ UNCHANGED lane
               \/ lane' = Idle
               \/ SelectHead(r) \/ ClaimAgain(r) \/ ResumeActiveRead(r) \/ ClaimPublication(r)
               \/ \E by \in {"operator", "scheduler"} : PrepareResume(r, by)
    BY <2>1 DEF RunStep, processVars, Claim, RecordWorktree, Settle, CheckpointPaused,
                LoseOwner, RequestRunPause, HoldQueued, CancelRun, ResumeQueuedRead,
                ResumeQueuedCommit, ResumeQueuedReject, RequireActiveRecovery,
                ResumeActiveCommit, CompletePublication, FailPublication
  <2>2. CASE ~\E r \in Runs : RunStep(r)
    BY <2>2 DEF Next, vars, processVars, Reconcile, LeaveLane, BeginPauseAll, CommitPauseAll,
                WithdrawDispatcher, MountDispatcher, SetSchedulerMode, Restart
  <2> QED
    BY <2>1, <2>2
<1> USE DEF TypeOK
<1>2. lane' # Idle
  BY DEF Idle
<1>3. ~PrepareClaim
  BY DEF PrepareClaim
<1>4. ASSUME NEW r \in Runs, SelectHead(r) \/ ClaimAgain(r) PROVE FALSE
  BY <1>4 DEF SelectHead, ClaimAgain
<1>5. ASSUME NEW r \in Runs, ClaimPublication(r) PROVE FALSE
  BY <1>5 DEF ClaimPublication
<1>6. ASSUME NEW r \in Runs, ResumeActiveRead(r)
      PROVE  lane.op = "prepare" /\ lane'.by = lane.by
  BY <1>6 DEF ResumeActiveRead
<1>7. ASSUME NEW r \in Runs, NEW by \in {"operator", "scheduler"}, PrepareResume(r, by)
      PROVE  lane'.by \in {"operator", "scheduler"}
  BY <1>7 DEF PrepareResume
<1> QED
  BY <1>1, <1>2, <1>3, <1>4, <1>5, <1>6, <1>7

(* No step leaves a queued or implementing run with a hold.                *)
LEMMA NextHold == TypeOK /\ HoldInv /\ [Next]_vars => HoldInv'
<1> SUFFICES ASSUME TypeOK, HoldInv, [Next]_vars PROVE HoldInv'
  OBVIOUS
<1>1. lane'.op \in {"prepare", "resume"} => lane'.by \in {"operator", "scheduler"}
  BY LaneMoves DEF HoldInv
<1>2. ASSUME NEW r \in Runs, state'[r] \in {"absent", "queued", "implementing"}, hold'[r]
      PROVE  FALSE
  <2> USE DEF TypeOK, HoldInv
  <2>1. CASE CommitPauseAll
    BY <1>2, <2>1 DEF CommitPauseAll, PausedByAll
  <2>2. ASSUME NEW q \in Runs,
               \/ RequestRunPause(q) \/ HoldQueued(q)
               \/ ResumeQueuedCommit(q) \/ ResumeActiveCommit(q)
        PROVE  FALSE
    <3>1. q # r => state'[r] = state[r] /\ hold'[r] = hold[r]
      BY <2>2 DEF RequestRunPause, HoldQueued, ResumeQueuedCommit, ResumeActiveCommit
    <3>2. CASE q = r
      BY <1>2, <2>2, <3>2 DEF RequestRunPause, HoldQueued, ResumeQueuedCommit,
                              ResumeActiveCommit, Active
    <3> QED
      BY <1>2, <3>1, <3>2
  <2>3. CASE UNCHANGED hold
    <3>1. state[r] \notin {"absent", "queued", "implementing"}
      BY <1>2, <2>3
    <3>2. CASE UNCHANGED state
      BY <1>2, <3>1, <3>2
    <3>3. ASSUME NEW seen \in SUBSET Runs, Reconcile(seen) PROVE FALSE
      BY <1>2, <3>1, <3>3 DEF Reconcile, Admitted, Fresh
    <3>4. ASSUME NEW q \in Runs, Claim(q) PROVE FALSE
      BY <1>2, <3>1, <3>4 DEF Claim, StillHead, IsQueueHead, Queued
    <3>5. ASSUME NEW q \in Runs, NEW outcome \in {"verified", "blocked", "failed"},
                 NEW usage \in Usage, Settle(q, outcome, usage)
          PROVE  FALSE
      BY <1>2, <3>1, <3>5 DEF Settle, SettledState
    <3>6. ASSUME NEW q \in Runs, NEW usage \in Usage, CheckpointPaused(q, usage) PROVE FALSE
      BY <1>2, <3>1, <3>6 DEF CheckpointPaused
    <3>7. ASSUME NEW q \in Runs, CancelRun(q) PROVE FALSE
      BY <1>2, <3>1, <3>7 DEF CancelRun
    <3>8. ASSUME NEW q \in Runs, CompletePublication(q) PROVE FALSE
      BY <1>2, <3>1, <3>8 DEF CompletePublication
    <3>9. ASSUME NEW q \in Runs, NEW status \in {"uncertain", "retryable", "failed"},
                 FailPublication(q, status)
          PROVE  FALSE
      BY <1>2, <3>1, <3>9 DEF FailPublication
    <3> QED
      BY <2>1, <2>2, <3>2, <3>3, <3>4, <3>5, <3>6, <3>7, <3>8, <3>9, StateMoves
  <2> QED
    BY <2>1, <2>2, <2>3, HoldMoves
<1> QED
  BY <1>1, <1>2 DEF HoldInv

(* Hence a held run is stopped in every reachable state.                   *)
LEMMA HoldInvariant == Spec => []HoldInv
<1>1. Init => HoldInv
  BY DEF Init, HoldInv, Idle
<1>2. TypeOK /\ HoldInv /\ [Next]_vars => HoldInv'
  BY NextHold
<1> QED
  BY <1>1, <1>2, TypeInvariant, PTL DEF Spec

(* Only an operator's resumption lifts an operator hold.                   *)
THEOREM OperatorHolds == Spec => HoldIsOperators
<1>1. TypeOK /\ HoldInv /\ [Next]_vars =>
        [\A r \in Runs : hold[r] /\ ~hold'[r] =>
            \/ r \in resuming
            \/ lane.op = "resume" /\ lane.run = r /\ lane.by = "operator"]_vars
  <2> SUFFICES ASSUME TypeOK, HoldInv, [Next]_vars, NEW r \in Runs, hold[r], ~hold'[r]
               PROVE  \/ r \in resuming
                      \/ lane.op = "resume" /\ lane.run = r /\ lane.by = "operator"
    OBVIOUS
  <2>1. CASE CommitPauseAll
    BY <2>1 DEF CommitPauseAll, PausedByAll, HoldInv, TypeOK
  <2>2. ASSUME NEW q \in Runs, RequestRunPause(q) \/ HoldQueued(q) PROVE FALSE
    <3>1. hold' = [hold EXCEPT ![q] = TRUE] /\ hold \in [Runs -> BOOLEAN]
      BY <2>2 DEF RequestRunPause, HoldQueued, TypeOK
    <3> QED
      BY <3>1
  <2>3. ASSUME NEW q \in Runs, ResumeQueuedCommit(q) PROVE r \in resuming
    BY <2>3 DEF ResumeQueuedCommit, TypeOK
  <2>4. ASSUME NEW q \in Runs, ResumeActiveCommit(q)
        PROVE  lane.op = "resume" /\ lane.run = r /\ lane.by = "operator"
    <3>1. q = r
      BY <2>4 DEF ResumeActiveCommit, TypeOK
    <3> QED
      BY <2>4, <3>1 DEF ResumeActiveCommit, ResumeFacts, HoldInv
  <2> QED
    BY <2>1, <2>2, <2>3, <2>4, HoldMoves
<1> QED
  BY <1>1, TypeInvariant, HoldInvariant, PTL DEF Spec, HoldIsOperators

----------------------------------------------------------------------------
(* Queue order.                                                            *)

(* An issue that goes first has the lower position among fresh ones.       *)
LEMMA FreshPositionsOrdered ==
    ASSUME NEW seen \in SUBSET Runs, NEW q \in Fresh(seen), NEW r \in Fresh(seen),
           Priority[q] < Priority[r] \/ (Priority[q] = Priority[r] /\ q < r)
    PROVE  FreshPosition(q, seen) < FreshPosition(r, seen)
<1> DEFINE P(x) == {y \in Fresh(seen) :
        Priority[y] < Priority[x] \/ (Priority[y] = Priority[x] /\ y < x)}
<1>1. \A x \in Runs : P(x) \subseteq Runs /\ IsFiniteSet(P(x))
  BY RunsAssumption, FS_Subset DEF Fresh
<1>2. q \in Runs /\ r \in Runs
  BY DEF Fresh
<1>3. \A x \in Runs : x \in Nat /\ Priority[x] \in Nat
  BY RunsAssumption, PriorityAssumption
<1>4. P(q) \subseteq P(r) /\ q \in P(r) /\ q \notin P(q)
  BY <1>2, <1>3 DEF Fresh
<1>5. Cardinality(P(q)) <= Cardinality(P(r)) /\ Cardinality(P(q)) # Cardinality(P(r))
  BY <1>1, <1>2, <1>4, FS_Subset
<1>6. Cardinality(P(q)) \in Nat /\ Cardinality(P(r)) \in Nat
  BY <1>1, <1>2, FS_CardinalityType
<1>7. FreshPosition(q, seen) = Cardinality(P(q)) /\ FreshPosition(r, seen) = Cardinality(P(r))
  BY DEF FreshPosition
<1> HIDE DEF P
<1> QED
  BY <1>5, <1>6, <1>7

(* Admitted issues take the first positions, with no gap between them.     *)
LEMMA FreshPositionBelow ==
    ASSUME NEW seen \in SUBSET Runs, NEW r \in Admitted(seen)
    PROVE  FreshPosition(r, seen) < Cardinality(Admitted(seen))
<1> DEFINE P == {q \in Fresh(seen) :
        Priority[q] < Priority[r] \/ (Priority[q] = Priority[r] /\ q < r)}
<1>1. r \in Fresh(seen) /\ Fresh(seen) \subseteq Runs /\ Admitted(seen) \subseteq Runs
  BY DEF Admitted, Fresh
<1>2. OccupiesQueueCapacity \subseteq Runs
  BY DEF OccupiesQueueCapacity
<1>3. Cardinality(OccupiesQueueCapacity) \in Nat /\ MaxQueued \in Nat
  BY <1>2, RunsAssumption, FS_Subset, FS_CardinalityType, LimitAssumption
<1>4. \A q \in P : FreshPosition(q, seen) < FreshPosition(r, seen)
  BY <1>1, FreshPositionsOrdered
<1>5. \A q \in Runs : FreshPosition(q, seen) \in Nat
  BY FreshPositionNat
<1>6. Cardinality(OccupiesQueueCapacity) + FreshPosition(r, seen) < MaxQueued
  BY DEF Admitted
<1>7. P \subseteq Admitted(seen)
  <2> SUFFICES ASSUME NEW q \in P
               PROVE  Cardinality(OccupiesQueueCapacity) + FreshPosition(q, seen) < MaxQueued
    BY DEF Admitted
  <2>1. q \in Runs
    BY <1>1
  <2> QED
    BY <2>1, <1>1, <1>3, <1>4, <1>5, <1>6
<1>8. r \notin P
  <2>1. r \in Nat /\ Priority[r] \in Nat
    BY <1>1, RunsAssumption, PriorityAssumption
  <2> QED
    BY <2>1
<1>9. IsFiniteSet(Admitted(seen)) /\ IsFiniteSet(P)
  BY <1>1, <1>7, RunsAssumption, FS_Subset
<1>10. Cardinality(P) <= Cardinality(Admitted(seen)) /\ Cardinality(P) # Cardinality(Admitted(seen))
  BY <1>7, <1>8, <1>9, FS_Subset
<1>11. Cardinality(P) \in Nat /\ Cardinality(Admitted(seen)) \in Nat
  BY <1>9, FS_CardinalityType
<1>12. FreshPosition(r, seen) = Cardinality(P)
  BY DEF FreshPosition
<1> HIDE DEF P
<1> QED
  BY <1>10, <1>11, <1>12

(* Sequences are issued once and in order.                                 *)
SequenceInv ==
    /\ \A r \in Existing : queue[r].sequence < nextSequence
    /\ \A q, r \in Existing : queue[q].sequence = queue[r].sequence => q = r

(* A run's place in the queue is written by these actions only.            *)
LEMMA QueueMoves ==
    ASSUME [Next]_vars
    PROVE  \/ UNCHANGED queue
           \/ \E seen \in SUBSET Runs : Reconcile(seen)
           \/ \E q \in Runs : HoldQueued(q) \/ ResumeQueuedCommit(q) \/ ResumeActiveCommit(q)
<1>1. ASSUME NEW r \in Runs, Claim(r) PROVE UNCHANGED queue
  BY <1>1 DEF Claim
<1>2. ASSUME NEW r \in Runs, NEW usage \in Usage, CheckpointPaused(r, usage)
      PROVE  UNCHANGED queue
  BY <1>2 DEF CheckpointPaused
<1>3. ASSUME NEW r \in Runs, NEW outcome \in {"verified", "blocked", "failed"},
             NEW usage \in Usage, Settle(r, outcome, usage)
      PROVE  UNCHANGED queue
  BY <1>3 DEF Settle
<1>4. ASSUME NEW r \in Runs, RunStep(r)
      PROVE  UNCHANGED queue \/ HoldQueued(r) \/ ResumeQueuedCommit(r) \/ ResumeActiveCommit(r)
  BY <1>1, <1>2, <1>3, <1>4
     DEF RunStep, runVars, SelectHead, ClaimAgain, RecordWorktree, LoseOwner, RequestRunPause,
         CancelRun, ResumeQueuedRead, ResumeQueuedReject, PrepareResume,
         RequireActiveRecovery, ResumeActiveRead, ClaimPublication, CompletePublication,
         FailPublication
<1>5. CASE ~\E r \in Runs : RunStep(r)
  BY <1>5 DEF Next, vars, runVars, PrepareClaim, LeaveLane, BeginPauseAll, CommitPauseAll,
              WithdrawDispatcher, MountDispatcher, SetSchedulerMode, Restart
<1> QED
  BY <1>4, <1>5

(* Only a reconciliation creates runs and issues sequences.                *)
LEMMA SequenceMoves ==
    ASSUME TypeOK, [Next]_vars, ~\E seen \in SUBSET Runs : Reconcile(seen)
    PROVE  /\ nextSequence' = nextSequence
           /\ \A r \in Runs : queue'[r].sequence = queue[r].sequence
           /\ \A r \in Runs : state'[r] # "absent" => state[r] # "absent"
<1>1. nextSequence' = nextSequence
  BY SchedulerStays
     DEF Next, vars, schedulerVars, PrepareClaim, LeaveLane, BeginPauseAll, CommitPauseAll,
         WithdrawDispatcher, MountDispatcher, SetSchedulerMode, Restart
<1>2. ASSUME NEW r \in Runs PROVE queue'[r].sequence = queue[r].sequence
  <2>2. ASSUME NEW q \in Runs,
               HoldQueued(q) \/ ResumeQueuedCommit(q) \/ ResumeActiveCommit(q)
        PROVE  queue' = [queue EXCEPT ![q].class = "resumption"]
    BY <2>2 DEF HoldQueued, ResumeQueuedCommit, ResumeActiveCommit
  <2>3. ASSUME NEW q \in Runs, queue' = [queue EXCEPT ![q].class = "resumption"]
        PROVE  queue'[r].sequence = queue[r].sequence
    BY <2>3 DEF TypeOK
  <2> QED
    BY <2>2, <2>3, QueueMoves
<1>3. ASSUME NEW r \in Runs, state'[r] # "absent", state[r] = "absent" PROVE FALSE
  <2> USE DEF TypeOK
  <2>1. CASE UNCHANGED state
    BY <1>3, <2>1
  <2>2. CASE CommitPauseAll
    BY <1>3, <2>2 DEF CommitPauseAll, PausedByAll
  <2>3. ASSUME NEW q \in Runs, Claim(q) PROVE FALSE
    BY <1>3, <2>3 DEF Claim, StillHead, IsQueueHead, Queued
  <2>4. ASSUME NEW q \in Runs, ResumeActiveCommit(q) PROVE FALSE
    BY <1>3, <2>4 DEF ResumeActiveCommit, ResumeFacts
  <2>5. ASSUME NEW q \in Runs, NEW outcome \in {"verified", "blocked", "failed"},
               NEW usage \in Usage, Settle(q, outcome, usage)
        PROVE  FALSE
    BY <1>3, <2>5 DEF Settle
  <2>6. ASSUME NEW q \in Runs, NEW usage \in Usage, CheckpointPaused(q, usage) PROVE FALSE
    BY <1>3, <2>6 DEF CheckpointPaused
  <2>7. ASSUME NEW q \in Runs,
               RequestRunPause(q) \/ HoldQueued(q) \/ CancelRun(q) \/ ResumeQueuedCommit(q)
        PROVE  FALSE
    BY <1>3, <2>7 DEF RequestRunPause, Active, HoldQueued, CancelRun, Cancellable,
                      ResumeQueuedCommit
  <2>8. ASSUME NEW q \in Runs, CompletePublication(q) PROVE FALSE
    BY <1>3, <2>8 DEF CompletePublication, OwnsPublication
  <2>9. ASSUME NEW q \in Runs, NEW status \in {"uncertain", "retryable", "failed"},
               FailPublication(q, status)
        PROVE  FALSE
    BY <1>3, <2>9 DEF FailPublication, OwnsPublication
  <2> QED
    BY <2>1, <2>2, <2>3, <2>4, <2>5, <2>6, <2>7, <2>8, <2>9, StateMoves
<1> QED
  BY <1>1, <1>2, <1>3

(* Only a reconciliation issues sequences, each once and above all older   *)
(* ones.                                                                   *)
LEMMA NextSequenceInv == TypeOK /\ SequenceInv /\ [Next]_vars => SequenceInv'
<1> SUFFICES ASSUME TypeOK, SequenceInv, [Next]_vars PROVE SequenceInv'
  OBVIOUS
<1>1. ASSUME NEW seen \in SUBSET Runs, Reconcile(seen) PROVE SequenceInv'
  <2> DEFINE A == Admitted(seen)
             c == Cardinality(A)
             pos(r) == FreshPosition(r, seen)
  <2>1. c \in Nat /\ \A r \in Runs : pos(r) \in Nat
    BY AdmittedNat, FreshPositionNat
  <2>2. \A r \in A : r \in Runs /\ r \in Fresh(seen) /\ state[r] = "absent" /\ pos(r) < c
    BY FreshPositionBelow DEF Admitted, Fresh
  <2>3. \A q, r \in A : pos(q) = pos(r) => q = r
    <3> SUFFICES ASSUME NEW q \in A, NEW r \in A, q # r PROVE pos(q) # pos(r)
      OBVIOUS
    <3>1. q \in Runs /\ r \in Runs /\ q \in Fresh(seen) /\ r \in Fresh(seen)
      BY <2>2
    <3>2. q \in Nat /\ r \in Nat /\ Priority[q] \in Nat /\ Priority[r] \in Nat
      BY <3>1, RunsAssumption, PriorityAssumption
    <3>3. CASE Priority[q] < Priority[r] \/ (Priority[q] = Priority[r] /\ q < r)
      <4>1. pos(q) < pos(r)
        BY <3>1, <3>3, FreshPositionsOrdered
      <4> QED
        BY <2>1, <3>1, <4>1
    <3>4. CASE Priority[r] < Priority[q] \/ (Priority[r] = Priority[q] /\ r < q)
      <4>1. pos(r) < pos(q)
        BY <3>1, <3>4, FreshPositionsOrdered
      <4> QED
        BY <2>1, <3>1, <4>1
    <3> QED
      BY <3>2, <3>3, <3>4
  <2>4. nextSequence' = nextSequence + c
    BY <1>1 DEF Reconcile
  <2>5. \A r \in Runs :
            /\ r \in A => queue'[r].sequence = nextSequence + pos(r)
            /\ r \notin A => queue'[r].sequence = queue[r].sequence /\ state'[r] = state[r]
    BY <1>1 DEF Reconcile
  <2>6. nextSequence \in Nat /\ \A r \in Runs : queue[r].sequence \in Nat
    BY DEF TypeOK
  <2>7. \A r \in Runs : r \in Existing' /\ r \notin A => r \in Existing
    BY <2>5 DEF Existing
  <2> HIDE DEF A, c, pos
  <2>8. \A r \in Existing' : queue'[r].sequence < nextSequence'
    BY <2>1, <2>2, <2>4, <2>5, <2>6, <2>7 DEF SequenceInv, Existing
  <2>9. ASSUME NEW q \in Existing', NEW r \in Existing', queue'[q].sequence = queue'[r].sequence
        PROVE  q = r
    <3>1. q \in Runs /\ r \in Runs
      BY DEF Existing
    <3>2. CASE q \in A /\ r \in A
      BY <2>1, <2>3, <2>5, <2>6, <2>9, <3>1, <3>2
    <3>3. CASE q \notin A /\ r \notin A
      BY <2>5, <2>7, <2>9, <3>1, <3>3 DEF SequenceInv
    <3>4. CASE q \in A /\ r \notin A
      <4>1. queue[r].sequence < nextSequence
        BY <2>7, <3>1, <3>4 DEF SequenceInv
      <4> QED
        BY <2>1, <2>5, <2>6, <2>9, <3>1, <3>4, <4>1
    <3>5. CASE q \notin A /\ r \in A
      <4>1. queue[q].sequence < nextSequence
        BY <2>7, <3>1, <3>5 DEF SequenceInv
      <4> QED
        BY <2>1, <2>5, <2>6, <2>9, <3>1, <3>5, <4>1
    <3> QED
      BY <3>2, <3>3, <3>4, <3>5
  <2> QED
    BY <2>8, <2>9 DEF SequenceInv
<1>2. CASE ~\E seen \in SUBSET Runs : Reconcile(seen)
  <2>1. Existing' \subseteq Existing /\ Existing' \subseteq Runs
    BY <1>2, SequenceMoves DEF Existing
  <2> QED
    BY <1>2, <2>1, SequenceMoves DEF SequenceInv
<1> QED
  BY <1>1, <1>2

(* Hence sequences are distinct in every reachable state.                  *)
LEMMA SequenceInvariant == Spec => []SequenceInv
<1>1. Init => SequenceInv
  BY DEF Init, NoBudget, SequenceInv, Existing
<1>2. TypeOK /\ SequenceInv /\ [Next]_vars => SequenceInv'
  BY NextSequenceInv
<1> QED
  BY <1>1, <1>2, TypeInvariant, PTL DEF Spec

(* Nobody is overtaken, however many reconciliations, holds, resumptions   *)
(* and claims interleave.                                                  *)
THEOREM QueueOrder == Spec => NoOvertaking
<1>1. TypeOK /\ SequenceInv /\ [Next]_vars =>
        [\A q, r \in Runs : q # r /\ state[q] = "queued" /\ state'[q] = "queued" =>
            /\ state[r] = "queued" /\ state'[r] = "implementing" => ~QueuedBefore(q, r)
            /\ state[r] = "absent" /\ state'[r] = "queued" /\ Priority[q] <= Priority[r]
                  => QueuedBefore(q, r)'
            /\ state[r] = "queued" /\ state'[r] = "queued" /\ QueuedBefore(q, r)
                  => QueuedBefore(q, r)']_vars
  <2> SUFFICES ASSUME TypeOK, SequenceInv, [Next]_vars, NEW q \in Runs, NEW r \in Runs,
                      q # r, state[q] = "queued", state'[q] = "queued"
               PROVE  /\ state[r] = "queued" /\ state'[r] = "implementing"
                            => ~QueuedBefore(q, r)
                      /\ state[r] = "absent" /\ state'[r] = "queued" /\ Priority[q] <= Priority[r]
                            => QueuedBefore(q, r)'
                      /\ state[r] = "queued" /\ state'[r] = "queued" /\ QueuedBefore(q, r)
                            => QueuedBefore(q, r)'
    OBVIOUS
  <2> USE DEF TypeOK
  <2>1. ASSUME state[r] = "queued", state'[r] = "implementing" PROVE ~QueuedBefore(q, r)
    <3>1. IsQueueHead(r)
      BY <2>1, OnlyStarts DEF Claim, StillHead, ResumeActiveCommit, ResumeFacts
    <3>2. q \in Queued /\ Priority[q] \in Nat /\ Priority[r] \in Nat
      BY PriorityAssumption DEF Queued
    <3>3. QueuedBefore(r, q)
      BY <3>1, <3>2 DEF IsQueueHead
    <3> QED
      BY <3>2, <3>3 DEF QueuedBefore, RunFactsBefore
  <2>2. ASSUME state[r] = "absent", state'[r] = "queued", Priority[q] <= Priority[r]
        PROVE  QueuedBefore(q, r)'
    <3>1. PICK seen \in SUBSET Runs : Reconcile(seen)
      BY <2>2, SequenceMoves
    <3>2. r \in Admitted(seen) /\ q \notin Admitted(seen)
      BY <2>2, <3>1 DEF Reconcile, Admitted, Fresh
    <3>3. /\ queue'[r] = [class |-> "new", sequence |-> nextSequence + FreshPosition(r, seen)]
          /\ queue'[q] = queue[q]
      BY <3>1, <3>2 DEF Reconcile
    <3>4. queue[q].sequence < nextSequence /\ FreshPosition(r, seen) \in Nat
      BY FreshPositionNat DEF SequenceInv, Existing
    <3>5. queue'[q].sequence < queue'[r].sequence
      BY <3>3, <3>4
    <3>6. Priority[q] \in Nat /\ Priority[r] \in Nat
      BY PriorityAssumption
    <3>7. RunFactsBefore(q, r)'
      <4>1. \A m, n \in Nat : m <= n => m < n \/ m = n
        OBVIOUS
      <4>2. Priority[q] < Priority[r] \/ Priority[q] = Priority[r]
        BY <2>2, <3>6, <4>1
      <4> QED
        BY <3>5, <4>2 DEF RunFactsBefore
    <3>8. queue'[r].class = "new" /\ queue'[q].class \in {"new", "resumption"}
      BY <3>3
    <3> QED
      BY <3>7, <3>8 DEF QueuedBefore
  <2>3. ASSUME state[r] = "queued", state'[r] = "queued"
        PROVE  queue'[q] = queue[q] /\ queue'[r] = queue[r]
    <3>1. ASSUME NEW x \in Runs, HoldQueued(x) PROVE x # q /\ x # r
      BY <2>3, <3>1 DEF HoldQueued
    <3>2. ASSUME NEW x \in Runs, ResumeQueuedCommit(x) PROVE x # q /\ x # r
      BY <2>3, <3>2 DEF ResumeQueuedCommit
    <3>3. ASSUME NEW x \in Runs, ResumeActiveCommit(x) PROVE x # q /\ x # r
      BY <2>3, <3>3 DEF ResumeActiveCommit, ResumeFacts
    <3>4. ASSUME NEW seen \in SUBSET Runs, Reconcile(seen)
          PROVE  queue'[q] = queue[q] /\ queue'[r] = queue[r]
      BY <2>3, <3>4 DEF Reconcile, Admitted, Fresh
    <3>5. ASSUME NEW x \in Runs, HoldQueued(x) \/ ResumeQueuedCommit(x) \/ ResumeActiveCommit(x)
          PROVE  queue'[q] = queue[q] /\ queue'[r] = queue[r]
      <4>1. x # q /\ x # r
        BY <3>1, <3>2, <3>3, <3>5
      <4>2. queue' = [queue EXCEPT ![x].class = "resumption"]
        BY <3>5 DEF HoldQueued, ResumeQueuedCommit, ResumeActiveCommit
      <4> QED
        BY <4>1, <4>2 DEF TypeOK
    <3> QED
      BY <3>4, <3>5, QueueMoves
  <2>4. ASSUME state[r] = "queued", state'[r] = "queued", QueuedBefore(q, r)
        PROVE  QueuedBefore(q, r)'
    BY <2>3, <2>4 DEF QueuedBefore, RunFactsBefore
  <2> QED
    BY <2>1, <2>2, <2>4
<1> QED
  BY <1>1, TypeInvariant, SequenceInvariant, PTL DEF Spec, NoOvertaking

----------------------------------------------------------------------------
(* The record of a run.                                                    *)

(* The shape of a run's record in each lifecycle state.                    *)
RunIsRecorded(r) ==
    /\ state[r] # "absent" => queue[r].sequence > 0
    /\ state[r] \in {"absent", "queued", "paused-queued"} =>
          ledger[r] = NoBudget /\ ~execution[r].git
    /\ state[r] = "paused-queued" => queue[r].class = "resumption" /\ hold[r]
    /\ hold[r] => state[r] \in {"paused-queued", "pausing", "paused-active", "cancelled"}
    /\ publication[r].status # "none" => state[r] \in {"publishing", "completed", "failed"}
    /\ state[r] \in {"publishing", "completed"} => publication[r].status # "none"
    /\ state[r] = "completed" => publication[r].status = "succeeded"

(* A live owner executes a run nothing interrupted, and recovery is only   *)
(* required of a run that was executing or parked.                         *)
OwnerIsLive(r) ==
    /\ r \in owners => state[r] \in Active /\ ~execution[r].recovery
    /\ execution[r].recovery => state[r] \in Active \cup {"paused-active", "cancelled"}

RecordInv ==
    /\ nextSequence > 0
    /\ \A r \in Runs : RunIsRecorded(r) /\ OwnerIsLive(r)

(* Everything that is kept about a run.                                    *)
SameRecord(r) ==
    /\ state'[r] = state[r] /\ queue'[r] = queue[r] /\ hold'[r] = hold[r]
    /\ execution'[r] = execution[r] /\ ledger'[r] = ledger[r]
    /\ publication'[r] = publication[r]
    /\ r \in owners' <=> r \in owners

(* A step of one run leaves the record of every other run alone.           *)
LEMMA OtherRuns ==
    ASSUME TypeOK, NEW q \in Runs, RunStep(q), NEW r \in Runs, r # q
    PROVE  SameRecord(r)
<1> USE DEF TypeOK, SameRecord, runVars, schedulerVars, processVars
<1>1. CASE SelectHead(q) \/ ClaimAgain(q) \/ LoseOwner(q)
  BY <1>1 DEF SelectHead, ClaimAgain, LoseOwner
<1>2. CASE Claim(q)
  BY <1>2 DEF Claim
<1>3. CASE RecordWorktree(q)
  BY <1>3 DEF RecordWorktree
<1>4. ASSUME NEW outcome \in {"verified", "blocked", "failed"}, NEW usage \in Usage,
             Settle(q, outcome, usage)
      PROVE  SameRecord(r)
  BY <1>4 DEF Settle
<1>5. ASSUME NEW usage \in Usage, CheckpointPaused(q, usage) PROVE SameRecord(r)
  BY <1>5 DEF CheckpointPaused
<1>6. CASE RequestRunPause(q) \/ HoldQueued(q) \/ CancelRun(q)
  BY <1>6 DEF RequestRunPause, HoldQueued, CancelRun
<1>7. CASE ResumeQueuedRead(q) \/ ResumeQueuedReject(q) \/ ResumeActiveRead(q)
  BY <1>7 DEF ResumeQueuedRead, ResumeQueuedReject, ResumeActiveRead
<1>8. CASE ResumeQueuedCommit(q)
  BY <1>8 DEF ResumeQueuedCommit
<1>9. ASSUME NEW by \in {"operator", "scheduler"}, PrepareResume(q, by) PROVE SameRecord(r)
  BY <1>9 DEF PrepareResume
<1>10. CASE RequireActiveRecovery(q)
  BY <1>10 DEF RequireActiveRecovery
<1>11. CASE ResumeActiveCommit(q)
  BY <1>11 DEF ResumeActiveCommit
<1>12. CASE ClaimPublication(q) \/ CompletePublication(q)
  BY <1>12 DEF ClaimPublication, CompletePublication
<1>13. ASSUME NEW status \in {"uncertain", "retryable", "failed"}, FailPublication(q, status)
       PROVE  SameRecord(r)
  BY <1>13 DEF FailPublication
<1> QED
  BY <1>1, <1>2, <1>3, <1>4, <1>5, <1>6, <1>7, <1>8, <1>9, <1>10, <1>11, <1>12, <1>13
     DEF RunStep

(* What these invariants say of a run depends on its record alone.         *)
LEMMA SameRecordKept ==
    ASSUME NEW r \in Runs, RunIsRecorded(r), OwnerIsLive(r), SameRecord(r)
    PROVE  RunIsRecorded(r)' /\ OwnerIsLive(r)'
BY DEF RunIsRecorded, OwnerIsLive, SameRecord

(* A step of a run keeps the shape of its record.                          *)
LEMMA OwnRecord ==
    ASSUME TypeOK, NEW r \in Runs, RunIsRecorded(r), OwnerIsLive(r), RunStep(r)
    PROVE  RunIsRecorded(r)' /\ OwnerIsLive(r)'
<1> USE DEF TypeOK, runVars, schedulerVars, processVars, RunIsRecorded, OwnerIsLive, Active
<1>1. CASE SelectHead(r) \/ ClaimAgain(r) \/ LoseOwner(r)
  BY <1>1 DEF SelectHead, ClaimAgain, LoseOwner
<1>2. CASE Claim(r)
  BY <1>2 DEF Claim, StillHead, IsQueueHead, Queued
<1>3. CASE RecordWorktree(r)
  BY <1>3 DEF RecordWorktree
<1>4. ASSUME NEW outcome \in {"verified", "blocked", "failed"}, NEW usage \in Usage,
             Settle(r, outcome, usage)
      PROVE  RunIsRecorded(r)' /\ OwnerIsLive(r)'
  <2>1. state'[r] = SettledState(r, outcome, usage) /\ r \notin owners'
    BY <1>4 DEF Settle
  <2>2. SettledState(r, outcome, usage) \in {"failed", "blocked", "publishing"}
    BY DEF SettledState
  <2>3. /\ UNCHANGED <<queue, hold, execution>>
        /\ publication' = IF SettledState(r, outcome, usage) = "publishing"
                          THEN [publication EXCEPT ![r] = [status |-> "pending", attempts |-> 0]]
                          ELSE publication
        /\ state[r] = "implementing" /\ r \in owners
    BY <1>4 DEF Settle
  <2> HIDE DEF RunIsRecorded, OwnerIsLive
  <2>4. OwnerIsLive(r)'
    BY <2>1, <2>2, <2>3 DEF OwnerIsLive
  <2>5. RunIsRecorded(r)'
    BY <2>1, <2>2, <2>3 DEF RunIsRecorded
  <2> QED
    BY <2>4, <2>5
<1>5. ASSUME NEW usage \in Usage, CheckpointPaused(r, usage)
      PROVE  RunIsRecorded(r)' /\ OwnerIsLive(r)'
  BY <1>5 DEF CheckpointPaused
<1>6. CASE RequestRunPause(r)
  BY <1>6 DEF RequestRunPause
<1>7. CASE HoldQueued(r)
  BY <1>7 DEF HoldQueued
<1>8. CASE CancelRun(r)
  BY <1>8 DEF CancelRun, Cancellable
<1>9. CASE ResumeQueuedRead(r) \/ ResumeQueuedReject(r) \/ ResumeActiveRead(r)
  BY <1>9 DEF ResumeQueuedRead, ResumeQueuedReject, ResumeActiveRead
<1>10. CASE ResumeQueuedCommit(r)
  BY <1>10 DEF ResumeQueuedCommit
<1>11. ASSUME NEW by \in {"operator", "scheduler"}, PrepareResume(r, by)
       PROVE  RunIsRecorded(r)' /\ OwnerIsLive(r)'
  BY <1>11 DEF PrepareResume
<1>12. CASE RequireActiveRecovery(r)
  BY <1>12 DEF RequireActiveRecovery
<1>13. CASE ResumeActiveCommit(r)
  BY <1>13 DEF ResumeActiveCommit, ResumeFacts
<1>14. CASE ClaimPublication(r)
  BY <1>14 DEF ClaimPublication
<1>15. CASE CompletePublication(r)
  BY <1>15 DEF CompletePublication, OwnsPublication
<1>16. ASSUME NEW status \in {"uncertain", "retryable", "failed"}, FailPublication(r, status)
       PROVE  RunIsRecorded(r)' /\ OwnerIsLive(r)'
  BY <1>16 DEF FailPublication, OwnsPublication, FailedStatus
<1> QED
  BY <1>1, <1>2, <1>3, <1>4, <1>5, <1>6, <1>7, <1>8, <1>9, <1>10, <1>11, <1>12, <1>13,
     <1>14, <1>15, <1>16 DEF RunStep

(* The steps of the process that are about no run of their own.            *)
LEMMA ProcessSteps ==
    ASSUME [Next]_vars, ~\E q \in Runs : RunStep(q),
           ~\E seen \in SUBSET Runs : Reconcile(seen), ~CommitPauseAll, ~Restart
    PROVE  UNCHANGED <<state, queue, hold, execution, ledger, publication, budget,
                       nextSequence, owners>>
BY DEF Next, vars, runVars, schedulerVars, processVars, PrepareClaim, LeaveLane, BeginPauseAll,
       WithdrawDispatcher, MountDispatcher, SetSchedulerMode

(* Every step keeps the shape of every record.                             *)
LEMMA NextRecords == TypeOK /\ RecordInv /\ [Next]_vars => RecordInv'
<1> SUFFICES ASSUME TypeOK, RecordInv, [Next]_vars PROVE RecordInv'
  OBVIOUS
<1>1. \A r \in Runs : RunIsRecorded(r) /\ OwnerIsLive(r)
  BY DEF RecordInv
<1>2. nextSequence' > 0
  <2>1. ASSUME NEW seen \in SUBSET Runs, Reconcile(seen) PROVE nextSequence' > 0
    <3>1. nextSequence' = nextSequence + Cardinality(Admitted(seen))
      BY <2>1 DEF Reconcile
    <3> QED
      BY <3>1, AdmittedNat DEF RecordInv, TypeOK
  <2> QED
    BY <2>1, SequenceMoves DEF RecordInv
<1>3. ASSUME NEW q \in Runs, RunStep(q), NEW r \in Runs
      PROVE  RunIsRecorded(r)' /\ OwnerIsLive(r)'
  BY <1>1, <1>3, OtherRuns, OwnRecord, SameRecordKept
<1>4. ASSUME NEW seen \in SUBSET Runs, Reconcile(seen), NEW r \in Runs
      PROVE  RunIsRecorded(r)' /\ OwnerIsLive(r)'
  <2>1. CASE r \notin Admitted(seen)
    <3>1. SameRecord(r)
      BY <1>4, <2>1 DEF SameRecord, Reconcile, processVars
    <3> QED
      BY <1>1, <3>1, SameRecordKept
  <2>2. CASE r \in Admitted(seen)
    <3>1. /\ state'[r] = "queued" /\ state[r] = "absent"
          /\ queue'[r].sequence = nextSequence + FreshPosition(r, seen)
          /\ UNCHANGED <<hold, execution, ledger, publication, owners>>
      BY <1>4, <2>2 DEF Reconcile, Admitted, Fresh, processVars
    <3>2. queue'[r].sequence > 0
      BY <3>1, FreshPositionNat DEF RecordInv, TypeOK
    <3>3. RunIsRecorded(r) /\ OwnerIsLive(r)
      BY <1>1
    <3> QED
      BY <3>1, <3>2, <3>3 DEF RunIsRecorded, OwnerIsLive, Active
  <2> QED
    BY <2>1, <2>2
<1>5. ASSUME CommitPauseAll, NEW r \in Runs PROVE RunIsRecorded(r)' /\ OwnerIsLive(r)'
  <2>1. RunIsRecorded(r) /\ OwnerIsLive(r)
    BY <1>1
  <2> QED
    BY <1>5, <2>1 DEF CommitPauseAll, PausedByAll, RunIsRecorded, OwnerIsLive, Active, TypeOK
<1>6. ASSUME Restart, NEW r \in Runs PROVE RunIsRecorded(r)' /\ OwnerIsLive(r)'
  <2>1. RunIsRecorded(r) /\ OwnerIsLive(r)
    BY <1>1
  <2>2. /\ UNCHANGED <<state, queue, hold, ledger>> /\ owners' = {}
        /\ execution'[r].git = execution[r].git
        /\ execution'[r].recovery = (execution[r].recovery \/ Interrupted(r))
    <3>1. execution'[r] = IF Interrupted(r) THEN [execution[r] EXCEPT !.recovery = TRUE]
                          ELSE execution[r]
      BY <1>6 DEF Restart
    <3>2. execution[r] \in [git : BOOLEAN, recovery : BOOLEAN]
      BY DEF TypeOK
    <3>3. UNCHANGED <<state, queue, hold, ledger>> /\ owners' = {}
      BY <1>6 DEF Restart
    <3> QED
      BY <3>1, <3>2, <3>3
  <2>3. \/ publication'[r] = publication[r]
        \/ /\ state[r] = "publishing" /\ publication'[r].status # "none"
    BY <1>6 DEF Restart, TypeOK, InterruptedStatus
  <2> QED
    BY <2>1, <2>2, <2>3 DEF RunIsRecorded, OwnerIsLive, Interrupted
<1>7. ASSUME UNCHANGED <<state, queue, hold, execution, ledger, publication, owners>>,
             NEW r \in Runs
      PROVE  RunIsRecorded(r)' /\ OwnerIsLive(r)'
  BY <1>1, <1>7, SameRecordKept DEF SameRecord
<1>8. \A r \in Runs : RunIsRecorded(r)' /\ OwnerIsLive(r)'
  BY <1>3, <1>4, <1>5, <1>6, <1>7, ProcessSteps
<1> QED
  BY <1>2, <1>8 DEF RecordInv

(* Hence every reachable record has the shape of its state.                *)
LEMMA RecordInvariant == Spec => []RecordInv
<1>1. Init => RecordInv
  BY DEF Init, NoBudget, RecordInv, RunIsRecorded, OwnerIsLive
<1>2. TypeOK /\ RecordInv /\ [Next]_vars => RecordInv'
  BY NextRecords
<1> QED
  BY <1>1, <1>2, TypeInvariant, PTL DEF Spec

----------------------------------------------------------------------------
(* Sums over runs.                                                         *)

(* How SumFunction adds: a run at a time, in an order fixed for each set.  *)
Picked(s) == CHOOSE r \in s : TRUE
SumStep(f, g, s) == IF s = {} THEN 0 ELSE f[Picked(s)] + g[s \ {Picked(s)}]
PartialSums(f) == CHOOSE g : g = [s \in SUBSET Runs |-> SumStep(f, g, s)]

(* The community modules' sum is the partial sum over every run.           *)
LEMMA SumIsPartial ==
    ASSUME NEW f, DOMAIN f = Runs
    PROVE  SumFunction(f) = PartialSums(f)[Runs]
BY DEF SumFunction, SumFunctionOnSet, FoldFunctionOnSet, MapThenFoldSet, PartialSums, SumStep, Picked

(* A set of sets of runs has a minimal one; a set of numbers a least.      *)
LEMMA MinimalRuns ==
    ASSUME NEW Bad \in SUBSET (SUBSET Runs), Bad # {}
    PROVE  \E s \in Bad : \A t \in SUBSET s : t # s => t \notin Bad
<1>1. IsWellFoundedOn(StrictSubsetOrdering(Runs), SUBSET Runs)
  <2>1. IsFiniteSet(Runs)
    BY RunsAssumption
  <2> QED
    BY <2>1, FS_StrictSubsetOrderingWellFounded, FS_FiniteSubsetsOfFinite
<1>2. PICK s \in Bad : \A t \in Bad : ~(<<t, s>> \in StrictSubsetOrdering(Runs))
  BY <1>1, WFMin
<1>3. \A t \in Bad : t \subseteq s /\ t # s => <<t, s>> \in StrictSubsetOrdering(Runs)
  BY DEF StrictSubsetOrdering
<1>4. \A t \in SUBSET s : t # s => t \notin Bad
  <2> SUFFICES ASSUME NEW t \in SUBSET s, t # s, t \in Bad PROVE FALSE
    OBVIOUS
  <2> QED BY <1>2, <1>3
<1> QED BY <1>4

(* A set of naturals has a least one: its predecessor is not in the set.   *)
LEMMA LeastNumber ==
    ASSUME NEW Bad \in SUBSET Nat, Bad # {}
    PROVE  \E n \in Bad : n = 0 \/ n - 1 \in Nat \ Bad
<1>1. PICK n \in Bad : \A m \in Bad : ~(<<m, n>> \in OpToRel(<, Nat))
  BY NatLessThanWellFounded, WFMin
<1>2. n \in Nat OBVIOUS
<1>3. n # 0 => n - 1 \in Nat /\ <<n - 1, n>> \in OpToRel(<, Nat)
  BY <1>2 DEF OpToRel
<1>4. n # 0 => n - 1 \notin Bad BY <1>1, <1>3
<1> QED BY <1>2, <1>3, <1>4

(* The recursion has a solution, found for larger and larger sets.         *)
LEMMA PartialSumsExist ==
    ASSUME NEW f
    PROVE  \A s \in SUBSET Runs : PartialSums(f)[s] = SumStep(f, PartialSums(f), s)
<1> DEFINE Solves(g, n) == \A s \in SUBSET Runs : Cardinality(s) <= n => g[s] = SumStep(f, g, s)
           Bad == {n \in Nat : ~\E g : Solves(g, n)}
<1>1. \A s \in SUBSET Runs : IsFiniteSet(s) /\ Cardinality(s) \in Nat /\ (Cardinality(s) = 0 <=> s = {})
                             /\ Cardinality(s) <= Cardinality(Runs)
  BY RunsAssumption, FS_Subset, FS_CardinalityType, FS_EmptySet
<1>2. Solves([s \in SUBSET Runs |-> 0], 0)
  BY <1>1 DEF SumStep
<1>3. ASSUME NEW n \in Nat, NEW g, Solves(g, n)
      PROVE  \E h : Solves(h, n + 1)
  <2> DEFINE h == [s \in SUBSET Runs |-> SumStep(f, g, s)]
  <2>1. ASSUME NEW s \in SUBSET Runs, Cardinality(s) <= n + 1
        PROVE  h[s] = SumStep(f, h, s)
    <3>1. CASE s = {} BY <3>1 DEF SumStep
    <3>2. CASE s # {}
      <4> DEFINE t == s \ {Picked(s)}
      <4>1. Picked(s) \in s BY <3>2 DEF Picked
      <4>2. t \in SUBSET Runs /\ Cardinality(t) = Cardinality(s) - 1
        BY <1>1, <4>1, FS_RemoveElement
      <4>3. Cardinality(t) <= n BY <1>1, <2>1, <4>2
      <4>4. h[t] = g[t] BY <1>3, <4>2, <4>3
      <4>5. h[s] = f[Picked(s)] + g[t] BY <3>2 DEF SumStep
      <4>6. SumStep(f, h, s) = f[Picked(s)] + h[t] BY <3>2 DEF SumStep
      <4> QED BY <4>4, <4>5, <4>6
    <3> QED BY <3>1, <3>2
  <2> HIDE DEF h
  <2> QED BY <2>1
<1>4. Bad = {}
  <2> SUFFICES ASSUME Bad # {} PROVE FALSE OBVIOUS
  <2>1. PICK n \in Bad : n = 0 \/ n - 1 \in Nat \ Bad
    <3>1. Bad \in SUBSET Nat OBVIOUS
    <3> HIDE DEF Bad
    <3> QED BY <3>1, LeastNumber
  <2>2. n # 0 BY <1>2
  <2>3. PICK g : Solves(g, n - 1) BY <2>1, <2>2
  <2>4. n - 1 \in Nat /\ (n - 1) + 1 = n BY <2>1, <2>2
  <2> HIDE DEF Solves
  <2>5. \E h : Solves(h, (n - 1) + 1) BY <1>3, <2>3, <2>4
  <2> QED BY <2>4, <2>5
<1>5. Cardinality(Runs) \in Nat BY <1>1
<1>6. PICK g : Solves(g, Cardinality(Runs)) BY <1>4, <1>5
<1>7. \A s \in SUBSET Runs : g[s] = SumStep(f, g, s) BY <1>1, <1>6
<1> DEFINE h == [s \in SUBSET Runs |-> g[s]]
<1>8. \A s \in SUBSET Runs : SumStep(f, h, s) = SumStep(f, g, s) BY DEF SumStep
<1>9. h = [s \in SUBSET Runs |-> SumStep(f, h, s)] BY <1>7, <1>8
<1> HIDE DEF h
<1>10. PartialSums(f) = [s \in SUBSET Runs |-> SumStep(f, PartialSums(f), s)]
  BY <1>9 DEF PartialSums
<1> QED BY <1>10

(* Sums of naturals are naturals: no smallest set of runs can be the       *)
(* exception.                                                              *)
LEMMA PartialSumsTyped ==
    ASSUME NEW f, \A r \in Runs : f[r] \in Nat
    PROVE  \A s \in SUBSET Runs : PartialSums(f)[s] \in Nat
<1> DEFINE g == PartialSums(f)
           Bad == {s \in SUBSET Runs : g[s] \notin Nat}
<1>1. \A s \in SUBSET Runs : g[s] = SumStep(f, g, s) BY PartialSumsExist
<1> HIDE DEF g
<1>2. Bad = {}
  <2> SUFFICES ASSUME Bad # {} PROVE FALSE OBVIOUS
  <2>1. PICK s \in Bad : \A t \in SUBSET s : t # s => t \notin Bad
    <3>1. Bad \in SUBSET (SUBSET Runs) OBVIOUS
    <3> HIDE DEF Bad
    <3> QED BY <3>1, MinimalRuns
  <2>0. s \in SUBSET Runs /\ g[s] \notin Nat BY <2>1
  <2>2. s # {}
    <3> SUFFICES ASSUME s = {} PROVE g[s] \in Nat BY <2>0
    <3>1. g[s] = SumStep(f, g, s) BY <1>1, <2>0
    <3>2. SumStep(f, g, s) = 0 BY DEF SumStep
    <3>3. g[s] = 0 BY <3>1, <3>2
    <3> QED BY <3>3
  <2>3. Picked(s) \in s BY <2>2 DEF Picked
  <2>4. g[s \ {Picked(s)}] \in Nat BY <2>1, <2>3
  <2>5. g[s] = f[Picked(s)] + g[s \ {Picked(s)}] BY <1>1, <2>2 DEF SumStep
  <2> QED BY <2>3, <2>4, <2>5
<1> QED BY <1>2 DEF g

(* Changing one run's share changes the sum by as much.                    *)
LEMMA SumChanges ==
    ASSUME NEW f \in [Runs -> Nat], NEW h \in [Runs -> Nat], NEW r \in Runs,
           \A q \in Runs : q # r => h[q] = f[q]
    PROVE  /\ SumFunction(f) \in Nat /\ SumFunction(h) \in Nat
           /\ SumFunction(h) + f[r] = SumFunction(f) + h[r]
<1> DEFINE before == PartialSums(f)
           after == PartialSums(h)
           Bad == {s \in SUBSET Runs : ~IF r \in s THEN after[s] + f[r] = before[s] + h[r]
                                        ELSE after[s] = before[s]}
<1>1. \A s \in SUBSET Runs :
         /\ before[s] = SumStep(f, before, s) /\ after[s] = SumStep(h, after, s)
         /\ before[s] \in Nat /\ after[s] \in Nat
  BY PartialSumsExist, PartialSumsTyped
<1>2. SumFunction(f) = before[Runs] /\ SumFunction(h) = after[Runs] BY SumIsPartial
<1> HIDE DEF before, after
<1>3. Bad = {}
  <2> SUFFICES ASSUME Bad # {} PROVE FALSE OBVIOUS
  <2>1. PICK s \in Bad : \A t \in SUBSET s : t # s => t \notin Bad
    <3>1. Bad \in SUBSET (SUBSET Runs) OBVIOUS
    <3> HIDE DEF Bad
    <3> QED BY <3>1, MinimalRuns
  <2>2. s # {} BY <1>1 DEF SumStep
  <2> DEFINE p == Picked(s)
             t == s \ {p}
  <2>3. p \in s /\ p \in Runs BY <2>2 DEF Picked
  <2>4. before[s] = f[p] + before[t] /\ after[s] = h[p] + after[t] BY <1>1, <2>2 DEF SumStep
  <2> HIDE DEF p
  <2>5. IF r \in t THEN after[t] + f[r] = before[t] + h[r] ELSE after[t] = before[t]
    BY <2>1, <2>3
  <2>6. /\ before[t] \in Nat /\ after[t] \in Nat
        /\ f[p] \in Nat /\ h[p] \in Nat /\ f[r] \in Nat /\ h[r] \in Nat
    BY <1>1, <2>3
  <2>7. CASE p = r
    <3>1. after[t] = before[t] BY <2>5, <2>7
    <3>2. after[s] + f[r] = before[s] + h[r] BY <2>4, <2>6, <2>7, <3>1
    <3> QED BY <2>3, <2>7, <3>2
  <2>8. CASE p # r /\ r \in s
    <3>1. after[t] + f[r] = before[t] + h[r] /\ h[p] = f[p] BY <2>3, <2>5, <2>8
    <3>2. after[s] + f[r] = before[s] + h[r] BY <2>4, <2>6, <3>1
    <3> QED BY <2>8, <3>2
  <2>9. CASE r \notin s
    <3>1. after[t] = before[t] /\ h[p] = f[p] BY <2>3, <2>5, <2>9
    <3> QED BY <2>4, <2>9, <3>1
  <2> QED BY <2>7, <2>8, <2>9
<1>4. after[Runs] + f[r] = before[Runs] + h[r] BY <1>3
<1> QED BY <1>1, <1>2, <1>4

(* Shares of nothing sum to nothing.                                       *)
LEMMA SumOfNothing ==
    ASSUME NEW f, DOMAIN f = Runs, \A r \in Runs : f[r] = 0
    PROVE  SumFunction(f) = 0
<1> DEFINE g == PartialSums(f)
           Bad == {s \in SUBSET Runs : g[s] # 0}
<1>1. \A s \in SUBSET Runs : g[s] = SumStep(f, g, s) BY PartialSumsExist
<1> HIDE DEF g
<1>2. Bad = {}
  <2> SUFFICES ASSUME Bad # {} PROVE FALSE OBVIOUS
  <2>1. PICK s \in Bad : \A t \in SUBSET s : t # s => t \notin Bad
    <3>1. Bad \in SUBSET (SUBSET Runs) OBVIOUS
    <3> HIDE DEF Bad
    <3> QED BY <3>1, MinimalRuns
  <2>2. s # {} BY <1>1 DEF SumStep
  <2>3. Picked(s) \in s BY <2>2 DEF Picked
  <2>4. g[s \ {Picked(s)}] = 0 BY <2>1, <2>3
  <2>5. g[s] = f[Picked(s)] + g[s \ {Picked(s)}] BY <1>1, <2>2 DEF SumStep
  <2> QED BY <2>3, <2>4, <2>5
<1>3. SumFunction(f) = g[Runs] BY SumIsPartial DEF g
<1> QED BY <1>2, <1>3

----------------------------------------------------------------------------
(* The totals.                                                             *)

(* The deployment's budget is the sum of the budgets of its runs.          *)
TotalsAgree ==
    /\ budget.reserved = SumFunction([r \in Runs |-> ledger[r].reserved])
    /\ budget.settled = SumFunction([r \in Runs |-> ledger[r].settled])

(* The totals agree as long as what a step writes into one run's budget is *)
(* what it adds to the deployment's.                                       *)
LEMMA TotalsFollow ==
    ASSUME TypeOK, TypeOK', TotalsAgree, NEW r \in Runs,
           \A q \in Runs : q # r => ledger'[q] = ledger[q],
           budget'.reserved = budget.reserved + (ledger'[r].reserved - ledger[r].reserved),
           budget'.settled = budget.settled + (ledger'[r].settled - ledger[r].settled)
    PROVE  TotalsAgree'
<1> DEFINE held == [q \in Runs |-> ledger[q].reserved]
           spent == [q \in Runs |-> ledger[q].settled]
<1>1. /\ held \in [Runs -> Nat] /\ held' \in [Runs -> Nat]
      /\ spent \in [Runs -> Nat] /\ spent' \in [Runs -> Nat]
  BY DEF TypeOK
<1>2. \A q \in Runs : q # r => held'[q] = held[q] /\ spent'[q] = spent[q]
  OBVIOUS
<1>3. /\ held'[r] = ledger'[r].reserved /\ held[r] = ledger[r].reserved
      /\ spent'[r] = ledger'[r].settled /\ spent[r] = ledger[r].settled
  OBVIOUS
<1>4. budget.reserved = SumFunction(held) /\ budget.settled = SumFunction(spent)
  BY DEF TotalsAgree
<1>5. TotalsAgree' <=> /\ budget'.reserved = SumFunction(held')
                       /\ budget'.settled = SumFunction(spent')
  BY DEF TotalsAgree
<1> HIDE DEF held, spent
<1>6. /\ SumFunction(held) \in Nat /\ SumFunction(held') \in Nat
      /\ SumFunction(held') + held[r] = SumFunction(held) + held'[r]
  BY <1>1, <1>2, SumChanges
<1>7. /\ SumFunction(spent) \in Nat /\ SumFunction(spent') \in Nat
      /\ SumFunction(spent') + spent[r] = SumFunction(spent) + spent'[r]
  BY <1>1, <1>2, SumChanges
<1>8. held[r] \in Nat /\ held'[r] \in Nat /\ spent[r] \in Nat /\ spent'[r] \in Nat
  BY <1>1
<1>9. budget'.reserved = SumFunction(held')
  <2>1. SumFunction(held') = SumFunction(held) + (held'[r] - held[r])
    BY <1>6, <1>8
  <2>2. budget'.reserved = SumFunction(held) + (held'[r] - held[r])
    BY <1>3, <1>4
  <2> QED
    BY <2>1, <2>2
<1>10. budget'.settled = SumFunction(spent')
  <2>1. SumFunction(spent') = SumFunction(spent) + (spent'[r] - spent[r])
    BY <1>7, <1>8
  <2>2. budget'.settled = SumFunction(spent) + (spent'[r] - spent[r])
    BY <1>3, <1>4
  <2> QED
    BY <2>1, <2>2
<1> QED
  BY <1>5, <1>9, <1>10

(* A claim, a resumption and a settlement write as much into the run's     *)
(* budget as into the deployment's. A claim overwrites the run's budget,   *)
(* which is empty until then; a resumption overwrites its reservation,     *)
(* which a provable checkpoint has left at zero.                           *)
LEMMA NextTotals ==
    TypeOK /\ TypeOK' /\ OwedInv /\ RecordInv /\ TotalsAgree /\ [Next]_vars => TotalsAgree'
<1> SUFFICES ASSUME TypeOK, TypeOK', OwedInv, RecordInv, TotalsAgree, [Next]_vars
             PROVE  TotalsAgree'
  OBVIOUS
<1>1. CASE UNCHANGED <<ledger, budget>>
  BY <1>1 DEF TotalsAgree
<1>2. ASSUME NEW r \in Runs, Claim(r) PROVE TotalsAgree'
  <2>1. ledger[r] = NoBudget
    BY <1>2 DEF RecordInv, RunIsRecorded, Claim, StillHead, IsQueueHead, Queued
  <2>2. /\ ledger'[r] = [reserved |-> Allowance, settled |-> 0, uncertain |-> FALSE]
        /\ \A q \in Runs : q # r => ledger'[q] = ledger[q]
        /\ budget'.reserved = budget.reserved + Allowance /\ budget'.settled = budget.settled
    BY <1>2 DEF Claim, BudgetReserving, TypeOK
  <2>3. Allowance \in Nat /\ budget.reserved \in Int /\ budget.settled \in Nat
    BY TokenAssumption DEF TypeOK
  <2>4. /\ budget'.reserved = budget.reserved + (ledger'[r].reserved - ledger[r].reserved)
        /\ budget'.settled = budget.settled + (ledger'[r].settled - ledger[r].settled)
    BY <2>1, <2>2, <2>3 DEF NoBudget
  <2> QED
    BY <2>2, <2>4, TotalsFollow
<1>3. ASSUME NEW r \in Runs, ResumeActiveCommit(r) PROVE TotalsAgree'
  <2> DEFINE c == ContinuationReservation(r)
  <2>1. ledger[r].reserved = 0
    <3>1. state[r] \notin Active /\ ~ledger[r].uncertain
      BY <1>3 DEF ResumeActiveCommit, ResumeFacts, Active
    <3>2. ledger[r].reserved \in Nat /\ ~(ledger[r].reserved > 0)
      BY <3>1 DEF OwedInv, ReservationsAreOwed, TypeOK
    <3> QED
      BY <3>2
  <2>2. c \in Nat
    BY <1>3, ContinuationFits DEF ResumeActiveCommit, ResumeFacts
  <2>3. /\ ledger' = [ledger EXCEPT ![r].reserved = c]
        /\ budget' = BudgetReserving(c)
    BY <1>3 DEF ResumeActiveCommit
  <2> HIDE DEF c
  <2>4. /\ ledger'[r].reserved = c /\ ledger'[r].settled = ledger[r].settled
        /\ \A q \in Runs : q # r => ledger'[q] = ledger[q]
    BY <2>3 DEF TypeOK
  <2>5. /\ budget'.reserved = budget.reserved + (ledger'[r].reserved - ledger[r].reserved)
        /\ budget'.settled = budget.settled + (ledger'[r].settled - ledger[r].settled)
    BY <2>1, <2>2, <2>3, <2>4 DEF BudgetReserving, TypeOK
  <2> QED
    BY <2>4, <2>5, TotalsFollow
<1>4. ASSUME NEW r \in Runs, NEW usage \in Usage,
             ledger' = [ledger EXCEPT ![r] = RunLedgerAfter(r, usage)],
             budget' = BudgetAfter(r, usage)
      PROVE  TotalsAgree'
  <2>1. ledger'[r] = RunLedgerAfter(r, usage) /\ \A q \in Runs : q # r => ledger'[q] = ledger[q]
    BY <1>4 DEF TypeOK
  <2>2. usage.tokens \in Nat
    BY TokenAssumption DEF Usage
  <2>3. /\ budget'.reserved = budget.reserved + (ledger'[r].reserved - ledger[r].reserved)
        /\ budget'.settled = budget.settled + (ledger'[r].settled - ledger[r].settled)
    <3>1. CASE UsageKnown(r, usage)
      BY <1>4, <2>1, <2>2, <3>1 DEF RunLedgerAfter, BudgetAfter, TypeOK
    <3>2. CASE ~UsageKnown(r, usage)
      BY <1>4, <2>1, <3>2 DEF RunLedgerAfter, BudgetAfter, TypeOK
    <3> QED
      BY <3>1, <3>2
  <2> QED
    BY <2>1, <2>3, TotalsFollow
<1>5. ASSUME NEW r \in Runs, NEW outcome \in {"verified", "blocked", "failed"},
             NEW usage \in Usage, Settle(r, outcome, usage)
      PROVE  TotalsAgree'
  BY <1>4, <1>5 DEF Settle
<1>6. ASSUME NEW r \in Runs, NEW usage \in Usage, CheckpointPaused(r, usage)
      PROVE  TotalsAgree'
  BY <1>4, <1>6 DEF CheckpointPaused
<1> QED
  BY <1>1, <1>2, <1>3, <1>5, <1>6, TokenMoves

(* Hence the totals agree in every reachable state.                        *)
LEMMA TotalsInvariant == Spec => []TotalsAgree
<1>1. Init => TotalsAgree
  <2> SUFFICES ASSUME Init PROVE TotalsAgree
    OBVIOUS
  <2>1. /\ budget.reserved = 0 /\ budget.settled = 0
        /\ \A r \in Runs : ledger[r].reserved = 0 /\ ledger[r].settled = 0
    BY DEF Init, NoBudget
  <2>2. /\ SumFunction([r \in Runs |-> ledger[r].reserved]) = 0
        /\ SumFunction([r \in Runs |-> ledger[r].settled]) = 0
    BY <2>1, SumOfNothing
  <2> QED
    BY <2>1, <2>2 DEF TotalsAgree
<1>2. TypeOK /\ TypeOK' /\ OwedInv /\ RecordInv /\ TotalsAgree /\ [Next]_vars => TotalsAgree'
  BY NextTotals
<1> QED
  BY <1>1, <1>2, TypeInvariant, OwedInvariant, RecordInvariant, PTL DEF Spec

(* Whatever happens, in whatever order, the record a Host commits is one   *)
(* it accepts and can load again.                                          *)
THEOREM IntegrityProven == Spec => []StateIntegrity
<1>1. RecordInv /\ SequenceInv /\ TotalsAgree /\ OwedInv /\ WithinCaps /\ DisabledMeansStopped
        => StateIntegrity
  <2> SUFFICES ASSUME RecordInv, SequenceInv, TotalsAgree, OwedInv, WithinCaps,
                      DisabledMeansStopped
               PROVE  StateIntegrity
    OBVIOUS
  <2>1. \A r \in Existing : RunSchema(r)
    BY DEF RecordInv, RunIsRecorded, RunSchema, Existing
  <2>2. ValidateStateIntegrity
    BY DEF ValidateStateIntegrity, RecordInv, RunIsRecorded, SequenceInv, TotalsAgree, OwedInv,
           ReservationsAreOwed, UncertaintyAgrees, WithinCaps, DisabledMeansStopped
  <2> QED
    BY <2>1, <2>2 DEF StateIntegrity
<1> QED
  BY <1>1, RecordInvariant, SequenceInvariant, TotalsInvariant, OwedInvariant, CapsInvariant,
     DisabledStops, PTL

----------------------------------------------------------------------------
(* Recovery.                                                               *)

(* A run that requires recovery keeps requiring it, and neither executes,  *)
(* settles, resumes nor publishes: only a quiescent one is cancelled.      *)
THEOREM RecoveryProven == Spec => RecoveryIsNotResumption
<1>1. TypeOK /\ RecordInv /\ [Next]_vars =>
        [\A r \in Runs : execution[r].recovery =>
            /\ execution'[r].recovery
            /\ ledger'[r] = ledger[r]
            /\ \/ state'[r] = state[r]
               \/ state[r] = "implementing" /\ state'[r] = "pausing"
               \/ state[r] = "paused-active" /\ state'[r] = "cancelled"]_vars
  <2> SUFFICES ASSUME TypeOK, RecordInv, [Next]_vars, NEW r \in Runs, execution[r].recovery
               PROVE  /\ execution'[r].recovery
                      /\ ledger'[r] = ledger[r]
                      /\ \/ state'[r] = state[r]
                         \/ state[r] = "implementing" /\ state'[r] = "pausing"
                         \/ state[r] = "paused-active" /\ state'[r] = "cancelled"
    OBVIOUS
  <2> DEFINE Stays ==
         /\ execution'[r].recovery
         /\ ledger'[r] = ledger[r]
         /\ \/ state'[r] = state[r]
            \/ state[r] = "implementing" /\ state'[r] = "pausing"
            \/ state[r] = "paused-active" /\ state'[r] = "cancelled"
  <2>1. /\ state[r] \in {"implementing", "pausing", "paused-active", "cancelled"}
        /\ r \notin owners
    BY DEF RecordInv, OwnerIsLive, Active
  <2>2. ASSUME NEW q \in Runs, q # r, RunStep(q) PROVE Stays
    <3>1. SameRecord(r)
      BY <2>2, OtherRuns
    <3> QED
      BY <3>1 DEF SameRecord
  <2>3. ASSUME RunStep(r) PROVE Stays
    <3>1. \/ UNCHANGED <<state, execution, ledger>>
          \/ RequestRunPause(r) \/ CancelRun(r)
      <4>1. ~Claim(r) /\ ~HoldQueued(r) /\ ~ResumeQueuedCommit(r)
            /\ ~CompletePublication(r)
            /\ \A status \in {"uncertain", "retryable", "failed"} : ~FailPublication(r, status)
        BY <2>1 DEF Claim, StillHead, IsQueueHead, Queued, HoldQueued, ResumeQueuedCommit,
                    CompletePublication, FailPublication, OwnsPublication
      <4>2. ~RecordWorktree(r) /\ ~ResumeActiveCommit(r) /\ ~RequireActiveRecovery(r)
        BY DEF RecordWorktree, ResumeActiveCommit, ResumeFacts, RequireActiveRecovery
      <4>3. /\ \A outcome \in {"verified", "blocked", "failed"}, usage \in Usage :
                  ~Settle(r, outcome, usage)
            /\ \A usage \in Usage : ~CheckpointPaused(r, usage)
        BY <2>1 DEF Settle, CheckpointPaused
      <4> QED
        BY <2>3, <4>1, <4>2, <4>3
           DEF RunStep, runVars, SelectHead, ClaimAgain, LoseOwner, ResumeQueuedRead,
               ResumeQueuedReject, PrepareResume, ResumeActiveRead, ClaimPublication
    <3>2. CASE RequestRunPause(r)
      BY <3>2 DEF RequestRunPause, TypeOK
    <3>3. CASE CancelRun(r)
      BY <2>1, <3>3 DEF CancelRun, Cancellable, TypeOK
    <3> QED
      BY <3>1, <3>2, <3>3
  <2>4. ASSUME NEW seen \in SUBSET Runs, Reconcile(seen) PROVE Stays
    BY <2>1, <2>4 DEF Reconcile, Admitted, Fresh
  <2>5. CASE CommitPauseAll
    BY <2>5 DEF CommitPauseAll, PausedByAll
  <2>6. CASE Restart
    BY <2>6 DEF Restart, TypeOK
  <2>7. CASE UNCHANGED <<state, execution, ledger>>
    BY <2>7
  <2> QED
    BY <2>2, <2>3, <2>4, <2>5, <2>6, <2>7, ProcessSteps
<1> QED
  BY <1>1, TypeInvariant, RecordInvariant, PTL DEF Spec, RecoveryIsNotResumption

----------------------------------------------------------------------------
(* Every run follows the abstract lifecycle.                               *)

(* The phase an operator sees, for every state.                            *)
LEMMA Phases ==
    /\ PhaseOf("absent") = "unseen"
    /\ PhaseOf("queued") = "waiting" /\ PhaseOf("paused-queued") = "waiting"
    /\ PhaseOf("implementing") = "executing" /\ PhaseOf("pausing") = "executing"
    /\ PhaseOf("paused-active") = "parked" /\ PhaseOf("publishing") = "handoff"
    /\ \A s \in {"blocked", "failed", "completed", "cancelled"} : PhaseOf(s) = "ended"
BY DEF PhaseOf, Active

(* A run is executing exactly while it is active.                          *)
LEMMA ExecutingIsActive ==
    ASSUME NEW s \in RunStates
    PROVE  PhaseOf(s) = "executing" <=> s \in Active
BY Phases DEF RunStates, Active

(* Changing one run's state changes one phase.                             *)
LEMMA PhaseMoves ==
    ASSUME TypeOK, NEW r \in Runs, \A q \in Runs : q # r => state'[q] = state[q]
    PROVE  [q \in Runs |-> PhaseOf(state'[q])]
              = [[q \in Runs |-> PhaseOf(state[q])] EXCEPT ![r] = PhaseOf(state'[r])]
OBVIOUS

(* A step that changes no phase and strands no run is a stutter.           *)
LEMMA LifecycleStutters ==
    ASSUME \A q \in Runs : PhaseOf(state'[q]) = PhaseOf(state[q]),
           \A q \in Runs : execution'[q].recovery = execution[q].recovery
    PROVE  UNCHANGED Lifecycle!lifecycleVars
<1>1. [q \in Runs |-> PhaseOf(state'[q])] = [q \in Runs |-> PhaseOf(state[q])]
  OBVIOUS
<1>2. {q \in Runs : execution'[q].recovery} = {q \in Runs : execution[q].recovery}
  OBVIOUS
<1> QED
  BY <1>1, <1>2 DEF Lifecycle!lifecycleVars

(* A step of a run that nothing interrupted moves its phase.               *)
LEMMA LifecycleMoves ==
    ASSUME TypeOK, NEW r \in Runs, NEW from, NEW to,
           \A q \in Runs : q # r => state'[q] = state[q],
           \A q \in Runs : execution'[q].recovery = execution[q].recovery,
           ~execution[r].recovery, PhaseOf(state[r]) = from, PhaseOf(state'[r]) = to
    PROVE  Lifecycle!Move(r, from, to)
<1>1. [q \in Runs |-> PhaseOf(state'[q])]
        = [[q \in Runs |-> PhaseOf(state[q])] EXCEPT ![r] = to]
  BY PhaseMoves
<1>2. {q \in Runs : execution'[q].recovery} = {q \in Runs : execution[q].recovery}
  OBVIOUS
<1>3. r \notin {q \in Runs : execution[q].recovery}
  OBVIOUS
<1> QED
  BY <1>1, <1>2, <1>3 DEF Lifecycle!Move

(* Every run starts unseen and none is stranded.                           *)
LEMMA LifecycleInit == Init => Lifecycle!Init
BY Phases DEF Init, Lifecycle!Init

(* What a step of one run does to its phase.                               *)
LEMMA RunFollowsLifecycle ==
    ASSUME TypeOK, RecordInv, NEW r \in Runs, RunStep(r)
    PROVE  [Lifecycle!Next]_(Lifecycle!lifecycleVars)
<1> USE DEF TypeOK
<1> DEFINE Follows == [Lifecycle!Next]_(Lifecycle!lifecycleVars)
<1> SUFFICES Follows
  OBVIOUS
<1>1. \A q \in Runs : q # r => state'[q] = state[q] /\ execution'[q] = execution[q]
  BY OtherRuns DEF SameRecord
<1>2. RunIsRecorded(r) /\ OwnerIsLive(r)
  BY DEF RecordInv
<1>3. ASSUME PhaseOf(state'[r]) = PhaseOf(state[r]),
             execution'[r].recovery = execution[r].recovery
      PROVE  Follows
  BY <1>1, <1>3, LifecycleStutters
<1>4. ASSUME NEW from, NEW to, execution' = execution, ~execution[r].recovery,
             PhaseOf(state[r]) = from, PhaseOf(state'[r]) = to
      PROVE  Lifecycle!Move(r, from, to)
  BY <1>1, <1>4, LifecycleMoves
<1>5. CASE RecordWorktree(r)
  <2>1. state'[r] = state[r] /\ execution'[r].recovery = execution[r].recovery
    BY <1>5 DEF RecordWorktree
  <2> QED
    BY <1>3, <2>1
<1>6. CASE Claim(r)
  <2>1. state[r] = "queued" /\ state'[r] = "implementing" /\ execution' = execution
    BY <1>6 DEF Claim, StillHead, IsQueueHead, Queued
  <2>2. ~execution[r].recovery
    BY <1>2, <2>1 DEF OwnerIsLive, Active
  <2>3. Lifecycle!Move(r, "waiting", "executing")
    BY <1>4, <2>1, <2>2, Phases
  <2> QED
    BY <2>3 DEF Lifecycle!Next, Lifecycle!Start
<1>7. ASSUME NEW outcome \in {"verified", "blocked", "failed"}, NEW usage \in Usage,
             Settle(r, outcome, usage)
      PROVE  Follows
  <2>1. /\ state[r] = "implementing" /\ execution' = execution /\ r \in owners
        /\ state'[r] \in {"failed", "blocked", "publishing"}
    BY <1>7 DEF Settle, SettledState
  <2>2. ~execution[r].recovery
    BY <1>2, <2>1 DEF OwnerIsLive
  <2>3. Lifecycle!Move(r, "executing", "handoff") \/ Lifecycle!Move(r, "executing", "ended")
    BY <1>4, <2>1, <2>2, Phases
  <2> QED
    BY <2>3 DEF Lifecycle!Next, Lifecycle!Finish
<1>8. ASSUME NEW usage \in Usage, CheckpointPaused(r, usage) PROVE Follows
  <2>1. /\ state[r] = "pausing" /\ state'[r] = "paused-active" /\ execution' = execution
        /\ r \in owners
    BY <1>8 DEF CheckpointPaused
  <2>2. ~execution[r].recovery
    BY <1>2, <2>1 DEF OwnerIsLive
  <2>3. Lifecycle!Move(r, "executing", "parked")
    BY <1>4, <2>1, <2>2, Phases
  <2> QED
    BY <2>3 DEF Lifecycle!Next, Lifecycle!Park
<1>9. CASE RequestRunPause(r) \/ HoldQueued(r) \/ ResumeQueuedCommit(r)
  <2>1. /\ execution' = execution
        /\ \/ state'[r] = state[r]
           \/ state[r] = "implementing" /\ state'[r] = "pausing"
           \/ state[r] = "queued" /\ state'[r] = "paused-queued"
           \/ state[r] = "paused-queued" /\ state'[r] = "queued"
    BY <1>9 DEF RequestRunPause, HoldQueued, ResumeQueuedCommit
  <2> QED
    BY <1>3, <2>1, Phases
<1>10. CASE CancelRun(r)
  <2>1. state[r] \in Cancellable /\ state'[r] = "cancelled" /\ execution' = execution
    BY <1>10 DEF CancelRun
  <2>2. CASE state[r] = "blocked"
    BY <1>3, <2>1, <2>2, Phases
  <2>3. CASE state[r] # "blocked"
    <3>1. PhaseOf(state[r]) \in {"waiting", "parked"} /\ PhaseOf(state'[r]) = "ended"
      BY <2>1, <2>3, Phases DEF Cancellable
    <3>2. [q \in Runs |-> PhaseOf(state'[q])]
            = [[q \in Runs |-> PhaseOf(state[q])] EXCEPT ![r] = "ended"]
      BY <1>1, <3>1, PhaseMoves
    <3>3. Lifecycle!Cancel(r)
      BY <2>1, <3>1, <3>2 DEF Lifecycle!Cancel
    <3> QED
      BY <3>3 DEF Lifecycle!Next
  <2> QED
    BY <2>2, <2>3
<1>11. CASE RequireActiveRecovery(r)
  <2>1. state' = state /\ state[r] = "paused-active" /\ execution'[r].recovery
    BY <1>11 DEF RequireActiveRecovery
  <2>2. {q \in Runs : execution'[q].recovery} = {q \in Runs : execution[q].recovery} \cup {r}
    BY <1>1, <2>1
  <2>3. Lifecycle!Strand(r)
    BY <2>1, <2>2, Phases DEF Lifecycle!Strand
  <2> QED
    BY <2>3 DEF Lifecycle!Next
<1>12. CASE ResumeActiveCommit(r)
  <2>1. /\ state[r] = "paused-active" /\ state'[r] = "implementing" /\ execution' = execution
        /\ ~execution[r].recovery
    BY <1>12 DEF ResumeActiveCommit, ResumeFacts
  <2>2. Lifecycle!Move(r, "parked", "executing")
    BY <1>4, <2>1, Phases
  <2> QED
    BY <2>2 DEF Lifecycle!Next, Lifecycle!Start
<1>13. ASSUME \/ CompletePublication(r)
              \/ \E status \in {"uncertain", "retryable", "failed"} : FailPublication(r, status)
       PROVE  Follows
  <2>1. /\ state[r] = "publishing" /\ execution' = execution
        /\ state'[r] \in {"publishing", "completed", "failed"}
    BY <1>13 DEF CompletePublication, FailPublication, OwnsPublication
  <2>2. ~execution[r].recovery
    BY <1>2, <2>1 DEF OwnerIsLive, Active
  <2>3. CASE state'[r] = "publishing"
    BY <1>3, <2>1, <2>3
  <2>4. CASE state'[r] # "publishing"
    <3>1. Lifecycle!Move(r, "handoff", "ended")
      BY <1>4, <2>1, <2>2, <2>4, Phases
    <3> QED
      BY <3>1 DEF Lifecycle!Next, Lifecycle!HandOff
  <2> QED
    BY <2>3, <2>4
<1>14. ASSUME \/ SelectHead(r) \/ ClaimAgain(r) \/ LoseOwner(r)
              \/ ResumeQueuedRead(r) \/ ResumeQueuedReject(r) \/ ResumeActiveRead(r)
              \/ ClaimPublication(r)
              \/ \E by \in {"operator", "scheduler"} : PrepareResume(r, by)
       PROVE  Follows
  <2>1. UNCHANGED <<state, execution>>
    BY <1>14 DEF runVars, SelectHead, ClaimAgain, LoseOwner, ResumeQueuedRead,
                 ResumeQueuedReject, PrepareResume, ResumeActiveRead, ClaimPublication
  <2> QED
    BY <1>3, <2>1
<1> HIDE DEF Follows
<1> QED
  BY <1>5, <1>6, <1>7, <1>8, <1>9, <1>10, <1>11, <1>12, <1>13, <1>14 DEF RunStep

(* Every step of the aggregate is a step of the lifecycle or a stutter.    *)
LEMMA LifecycleStep ==
    ASSUME TypeOK, TypeOK', RecordInv, [Next]_vars
    PROVE  [Lifecycle!Next]_(Lifecycle!lifecycleVars)
<1>1. ASSUME NEW seen \in SUBSET Runs, Reconcile(seen) PROVE Lifecycle!Admit
  <2>1. /\ execution' = execution
        /\ \A r \in Runs : \/ state'[r] = state[r]
                           \/ state[r] = "absent" /\ state'[r] = "queued"
    BY <1>1 DEF Reconcile, Admitted, Fresh
  <2>2. \A r \in Runs : \/ PhaseOf(state'[r]) = PhaseOf(state[r])
                        \/ PhaseOf(state[r]) = "unseen" /\ PhaseOf(state'[r]) = "waiting"
    BY <2>1, Phases
  <2>3. \A r \in Runs : PhaseOf(state'[r]) \in Lifecycle!Phases
    <3>1. \A s \in RunStates : PhaseOf(s) \in Lifecycle!Phases
      BY DEF PhaseOf, RunStates, Active, Lifecycle!Phases
    <3> QED
      BY <3>1 DEF TypeOK
  <2> QED
    BY <2>1, <2>2, <2>3 DEF Lifecycle!Admit
<1>2. CASE CommitPauseAll
  <2>1. /\ execution' = execution
        /\ \A r \in Runs : \/ state'[r] = state[r]
                           \/ state[r] = "implementing" /\ state'[r] = "pausing"
    BY <1>2 DEF CommitPauseAll, PausedByAll
  <2>2. \A r \in Runs : PhaseOf(state'[r]) = PhaseOf(state[r])
    BY <2>1, Phases
  <2> QED
    BY <2>1, <2>2, LifecycleStutters
<1>3. CASE Restart
  <2>1. /\ state' = state
        /\ \A r \in Runs : execution'[r].recovery <=> execution[r].recovery \/ state[r] \in Active
    <3>1. ASSUME NEW r \in Runs
          PROVE  execution'[r].recovery <=> execution[r].recovery \/ state[r] \in Active
      BY <1>3 DEF Restart, Interrupted, TypeOK
    <3> QED
      BY <1>3, <3>1 DEF Restart
  <2>2. \A r \in Runs : PhaseOf(state[r]) = "executing" <=> state[r] \in Active
    BY ExecutingIsActive DEF TypeOK
  <2>3. {r \in Runs : execution'[r].recovery}
          = {r \in Runs : execution[r].recovery}
              \cup {r \in Runs : [q \in Runs |-> PhaseOf(state[q])][r] = "executing"}
    BY <2>1, <2>2
  <2>4. Lifecycle!Crash
    BY <2>1, <2>3 DEF Lifecycle!Crash
  <2> QED
    BY <2>4 DEF Lifecycle!Next
<1>4. CASE UNCHANGED <<state, execution>>
  BY <1>4, LifecycleStutters
<1> QED
  BY <1>1, <1>2, <1>3, <1>4, RunFollowsLifecycle, ProcessSteps DEF Lifecycle!Next

(* Every run follows the abstract lifecycle, for any runs, limits and      *)
(* reports: interrupted work is stranded, and a run ends once.             *)
THEOREM LifecycleRefinement == Spec => ImplementsRunLifecycle
<1>1. Init => Lifecycle!Init
  BY LifecycleInit
<1>2. TypeOK /\ TypeOK' /\ RecordInv /\ [Next]_vars => [Lifecycle!Next]_(Lifecycle!lifecycleVars)
  BY LifecycleStep
<1> QED
  BY <1>1, <1>2, TypeInvariant, RecordInvariant,
     PTL DEF Spec, ImplementsRunLifecycle, Lifecycle!Spec

=============================================================================
