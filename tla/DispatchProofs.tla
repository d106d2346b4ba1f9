--------------------------- MODULE DispatchProofs ---------------------------
(* Machine-checked proofs about Dispatch, for every set of runs, every     *)
(* settings.maxRunning and every length of the lane.                       *)
EXTENDS Dispatch, SequenceTheorems, FiniteSetTheorems, TLAPS

----------------------------------------------------------------------------
(* The inductive invariant.                                                *)

Deciding == {"starting", "resuming", "committing"}

(* Only the first operation of the lane is under way; one that starts or   *)
(* resumes a run found room for it, and names a run, which is still paused *)
(* once its root is there; a dispatcher that has passed its drain has none *)
(* of them left.                                                           *)
LaneInv ==
    /\ lane \in Seq(Operations)
    /\ \A i \in DOMAIN lane :
          /\ lane[i].kind \in {"resume", "settled"} => lane[i].run \in Runs
          /\ i # 1 => lane[i].stage = "waiting"
          /\ lane[i].stage = "starting" => lane[i].kind = "dispatch"
          /\ lane[i].stage \in {"resuming", "committing"} =>
                lane[i].run \in Runs /\ lane[i].kind \in {"dispatch", "resume"}
          /\ lane[i].stage = "committing" => run[lane[i].run].state = "paused"
          /\ lane[i].stage \in Deciding =>
                HasRunningCapacity /\ dispatcher \in {"accepting", "draining"}

(* Whoever owns an execution owns a run that executes, until it leaves; the*)
(* Session on disk knows what the Agent knew from the flush on, and the    *)
(* run's Git facts are those of the worktree once they were recorded.      *)
OwnerInv(r) ==
    /\ owner[r].phase = "none" => owner[r] = NoOwner
    /\ owner[r].phase \notin {"none", "leaving"} => Executing(r)
    /\ owner[r].durable => ~owner[r].unsaved
    /\ owner[r].phase \in {"setup", "mounting", "ready", "working", "idle"} => ~owner[r].durable
    /\ owner[r].phase \in {"disposed", "settling"} => owner[r].durable
    /\ owner[r].phase = "settling" => run[r].git = tree[r]

DispatchInv ==
    /\ TypeOK
    /\ LaneInv
    /\ \A r \in Runs : OwnerInv(r)
    /\ OneRootPerSession
    /\ dispatcher \in {"quiescing", "withdrawn"} => \A r \in Runs : run[r].state # "implementing"
    /\ dispatcher = "withdrawn" => Active = {}

----------------------------------------------------------------------------
(* Facts about sets of runs.                                               *)

(* A set of runs is finite, and one that has an element has a least one.   *)
LEMMA LeastRun ==
    ASSUME NEW S \in SUBSET Runs, S # {}
    PROVE  /\ IsFiniteSet(S)
           /\ \E r \in S : \A q \in S : r <= q
<1>1. IsFiniteSet(S)
  BY FS_Subset, DispatchAssumption
<1> DEFINE upTo(r) == {q \in S : q <= r}
           segments == {upTo(r) : r \in S}
<1>2. segments \subseteq FiniteSubsetsOf(S)
  <2> SUFFICES ASSUME NEW r \in S PROVE upTo(r) \in FiniteSubsetsOf(S)
    OBVIOUS
  <2>1. upTo(r) \in SUBSET S
    OBVIOUS
  <2>2. IsFiniteSet(upTo(r))
    BY <1>1, <2>1, FS_Subset
  <2> QED
    BY <2>1, <2>2 DEF FiniteSubsetsOf
<1>3. PICK T \in segments : \A U \in segments : <<U, T>> \notin StrictSubsetOrdering(S)
  <2>1. segments # {}
    OBVIOUS
  <2> HIDE DEF segments
  <2> QED
    BY <1>2, <2>1, WFMin, FS_StrictSubsetOrderingWellFounded
<1>4. PICK r \in S : T = upTo(r)
  BY <1>3
<1>5. S \subseteq Nat
  BY DispatchAssumption
<1>6. \A q \in S : r <= q
  <2> SUFFICES ASSUME NEW q \in S, q < r PROVE FALSE
    BY <1>4, <1>5
  <2>a. q \in Nat /\ r \in Nat /\ q < r
    BY <1>4, <1>5
  <2>b. \A p \in S : p <= q => p <= r
    <3> SUFFICES ASSUME NEW p \in S, p <= q PROVE p <= r
      OBVIOUS
    <3>1. p \in Nat
      BY <1>5
    <3> QED
      BY <2>a, <3>1
  <2>c. r \in S /\ r <= r /\ ~(r <= q)
    BY <1>4, <2>a
  <2>1. upTo(q) \subseteq upTo(r) /\ r \in upTo(r) /\ r \notin upTo(q)
    BY <2>b, <2>c
  <2>2. <<upTo(q), upTo(r)>> \in StrictSubsetOrdering(S)
    BY <2>1 DEF StrictSubsetOrdering
  <2> QED
    BY <1>3, <1>4, <2>2
<1> QED
  BY <1>1, <1>6

(* The runs that have an owner are counted by a natural number, which does *)
(* not grow when no run gets an owner, and grows by one at most when one   *)
(* does.                                                                   *)
LEMMA ActiveCounted ==
    /\ Cardinality(Active) \in Nat
    /\ Active' \subseteq Active => Cardinality(Active') <= Cardinality(Active)
    /\ \A r : Active' \subseteq Active \cup {r} => Cardinality(Active') <= Cardinality(Active) + 1
<1>1. IsFiniteSet(Active) /\ IsFiniteSet(Active')
  BY FS_Subset, DispatchAssumption DEF Active
<1>2. Cardinality(Active) \in Nat /\ Cardinality(Active') \in Nat
  BY <1>1, FS_CardinalityType
<1>3. Active' \subseteq Active => Cardinality(Active') <= Cardinality(Active)
  BY <1>1, FS_Subset
<1>4. ASSUME NEW r, Active' \subseteq Active \cup {r}
      PROVE  Cardinality(Active') <= Cardinality(Active) + 1
  <2> DEFINE A == Active
  <2>a. IsFiniteSet(A) /\ Cardinality(A) \in Nat
    BY <1>1, <1>2
  <2> HIDE DEF A
  <2>b. IsFiniteSet(A \cup {r}) /\ Cardinality(A \cup {r}) <= Cardinality(A) + 1
    BY <2>a, FS_AddElement
  <2>1. IsFiniteSet(Active \cup {r}) /\ Cardinality(Active \cup {r}) <= Cardinality(Active) + 1
    BY <2>b DEF A
  <2>2. Cardinality(Active') <= Cardinality(Active \cup {r})
    BY <1>4, <2>1, FS_Subset
  <2>3. Cardinality(Active \cup {r}) \in Nat
    BY <2>1, FS_CardinalityType
  <2> QED
    BY <1>2, <2>1, <2>2, <2>3
<1> QED
  BY <1>2, <1>3, <1>4

----------------------------------------------------------------------------
(* The lane.                                                               *)

(* A lane, or what is appended to one, none of which is under way.         *)
Waiting(l) ==
    /\ l \in Seq(Operations)
    /\ \A i \in DOMAIN l :
          l[i].stage = "waiting" /\ (l[i].kind \in {"resume", "settled"} => l[i].run \in Runs)

(* Once the first operation of the lane has left it, none is under way.    *)
LEMMA RestWaits ==
    ASSUME LaneInv, NEW i \in DOMAIN lane, i = 1
    PROVE  Waiting(RemoveAt(lane, i))
<1>1. lane \in Seq(Operations) /\ lane # <<>>
  BY DEF LaneInv
<1>2. Len(lane) \in Nat /\ DOMAIN lane = 1 .. Len(lane)
  BY <1>1
<1>3. RemoveAt(lane, i) = SubSeq(lane, 1, 0) \o SubSeq(lane, 2, Len(lane))
  BY <1>1 DEF RemoveAt
<1>4. SubSeq(lane, 1, 0) = <<>>
  BY SubSeqEmpty
<1>5. SubSeq(lane, 2, Len(lane)) = Tail(lane)
  BY <1>1, TailIsSubSeq
<1>6. Tail(lane) \in Seq(Operations)
  BY <1>1, HeadTailProperties
<1>7. RemoveAt(lane, i) = Tail(lane)
  BY <1>3, <1>4, <1>5, <1>6, ConcatEmptySeq
<1>8. \A k \in DOMAIN Tail(lane) : k + 1 \in DOMAIN lane /\ k + 1 # 1 /\ Tail(lane)[k] = lane[k + 1]
  BY <1>1, <1>2, <1>6, HeadTailProperties
<1> QED
  BY <1>6, <1>7, <1>8 DEF Waiting, LaneInv

(* Joining two lanes that wait gives one.                                  *)
LEMMA WaitingJoined ==
    ASSUME NEW l, NEW m, Waiting(l), Waiting(m)
    PROVE  Waiting(l \o m)
<1>1. l \in Seq(Operations) /\ m \in Seq(Operations)
  BY DEF Waiting
<1>2. /\ l \o m \in Seq(Operations)
      /\ Len(l \o m) = Len(l) + Len(m)
      /\ \A i \in 1 .. Len(l) + Len(m) : (l \o m)[i] = IF i <= Len(l) THEN l[i] ELSE m[i - Len(l)]
  BY <1>1, ConcatProperties
<1>3. DOMAIN l = 1 .. Len(l) /\ DOMAIN m = 1 .. Len(m) /\ Len(l) \in Nat /\ Len(m) \in Nat
  BY <1>1
<1>4. \A i \in 1 .. Len(l) + Len(m) :
         \/ i \in DOMAIN l /\ (l \o m)[i] = l[i]
         \/ i - Len(l) \in DOMAIN m /\ (l \o m)[i] = m[i - Len(l)]
  BY <1>2, <1>3
<1> QED
  BY <1>2, <1>4 DEF Waiting

(* The operations that the code appends wait.                              *)
LEMMA AppendedWaits ==
    /\ Waiting(<<>>)
    /\ Waiting(<<Op("reconcile", NoRun)>>)
    /\ Waiting(<<Op("dispatch", NoRun)>>)
    /\ \A r \in Runs : Waiting(<<Op("settled", r)>>) /\ Waiting(<<Op("resume", r)>>)
    /\ Waiting(Lanes)
<1>1. \A k \in {"reconcile", "dispatch"} : Op(k, NoRun) \in Operations
  BY DEF Op, Operations, Kinds, LaneStages
<1>2. \A k \in {"settled", "resume"}, r \in Runs : Op(k, r) \in Operations
  BY DEF Op, Operations, Kinds, LaneStages
<1>3. Waiting(<<>>)
  BY DEF Waiting
<1>4. \A k \in {"reconcile", "dispatch"} : Waiting(<<Op(k, NoRun)>>)
  BY <1>1 DEF Waiting, Op
<1>5. \A k \in {"settled", "resume"}, r \in Runs : Waiting(<<Op(k, r)>>)
  BY <1>2 DEF Waiting, Op
<1>6. Waiting([k \in 1 .. MaxRunning |-> Op("dispatch", NoRun)])
  <2> DEFINE loops == [k \in 1 .. MaxRunning |-> Op("dispatch", NoRun)]
  <2>1. loops \in Seq(Operations)
    BY <1>1, DispatchAssumption
  <2>2. \A k \in DOMAIN loops : loops[k].stage = "waiting" /\ loops[k].kind = "dispatch"
    BY DEF Op
  <2> QED
    BY <2>1, <2>2 DEF Waiting
<1> QED
  BY <1>3, <1>4, <1>5, <1>6 DEF Lanes

----------------------------------------------------------------------------
(* What a step has to show.                                                *)

Rooted(r) == owner[r].phase \in {"ready", "working", "idle"} \/ Resuming(r)
RootInv(r) == roots[r] = IF Rooted(r) THEN 1 ELSE 0

(* A root that is being prepared for a paused run is that run's only one.  *)
LEMMA NoOwnerWhileResuming ==
    ASSUME DispatchInv, NEW r \in Runs, Resuming(r)
    PROVE  owner[r].phase \in {"none", "leaving"} /\ roots[r] = 1
<1>1. run[r].state = "paused"
  BY DEF Resuming, DispatchInv, LaneInv
<1> QED
  BY <1>1 DEF DispatchInv, OwnerInv, Executing, OneRootPerSession

(* A lane that only gets longer by operations that wait stays what it was, *)
(* if paused runs stay paused and there still is room.                     *)
LEMMA LaneLengthens ==
    ASSUME DispatchInv, NEW l, Waiting(l), lane' = lane \o l \/ lane' = lane,
           \A r \in Runs : run[r].state = "paused" => run'[r].state = "paused",
           Active' \subseteq Active,
           dispatcher' \in {"accepting", "draining"} \/ dispatcher' = dispatcher
              \/ \A i \in DOMAIN lane : lane[i].stage = "waiting"
    PROVE  LaneInv' /\ \A r \in Runs : Resuming(r)' <=> Resuming(r)
<1> USE DEF DispatchInv
<1>1. lane \in Seq(Operations) /\ DOMAIN lane = 1 .. Len(lane) /\ Len(lane) \in Nat
  BY DEF LaneInv
<1>2. l \in Seq(Operations) /\ DOMAIN l = 1 .. Len(l) /\ Len(l) \in Nat
  BY DEF Waiting
<1>3. /\ lane' \in Seq(Operations)
      /\ \A i \in DOMAIN lane : i \in DOMAIN lane' /\ lane'[i] = lane[i]
      /\ \A i \in DOMAIN lane' \ DOMAIN lane : \E k \in DOMAIN l : lane'[i] = l[k]
  <2>1. CASE lane' = lane
    BY <1>1, <2>1
  <2>2. CASE lane' = lane \o l
    <3>1. /\ lane' \in Seq(Operations)
          /\ Len(lane') = Len(lane) + Len(l)
          /\ \A i \in 1 .. Len(lane) + Len(l) :
                lane'[i] = IF i <= Len(lane) THEN lane[i] ELSE l[i - Len(lane)]
      BY <1>1, <1>2, <2>2, ConcatProperties
    <3>2. DOMAIN lane' = 1 .. Len(lane) + Len(l)
      BY <3>1
    <3>3. \A i \in DOMAIN lane : i \in DOMAIN lane' /\ lane'[i] = lane[i]
      BY <1>1, <1>2, <3>1, <3>2
    <3>4. ASSUME NEW i \in DOMAIN lane' \ DOMAIN lane
          PROVE  \E k \in DOMAIN l : lane'[i] = l[k]
      <4>1. i - Len(lane) \in DOMAIN l /\ lane'[i] = l[i - Len(lane)]
        BY <1>1, <1>2, <3>1, <3>2
      <4> QED
        BY <4>1
    <3> QED
      BY <3>1, <3>3, <3>4
  <2> QED
    BY <2>1, <2>2
<1>4. \A i \in DOMAIN lane' \ DOMAIN lane :
         lane'[i].stage = "waiting" /\ (lane'[i].kind \in {"resume", "settled"} => lane'[i].run \in Runs)
  BY <1>3 DEF Waiting
<1>5. HasRunningCapacity => HasRunningCapacity'
  <2>1. Cardinality(Active) \in Nat /\ Cardinality(Active') <= Cardinality(Active)
    BY ActiveCounted
  <2>2. Cardinality(Active') \in Nat
    BY FS_Subset, FS_CardinalityType, DispatchAssumption DEF Active
  <2> QED
    BY <2>1, <2>2, DispatchAssumption DEF HasRunningCapacity
<1>6. \A i \in DOMAIN lane : lane[i].stage \in Deciding => dispatcher' \in {"accepting", "draining"}
  BY DEF LaneInv, Deciding
<1>7. \A i \in DOMAIN lane' : lane'[i].stage # "waiting" => i \in DOMAIN lane /\ lane'[i] = lane[i]
  BY <1>3, <1>4
<1>8. ASSUME NEW i \in DOMAIN lane'
      PROVE  /\ lane'[i].kind \in {"resume", "settled"} => lane'[i].run \in Runs
             /\ i # 1 => lane'[i].stage = "waiting"
             /\ lane'[i].stage = "starting" => lane'[i].kind = "dispatch"
             /\ lane'[i].stage \in {"resuming", "committing"} =>
                   lane'[i].run \in Runs /\ lane'[i].kind \in {"dispatch", "resume"}
             /\ lane'[i].stage = "committing" => run'[lane'[i].run].state = "paused"
             /\ lane'[i].stage \in Deciding =>
                   HasRunningCapacity' /\ dispatcher' \in {"accepting", "draining"}
  <2>1. CASE i \in DOMAIN lane
    <3>1. lane'[i] = lane[i]
      BY <1>3, <2>1
    <3> QED
      BY <1>5, <1>6, <2>1, <3>1 DEF LaneInv, Deciding
  <2>2. CASE i \notin DOMAIN lane
    BY <1>1, <1>3, <1>4, <2>2 DEF Deciding
  <2> QED
    BY <2>1, <2>2
<1>9. LaneInv'
  BY <1>3, <1>8 DEF LaneInv
<1>10. \A r \in Runs : Resuming(r)' <=> Resuming(r)
  BY <1>3, <1>7 DEF Resuming
<1> QED
  BY <1>9, <1>10

(* A lane that waits decides nothing, whatever the step does.              *)
LEMMA LaneWaits ==
    ASSUME Waiting(lane')
    PROVE  LaneInv' /\ \A r \in Runs : ~Resuming(r)'
<1>1. \A i \in DOMAIN lane' : lane'[i].stage = "waiting"
  BY DEF Waiting
<1> QED
  BY <1>1 DEF Waiting, LaneInv, Deciding, Resuming

(* The bound on owners holds if no run gets an owner, or one run does while*)
(* there is room.                                                          *)
LEMMA ActiveBounded ==
    ASSUME DispatchInv, NEW r,
           Active' \subseteq Active \/ (HasRunningCapacity /\ Active' \subseteq Active \cup {r})
    PROVE  Cardinality(Active') <= MaxRunning
<1>1. Cardinality(Active) \in Nat /\ Cardinality(Active') \in Nat
  BY FS_Subset, FS_CardinalityType, DispatchAssumption DEF Active
<1>2. MaxRunning \in Nat
  BY DispatchAssumption
<1>3. CASE Active' \subseteq Active
  BY <1>1, <1>2, <1>3, ActiveCounted DEF DispatchInv, OneRootPerSession
<1>4. CASE HasRunningCapacity /\ Active' \subseteq Active \cup {r}
  BY <1>1, <1>2, <1>4, ActiveCounted DEF HasRunningCapacity
<1> QED
  BY <1>3, <1>4

----------------------------------------------------------------------------
(* One execution.                                                          *)

(* What a step of one run's owner has to show to preserve the invariant:   *)
(* nothing of the other runs changes, the run's own part of the invariant  *)
(* holds, and neither does the run stop being paused or start implementing,*)
(* nor does it get an owner.                                               *)
LEMMA OwnerMoves ==
    ASSUME DispatchInv, TypeOK', NEW r \in Runs,
           \A q \in Runs \ {r} : /\ run'[q] = run[q] /\ owner'[q] = owner[q]
                                 /\ roots'[q] = roots[q] /\ tree'[q] = tree[q],
           OwnerInv(r)',
           (Resuming(r)' <=> Resuming(r)) => RootInv(r)',
           lane' = lane \/ lane' = Append(lane, Op("settled", r)),
           dispatcher' = dispatcher,
           run[r].state = "paused" => run'[r].state = "paused",
           run'[r].state = "implementing" => run[r].state = "implementing",
           owner[r].phase = "none" => owner'[r].phase = "none"
    PROVE  DispatchInv'
<1>1. Active' \subseteq Active
  BY DEF Active
<1>2. PICK l : Waiting(l) /\ (lane' = lane \o l \/ lane' = lane)
  <2>1. lane \in Seq(Operations) /\ Op("settled", r) \in Operations
    BY DEF DispatchInv, LaneInv, Op, Operations, Kinds, LaneStages
  <2>2. Append(lane, Op("settled", r)) = lane \o <<Op("settled", r)>>
    BY <2>1, AppendIsConcat
  <2> QED
    BY <2>2, AppendedWaits
<1>3. \A q \in Runs : run[q].state = "paused" => run'[q].state = "paused"
  OBVIOUS
<1>4. LaneInv' /\ \A q \in Runs : Resuming(q)' <=> Resuming(q)
  BY <1>1, <1>2, <1>3, LaneLengthens
<1>5. ASSUME NEW q \in Runs
      PROVE  OwnerInv(q)' /\ RootInv(q)'
  <2>1. CASE q = r
    BY <1>4, <2>1
  <2>2. CASE q # r
    <3>1. OwnerInv(q) /\ RootInv(q)
      BY DEF DispatchInv, OneRootPerSession, RootInv, Rooted
    <3> QED
      BY <1>4, <2>2, <3>1 DEF OwnerInv, RootInv, Rooted, Executing
  <2> QED
    BY <2>1, <2>2
<1>6. OneRootPerSession'
  BY <1>1, <1>5, ActiveBounded DEF OneRootPerSession, RootInv, Rooted
<1>7. dispatcher' \in {"quiescing", "withdrawn"} => \A q \in Runs : run'[q].state # "implementing"
  BY DEF DispatchInv
<1>8. dispatcher' = "withdrawn" => Active' = {}
  BY <1>1 DEF DispatchInv
<1> QED
  BY <1>4, <1>5, <1>6, <1>7, <1>8 DEF DispatchInv

(* One field of an owner or of a run's record is written at a time.        *)
LEMMA OwnerFields ==
    ASSUME NEW o \in Owners
    PROVE  /\ \A p \in Phases : [o EXCEPT !.phase = p] \in Owners
           /\ \A t \in NoReport .. MaxChanges : [o EXCEPT !.report = t] \in Owners
           /\ [o EXCEPT !.unsaved = TRUE] \in Owners
           /\ [o EXCEPT !.mounted = TRUE] \in Owners
           /\ [o EXCEPT !.cancelling = TRUE] \in Owners
           /\ [o EXCEPT !.pauseRequested = TRUE] \in Owners
<1>1. \A p \in Phases : [o EXCEPT !.phase = p] \in Owners
  BY DEF Owners
<1>2. \A t \in NoReport .. MaxChanges : [o EXCEPT !.report = t] \in Owners
  BY DEF Owners
<1>3. [o EXCEPT !.unsaved = TRUE] \in Owners /\ [o EXCEPT !.mounted = TRUE] \in Owners
  BY DEF Owners
<1>4. [o EXCEPT !.cancelling = TRUE] \in Owners /\ [o EXCEPT !.pauseRequested = TRUE] \in Owners
  BY DEF Owners
<1> QED
  BY <1>1, <1>2, <1>3, <1>4

LEMMA RunFields ==
    ASSUME NEW x \in RunRecords
    PROVE  /\ \A s \in RunStates : [x EXCEPT !.state = s] \in RunRecords
           /\ \A g \in 0 .. MaxChanges : [x EXCEPT !.git = g] \in RunRecords
           /\ [x EXCEPT !.hold = TRUE] \in RunRecords
           /\ [x EXCEPT !.recovery = TRUE] \in RunRecords
<1>1. \A s \in RunStates : [x EXCEPT !.state = s] \in RunRecords
  BY DEF RunRecords
<1>2. \A g \in 0 .. MaxChanges : [x EXCEPT !.git = g] \in RunRecords
  BY DEF RunRecords
<1>3. [x EXCEPT !.hold = TRUE] \in RunRecords /\ [x EXCEPT !.recovery = TRUE] \in RunRecords
  BY DEF RunRecords
<1> QED
  BY <1>1, <1>2, <1>3

(* The setup of an execution and the turn of its Agent.                    *)
LEMMA TurnKeepsInv ==
    ASSUME DispatchInv, NEW r \in Runs, UNCHANGED <<mode, reconciling, dispatcher, bounds>>,
           \/ AddWorktree(r) \/ Mount(r) \/ SetupFails(r) \/ MountFails(r) \/ Prompt(r) \/ Work(r)
           \/ Report(r) \/ AgentIdle(r) \/ TurnFails(r) \/ Flush(r) \/ FlushFails(r)
    PROVE  DispatchInv'
<1> USE DEF OwnerInv, RootInv, Rooted, Executing
<1>a. TypeOK /\ OwnerInv(r)
  BY DEF DispatchInv
<1>b. RootInv(r)
  BY DEF DispatchInv, OneRootPerSession
<1>c. owner[r].phase \notin {"none", "leaving"} => ~Resuming(r)
  BY NoOwnerWhileResuming
<1>d. /\ owner \in [Runs -> Owners] /\ run \in [Runs -> RunRecords]
      /\ roots \in [Runs -> {0, 1}] /\ tree \in [Runs -> 0 .. MaxChanges]
  BY <1>a DEF TypeOK
<1>e. 0 \in 0 .. MaxChanges /\ 1 \in 0 .. MaxChanges /\ MaxChanges \in Nat
  BY DispatchAssumption
<1>1. CASE AddWorktree(r)
  <2>1. owner' \in [Runs -> Owners]
    BY <1>1, <1>d DEF AddWorktree, Own, Owners, Phases
  <2>2. run' \in [Runs -> RunRecords]
    BY <1>1, <1>d, <1>e DEF AddWorktree, RunRecords
  <2>3. TypeOK'
    BY <1>1, <1>a, <1>e, <2>1, <2>2 DEF AddWorktree, TypeOK
  <2> QED
    BY <1>1, <1>a, <1>b, <1>c, <1>d, <2>3, OwnerMoves DEF AddWorktree, Own, RunRecords, Owners
<1>2. CASE Mount(r)
  <2>1. owner' \in [Runs -> Owners]
    <3> DEFINE ready == [owner[r] EXCEPT !.phase = "ready", !.mounted = TRUE]
    <3>1. ready \in Owners
      BY <1>d, OwnerFields DEF Phases
    <3>2. owner' = [owner EXCEPT ![r] = ready]
      BY <1>2 DEF Mount
    <3> HIDE DEF ready
    <3> QED
      BY <1>d, <3>1, <3>2
  <2>2. roots' \in [Runs -> {0, 1}]
    BY <1>2, <1>b, <1>c, <1>d DEF Mount
  <2>3. TypeOK'
    BY <1>2, <1>a, <2>1, <2>2 DEF Mount, TypeOK
  <2> QED
    BY <1>2, <1>a, <1>b, <1>c, <1>d, <2>3, OwnerMoves DEF Mount, Owners
<1>3. CASE SetupFails(r) \/ MountFails(r) \/ Prompt(r) \/ AgentIdle(r)
  <2>1. owner' \in [Runs -> Owners]
    BY <1>3, <1>d DEF SetupFails, MountFails, Prompt, AgentIdle, Own, Owners, Phases
  <2>2. UNCHANGED <<run, lane, agentVars>>
    BY <1>3 DEF SetupFails, MountFails, Prompt, AgentIdle
  <2>3. TypeOK'
    BY <1>a, <2>1, <2>2 DEF TypeOK, agentVars
  <2>4. /\ \A q \in Runs \ {r} : owner'[q] = owner[q]
        /\ owner[r].phase \notin {"none", "leaving"}
        /\ owner'[r].phase \notin {"none", "leaving", "disposed", "settling"}
        /\ owner'[r].durable = owner[r].durable /\ owner'[r].unsaved = owner[r].unsaved
        /\ owner'[r].phase \in {"ready", "working", "idle"} <=> owner[r].phase \in {"ready", "working", "idle"}
        /\ ~owner[r].durable
    BY <1>3, <1>a, <1>d DEF SetupFails, MountFails, Prompt, AgentIdle, Own, Owners
  <2> QED
    BY <1>a, <1>b, <2>2, <2>3, <2>4, OwnerMoves DEF agentVars
<1>4. CASE Work(r)
  <2>1. owner' \in [Runs -> Owners]
    <3>1. [owner[r] EXCEPT !.unsaved = TRUE] \in Owners
      BY <1>d, OwnerFields
    <3> QED
      BY <1>4, <1>d, <3>1 DEF Work
  <2>2. tree' \in [Runs -> 0 .. MaxChanges]
    BY <1>4, <1>d, <1>e DEF Work
  <2>3. TypeOK'
    BY <1>4, <1>a, <2>1, <2>2 DEF Work, TypeOK
  <2> QED
    BY <1>4, <1>a, <1>b, <1>c, <1>d, <2>3, OwnerMoves DEF Work, Owners
<1>5. CASE Report(r)
  <2>1. tree[r] \in NoReport .. MaxChanges
    BY <1>d, <1>e DEF NoReport
  <2>2. owner' \in [Runs -> Owners]
    <3> DEFINE reported == [owner[r] EXCEPT !.report = tree[r], !.unsaved = TRUE]
    <3>1. reported \in Owners
      BY <1>d, <2>1, OwnerFields
    <3>2. owner' = [owner EXCEPT ![r] = reported]
      BY <1>5 DEF Report
    <3> HIDE DEF reported
    <3> QED
      BY <1>d, <3>1, <3>2
  <2>3. TypeOK'
    BY <1>5, <1>a, <2>2 DEF Report, TypeOK, agentVars
  <2> QED
    BY <1>5, <1>a, <1>b, <1>c, <1>d, <2>3, OwnerMoves DEF Report, agentVars, Owners
<1>6. CASE TurnFails(r)
  <2>1. owner' \in [Runs -> Owners]
    BY <1>6, <1>d DEF TurnFails, Own, Owners, Phases
  <2>2. roots' \in [Runs -> {0, 1}]
    BY <1>6, <1>b, <1>c, <1>d DEF TurnFails, Disposing
  <2>3. TypeOK'
    BY <1>6, <1>a, <2>1, <2>2 DEF TurnFails, TypeOK
  <2> QED
    BY <1>6, <1>a, <1>b, <1>c, <1>d, <2>3, OwnerMoves DEF TurnFails, Own, Disposing, Owners
<1>7. CASE Flush(r) \/ FlushFails(r)
  <2>1. owner' \in [Runs -> Owners]
    BY <1>7, <1>d DEF Flush, Flushed, FlushFails, Owners, Phases
  <2>2. roots' \in [Runs -> {0, 1}]
    BY <1>7, <1>b, <1>c, <1>d DEF Flush, FlushFails, Disposing
  <2>3. TypeOK'
    BY <1>7, <1>a, <2>1, <2>2 DEF Flush, FlushFails, TypeOK
  <2>4. /\ \A q \in Runs \ {r} : owner'[q] = owner[q]
        /\ owner[r].phase = "idle" /\ owner'[r].phase \in {"disposed", "failing"}
        /\ owner'[r].durable => ~owner'[r].unsaved
        /\ owner'[r].phase = "disposed" => owner'[r].durable
    BY <1>7, <1>a, <1>d DEF Flush, Flushed, FlushFails, Owners
  <2>5. \A q \in Runs : roots'[q] = IF q = r THEN 0 ELSE roots[q]
    BY <1>7, <1>b, <1>c, <1>d DEF Flush, FlushFails, Disposing
  <2>6. UNCHANGED <<run, lane, tree>>
    BY <1>7 DEF Flush, FlushFails
  <2> QED
    BY <1>a, <1>b, <1>c, <2>3, <2>4, <2>5, <2>6, OwnerMoves
<1> QED
  BY <1>1, <1>2, <1>3, <1>4, <1>5, <1>6, <1>7

(* An owner that ends leaves a typed state: it is gone, or it leaves after *)
(* the pause request it has made.                                          *)
LEMMA GoneTyped ==
    ASSUME DispatchInv, NEW r \in Runs, Gone(r)
    PROVE  /\ owner' \in [Runs -> Owners]
           /\ \A q \in Runs \ {r} : owner'[q] = owner[q]
           /\ owner'[r].phase \in {"none", "leaving"}
           /\ owner'[r].phase = "none" => owner'[r] = NoOwner
           /\ owner[r].phase = "none" => owner'[r].phase = "none"
           /\ owner'[r].durable => ~owner'[r].unsaved
<1>1. owner \in [Runs -> Owners] /\ OwnerInv(r) /\ MaxChanges \in Nat
  BY DispatchAssumption DEF DispatchInv, TypeOK
<1>2. NoOwner \in Owners
  BY <1>1 DEF NoOwner, Owners, Phases, NoReport
<1>3. [owner[r] EXCEPT !.phase = "leaving"] \in Owners
  BY <1>1 DEF Owners, Phases
<1>4. owner' \in [Runs -> Owners]
  BY <1>1, <1>2, <1>3 DEF Gone
<1>5. \A q \in Runs \ {r} : owner'[q] = owner[q]
  BY <1>1 DEF Gone
<1>6. owner'[r] = IF owner[r].cancelling THEN [owner[r] EXCEPT !.phase = "leaving"] ELSE NoOwner
  BY <1>1 DEF Gone
<1>7. owner[r].phase = "none" => ~owner[r].cancelling
  BY <1>1 DEF OwnerInv, NoOwner
<1>8. CASE owner[r].cancelling
  <2>1. owner'[r] = [owner[r] EXCEPT !.phase = "leaving"]
    BY <1>6, <1>8
  <2>2. owner'[r].phase = "leaving" /\ owner'[r].durable = owner[r].durable
        /\ owner'[r].unsaved = owner[r].unsaved
    BY <1>1, <2>1 DEF Owners
  <2> QED
    BY <1>1, <1>4, <1>5, <1>7, <1>8, <2>2 DEF OwnerInv
<1>9. CASE ~owner[r].cancelling
  <2>1. owner'[r] = NoOwner
    BY <1>6, <1>9
  <2> QED
    BY <1>4, <1>5, <2>1 DEF NoOwner
<1> QED
  BY <1>8, <1>9

(* The lane an owner leaves behind is typed.                               *)
LEMMA EndedLaneTyped ==
    ASSUME DispatchInv, NEW r \in Runs, lane' = lane \/ lane' = Append(lane, Op("settled", r))
    PROVE  \A i \in DOMAIN lane' : lane'[i] \in Operations
<1>1. lane \in Seq(Operations) /\ Op("settled", r) \in Operations
  BY DEF DispatchInv, LaneInv, Op, Operations, Kinds, LaneStages
<1>2. lane' \in Seq(Operations)
  BY <1>1
<1> QED
  BY <1>2

(* What follows the end of the turn, until the owner is gone.              *)
LEMMA EndKeepsInv ==
    ASSUME DispatchInv, NEW r \in Runs, UNCHANGED <<mode, reconciling, dispatcher, bounds>>,
           \/ Conclude(r) \/ ObserveFails(r) \/ Settle(r) \/ ConcludeFailure(r) \/ SettleFailure(r)
           \/ CancellationRequested(r) \/ CancelResumption(r)
    PROVE  DispatchInv'
<1> USE DEF OwnerInv, RootInv, Rooted, Executing
<1>a. TypeOK /\ OwnerInv(r)
  BY DEF DispatchInv
<1>b. RootInv(r)
  BY DEF DispatchInv, OneRootPerSession
<1>c. owner[r].phase \notin {"none", "leaving"} => ~Resuming(r)
  BY NoOwnerWhileResuming
<1>d. /\ owner \in [Runs -> Owners] /\ run \in [Runs -> RunRecords]
      /\ roots \in [Runs -> {0, 1}] /\ tree \in [Runs -> 0 .. MaxChanges]
  BY <1>a DEF TypeOK
<1>1. CASE Conclude(r)
  <2>1. CASE run[r].state = "pausing"
    <3>1. /\ run' = [run EXCEPT ![r].state = "paused", ![r].git = tree[r]]
          /\ Gone(r) /\ (lane' = lane \/ lane' = Append(lane, Op("settled", r)))
          /\ UNCHANGED agentVars /\ owner[r].phase = "disposed"
      BY <1>1, <2>1 DEF Conclude, CheckpointAt, Ended, Observed
    <3>2. run' \in [Runs -> RunRecords] /\ run'[r].state = "paused"
          /\ \A q \in Runs \ {r} : run'[q] = run[q]
      <4> DEFINE paused == [run EXCEPT ![r].state = "paused"]
      <4>1. paused \in [Runs -> RunRecords] /\ paused[r].state = "paused"
            /\ \A q \in Runs \ {r} : paused[q] = run[q]
        BY <1>d DEF RunRecords, RunStates
      <4>2. run' = [paused EXCEPT ![r].git = tree[r]]
        BY <3>1
      <4> HIDE DEF paused
      <4> QED
        BY <1>d, <4>1, <4>2 DEF RunRecords
    <3>3. TypeOK'
      BY <1>a, <3>1, <3>2, GoneTyped, EndedLaneTyped DEF TypeOK, agentVars
    <3> QED
      BY <1>a, <1>b, <1>c, <2>1, <3>1, <3>2, <3>3, GoneTyped, OwnerMoves DEF agentVars
  <2>2. CASE run[r].state # "pausing"
    <3>1. /\ run' = [run EXCEPT ![r].git = tree[r]]
          /\ owner' = [owner EXCEPT ![r].phase = "settling"]
          /\ UNCHANGED <<lane, agentVars>> /\ owner[r].phase = "disposed"
      BY <1>1, <2>2 DEF Conclude, Own, Observed
    <3>2. run' \in [Runs -> RunRecords]
      BY <1>d, <3>1 DEF RunRecords
    <3>3. owner' \in [Runs -> Owners]
      <4>1. [owner[r] EXCEPT !.phase = "settling"] \in Owners
        BY <1>d, OwnerFields DEF Phases
      <4> QED
        BY <1>d, <3>1, <4>1
    <3>4. TypeOK'
      BY <1>a, <3>1, <3>2, <3>3 DEF TypeOK, agentVars
    <3> QED
      BY <1>a, <1>b, <1>c, <1>d, <3>1, <3>4, OwnerMoves DEF agentVars, RunRecords, Owners
  <2> QED
    BY <2>1, <2>2
<1>2. CASE ObserveFails(r)
  <2>1. owner' \in [Runs -> Owners]
    BY <1>2, <1>d DEF ObserveFails, Own, Owners, Phases
  <2>2. TypeOK'
    BY <1>2, <1>a, <2>1 DEF ObserveFails, TypeOK, agentVars
  <2> QED
    BY <1>2, <1>a, <1>b, <1>c, <1>d, <2>2, OwnerMoves DEF ObserveFails, Own, agentVars, Owners
<1>3. CASE Settle(r)
  <2>1. CASE run[r].state = "implementing"
    <3>1. PICK s \in {"publishing", "ended"} :
             /\ run' = [run EXCEPT ![r].state = s]
             /\ Gone(r) /\ (lane' = lane \/ lane' = Append(lane, Op("settled", r)))
             /\ UNCHANGED agentVars /\ owner[r].phase = "settling"
      BY <1>3, <2>1 DEF Settle, SetRun, Outcome, Ended
    <3>2. run' \in [Runs -> RunRecords] /\ run'[r].state = s
          /\ \A q \in Runs \ {r} : run'[q] = run[q]
      BY <1>d, <3>1 DEF RunRecords, RunStates
    <3>3. TypeOK'
      BY <1>a, <3>1, <3>2, GoneTyped, EndedLaneTyped DEF TypeOK, agentVars
    <3> QED
      BY <1>a, <1>b, <1>c, <2>1, <3>1, <3>2, <3>3, GoneTyped, OwnerMoves DEF agentVars
  <2>2. CASE run[r].state # "implementing"
    <3>1. /\ owner' = [owner EXCEPT ![r].phase = "failing"]
          /\ UNCHANGED <<run, lane, agentVars>> /\ owner[r].phase = "settling"
      BY <1>3, <2>2 DEF Settle, Own
    <3>2. owner' \in [Runs -> Owners]
      <4>1. [owner[r] EXCEPT !.phase = "failing"] \in Owners
        BY <1>d, OwnerFields DEF Phases
      <4> QED
        BY <1>d, <3>1, <4>1
    <3>3. TypeOK'
      BY <1>a, <3>1, <3>2 DEF TypeOK, agentVars
    <3> QED
      BY <1>a, <1>b, <1>c, <1>d, <3>1, <3>3, OwnerMoves DEF agentVars, Owners
  <2> QED
    BY <2>1, <2>2
<1>4. CASE ConcludeFailure(r)
  <2>1. PICK g \in 0 .. MaxChanges :
           /\ \/ run[r].state # "pausing" /\ run' = [run EXCEPT ![r].git = g]
                 /\ Own(r, "settlingFailure") /\ UNCHANGED lane
              \/ run' = [run EXCEPT ![r].state = "paused", ![r].git = g] /\ Ended(r)
              \/ run' = [run EXCEPT ![r].git = g] /\ Thrown(r)
           /\ UNCHANGED agentVars /\ owner[r].phase = "failing"
    <3>1. run[r].git \in 0 .. MaxChanges /\ tree[r] \in 0 .. MaxChanges
      BY <1>d DEF RunRecords
    <3>2. PICK observed \in {FALSE, run[r].git # NoGit} :
             LET git == IF observed THEN Observed(r) ELSE run[r].git IN
             IF run[r].state # "pausing"
             THEN run' = [run EXCEPT ![r].git = git] /\ Own(r, "settlingFailure") /\ UNCHANGED lane
             ELSE IF Proven(r, observed)
             THEN CheckpointAt(r, git)
             ELSE run' = [run EXCEPT ![r].git = git] /\ Thrown(r)
      BY <1>4 DEF ConcludeFailure
    <3>3. (IF observed THEN Observed(r) ELSE run[r].git) \in 0 .. MaxChanges
      BY <3>1 DEF Observed
    <3>4. UNCHANGED agentVars /\ owner[r].phase = "failing"
      BY <1>4 DEF ConcludeFailure
    <3> QED
      BY <3>2, <3>3, <3>4 DEF CheckpointAt
  <2>2. CASE run[r].state # "pausing" /\ run' = [run EXCEPT ![r].git = g]
             /\ Own(r, "settlingFailure") /\ UNCHANGED lane
    <3>1. run' \in [Runs -> RunRecords]
      <4>1. [run[r] EXCEPT !.git = g] \in RunRecords
        BY <1>d, RunFields
      <4> QED
        BY <1>d, <2>2, <4>1
    <3>2. owner' \in [Runs -> Owners]
      <4>1. [owner[r] EXCEPT !.phase = "settlingFailure"] \in Owners
        BY <1>d, OwnerFields DEF Phases
      <4> QED
        BY <1>d, <2>2, <4>1 DEF Own
    <3>3. TypeOK'
      BY <1>a, <2>1, <2>2, <3>1, <3>2 DEF TypeOK, agentVars
    <3>4. run'[r].state = run[r].state /\ \A q \in Runs \ {r} : run'[q] = run[q] /\ owner'[q] = owner[q]
      BY <1>d, <2>2 DEF Own, RunRecords
    <3>5. owner'[r].phase = "settlingFailure" /\ owner'[r].durable = owner[r].durable
          /\ owner'[r].unsaved = owner[r].unsaved
      <4>1. owner'[r] = [owner[r] EXCEPT !.phase = "settlingFailure"] /\ owner[r] \in Owners
        BY <1>d, <2>2 DEF Own
      <4> QED
        BY <4>1 DEF Owners
    <3> QED
      BY <1>a, <1>b, <1>c, <2>1, <2>2, <3>3, <3>4, <3>5, OwnerMoves DEF agentVars
  <2>3. CASE run' = [run EXCEPT ![r].state = "paused", ![r].git = g] /\ Ended(r)
    <3>1. Gone(r) /\ (lane' = lane \/ lane' = Append(lane, Op("settled", r)))
      BY <2>3 DEF Ended
    <3>2. run' \in [Runs -> RunRecords] /\ run'[r].state = "paused"
          /\ \A q \in Runs \ {r} : run'[q] = run[q]
      <4> DEFINE paused == [run EXCEPT ![r].state = "paused"]
      <4>1. paused \in [Runs -> RunRecords] /\ paused[r].state = "paused"
            /\ \A q \in Runs \ {r} : paused[q] = run[q]
        BY <1>d DEF RunRecords, RunStates
      <4>2. run' = [paused EXCEPT ![r].git = g]
        BY <2>3
      <4> HIDE DEF paused
      <4> QED
        BY <1>d, <4>1, <4>2 DEF RunRecords
    <3>3. TypeOK'
      BY <1>a, <2>1, <3>1, <3>2, GoneTyped, EndedLaneTyped DEF TypeOK, agentVars
    <3> QED
      BY <1>a, <1>b, <1>c, <2>1, <3>1, <3>2, <3>3, GoneTyped, OwnerMoves DEF agentVars
  <2>4. CASE run' = [run EXCEPT ![r].git = g] /\ Thrown(r)
    <3>1. Gone(r) /\ UNCHANGED lane
      BY <2>4 DEF Thrown
    <3>2. run' \in [Runs -> RunRecords] /\ run'[r].state = run[r].state
          /\ \A q \in Runs \ {r} : run'[q] = run[q]
      BY <1>d, <2>4 DEF RunRecords
    <3>3. TypeOK'
      BY <1>a, <2>1, <3>1, <3>2, GoneTyped DEF TypeOK, agentVars
    <3> QED
      BY <1>a, <1>b, <1>c, <2>1, <3>1, <3>2, <3>3, GoneTyped, OwnerMoves DEF agentVars
  <2> QED
    BY <2>1, <2>2, <2>3, <2>4
<1>5. CASE SettleFailure(r)
  <2>1. /\ \/ run[r].state = "implementing" /\ run' = [run EXCEPT ![r].state = "ended"]
           \/ UNCHANGED run
        /\ Gone(r) /\ (lane' = lane \/ lane' = Append(lane, Op("settled", r)))
        /\ UNCHANGED agentVars /\ owner[r].phase = "settlingFailure"
    BY <1>5 DEF SettleFailure, SetRun, Ended, Thrown
  <2>2. /\ run' \in [Runs -> RunRecords]
        /\ run'[r].state = run[r].state \/ (run[r].state = "implementing" /\ run'[r].state = "ended")
        /\ \A q \in Runs \ {r} : run'[q] = run[q]
    <3>1. [run[r] EXCEPT !.state = "ended"] \in RunRecords
      BY <1>d, RunFields DEF RunStates
    <3>2. [run[r] EXCEPT !.state = "ended"].state = "ended"
      BY <1>d DEF RunRecords
    <3> QED
      BY <1>d, <2>1, <3>1, <3>2
  <2>3. TypeOK'
    BY <1>a, <2>1, <2>2, GoneTyped, EndedLaneTyped DEF TypeOK, agentVars
  <2> QED
    BY <1>a, <1>b, <1>c, <2>1, <2>2, <2>3, GoneTyped, OwnerMoves DEF agentVars
<1>6. CASE CancellationRequested(r)
  <2>1. /\ owner[r].cancelling
        /\ owner' = [owner EXCEPT ![r] = IF owner[r].phase = "leaving" THEN NoOwner
                                         ELSE [owner[r] EXCEPT !.cancelling = FALSE]]
        /\ UNCHANGED <<lane, agentVars>>
    BY <1>6 DEF CancellationRequested
  <2>2. owner[r].phase # "none"
    BY <1>a, <2>1 DEF NoOwner
  <2>3. /\ owner' \in [Runs -> Owners]
        /\ \A q \in Runs \ {r} : owner'[q] = owner[q]
        /\ \/ owner'[r] = NoOwner /\ owner[r].phase = "leaving"
           \/ /\ owner[r].phase # "leaving" /\ owner'[r].phase = owner[r].phase
              /\ owner'[r].durable = owner[r].durable /\ owner'[r].unsaved = owner[r].unsaved
    <3>1. NoOwner \in Owners
      BY DispatchAssumption DEF NoOwner, Owners, Phases, NoReport
    <3>2. [owner[r] EXCEPT !.cancelling = FALSE] \in Owners
      <4>1. owner[r] \in Owners
        BY <1>d
      <4> QED
        BY <4>1 DEF Owners
    <3>3. owner' \in [Runs -> Owners] /\ \A q \in Runs \ {r} : owner'[q] = owner[q]
      BY <1>d, <2>1, <3>1, <3>2
    <3>4. owner'[r] = IF owner[r].phase = "leaving" THEN NoOwner ELSE [owner[r] EXCEPT !.cancelling = FALSE]
      BY <1>d, <2>1
    <3> QED
      BY <1>d, <3>3, <3>4 DEF Owners
  <2>4. /\ run' \in [Runs -> RunRecords]
        /\ run'[r].state = run[r].state \/ (run[r].state = "implementing" /\ run'[r].state = "pausing")
        /\ run'[r].git = run[r].git
        /\ \A q \in Runs \ {r} : run'[q] = run[q]
    <3>1. CASE ~PauseRequestAccepted(r)
      BY <1>6, <1>d, <3>1 DEF CancellationRequested
    <3>2. CASE PauseRequestAccepted(r)
      <4> DEFINE s == IF run[r].state = "implementing" THEN "pausing" ELSE run[r].state
                 asked == [run EXCEPT ![r].state = s]
      <4>1. s \in RunStates /\ (s = run[r].state \/ (run[r].state = "implementing" /\ s = "pausing"))
        BY <1>d DEF RunRecords, RunStates
      <4>2. run' = [asked EXCEPT ![r].hold = TRUE]
        BY <1>6, <3>2 DEF CancellationRequested
      <4> HIDE DEF s
      <4>3. asked \in [Runs -> RunRecords] /\ asked[r].state = s /\ asked[r].git = run[r].git
            /\ \A q \in Runs \ {r} : asked[q] = run[q]
        BY <1>d, <4>1 DEF RunRecords
      <4> HIDE DEF asked
      <4>4. [asked[r] EXCEPT !.hold = TRUE] \in RunRecords /\ asked[r] \in RunRecords
        BY <4>3, RunFields
      <4>5. run' \in [Runs -> RunRecords] /\ \A q \in Runs \ {r} : run'[q] = run[q]
        BY <4>2, <4>3, <4>4
      <4>6. run'[r] = [asked[r] EXCEPT !.hold = TRUE]
        BY <4>2, <4>3
      <4>7. run'[r].state = s /\ run'[r].git = run[r].git
        BY <4>3, <4>4, <4>6 DEF RunRecords
      <4> QED
        BY <4>1, <4>5, <4>7
    <3> QED
      BY <3>1, <3>2
  <2>5. TypeOK'
    BY <1>a, <2>1, <2>3, <2>4 DEF TypeOK, agentVars
  <2> QED
    BY <1>a, <1>b, <1>c, <2>1, <2>2, <2>3, <2>4, <2>5, OwnerMoves DEF agentVars, NoOwner
<1>7. CASE CancelResumption(r)
  <2>1. /\ owner[r].phase # "none"
        /\ UNCHANGED <<run, lane, agentVars>>
    BY <1>7, <1>a DEF CancelResumption, NoOwner
  <2>2. /\ owner' \in [Runs -> Owners]
        /\ \A q \in Runs \ {r} : owner'[q] = owner[q]
        /\ owner'[r].phase = owner[r].phase /\ owner'[r].durable = owner[r].durable
        /\ owner'[r].unsaved = owner[r].unsaved
    <3> DEFINE cancelling == [owner[r] EXCEPT !.cancelling = TRUE, !.pauseRequested = TRUE]
    <3>1. owner' = [owner EXCEPT ![r] = cancelling]
      BY <1>7 DEF CancelResumption
    <3>2. cancelling \in Owners
      BY <1>d, OwnerFields
    <3>3. cancelling.phase = owner[r].phase /\ cancelling.durable = owner[r].durable
          /\ cancelling.unsaved = owner[r].unsaved
      <4>1. owner[r] \in Owners
        BY <1>d
      <4> QED
        BY <4>1 DEF Owners
    <3> HIDE DEF cancelling
    <3> QED
      BY <1>d, <3>1, <3>2, <3>3
  <2>3. TypeOK'
    BY <1>a, <2>1, <2>2 DEF TypeOK, agentVars
  <2> QED
    BY <1>a, <1>b, <1>c, <2>1, <2>2, <2>3, OwnerMoves DEF agentVars
<1> QED
  BY <1>1, <1>2, <1>3, <1>4, <1>5, <1>6, <1>7

----------------------------------------------------------------------------
(* The steps of the lane.                                                  *)

(* What a publication ends was publishing; nothing else changes.           *)
LEMMA PublishedKeeps ==
    ASSUME TypeOK, NEW done \in SUBSET Publishing
    PROVE  /\ Published(done) \in [Runs -> RunRecords]
           /\ \A r \in Runs : /\ Published(done)[r].git = run[r].git
                              /\ \/ Published(done)[r].state = run[r].state
                                 \/ run[r].state = "publishing" /\ Published(done)[r].state = "ended"
<1>1. run \in [Runs -> RunRecords]
  BY DEF TypeOK
<1>2. ASSUME NEW r \in Runs
      PROVE  /\ Published(done)[r] \in RunRecords
             /\ Published(done)[r].git = run[r].git
             /\ \/ Published(done)[r].state = run[r].state
                \/ run[r].state = "publishing" /\ Published(done)[r].state = "ended"
  BY <1>1 DEF Published, Publishing, RunRecords, RunStates
<1>3. Published(done) = [r \in Runs |-> Published(done)[r]]
  BY DEF Published
<1> QED
  BY <1>2, <1>3

(* A lane whose first operation changes, and nothing else of it.           *)
LEMMA FirstChanges ==
    ASSUME LaneInv, NEW i \in DOMAIN lane, i = 1, NEW op \in Operations,
           lane' = [lane EXCEPT ![i] = op],
           op.kind \in {"resume", "settled"} => op.run \in Runs,
           op.stage = "starting" => op.kind = "dispatch",
           op.stage \in {"resuming", "committing"} => op.run \in Runs /\ op.kind \in {"dispatch", "resume"},
           op.stage = "committing" => run'[op.run].state = "paused",
           op.stage \in Deciding => HasRunningCapacity' /\ dispatcher' \in {"accepting", "draining"}
    PROVE  /\ LaneInv'
           /\ \A r \in Runs : Resuming(r)' <=> (op.run = r /\ op.stage = "committing")
<1>1. lane \in Seq(Operations) /\ DOMAIN lane = 1 .. Len(lane) /\ i \in 1 .. Len(lane)
  BY DEF LaneInv
<1>2. lane' \in Seq(Operations) /\ DOMAIN lane' = DOMAIN lane
  BY <1>1, ExceptSeq
<1>3. lane'[i] = op /\ \A k \in DOMAIN lane : k # i => lane'[k] = lane[k]
  BY <1>1
<1>4. \A k \in DOMAIN lane : k # i => lane'[k].stage = "waiting"
                                      /\ (lane'[k].kind \in {"resume", "settled"} => lane'[k].run \in Runs)
  BY <1>3 DEF LaneInv
<1>5. LaneInv'
  BY <1>2, <1>3, <1>4 DEF LaneInv, Deciding
<1>6. \A r \in Runs : Resuming(r)' <=> (op.run = r /\ op.stage = "committing")
  BY <1>2, <1>3, <1>4 DEF Resuming
<1> QED
  BY <1>5, <1>6

(* A step of the lane that touches no owner and no root keeps the invariant*)
(* when the lane it leaves is as it should be.                             *)
LEMMA LaneAdvances ==
    ASSUME DispatchInv, LaneInv', run' \in [Runs -> RunRecords], reconciling' \in BOOLEAN,
           UNCHANGED <<mode, dispatcher, owner, roots, tree, bounds>>,
           \A r \in Runs : /\ run'[r].git = run[r].git
                           /\ \/ run'[r].state = run[r].state
                              \/ run[r].state = "publishing" /\ run'[r].state = "ended",
           \A r \in Runs : Resuming(r)' <=> Resuming(r)
    PROVE  DispatchInv'
<1>1. \A k \in DOMAIN lane' : lane'[k] \in Operations
  BY DEF LaneInv
<1>2. TypeOK'
  BY <1>1 DEF DispatchInv, TypeOK
<1>3. Active' = Active
  BY DEF Active
<1>4. OneRootPerSession'
  BY <1>3 DEF DispatchInv, OneRootPerSession
<1>5. \A r \in Runs : OwnerInv(r)'
  BY DEF DispatchInv, OwnerInv, Executing
<1>6. dispatcher' \in {"quiescing", "withdrawn"} => \A r \in Runs : run'[r].state # "implementing"
  BY DEF DispatchInv
<1> QED
  BY <1>2, <1>3, <1>4, <1>5, <1>6 DEF DispatchInv

(* While the first operation waits, decides nothing yet or has not created *)
(* a root, no root is being prepared.                                      *)
LEMMA NotResuming ==
    ASSUME LaneInv, NEW i \in DOMAIN lane, i = 1, lane[i].stage # "committing", NEW r \in Runs
    PROVE  ~Resuming(r)
BY DEF LaneInv, Resuming

(* The operations of the lane that start no execution and resume none.     *)
LEMMA PreparationKeepsInv ==
    ASSUME DispatchInv, NEW i \in DOMAIN lane, NEW done \in SUBSET Publishing,
           \/ Reconciled(i, done) \/ ReconcileFails(i, done) \/ PrepareNext(i, done)
           \/ BeginResume(i, done) \/ LeaveClaim(i) \/ Settled(i)
    PROVE  DispatchInv'
<1>a. LaneInv /\ TypeOK
  BY DEF DispatchInv
<1>b. i = 1 /\ lane[i].stage # "committing"
  BY DEF Reconciled, ReconcileFails, PrepareNext, BeginResume, LeaveClaim, Settled, At, InLane
<1>c. \A r \in Runs : ~Resuming(r)
  BY <1>a, <1>b, NotResuming
<1>d. /\ UNCHANGED <<mode, dispatcher, owner, roots, tree, bounds>>
      /\ reconciling' \in BOOLEAN
  BY <1>a DEF Reconciled, ReconcileFails, PrepareNext, BeginResume, LeaveClaim, Settled,
              ReconcilingAfter, agentVars, durableVars, TypeOK
<1>e. /\ run' \in [Runs -> RunRecords]
      /\ \A r \in Runs : /\ run'[r].git = run[r].git
                         /\ \/ run'[r].state = run[r].state
                            \/ run[r].state = "publishing" /\ run'[r].state = "ended"
  <2>1. CASE LeaveClaim(i)
    BY <1>a, <2>1 DEF LeaveClaim, durableVars, TypeOK
  <2>2. CASE ~LeaveClaim(i)
    <3>1. \E d \in SUBSET Publishing : run' = Published(d)
      BY <2>2 DEF Reconciled, ReconcileFails, PrepareNext, BeginResume, Settled
    <3> QED
      BY <1>a, <3>1, PublishedKeeps
  <2> QED
    BY <2>1, <2>2
<1>f. ASSUME Waiting(lane')
      PROVE  DispatchInv'
  BY <1>c, <1>d, <1>e, <1>f, LaneWaits, LaneAdvances
<1>g. lane[i] \in Operations
  BY <1>a DEF LaneInv
<1>1. CASE Reconciled(i, done) \/ ReconcileFails(i, done) \/ LeaveClaim(i) \/ Settled(i)
  <2>1. \E l : (Waiting(l) /\ lane' = RemoveAt(lane, i) \o l) \/ lane' = RemoveAt(lane, i)
    BY <1>1, AppendedWaits DEF Reconciled, ReconcileFails, LeaveClaim, Settled, Leave
  <2> QED
    BY <1>a, <1>b, <1>f, <2>1, RestWaits, WaitingJoined
<1>2. CASE PrepareNext(i, done)
  <2>1. CASE ~Startable(done)
    BY <1>2, <1>a, <1>b, <1>f, <2>1, RestWaits DEF PrepareNext, Leave
  <2>2. CASE Startable(done) /\ mode = "enabled" /\ Continuations # {}
    <3> DEFINE next == CHOOSE r \in Continuations : \A q \in Continuations : r <= q
    <3>1. next \in Runs
      BY <2>2, LeastRun DEF Continuations
    <3> HIDE DEF next
    <3> DEFINE resuming == [lane[i] EXCEPT !.stage = "resuming"]
               op == [resuming EXCEPT !.run = next]
    <3>a. resuming \in Operations /\ resuming.kind = "dispatch" /\ resuming.stage = "resuming"
      BY <1>2, <1>g DEF PrepareNext, At, Operations, LaneStages
    <3>3. lane' = [lane EXCEPT ![i] = op]
      BY <1>2, <2>2 DEF PrepareNext, next
    <3> HIDE DEF resuming
    <3>2. op \in Operations /\ op.kind = "dispatch" /\ op.stage = "resuming" /\ op.run \in Runs
      BY <3>a, <3>1 DEF Operations
    <3>4. HasRunningCapacity' /\ dispatcher' \in {"accepting", "draining"}
      BY <1>d, <2>2 DEF Startable, HasRunningCapacity, Active
    <3> HIDE DEF op
    <3> QED
      BY <1>a, <1>b, <1>c, <1>d, <1>e, <3>2, <3>3, <3>4, FirstChanges, LaneAdvances
  <2>3. CASE Startable(done) /\ ~(mode = "enabled" /\ Continuations # {})
    <3> DEFINE op == [lane[i] EXCEPT !.stage = "starting"]
    <3>1. op \in Operations /\ op.kind = "dispatch" /\ op.stage = "starting"
      BY <1>2, <1>g DEF PrepareNext, At, Operations, LaneStages
    <3>2. lane' = [lane EXCEPT ![i] = op]
      BY <1>2, <2>3 DEF PrepareNext, ToStage
    <3>3. HasRunningCapacity' /\ dispatcher' \in {"accepting", "draining"}
      BY <1>d, <2>3 DEF Startable, HasRunningCapacity, Active
    <3> HIDE DEF op
    <3> QED
      BY <1>a, <1>b, <1>c, <1>d, <1>e, <3>1, <3>2, <3>3, FirstChanges, LaneAdvances
  <2> QED
    BY <2>1, <2>2, <2>3
<1>3. CASE BeginResume(i, done)
  <2>1. CASE ~Startable(done)
    BY <1>3, <1>a, <1>b, <1>f, <2>1, RestWaits DEF BeginResume, Leave
  <2>2. CASE Startable(done)
    <3> DEFINE op == [lane[i] EXCEPT !.stage = "resuming"]
    <3>1. op \in Operations /\ op.kind = "resume" /\ op.stage = "resuming" /\ op.run = lane[i].run
      BY <1>3, <1>g DEF BeginResume, At, Operations, LaneStages
    <3>2. lane' = [lane EXCEPT ![i] = op]
      BY <1>3, <2>2 DEF BeginResume, ToStage
    <3>3. HasRunningCapacity' /\ dispatcher' \in {"accepting", "draining"}
      BY <1>d, <2>2 DEF Startable, HasRunningCapacity, Active
    <3>4. lane[i].run \in Runs
      BY <1>3, <1>a DEF BeginResume, At, LaneInv
    <3> HIDE DEF op
    <3> QED
      BY <1>a, <1>b, <1>c, <1>d, <1>e, <3>1, <3>2, <3>3, <3>4, FirstChanges, LaneAdvances
  <2> QED
    BY <2>1, <2>2
<1> QED
  BY <1>1, <1>2, <1>3

(* A new owner has saved nothing yet.                                      *)
LEMMA NewOwner ==
    NoOwner \in Owners /\ NoOwner.phase = "none" /\ ~NoOwner.durable /\ ~NoOwner.unsaved
BY DispatchAssumption DEF NoOwner, Owners, Phases, NoReport

(* A run of the queue that is claimed gets an owner, for which there was   *)
(* room when the lane decided to start one.                                *)
LEMMA ClaimKeepsInv ==
    ASSUME DispatchInv, NEW i \in DOMAIN lane, Claim(i)
    PROVE  DispatchInv'
<1> DEFINE claimed == [NoOwner EXCEPT !.phase = "setup", !.by = "lane"]
<1>1. PICK r \in Runs : /\ run[r].state = "queued"
                        /\ run' = [run EXCEPT ![r].state = "implementing"]
                        /\ owner' = [owner EXCEPT ![r] = claimed]
  BY DEF Claim, SetRun
<1>2. i = 1 /\ lane[i].stage = "starting" /\ lane' = RemoveAt(lane, i)
      /\ UNCHANGED <<mode, reconciling, dispatcher, agentVars, bounds>>
  BY DEF Claim, At, InLane, Leave
<1>3. TypeOK /\ LaneInv
  BY DEF DispatchInv
<1>4. LaneInv' /\ \A q \in Runs : ~Resuming(q)'
  BY <1>2, <1>3, RestWaits, LaneWaits
<1>5. \A q \in Runs : ~Resuming(q)
  BY <1>2, <1>3, NotResuming
<1>6. HasRunningCapacity /\ dispatcher \in {"accepting", "draining"}
  BY <1>2, <1>3 DEF LaneInv, Deciding
<1>7. claimed \in Owners /\ claimed.phase = "setup" /\ ~claimed.durable /\ ~claimed.unsaved
  <2> DEFINE setup == [NoOwner EXCEPT !.phase = "setup"]
  <2>1. setup \in Owners
    BY NewOwner DEF Owners, Phases
  <2>2. setup.phase = "setup" /\ ~setup.durable /\ ~setup.unsaved
    BY NewOwner DEF Owners
  <2>3. claimed = [setup EXCEPT !.by = "lane"]
    OBVIOUS
  <2> HIDE DEF setup, claimed
  <2>4. claimed \in Owners
    BY <2>1, <2>3 DEF Owners
  <2> QED
    BY <2>1, <2>2, <2>3, <2>4 DEF Owners
<1> HIDE DEF claimed
<1>8. /\ owner' \in [Runs -> Owners] /\ owner'[r] = claimed
      /\ \A q \in Runs \ {r} : owner'[q] = owner[q]
  BY <1>1, <1>3, <1>7 DEF TypeOK
<1>9. /\ run' \in [Runs -> RunRecords] /\ run'[r].state = "implementing"
      /\ \A q \in Runs \ {r} : run'[q] = run[q]
  BY <1>1, <1>3 DEF TypeOK, RunRecords, RunStates
<1>10. TypeOK'
  BY <1>2, <1>3, <1>4, <1>8, <1>9 DEF TypeOK, LaneInv, agentVars
<1>11. Active' \subseteq Active \cup {r}
  BY <1>8 DEF Active
<1>12. ASSUME NEW q \in Runs
       PROVE  OwnerInv(q)' /\ RootInv(q)'
  <2>1. OwnerInv(q) /\ RootInv(q)
    BY DEF DispatchInv, OneRootPerSession, RootInv, Rooted
  <2>2. CASE q = r
    <3>1. owner[r].phase \notin {"ready", "working", "idle"}
      BY <1>1, <2>1, <2>2 DEF OwnerInv, Executing
    <3> QED
      BY <1>2, <1>4, <1>5, <1>7, <1>8, <1>9, <2>1, <2>2, <3>1
      DEF OwnerInv, RootInv, Rooted, Executing, agentVars
  <2>3. CASE q # r
    BY <1>2, <1>4, <1>5, <1>8, <1>9, <2>1, <2>3 DEF OwnerInv, RootInv, Rooted, Executing, agentVars
  <2> QED
    BY <2>2, <2>3
<1>13. OneRootPerSession'
  BY <1>6, <1>11, <1>12, ActiveBounded DEF OneRootPerSession, RootInv, Rooted
<1> QED
  BY <1>2, <1>4, <1>6, <1>10, <1>12, <1>13 DEF DispatchInv

(* Whatever the inspection finds, the run stays paused, and a root is      *)
(* created only for the one that goes on.                                  *)
LEMMA InspectKeepsInv ==
    ASSUME DispatchInv, NEW i \in DOMAIN lane, Inspect(i)
    PROVE  DispatchInv'
<1> DEFINE r == lane[i].run
<1>a. LaneInv /\ TypeOK
  BY DEF DispatchInv
<1>b. i = 1 /\ lane[i].stage = "resuming" /\ UNCHANGED <<mode, reconciling, dispatcher, owner, tree, bounds>>
  BY DEF Inspect, InLane
<1>c. r \in Runs /\ lane[i].kind \in {"dispatch", "resume"} /\ lane[i] \in Operations
      /\ HasRunningCapacity /\ dispatcher \in {"accepting", "draining"}
  BY <1>a, <1>b DEF LaneInv, Deciding
<1>d. \A q \in Runs : ~Resuming(q)
  BY <1>a, <1>b, NotResuming
<1> HIDE DEF r
<1>1. CASE Leave(i) /\ UNCHANGED roots /\ run' \in {run, [run EXCEPT ![r].recovery = TRUE]}
  <2>1. LaneInv' /\ \A q \in Runs : ~Resuming(q)'
    BY <1>1, <1>a, <1>b, RestWaits, LaneWaits DEF Leave
  <2>2. /\ run' \in [Runs -> RunRecords]
        /\ \A q \in Runs : run'[q].state = run[q].state /\ run'[q].git = run[q].git
    <3>1. CASE run' = run
      BY <1>a, <3>1 DEF TypeOK
    <3>2. CASE run' = [run EXCEPT ![r].recovery = TRUE]
      <4>1. run \in [Runs -> RunRecords]
        BY <1>a DEF TypeOK
      <4>2. [run[r] EXCEPT !.recovery = TRUE] \in RunRecords
        BY <1>c, <4>1, RunFields
      <4>3. /\ [run[r] EXCEPT !.recovery = TRUE].state = run[r].state
            /\ [run[r] EXCEPT !.recovery = TRUE].git = run[r].git
        BY <1>c, <4>1 DEF RunRecords
      <4> QED
        BY <3>2, <4>1, <4>2, <4>3
    <3> QED
      BY <1>1, <3>1, <3>2
  <2>3. reconciling' \in BOOLEAN
    BY <1>a, <1>b DEF TypeOK
  <2> QED
    BY <1>1, <1>b, <1>d, <2>1, <2>2, <2>3, LaneAdvances
<1>2. CASE Resumable(r) /\ ToStage(i, "committing") /\ roots' = [roots EXCEPT ![r] = @ + 1] /\ UNCHANGED run
  <2> DEFINE op == [lane[i] EXCEPT !.stage = "committing"]
  <2>1. op \in Operations /\ op.kind = lane[i].kind /\ op.stage = "committing" /\ op.run = r
    BY <1>c DEF Operations, LaneStages, r
  <2>2. lane' = [lane EXCEPT ![i] = op]
    BY <1>2 DEF ToStage
  <2> HIDE DEF op
  <2>3. run'[r].state = "paused" /\ run[r].state = "paused"
    BY <1>2 DEF Resumable
  <2>4. HasRunningCapacity' /\ Active' = Active
    BY <1>b, <1>c DEF HasRunningCapacity, Active
  <2>5. LaneInv' /\ \A q \in Runs : Resuming(q)' <=> q = r
    BY <1>a, <1>b, <1>c, <2>1, <2>2, <2>3, <2>4, FirstChanges
  <2>6. ASSUME NEW q \in Runs
        PROVE  OwnerInv(q)' /\ RootInv(q)' /\ roots'[q] \in {0, 1}
    <3>1. OwnerInv(q) /\ RootInv(q) /\ roots \in [Runs -> {0, 1}]
      BY <1>a DEF DispatchInv, OneRootPerSession, RootInv, Rooted, TypeOK
    <3>2. OwnerInv(q)'
      BY <1>2, <1>b, <3>1 DEF OwnerInv, Executing
    <3>3. CASE q = r
      <4>1. owner[q].phase \in {"none", "leaving"}
        BY <2>3, <3>1, <3>3 DEF OwnerInv, Executing
      <4>2. roots[q] = 0 /\ roots'[q] = 1
        BY <1>2, <1>c, <1>d, <3>1, <3>3, <4>1 DEF RootInv, Rooted
      <4> QED
        BY <2>5, <3>2, <3>3, <4>2 DEF RootInv, Rooted
    <3>4. CASE q # r
      BY <1>2, <1>b, <1>d, <2>5, <3>1, <3>2, <3>4 DEF RootInv, Rooted
    <3> QED
      BY <3>3, <3>4
  <2>7. roots' \in [Runs -> {0, 1}]
    <3>1. roots' = [q \in Runs |-> roots'[q]]
      BY <1>2, <1>a DEF TypeOK
    <3> QED
      BY <2>6, <3>1
  <2>8. TypeOK'
    BY <1>2, <1>a, <1>b, <2>5, <2>7 DEF TypeOK, LaneInv
  <2>9. OneRootPerSession'
    BY <2>4, <2>6 DEF DispatchInv, OneRootPerSession, RootInv, Rooted
  <2> QED
    BY <1>2, <1>b, <2>4, <2>5, <2>6, <2>8, <2>9 DEF DispatchInv
<1> QED
  BY <1>1, <1>2 DEF Inspect, r

(* A resumption commits, to the room found for it, or its root goes.       *)
LEMMA ResumptionKeepsInv ==
    ASSUME DispatchInv, NEW i \in DOMAIN lane, CommitResume(i) \/ ResumeRefused(i)
    PROVE  DispatchInv'
<1> DEFINE r == lane[i].run
<1>a. LaneInv /\ TypeOK
  BY DEF DispatchInv
<1>b. i = 1 /\ lane[i].stage = "committing" /\ lane' = RemoveAt(lane, i)
      /\ UNCHANGED <<mode, reconciling, dispatcher, tree, bounds>>
  BY DEF CommitResume, ResumeRefused, InLane, Leave, agentVars, durableVars
<1>c. r \in Runs /\ HasRunningCapacity /\ dispatcher \in {"accepting", "draining"} /\ run[r].state = "paused"
  BY <1>a, <1>b DEF LaneInv, Deciding
<1>d. \A q \in Runs : Resuming(q) <=> q = r
  BY <1>a, <1>b DEF LaneInv, Resuming
<1>e. LaneInv' /\ \A q \in Runs : ~Resuming(q)'
  BY <1>a, <1>b, RestWaits, LaneWaits
<1>f. roots[r] = 1 /\ owner[r].phase \in {"none", "leaving"}
  BY <1>c, <1>d, NoOwnerWhileResuming
<1>g. \A q \in Runs : OwnerInv(q) /\ RootInv(q)
  BY DEF DispatchInv, OneRootPerSession, RootInv, Rooted
<1>1. CASE CommitResume(i)
  <2> DEFINE by == IF lane[i].kind = "resume" THEN "operator" ELSE "lane"
             resumed == [NoOwner EXCEPT !.phase = "ready", !.mounted = TRUE, !.by = by]
  <2>1. /\ run' = [run EXCEPT ![r].state = "implementing", ![r].hold = FALSE]
        /\ owner' = [owner EXCEPT ![r] = resumed]
        /\ UNCHANGED agentVars
    BY <1>1 DEF CommitResume
  <2>2. by \in {"lane", "operator"}
    OBVIOUS
  <2> HIDE DEF by
  <2>3. resumed \in Owners /\ resumed.phase = "ready" /\ ~resumed.durable /\ ~resumed.unsaved
    <3> DEFINE ready == [NoOwner EXCEPT !.phase = "ready"]
               mounted == [ready EXCEPT !.mounted = TRUE]
    <3>1. ready \in Owners
      BY NewOwner DEF Owners, Phases
    <3>a. ready.phase = "ready" /\ ~ready.durable /\ ~ready.unsaved
      BY NewOwner DEF Owners
    <3>2. resumed = [mounted EXCEPT !.by = by]
      OBVIOUS
    <3> HIDE DEF ready
    <3>3. mounted \in Owners /\ mounted.phase = "ready" /\ ~mounted.durable /\ ~mounted.unsaved
      BY <3>1, <3>a DEF Owners
    <3> HIDE DEF mounted, resumed
    <3> QED
      BY <2>2, <3>2, <3>3 DEF Owners
  <2> HIDE DEF resumed, r
  <2>4. /\ owner' \in [Runs -> Owners] /\ owner'[r] = resumed
        /\ \A q \in Runs \ {r} : owner'[q] = owner[q]
    BY <1>a, <1>c, <2>1, <2>3 DEF TypeOK
  <2>5. /\ run' \in [Runs -> RunRecords] /\ run'[r].state = "implementing"
        /\ \A q \in Runs \ {r} : run'[q] = run[q]
    <3> DEFINE implementing == [run EXCEPT ![r].state = "implementing"]
    <3>1. implementing \in [Runs -> RunRecords] /\ implementing[r].state = "implementing"
          /\ \A q \in Runs \ {r} : implementing[q] = run[q]
      BY <1>a, <1>c DEF TypeOK, RunRecords, RunStates
    <3>2. run' = [implementing EXCEPT ![r].hold = FALSE]
      BY <2>1
    <3> HIDE DEF implementing
    <3> QED
      BY <1>c, <3>1, <3>2 DEF RunRecords
  <2>6. TypeOK'
    BY <1>a, <1>b, <1>e, <2>1, <2>4, <2>5 DEF TypeOK, LaneInv, agentVars
  <2>7. Active' \subseteq Active \cup {r}
    BY <2>4 DEF Active
  <2>8. ASSUME NEW q \in Runs
        PROVE  OwnerInv(q)' /\ RootInv(q)'
    <3>1. CASE q = r
      BY <1>b, <1>e, <1>f, <2>1, <2>3, <2>4, <2>5, <3>1
      DEF OwnerInv, RootInv, Rooted, Executing, agentVars
    <3>2. CASE q # r
      BY <1>b, <1>d, <1>e, <1>g, <2>1, <2>4, <2>5, <3>2
      DEF OwnerInv, RootInv, Rooted, Executing, agentVars
    <3> QED
      BY <3>1, <3>2
  <2>9. OneRootPerSession'
    BY <1>c, <2>7, <2>8, ActiveBounded DEF OneRootPerSession, RootInv, Rooted
  <2> QED
    BY <1>b, <1>c, <1>e, <2>6, <2>8, <2>9 DEF DispatchInv
<1>2. CASE ResumeRefused(i)
  <2>1. /\ roots' = [roots EXCEPT ![r] = @ - 1]
        /\ UNCHANGED <<durableVars, owner>>
    BY <1>2 DEF ResumeRefused
  <2> HIDE DEF r
  <2>2. roots' \in [Runs -> {0, 1}] /\ roots'[r] = 0 /\ \A q \in Runs \ {r} : roots'[q] = roots[q]
    BY <1>a, <1>c, <1>f, <2>1 DEF TypeOK
  <2>3. TypeOK'
    BY <1>a, <1>b, <1>e, <2>1, <2>2 DEF TypeOK, LaneInv, durableVars
  <2>4. ASSUME NEW q \in Runs
        PROVE  OwnerInv(q)' /\ RootInv(q)'
    <3>1. OwnerInv(q)'
      BY <1>b, <1>g, <2>1 DEF OwnerInv, Executing, durableVars
    <3>2. RootInv(q)'
      BY <1>d, <1>e, <1>f, <1>g, <2>1, <2>2 DEF RootInv, Rooted
    <3> QED
      BY <3>1, <3>2
  <2>5. Active' = Active
    BY <2>1 DEF Active
  <2>6. OneRootPerSession'
    BY <2>4, <2>5 DEF DispatchInv, OneRootPerSession, RootInv, Rooted
  <2> QED
    BY <1>b, <1>e, <2>1, <2>3, <2>4, <2>5, <2>6 DEF DispatchInv, durableVars
<1> QED
  BY <1>1, <1>2

----------------------------------------------------------------------------
(* Operators, the process and the world.                                   *)

(* A step that only asks executing runs to pause gives no run an owner and *)
(* leaves what the lane decides about as it is.                            *)
LEMMA PausesKeepInv ==
    ASSUME DispatchInv, NEW targets,
           UNCHANGED <<laneVars, agentVars>>,
           mode' \in {"enabled", "disabled"},
           bounds' \in [commands : 0 .. MaxCommands, crashes : 0 .. MaxCrashes],
           run' \in [Runs -> RunRecords],
           \A r \in Runs : /\ run'[r].git = run[r].git
                           /\ \/ run'[r].state = run[r].state
                              \/ Executing(r) /\ run'[r].state = "pausing",
           owner' = owner \/ owner' = PauseRequested(targets),
           \/ dispatcher' = dispatcher
           \/ dispatcher' \in {"accepting", "draining"}
           \/ /\ dispatcher' \in {"quiescing", "withdrawn"}
              /\ \A i \in DOMAIN lane : lane[i].stage \notin Deciding
              /\ \A r \in Runs : run'[r].state # "implementing",
           dispatcher' = "withdrawn" => Active = {}
    PROVE  DispatchInv'
<1>a. TypeOK /\ LaneInv /\ owner \in [Runs -> Owners]
  BY DEF DispatchInv, TypeOK
<1>1. /\ owner' \in [Runs -> Owners]
      /\ \A r \in Runs : /\ owner'[r].phase = owner[r].phase /\ owner'[r].durable = owner[r].durable
                         /\ owner'[r].unsaved = owner[r].unsaved
                         /\ owner[r].phase = "none" => owner'[r] = owner[r]
  <2>1. CASE owner' = owner
    BY <1>a, <2>1
  <2>2. CASE owner' = PauseRequested(targets)
    <3>1. ASSUME NEW r \in Runs
          PROVE  /\ owner'[r] \in Owners
                 /\ owner'[r].phase = owner[r].phase /\ owner'[r].durable = owner[r].durable
                 /\ owner'[r].unsaved = owner[r].unsaved
                 /\ owner[r].phase = "none" => owner'[r] = owner[r]
      <4>1. owner[r] \in Owners
        BY <1>a
      <4>2. owner'[r] = IF r \in targets /\ owner[r].phase # "none"
                        THEN [owner[r] EXCEPT !.pauseRequested = TRUE] ELSE owner[r]
        BY <2>2 DEF PauseRequested
      <4>3. CASE owner'[r] = owner[r]
        BY <4>1, <4>3
      <4>4. CASE owner'[r] = [owner[r] EXCEPT !.pauseRequested = TRUE] /\ owner[r].phase # "none"
        <5>1. owner'[r] \in Owners
          BY <4>1, <4>4, OwnerFields
        <5> QED
          BY <4>1, <4>4, <5>1 DEF Owners
      <4> QED
        BY <4>2, <4>3, <4>4
    <3>2. owner' = [r \in Runs |-> owner'[r]]
      BY <2>2 DEF PauseRequested
    <3> QED
      BY <3>1, <3>2
  <2> QED
    BY <2>1, <2>2
<1>2. Active' = Active
  BY <1>1 DEF Active
<1>3. LaneInv' /\ \A r \in Runs : Resuming(r)' <=> Resuming(r)
  <2>1. \A i \in DOMAIN lane : lane[i].stage \in {"waiting"} \cup Deciding
    BY <1>a DEF TypeOK, Operations, LaneStages, Deciding
  <2>2. \A r \in Runs : run[r].state = "paused" => run'[r].state = "paused"
    BY DEF Executing
  <2>3. Waiting(<<>>) /\ lane' = lane
    BY AppendedWaits DEF laneVars
  <2>4. dispatcher' \in {"accepting", "draining"} \/ dispatcher' = dispatcher
           \/ \A i \in DOMAIN lane : lane[i].stage = "waiting"
    BY <2>1
  <2> QED
    BY <1>2, <2>2, <2>3, <2>4, LaneLengthens
<1>4. dispatcher' \in {"accepting", "draining", "quiescing", "withdrawn"}
  BY <1>a DEF TypeOK
<1>5. TypeOK'
  BY <1>a, <1>1, <1>3, <1>4 DEF TypeOK, LaneInv, laneVars, agentVars
<1>6. ASSUME NEW r \in Runs
      PROVE  OwnerInv(r)' /\ RootInv(r)'
  <2>1. OwnerInv(r) /\ RootInv(r)
    BY DEF DispatchInv, OneRootPerSession, RootInv, Rooted
  <2> QED
    BY <1>1, <1>3, <2>1 DEF OwnerInv, RootInv, Rooted, Executing, agentVars
<1>7. OneRootPerSession'
  BY <1>2, <1>6 DEF DispatchInv, OneRootPerSession, RootInv, Rooted
<1>8. dispatcher' \in {"quiescing", "withdrawn"} => \A r \in Runs : run'[r].state # "implementing"
  BY DEF DispatchInv
<1> QED
  BY <1>2, <1>3, <1>5, <1>6, <1>7, <1>8 DEF DispatchInv

(* What operators do to the dispatcher, the scheduler and its runs.        *)
LEMMA OperatorKeepsInv ==
    ASSUME DispatchInv,
           \/ \E r \in Runs : StopRun(r)
           \/ DisableScheduler \/ EnableScheduler
           \/ Withdraw \/ PauseForWithdrawal \/ Withdrawn \/ MountDispatch
    PROVE  DispatchInv'
<1>a. TypeOK
  BY DEF DispatchInv
<1>b. run \in [Runs -> RunRecords] /\ bounds \in [commands : 0 .. MaxCommands, crashes : 0 .. MaxCrashes]
      /\ mode \in {"enabled", "disabled"}
  BY <1>a DEF TypeOK
<1>c. ASSUME Command
      PROVE  bounds' \in [commands : 0 .. MaxCommands, crashes : 0 .. MaxCrashes]
  BY <1>b, <1>c, DispatchAssumption DEF Command
<1>d. ASSUME PauseEvery
      PROVE  /\ run' \in [Runs -> RunRecords]
             /\ \A r \in Runs : /\ run'[r].git = run[r].git
                                /\ \/ run'[r].state = run[r].state
                                   \/ Executing(r) /\ run'[r].state = "pausing"
                                /\ run'[r].state # "implementing"
  <2>1. ASSUME NEW r \in Runs
        PROVE  /\ run'[r] \in RunRecords /\ run'[r].git = run[r].git
               /\ \/ run'[r].state = run[r].state
                  \/ Executing(r) /\ run'[r].state = "pausing"
               /\ run'[r].state # "implementing"
    BY <1>b, <1>d DEF PauseEvery, RunRecords, RunStates, Executing
  <2>2. run' = [r \in Runs |-> run'[r]]
    BY <1>d DEF PauseEvery
  <2> QED
    BY <2>1, <2>2
<1>1. ASSUME NEW r \in Runs, StopRun(r)
      PROVE  DispatchInv'
  <2>1. /\ run' \in [Runs -> RunRecords]
        /\ \A q \in Runs : /\ run'[q].git = run[q].git
                           /\ \/ run'[q].state = run[q].state
                              \/ Executing(q) /\ run'[q].state = "pausing"
    <3> DEFINE asked == [run EXCEPT ![r].state = "pausing"]
    <3>1. asked \in [Runs -> RunRecords] /\ asked[r].state = "pausing" /\ asked[r].git = run[r].git
          /\ \A q \in Runs \ {r} : asked[q] = run[q]
      BY <1>b DEF RunRecords, RunStates
    <3>2. run' = [asked EXCEPT ![r].hold = TRUE] /\ Executing(r)
      BY <1>1 DEF StopRun
    <3> HIDE DEF asked
    <3> QED
      BY <3>1, <3>2 DEF RunRecords
  <2>2. owner' = PauseRequested({r}) /\ UNCHANGED <<mode, laneVars, dispatcher, agentVars>>
        /\ dispatcher = "accepting" /\ Command
    BY <1>1 DEF StopRun
  <2> QED
    BY <1>b, <1>c, <2>1, <2>2, PausesKeepInv
<1>2. CASE DisableScheduler
  BY <1>2, <1>b, <1>c, <1>d, PausesKeepInv DEF DisableScheduler
<1>3. CASE EnableScheduler
  BY <1>3, <1>b, PausesKeepInv DEF EnableScheduler, laneVars, agentVars, DispatchInv
<1>4. CASE Withdraw
  BY <1>4, <1>b, <1>c, PausesKeepInv DEF Withdraw, durableVars
<1>5. CASE PauseForWithdrawal
  <2>1. \A i \in DOMAIN lane : lane[i].stage \notin Deciding
    BY <1>5 DEF PauseForWithdrawal, StartsSettled, Deciding
  <2> QED
    BY <1>5, <1>b, <1>d, <2>1, PausesKeepInv DEF PauseForWithdrawal
<1>6. CASE Withdrawn
  <2>1. \A i \in DOMAIN lane : lane[i].stage \notin Deciding
    BY <1>6 DEF Withdrawn, DispatchInv, LaneInv
  <2>2. \A r \in Runs : run'[r].state # "implementing"
    BY <1>6 DEF Withdrawn, DispatchInv, durableVars
  <2> QED
    BY <1>6, <1>b, <2>1, <2>2, PausesKeepInv DEF Withdrawn, durableVars
<1>7. CASE MountDispatch
  BY <1>7, <1>b, PausesKeepInv DEF MountDispatch, durableVars
<1> QED
  BY <1>1, <1>2, <1>3, <1>4, <1>5, <1>6, <1>7

(* The timer, a request to resume, an edit of a paused run's worktree, and *)
(* a crash, after which no owner and no root is there.                     *)
LEMMA WorldKeepsInv ==
    ASSUME DispatchInv, ReconcileTimer \/ (\E r \in Runs : ResumeRun(r) \/ Edit(r)) \/ Crash
    PROVE  DispatchInv'
<1>a. TypeOK /\ LaneInv
  BY DEF DispatchInv
<1>b. lane \in Seq(Operations) /\ \A r \in Runs : OwnerInv(r) /\ RootInv(r)
  BY DEF DispatchInv, LaneInv, OneRootPerSession, RootInv, Rooted
<1>1. ASSUME NEW op, Waiting(<<op>>), lane' = Append(lane, op), reconciling' \in BOOLEAN,
             UNCHANGED <<durableVars, dispatcher, owner, agentVars, bounds>>
      PROVE  DispatchInv'
  <2>1. op \in Operations
    BY <1>1 DEF Waiting
  <2>2. lane' = lane \o <<op>>
    BY <1>1, <1>b, <2>1, AppendIsConcat
  <2>3. Active' = Active
    BY <1>1 DEF Active
  <2>4. LaneInv' /\ \A r \in Runs : Resuming(r)' <=> Resuming(r)
    BY <1>1, <2>2, <2>3, LaneLengthens DEF durableVars
  <2> QED
    BY <1>1, <1>a, <2>4, LaneAdvances DEF durableVars, agentVars, TypeOK
<1>2. CASE ReconcileTimer
  BY <1>2, <1>1, AppendedWaits DEF ReconcileTimer
<1>3. ASSUME NEW r \in Runs, ResumeRun(r)
      PROVE  DispatchInv'
  BY <1>3, <1>1, <1>a, AppendedWaits DEF ResumeRun, TypeOK
<1>4. ASSUME NEW r \in Runs, Edit(r)
      PROVE  DispatchInv'
  <2>1. tree' \in [Runs -> 0 .. MaxChanges] /\ \A q \in Runs \ {r} : tree'[q] = tree[q]
    BY <1>4, <1>a, DispatchAssumption DEF Edit, TypeOK
  <2>2. UNCHANGED <<durableVars, laneVars, dispatcher, owner, roots, bounds>> /\ run[r].state = "paused"
    BY <1>4 DEF Edit
  <2>3. LaneInv' /\ Active' = Active /\ \A q \in Runs : Resuming(q)' <=> Resuming(q)
    BY <1>a, <2>2 DEF LaneInv, Active, HasRunningCapacity, Resuming, durableVars, laneVars
  <2>4. TypeOK'
    BY <1>a, <2>1, <2>2 DEF TypeOK, durableVars, laneVars
  <2>5. ASSUME NEW q \in Runs
        PROVE  OwnerInv(q)'
    <3>1. CASE q = r
      BY <1>b, <2>2, <3>1 DEF OwnerInv, Executing, durableVars
    <3>2. CASE q # r
      BY <1>b, <2>1, <2>2, <3>2 DEF OwnerInv, Executing, durableVars
    <3> QED
      BY <3>1, <3>2
  <2>6. OneRootPerSession'
    BY <2>2, <2>3 DEF DispatchInv, OneRootPerSession
  <2> QED
    BY <2>2, <2>3, <2>4, <2>5, <2>6 DEF DispatchInv, durableVars
<1>5. CASE Crash
  <2>1. /\ lane' = <<>> /\ reconciling' = FALSE /\ dispatcher' = "accepting"
        /\ owner' = [r \in Runs |-> NoOwner] /\ roots' = [r \in Runs |-> 0]
        /\ UNCHANGED <<mode, tree>>
        /\ run' = [r \in Runs |-> IF Executing(r) THEN [run[r] EXCEPT !.recovery = TRUE] ELSE run[r]]
    BY <1>5 DEF Crash
  <2>2. LaneInv' /\ \A r \in Runs : ~Resuming(r)'
    BY <2>1, AppendedWaits, LaneWaits
  <2>3. run' \in [Runs -> RunRecords]
    <3>1. \A r \in Runs : run[r] \in RunRecords
      BY <1>a DEF TypeOK
    <3>2. \A r \in Runs : run'[r] \in RunRecords
      BY <2>1, <3>1 DEF RunRecords
    <3> QED
      BY <2>1, <3>2
  <2>4. bounds' \in [commands : 0 .. MaxCommands, crashes : 0 .. MaxCrashes]
    <3>1. bounds \in [commands : 0 .. MaxCommands, crashes : 0 .. MaxCrashes]
      BY <1>a DEF TypeOK
    <3> QED
      BY <1>5, <3>1, DispatchAssumption DEF Crash
  <2>a. owner' \in [Runs -> Owners] /\ roots' \in [Runs -> {0, 1}]
    BY <2>1, NewOwner
  <2>b. \A i \in DOMAIN lane' : lane'[i] \in Operations
    BY <2>2 DEF LaneInv
  <2>5. TypeOK'
    BY <1>a, <2>1, <2>3, <2>4, <2>a, <2>b DEF TypeOK
  <2>6. Active' = {}
    BY <2>1, NewOwner DEF Active
  <2>7. \A r \in Runs : OwnerInv(r)' /\ roots'[r] = 0 /\ ~Rooted(r)'
    BY <2>1, <2>2, NewOwner DEF OwnerInv, Rooted
  <2>8. Cardinality(Active') <= MaxRunning
    BY <2>6, FS_EmptySet, DispatchAssumption
  <2>9. OneRootPerSession'
    BY <2>7, <2>8 DEF OneRootPerSession, Rooted
  <2> QED
    BY <2>1, <2>2, <2>5, <2>6, <2>7, <2>9 DEF DispatchInv
<1> QED
  BY <1>2, <1>3, <1>4, <1>5

----------------------------------------------------------------------------
(* The theorems.                                                           *)

(* The invariant holds at first.                                           *)
LEMMA DispatchInit == Init => DispatchInv
<1> SUFFICES ASSUME Init PROVE DispatchInv
  OBVIOUS
<1>1. Waiting(lane) /\ owner = [r \in Runs |-> NoOwner] /\ roots = [r \in Runs |-> 0]
  BY AppendedWaits DEF Init
<1>2. LaneInv /\ \A r \in Runs : ~Resuming(r)
  BY <1>1 DEF Waiting, LaneInv, Deciding, Resuming
<1>3. run \in [Runs -> RunRecords]
  BY DispatchAssumption DEF Init, RunRecords, RunStates, NoGit
<1>a. owner \in [Runs -> Owners] /\ roots \in [Runs -> {0, 1}]
  BY <1>1, NewOwner
<1>b. \A i \in DOMAIN lane : lane[i] \in Operations
  BY <1>2 DEF LaneInv
<1>c. /\ tree \in [Runs -> 0 .. MaxChanges]
      /\ bounds \in [commands : 0 .. MaxCommands, crashes : 0 .. MaxCrashes]
  BY DispatchAssumption DEF Init
<1>4. TypeOK
  BY <1>3, <1>a, <1>b, <1>c DEF Init, TypeOK
<1>5. Active = {}
  BY <1>1, NewOwner DEF Active
<1>6. \A r \in Runs : OwnerInv(r)
  BY <1>1, NewOwner DEF OwnerInv
<1>7. OneRootPerSession
  BY <1>1, <1>2, <1>5, NewOwner, FS_EmptySet, DispatchAssumption DEF OneRootPerSession
<1> QED
  BY <1>2, <1>4, <1>5, <1>6, <1>7 DEF DispatchInv, Init

(* No step of the lane, of an owner, of an operator or of the world breaks *)
(* the invariant.                                                          *)
LEMMA DispatchStep ==
    ASSUME DispatchInv, [Next]_vars
    PROVE  DispatchInv'
<1>1. CASE UNCHANGED vars
  <2>1. UNCHANGED <<run, mode, lane, reconciling, dispatcher, owner, roots, tree, bounds>>
    BY <1>1 DEF vars, durableVars, laneVars, agentVars
  <2> QED
    BY <2>1 DEF DispatchInv, TypeOK, LaneInv, OwnerInv, OneRootPerSession, Executing, Resuming,
                Active, HasRunningCapacity
<1>2. CASE LaneStep
  <2>1. PICK i \in DOMAIN lane :
           \/ \E done \in SUBSET Publishing :
                 Reconciled(i, done) \/ ReconcileFails(i, done) \/ PrepareNext(i, done) \/ BeginResume(i, done)
           \/ Claim(i) \/ NothingClaimed(i) \/ CompositionRefused(i)
           \/ Inspect(i) \/ CommitResume(i) \/ ResumeRefused(i) \/ Settled(i)
    BY <1>2 DEF LaneStep
  <2>2. \/ \E done \in SUBSET Publishing :
              \/ Reconciled(i, done) \/ ReconcileFails(i, done) \/ PrepareNext(i, done)
              \/ BeginResume(i, done) \/ LeaveClaim(i) \/ Settled(i)
        \/ Claim(i) \/ Inspect(i) \/ CommitResume(i) \/ ResumeRefused(i)
    BY <2>1 DEF NothingClaimed, CompositionRefused
  <2> QED
    BY <2>2, PreparationKeepsInv, ClaimKeepsInv, InspectKeepsInv, ResumptionKeepsInv
<1>3. ASSUME NEW r \in Runs, OwnerStep(r)
      PROVE  DispatchInv'
  BY <1>3, TurnKeepsInv, EndKeepsInv DEF OwnerStep, ExecutionStep
<1> QED
  BY <1>1, <1>2, <1>3, OperatorKeepsInv, WorldKeepsInv DEF Next

(* In every reachable state of the lane, the dispatcher and its executions *)
(* the inductive invariant holds.                                          *)
THEOREM DispatchInvariant == Spec => []DispatchInv
BY DispatchInit, DispatchStep, PTL DEF Spec

(* The state of the lane, the dispatcher and the executions is typed.      *)
THEOREM DispatchTypeCorrect == Spec => []TypeOK
<1>1. DispatchInv => TypeOK
  BY DEF DispatchInv
<1> QED
  BY <1>1, DispatchInvariant, PTL

(* However starts, resumptions, pauses, withdrawals and crashes interleave,*)
(* a Session has one Agent root at most, only while an execution owns it or*)
(* its resumption commits, and no more runs execute than settings allow.   *)
THEOREM OneRootProven == Spec => []OneRootPerSession
<1>1. DispatchInv => OneRootPerSession
  BY DEF DispatchInv
<1> QED
  BY <1>1, DispatchInvariant, PTL

(* Once the dispatcher's disposer has ended, no run has an owner or an     *)
(* Agent, and none is implementing.                                        *)
THEOREM WithdrawalProven == Spec => []WithdrawnIsQuiet
<1>1. DispatchInv => WithdrawnIsQuiet
  <2> SUFFICES ASSUME DispatchInv, dispatcher = "withdrawn", NEW r \in Runs
               PROVE  roots[r] = 0 /\ owner[r].phase = "none" /\ run[r].state # "implementing"
    BY DEF WithdrawnIsQuiet
  <2>1. owner[r].phase = "none" /\ run[r].state # "implementing"
    BY DEF DispatchInv, Active
  <2>2. ~Resuming(r)
    BY DEF DispatchInv, LaneInv, Deciding, Resuming
  <2> QED
    BY <2>1, <2>2 DEF DispatchInv, OneRootPerSession
<1> QED
  BY <1>1, DispatchInvariant, PTL

(* What a step may never do: let a run become paused, or publish, before   *)
(* its Agent is gone, its Session on disk knows what the Agent knew, the   *)
(* recorded Git facts are the worktree's and what is published is what the *)
(* Agent reported.                                                         *)
ProvenCheckpoint(r) ==
    Executing(r) /\ run'[r].state \in {"paused", "publishing"} =>
          /\ roots[r] = 0
          /\ ~owner[r].unsaved
          /\ run'[r].git = tree[r]
          /\ run'[r].state = "publishing" => owner[r].report = tree[r]

(* The owner's own steps.                                                  *)
LEMMA OwnerProvesCheckpoint ==
    ASSUME DispatchInv, NEW r \in Runs, OwnerStep(r),
           Executing(r), run'[r].state \in {"paused", "publishing"}
    PROVE  ProvenCheckpoint(r)
<1>a. OwnerInv(r) /\ run \in [Runs -> RunRecords] /\ run[r] \in RunRecords
  BY DEF DispatchInv, TypeOK
<1>b. owner[r].phase \notin {"none", "leaving", "ready", "working", "idle"} => roots[r] = 0
  <2>1. ~Resuming(r)
    BY DEF DispatchInv, LaneInv, Resuming, Executing
  <2> QED
    BY <2>1 DEF DispatchInv, OneRootPerSession
<1>1. Conclude(r) \/ Settle(r) \/ ConcludeFailure(r)
  <2>1. CASE UNCHANGED run
    BY <2>1 DEF Executing
  <2>2. CASE AddWorktree(r)
    BY <2>2, <1>a DEF AddWorktree, RunRecords, Executing
  <2>3. CASE SettleFailure(r)
    BY <2>3, <1>a DEF SettleFailure, SetRun, RunRecords, Executing
  <2>4. CASE CancellationRequested(r)
    BY <2>4, <1>a DEF CancellationRequested, RunRecords, Executing
  <2> QED
    BY <2>1, <2>2, <2>3, <2>4 DEF OwnerStep, ExecutionStep, Mount, SetupFails, MountFails, Prompt, Work,
       Report, AgentIdle, TurnFails, Flush, FlushFails, ObserveFails, CancelResumption
<1>2. CASE Conclude(r)
  <2>1. run[r].state = "pausing" /\ CheckpointAt(r, tree[r]) /\ owner[r].phase = "disposed"
    BY <1>2, <1>a DEF Conclude, Observed, RunRecords, Executing
  <2>2. run'[r].state = "paused" /\ run'[r].git = tree[r]
    BY <2>1, <1>a DEF CheckpointAt, RunRecords
  <2> QED
    BY <1>a, <1>b, <2>1, <2>2 DEF OwnerInv, ProvenCheckpoint
<1>3. CASE Settle(r)
  <2>1. /\ owner[r].phase = "settling" /\ run[r].state = "implementing"
        /\ SetRun(r, Outcome(r)) \/ SetRun(r, "ended")
    BY <1>3 DEF Settle, Executing
  <2>2. run'[r].git = run[r].git /\ run'[r].state \in {Outcome(r), "ended"}
    BY <2>1, <1>a DEF SetRun, RunRecords
  <2>3. run[r].git = tree[r] /\ ~owner[r].unsaved
    BY <1>a, <2>1 DEF OwnerInv
  <2>4. owner[r].report = run[r].git
    BY <2>2 DEF Outcome
  <2> QED
    BY <1>b, <2>1, <2>2, <2>3, <2>4 DEF ProvenCheckpoint
<1>4. CASE ConcludeFailure(r)
  <2>1. PICK observed \in {FALSE, run[r].git # NoGit} :
           LET git == IF observed THEN Observed(r) ELSE run[r].git IN
           IF run[r].state # "pausing"
           THEN run' = [run EXCEPT ![r].git = git] /\ Own(r, "settlingFailure") /\ UNCHANGED lane
           ELSE IF Proven(r, observed)
           THEN CheckpointAt(r, git)
           ELSE run' = [run EXCEPT ![r].git = git] /\ Thrown(r)
    BY <1>4 DEF ConcludeFailure
  <2>2. owner[r].phase = "failing"
    BY <1>4 DEF ConcludeFailure
  <2>3. observed /\ owner[r].durable /\ CheckpointAt(r, tree[r])
    <3> DEFINE git == IF observed THEN Observed(r) ELSE run[r].git
    <3>1. run' = [run EXCEPT ![r].git = git] => run'[r].state = run[r].state
      BY <1>a DEF RunRecords
    <3>2. ~(run' = [run EXCEPT ![r].git = git])
      BY <3>1 DEF Executing
    <3>3. Proven(r, observed) /\ CheckpointAt(r, git)
      BY <2>1, <3>2
    <3> QED
      BY <3>3 DEF Proven, Observed
  <2>4. run'[r].state = "paused" /\ run'[r].git = tree[r]
    BY <2>3, <1>a DEF CheckpointAt, RunRecords
  <2> QED
    BY <1>a, <1>b, <2>2, <2>3, <2>4 DEF OwnerInv, ProvenCheckpoint
<1> QED
  BY <1>1, <1>2, <1>3, <1>4

(* No other step ends the execution of a run so.                           *)
LEMMA CheckpointStep ==
    ASSUME DispatchInv, [Next]_vars, NEW r \in Runs,
           Executing(r), run'[r].state \in {"paused", "publishing"}
    PROVE  ProvenCheckpoint(r)
<1>a. run \in [Runs -> RunRecords] /\ TypeOK
  BY DEF DispatchInv, TypeOK
<1>1. CASE UNCHANGED run
  BY <1>1 DEF Executing
<1>2. CASE LaneStep
  <2>1. PICK i \in DOMAIN lane :
           \/ \E done \in SUBSET Publishing : run' = Published(done)
           \/ Claim(i) \/ Inspect(i) \/ CommitResume(i) \/ UNCHANGED run
    BY <1>2 DEF LaneStep, Reconciled, ReconcileFails, PrepareNext, BeginResume, NothingClaimed,
                CompositionRefused, LeaveClaim, ResumeRefused, Settled, durableVars
  <2>2. CASE \E done \in SUBSET Publishing : run' = Published(done)
    BY <1>a, <2>2, PublishedKeeps DEF Executing
  <2>3. CASE Claim(i)
    <3>1. PICK q \in Runs : SetRun(q, "implementing")
      BY <2>3 DEF Claim
    <3> QED
      BY <1>a, <3>1 DEF SetRun, RunRecords, Executing
  <2>4. CASE Inspect(i)
    BY <1>a, <2>4 DEF Inspect, RunRecords, Executing
  <2>5. CASE CommitResume(i)
    <3>1. /\ run[lane[i].run].state = "paused"
          /\ run' = [run EXCEPT ![lane[i].run].state = "implementing", ![lane[i].run].hold = FALSE]
      BY <2>5 DEF CommitResume, Resumable
    <3>2. r # lane[i].run
      BY <3>1 DEF Executing
    <3>3. run'[r] = run[r]
      BY <1>a, <3>1, <3>2
    <3> QED
      BY <3>3 DEF Executing
  <2> QED
    BY <1>1, <2>1, <2>2, <2>3, <2>4, <2>5
<1>3. ASSUME NEW q \in Runs, OwnerStep(q)
      PROVE  ProvenCheckpoint(r)
  <2>1. CASE q = r
    BY <1>3, <2>1, OwnerProvesCheckpoint
  <2>2. CASE q # r
    <3>1. run'[r] = run[r]
      BY <1>3, <1>a, <2>2 DEF OwnerStep, ExecutionStep, AddWorktree, Mount, SetupFails, MountFails, Prompt,
         Work, Report, AgentIdle, TurnFails, Flush, FlushFails, Conclude, CheckpointAt, ObserveFails, Settle,
         SetRun, ConcludeFailure, SettleFailure, CancellationRequested, CancelResumption
    <3> QED
      BY <3>1 DEF Executing
  <2> QED
    BY <2>1, <2>2
<1>4. CASE (\E q \in Runs : StopRun(q)) \/ DisableScheduler \/ PauseForWithdrawal \/ Crash
  <2>1. CASE \E q \in Runs : StopRun(q)
    BY <2>1, <1>a DEF StopRun, RunRecords, Executing
  <2>2. CASE PauseEvery
    BY <2>2, <1>a DEF PauseEvery, RunRecords, Executing
  <2>3. CASE Crash
    BY <2>3, <1>a DEF Crash, RunRecords, Executing
  <2> QED
    BY <1>4, <2>1, <2>2, <2>3 DEF DisableScheduler, PauseForWithdrawal
<1> QED
  BY <1>1, <1>2, <1>3, <1>4 DEF Next, vars, durableVars, ReconcileTimer, ResumeRun, Edit, EnableScheduler,
     Withdraw, Withdrawn, MountDispatch

(* No run is taken for paused or published on the word of an Agent that is *)
(* still there, or of facts that were not observed.                        *)
THEOREM CheckpointsProven == Spec => CheckpointIsProven
<1>1. DispatchInv /\ [Next]_vars => [\A r \in Runs : ProvenCheckpoint(r)]_vars
  BY CheckpointStep DEF ProvenCheckpoint
<1>2. CheckpointIsProven <=> [][\A r \in Runs : ProvenCheckpoint(r)]_vars
  BY DEF CheckpointIsProven, ProvenCheckpoint
<1> QED
  BY <1>1, <1>2, DispatchInvariant, PTL DEF Spec

=============================================================================
