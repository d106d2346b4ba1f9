------------------------- MODULE RuntimeOwnerProofs -------------------------
(* Machine-checked proofs about RuntimeOwner, for every set of processes.  *)
EXTENDS RuntimeOwner, TLAPS

(* The owner record that is read names a process or counts as incomplete.  *)
LEMMA OwnerRecordTyped ==
    ASSUME TypeOK
    PROVE  OwnerRecord \in {"incomplete"} \cup Procs
BY DEF OwnerRecord

(* A new fence has a directory of its own.                                 *)
LEMMA FreeDirTyped ==
    ASSUME FreeDirs # {}
    PROVE  (CHOOSE d \in FreeDirs : TRUE) \in Dirs
BY DEF FreeDirs

(* No step of acquiring the fence, be the fence renamed or removed under   *)
(* it meanwhile, leaves the types.                                         *)
LEMMA AcquireTyped ==
    ASSUME TypeOK, NEW p \in Procs, AcquireStep(p)
    PROVE  TypeOK'
<1> USE DEF TypeOK, Step, Acquiring, Owning, Ended
<1>1. CASE MakeFence(p)
  BY <1>1, FreeDirTyped DEF MakeFence
<1>2. CASE OpenOwner(p)
  BY <1>2 DEF OpenOwner
<1>3. CASE WriteOwner(p)
  BY <1>3 DEF WriteOwner
<1>4. CASE AcquireFails(p)
  BY <1>4 DEF AcquireFails
<1>5. CASE Inspect(p)
  BY <1>5 DEF Inspect
<1>6. CASE ReadOwner(p)
  BY <1>6, OwnerRecordTyped DEF ReadOwner
<1>7. CASE Judge(p)
  BY <1>7 DEF Judge, TurnedAway
<1>8. CASE RenameStale(p)
  BY <1>8 DEF RenameStale
<1>9. CASE DiscardStale(p)
  BY <1>9 DEF DiscardStale
<1> QED
  BY <1>1, <1>2, <1>3, <1>4, <1>5, <1>6, <1>7, <1>8, <1>9 DEF AcquireStep

(* Nor does any other step.                                                *)
LEMMA OwnerNextTyped ==
    ASSUME TypeOK, [Next]_vars
    PROVE  TypeOK'
<1>1. CASE UNCHANGED vars
  BY <1>1 DEF vars, TypeOK
<1>2. ASSUME NEW p \in Procs, Start(p)
      PROVE  TypeOK'
  BY <1>2 DEF Start, Step, TypeOK, Acquiring
<1>3. ASSUME NEW p \in Procs, NEW s \in Services, Hold(p, s) \/ Unhold(p, s)
      PROVE  TypeOK'
  BY <1>3 DEF Hold, Unhold, TypeOK
<1>4. ASSUME NEW p \in Procs, Dispose(p)
      PROVE  TypeOK'
  BY <1>4 DEF Dispose, Step, TypeOK, Owning
<1>5. ASSUME NEW p \in Procs, ReleaseStep(p)
      PROVE  TypeOK'
  BY <1>5 DEF ReleaseStep, ReadForRelease, Release, Step, TypeOK, Owning, Ended
<1>6. ASSUME NEW p \in Procs, Exit(p)
      PROVE  TypeOK'
  BY <1>6 DEF Exit, TypeOK
<1> QED
  BY <1>1, <1>2, <1>3, <1>4, <1>5, <1>6, AcquireTyped DEF Next

(* Every reachable state of the fence and its processes is typed.          *)
THEOREM OwnerTypeCorrect == Spec => []TypeOK
<1>1. Init => TypeOK
  BY DEF Init, TypeOK, Ended
<1>2. TypeOK /\ [Next]_vars => TypeOK'
  BY OwnerNextTyped
<1> QED
  BY <1>1, <1>2, PTL DEF Spec

----------------------------------------------------------------------------
(* Two process lifetimes.                                                  *)

(* A contender and an owner, or its remains.  With a third lifetime the    *)
(* fence fails: the run runtime_owner_contended shows how.                 *)
AtMostTwo == \A p, q, r \in Procs : p = q \/ p = r \/ q = r

(* Processes past the making of a fence, and what they have put in it.     *)
Holding(p) == alive[p] /\ pc[p] \in {"open", "write"} \cup Owning

Written(p) ==
    CASE pc[p] = "open" -> "missing" [] pc[p] = "write" -> "partial" [] OTHER -> p

(* The fence is that of the one process that holds it.                     *)
HolderInv ==
    \A p \in Procs : Holding(p) =>
        /\ fence # NoDir /\ made[p] = fence /\ content[fence] = Written(p)
        /\ \A q \in Procs : Holding(q) => q = p

(* A fence that nobody holds was left by a dead process, so while nobody   *)
(* has died nobody reclaims.                                               *)
LivingInv ==
    (\A p \in Procs : alive[p]) =>
        /\ fence # NoDir => \E p \in Procs : Holding(p)
        /\ \A p \in Procs : pc[p] \notin {"rename", "discard"}

(* What was renamed away is no longer the fence, and is soon removed.      *)
AsideInv ==
    \A p \in Procs :
        /\ aside[p] # NoDir => aside[p] # fence /\ alive[p] /\ pc[p] = "discard"
        /\ ~alive[p] => made[p] = NoDir

(* A directory that is gone holds no record.                               *)
ContentInv == \A d \in Dirs : content[d] # "missing" => DirExists(d)

(* Services hold only what their process owns.                             *)
ServiceInv == \A p \in Procs : holders[p] # {} => alive[p] /\ pc[p] \in {"owned", "closing"}

FenceInv == HolderInv /\ LivingInv /\ AsideInv /\ ContentInv /\ ServiceInv

(* Of two processes, a live one is alone unless both live.                 *)
LEMMA AloneOrAll ==
    ASSUME AtMostTwo, NEW p \in Procs, alive[p], ~\A q \in Procs : alive[q]
    PROVE  \A q \in Procs : alive[q] => q = p
BY DEF AtMostTwo

(* While both live, a fence is never judged stale.                         *)
LEMMA NothingToReclaim ==
    ASSUME TypeOK, FenceInv, NEW p \in Procs, \A q \in Procs : alive[q]
    PROVE  ~MayReclaim(p)
<1>1. seen[p] \in Procs => OwnerIsLive(seen[p])
  BY DEF OwnerIsLive
<1>2. ASSUME fence # NoDir PROVE \E q \in Procs : alive[q] /\ made[q] = fence
  BY <1>2 DEF FenceInv, LivingInv, HolderInv
<1> QED
  BY <1>1, <1>2 DEF MayReclaim, IncompleteFenceIsStale

(* A new fence is a directory without a record that nobody renamed away.   *)
LEMMA FreshFence ==
    ASSUME TypeOK, ContentInv, FreeDirs # {}, NEW d, d = CHOOSE x \in FreeDirs : TRUE
    PROVE  /\ d \in Dirs /\ d # NoDir /\ d # fence
           /\ content[d] = "missing" /\ \A p \in Procs : aside[p] # d
<1>1. d \in FreeDirs
  BY Zenon
<1> QED
  BY <1>1, OwnerAssumption DEF FreeDirs, ContentInv, DirExists

(* No file system call of an acquisition takes a live owner's fence.       *)
LEMMA AcquireKeepsFence ==
    ASSUME AtMostTwo, TypeOK, FenceInv, NEW p \in Procs, AcquireStep(p)
    PROVE  FenceInv'
<1> USE DEF TypeOK
<1>1. CASE MakeFence(p)
  <2>1. CASE fence # NoDir
    <3>1. /\ pc' = [pc EXCEPT ![p] = "inspect"] /\ pc[p] = "make" /\ alive[p]
          /\ UNCHANGED <<alive, fence, content, made, aside, holders>>
      BY <1>1, <2>1 DEF MakeFence, Step
    <3>2. \A q \in Procs : Holding(q)' <=> Holding(q)
      BY <3>1 DEF Holding, Owning
    <3>3. \A q \in Procs : Holding(q) => Written(q)' = Written(q)
      BY <3>1 DEF Holding, Written, Owning
    <3> QED
      BY <3>1, <3>2, <3>3
         DEF FenceInv, HolderInv, LivingInv, AsideInv, ContentInv, ServiceInv, DirExists
  <2>2. CASE fence = NoDir
    <3>1. FreeDirs # {} /\ fence' = CHOOSE d \in FreeDirs : TRUE
      BY <1>1, <2>2 DEF MakeFence
    <3>2. /\ fence' \in Dirs /\ fence' # NoDir
          /\ content[fence'] = "missing" /\ \A q \in Procs : aside[q] # fence'
      BY <3>1, FreshFence DEF FenceInv
    <3>3. /\ pc' = [pc EXCEPT ![p] = "open"] /\ pc[p] = "make" /\ alive[p]
          /\ made' = [made EXCEPT ![p] = fence']
          /\ UNCHANGED <<alive, content, aside, holders>>
      BY <1>1, <2>2 DEF MakeFence, Step
    <3>4. \A q \in Procs : ~Holding(q)
      BY <2>2 DEF FenceInv, HolderInv
    <3>5. \A q \in Procs : Holding(q)' <=> q = p
      BY <3>3, <3>4 DEF Holding, Owning
    <3>6. HolderInv'
      BY <3>2, <3>3, <3>5 DEF HolderInv, Written
    <3>7. LivingInv'
      BY <3>3, <3>5 DEF FenceInv, LivingInv
    <3>8. AsideInv' /\ ServiceInv'
      BY <3>2, <3>3 DEF FenceInv, AsideInv, ServiceInv
    <3>9. ContentInv'
      BY <2>2, <3>3, OwnerAssumption DEF FenceInv, ContentInv, DirExists
    <3> QED
      BY <3>6, <3>7, <3>8, <3>9 DEF FenceInv
  <2> QED
    BY <2>1, <2>2
<1>2. CASE OpenOwner(p) \/ WriteOwner(p)
  <2>1. Holding(p)
    BY <1>2 DEF OpenOwner, WriteOwner, Step, Holding
  <2>2. /\ fence # NoDir /\ made[p] = fence /\ content[fence] = Written(p)
        /\ \A q \in Procs : Holding(q) => q = p
    BY <2>1 DEF FenceInv, HolderInv
  <2>3. /\ UNCHANGED <<alive, fence, made, aside, holders>>
        /\ pc[p] \in {"open", "write"} /\ alive[p]
        /\ \/ /\ pc' = [pc EXCEPT ![p] = "write"]
              /\ content' = [content EXCEPT ![fence] = "partial"]
           \/ /\ pc' = [pc EXCEPT ![p] = "owned"]
              /\ content' = [content EXCEPT ![fence] = p]
    <3>1. CASE OpenOwner(p)
      BY <2>2, <3>1 DEF OpenOwner, Step, Written
    <3>2. CASE WriteOwner(p)
      BY <2>2, <3>2 DEF WriteOwner, Step, DirExists
    <3> QED
      BY <1>2, <3>1, <3>2
  <2>4. \A q \in Procs : Holding(q)' <=> q = p
    BY <2>1, <2>2, <2>3 DEF Holding, Owning
  <2>5. HolderInv'
    BY <2>2, <2>3, <2>4 DEF HolderInv, Written
  <2>6. LivingInv'
    BY <2>3, <2>4 DEF FenceInv, LivingInv
  <2>7. AsideInv' /\ ServiceInv'
    BY <2>3 DEF FenceInv, AsideInv, ServiceInv
  <2>8. ContentInv'
    BY <2>2, <2>3 DEF FenceInv, ContentInv, DirExists
  <2> QED
    BY <2>5, <2>6, <2>7, <2>8 DEF FenceInv
<1>3. CASE AcquireFails(p)
  <2>1. Holding(p)
    BY <1>3 DEF AcquireFails, Step, Holding
  <2>2. fence # NoDir /\ \A q \in Procs : Holding(q) => q = p
    BY <2>1 DEF FenceInv, HolderInv
  <2>3. /\ pc' = [pc EXCEPT ![p] = "failed"] /\ fence' = NoDir
        /\ content' = [content EXCEPT ![fence] = "missing"]
        /\ made' = [made EXCEPT ![p] = NoDir]
        /\ UNCHANGED <<alive, aside, holders>> /\ pc[p] \in {"open", "write"}
    BY <1>3, <2>2 DEF AcquireFails, Step
  <2>4. \A q \in Procs : ~Holding(q)'
    BY <2>2, <2>3 DEF Holding, Owning
  <2>5. HolderInv' /\ LivingInv'
    BY <2>3, <2>4 DEF FenceInv, HolderInv, LivingInv
  <2>6. AsideInv' /\ ServiceInv'
    BY <2>3 DEF FenceInv, AsideInv, ServiceInv
  <2>7. ContentInv'
    BY <2>2, <2>3 DEF FenceInv, ContentInv, DirExists
  <2> QED
    BY <2>5, <2>6, <2>7 DEF FenceInv
<1>4. CASE Inspect(p) \/ ReadOwner(p) \/ Judge(p)
  <2>1. /\ pc[p] \in {"inspect", "read", "judge"} /\ alive[p]
        /\ UNCHANGED <<alive, fence, content, made, aside, holders>>
    BY <1>4 DEF Inspect, ReadOwner, Judge, Step
  <2>2. PICK to \in {"make", "read", "judge", "rename", "refused"} :
            /\ pc' = [pc EXCEPT ![p] = to]
            /\ to = "rename" => MayReclaim(p)
    BY <1>4 DEF Inspect, ReadOwner, Judge, Step, TurnedAway
  <2>3. \A q \in Procs : Holding(q)' <=> Holding(q)
    BY <2>1, <2>2 DEF Holding, Owning
  <2>4. \A q \in Procs : Holding(q) => Written(q)' = Written(q)
    BY <2>1, <2>2 DEF Holding, Written, Owning
  <2>5. HolderInv'
    BY <2>1, <2>3, <2>4 DEF FenceInv, HolderInv
  <2>6. LivingInv'
    <3> SUFFICES ASSUME \A q \in Procs : alive'[q]
                 PROVE  /\ fence' # NoDir => \E q \in Procs : Holding(q)'
                        /\ \A q \in Procs : pc'[q] \notin {"rename", "discard"}
      BY DEF LivingInv
    <3>1. to # "rename"
      BY <2>1, <2>2, NothingToReclaim
    <3> QED
      BY <2>1, <2>2, <2>3, <3>1 DEF FenceInv, LivingInv
  <2>7. AsideInv' /\ ServiceInv' /\ ContentInv'
    BY <2>1, <2>2 DEF FenceInv, AsideInv, ServiceInv, ContentInv, DirExists
  <2> QED
    BY <2>5, <2>6, <2>7 DEF FenceInv
<1>5. CASE RenameStale(p) \/ DiscardStale(p)
  <2>1. alive[p] /\ pc[p] \in {"rename", "discard"}
    BY <1>5 DEF RenameStale, DiscardStale, Step
  <2>2. ~\A q \in Procs : alive[q]
    BY <2>1 DEF FenceInv, LivingInv
  <2>3. \A q \in Procs : alive[q] => q = p
    BY <2>1, <2>2, AloneOrAll
  <2>4. \A q \in Procs : q # p => aside[q] = NoDir /\ ~alive[q]
    BY <2>3 DEF FenceInv, AsideInv
  <2>5. /\ \E to \in {"make", "discard"} : pc' = [pc EXCEPT ![p] = to]
        /\ UNCHANGED <<alive, made, holders>>
    BY <1>5 DEF RenameStale, DiscardStale, Step
  <2>6. \A q \in Procs : ~Holding(q) /\ ~Holding(q)'
    BY <2>1, <2>4, <2>5 DEF Holding, Owning
  <2>7. HolderInv' /\ LivingInv'
    BY <2>2, <2>5, <2>6 DEF HolderInv, LivingInv
  <2>8. ServiceInv'
    BY <2>1, <2>5 DEF FenceInv, ServiceInv
  <2>9. CASE RenameStale(p)
    <3>1. /\ pc' = [pc EXCEPT ![p] = IF fence = NoDir THEN "make" ELSE "discard"]
          /\ aside' = [aside EXCEPT ![p] = fence] /\ fence' = NoDir /\ content' = content
          /\ aside[p] = NoDir
      BY <2>9 DEF RenameStale, Step, FenceInv, AsideInv
    <3>2. AsideInv'
      BY <2>1, <2>4, <2>5, <3>1 DEF FenceInv, AsideInv
    <3>3. ContentInv'
      BY <2>4, <3>1 DEF FenceInv, ContentInv, DirExists
    <3> QED
      BY <2>7, <2>8, <3>2, <3>3 DEF FenceInv
  <2>10. CASE DiscardStale(p)
    <3>1. /\ content' = [content EXCEPT ![aside[p]] = "missing"]
          /\ aside' = [aside EXCEPT ![p] = NoDir] /\ fence' = fence
      BY <2>10 DEF DiscardStale
    <3>2. AsideInv'
      BY <2>4, <2>5, <3>1 DEF FenceInv, AsideInv
    <3>3. ContentInv'
      BY <2>4, <3>1, OwnerAssumption DEF FenceInv, ContentInv, DirExists
    <3> QED
      BY <2>7, <2>8, <3>2, <3>3 DEF FenceInv
  <2> QED
    BY <1>5, <2>9, <2>10
<1> QED
  BY <1>1, <1>2, <1>3, <1>4, <1>5 DEF AcquireStep

(* Nor does any other step, a death included.                              *)
LEMMA NextKeepsFence ==
    ASSUME AtMostTwo, TypeOK, FenceInv, [Next]_vars
    PROVE  FenceInv'
<1> USE DEF TypeOK
<1>1. CASE UNCHANGED vars
  BY <1>1 DEF vars, FenceInv, HolderInv, LivingInv, AsideInv, ContentInv, ServiceInv, DirExists,
              Holding, Written
<1>2. ASSUME NEW p \in Procs, Start(p) PROVE FenceInv'
  <2>1. /\ pc' = [pc EXCEPT ![p] = "make"] /\ pc[p] = "off" /\ alive[p]
        /\ UNCHANGED <<alive, fence, content, made, aside, holders>>
    BY <1>2 DEF Start, Step
  <2>2. \A q \in Procs : /\ Holding(q)' <=> Holding(q)
                         /\ Holding(q) => Written(q)' = Written(q)
    BY <2>1 DEF Holding, Written, Owning
  <2> QED
    BY <2>1, <2>2
       DEF FenceInv, HolderInv, LivingInv, AsideInv, ContentInv, ServiceInv, DirExists
<1>3. ASSUME NEW p \in Procs, NEW s \in Services, Hold(p, s) \/ Unhold(p, s) PROVE FenceInv'
  <2>1. /\ UNCHANGED <<alive, pc, fence, content, made, aside>>
        /\ \A q \in Procs : q # p => holders'[q] = holders[q]
        /\ alive[p] /\ pc[p] \in {"owned", "closing"}
    BY <1>3 DEF Hold, Unhold, FenceInv, ServiceInv
  <2> QED
    BY <2>1 DEF FenceInv, HolderInv, LivingInv, AsideInv, ContentInv, ServiceInv, DirExists,
                Holding, Written
<1>4. ASSUME NEW p \in Procs, Dispose(p) \/ ReadForRelease(p) PROVE FenceInv'
  <2>1. /\ alive[p] /\ pc[p] \in {"owned", "closing"}
        /\ UNCHANGED <<alive, fence, content, made, aside, holders>>
    BY <1>4 DEF Dispose, ReadForRelease, Step
  <2>2. Holding(p)
    BY <2>1 DEF Holding, Owning
  <2>3. fence # NoDir /\ content[fence] = p
    BY <2>1, <2>2 DEF FenceInv, HolderInv, Written
  <2>4. PICK to \in {"closing", "releasing"} :
            pc' = [pc EXCEPT ![p] = to] /\ (to = "releasing" => holders[p] = {})
    BY <1>4, <2>3 DEF Dispose, ReadForRelease, Step, MayRelease
  <2>5. \A q \in Procs : /\ Holding(q)' <=> Holding(q)
                         /\ Holding(q) => Written(q)' = Written(q)
    BY <2>1, <2>4 DEF Holding, Written, Owning
  <2>6. HolderInv' /\ LivingInv'
    BY <2>1, <2>4, <2>5 DEF FenceInv, HolderInv, LivingInv
  <2>7. AsideInv' /\ ContentInv'
    BY <2>1, <2>4 DEF FenceInv, AsideInv, ContentInv, DirExists
  <2>8. ServiceInv'
    BY <2>1, <2>4 DEF FenceInv, ServiceInv
  <2> QED
    BY <2>6, <2>7, <2>8 DEF FenceInv
<1>5. ASSUME NEW p \in Procs, Release(p) PROVE FenceInv'
  <2>1. Holding(p)
    BY <1>5 DEF Release, Step, Holding, Owning
  <2>2. fence # NoDir /\ \A q \in Procs : Holding(q) => q = p
    BY <2>1 DEF FenceInv, HolderInv
  <2>3. /\ pc' = [pc EXCEPT ![p] = "released"] /\ pc[p] = "releasing"
        /\ fence' = NoDir
        /\ content' = [content EXCEPT ![fence] = "missing"]
        /\ made' = [made EXCEPT ![p] = NoDir]
        /\ UNCHANGED <<alive, aside, holders>>
    BY <1>5, <2>2 DEF Release, Step
  <2>4. \A q \in Procs : ~Holding(q)'
    BY <2>2, <2>3 DEF Holding, Owning
  <2>5. HolderInv' /\ LivingInv'
    BY <2>3, <2>4 DEF FenceInv, HolderInv, LivingInv
  <2>6. AsideInv' /\ ServiceInv'
    BY <2>3 DEF FenceInv, AsideInv, ServiceInv
  <2>7. ContentInv'
    BY <2>2, <2>3 DEF FenceInv, ContentInv, DirExists
  <2> QED
    BY <2>5, <2>6, <2>7 DEF FenceInv
<1>6. ASSUME NEW p \in Procs, Exit(p) PROVE FenceInv'
  <2>1. /\ alive' = [alive EXCEPT ![p] = FALSE] /\ alive[p]
        /\ made' = [made EXCEPT ![p] = NoDir] /\ aside' = [aside EXCEPT ![p] = NoDir]
        /\ content' = IF aside[p] = NoDir THEN content
                      ELSE [content EXCEPT ![aside[p]] = "missing"]
        /\ holders' = [holders EXCEPT ![p] = {}]
        /\ UNCHANGED <<pc, fence>>
    BY <1>6 DEF Exit
  <2>2. \A q \in Procs : /\ Holding(q)' => Holding(q) /\ q # p
                         /\ Written(q)' = Written(q)
    BY <2>1 DEF Holding, Written
  <2>3. fence # NoDir => content'[fence] = content[fence]
    BY <2>1 DEF FenceInv, AsideInv
  <2>4. HolderInv'
    BY <2>1, <2>2, <2>3 DEF FenceInv, HolderInv
  <2>5. LivingInv'
    BY <2>1 DEF LivingInv
  <2>6. AsideInv' /\ ServiceInv'
    BY <2>1 DEF FenceInv, AsideInv, ServiceInv
  <2>7. ContentInv'
    <3> SUFFICES ASSUME NEW d \in Dirs, content'[d] # "missing" PROVE DirExists(d)'
      BY DEF ContentInv
    <3>1. content[d] # "missing" /\ (aside[p] = NoDir \/ d # aside[p])
      BY <2>1
    <3>2. DirExists(d) /\ d # NoDir
      BY <3>1, OwnerAssumption DEF FenceInv, ContentInv
    <3> QED
      BY <2>1, <3>1, <3>2 DEF DirExists
  <2> QED
    BY <2>4, <2>5, <2>6, <2>7 DEF FenceInv
<1> QED
  BY <1>1, <1>2, <1>3, <1>4, <1>5, <1>6, AcquireKeepsFence DEF Next, ReleaseStep

(* Between two processes the fence does what it is for: whoever operates   *)
(* the store is named by it, whatever steps interleave and wherever one of *)
(* them dies.                                                              *)
THEOREM FenceProven ==
    ASSUME AtMostTwo
    PROVE  Spec => []OwnersAreFenced
<1>1. Init => FenceInv
  BY OwnerAssumption
     DEF Init, FenceInv, HolderInv, LivingInv, AsideInv, ContentInv, ServiceInv, Holding, Owning
<1>2. TypeOK /\ FenceInv /\ [Next]_vars => FenceInv'
  BY NextKeepsFence
<1>3. FenceInv => OwnersAreFenced
  <2> SUFFICES ASSUME FenceInv, NEW p \in Procs, Operating(p)
               PROVE  fence # NoDir /\ content[fence] = p
    BY DEF OwnersAreFenced
  <2>1. alive[p] /\ pc[p] \in Owning
    BY DEF Operating, FenceInv, ServiceInv, Owning
  <2>2. Holding(p) /\ Written(p) = p
    BY <2>1 DEF Holding, Written, Owning
  <2> QED
    BY <2>2 DEF FenceInv, HolderInv
<1> QED
  BY <1>1, <1>2, <1>3, OwnerTypeCorrect, PTL DEF Spec

=============================================================================
