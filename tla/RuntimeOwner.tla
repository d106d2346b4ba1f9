---------------------------- MODULE RuntimeOwner -----------------------------
(***************************************************************************)
(* The fence around the runtime store (operations/runtime-owner.ts): a     *)
(* directory beside the store, made atomically and naming its owner in a   *)
(* file written afterwards.  Each process tries to acquire it once; it may *)
(* crash at any step, and every step is one file system call, so that      *)
(* another process can run between any two of them.                        *)
(*                                                                         *)
(* Time is abstract: an incomplete fence has been left for five seconds    *)
(* only if the process completing it is dead, i.e. no live process is      *)
(* suspended that long between making the fence and writing its record.    *)
(***************************************************************************)
EXTENDS Integers, FiniteSets

CONSTANTS
    Procs,       \* Host processes; each is a process lifetime with its nonce
    Dirs,        \* identities of directories, enough of them
    NoDir,       \* "no directory"
    Services     \* services that hold the fence through their own shutdown

ASSUME OwnerAssumption ==
    /\ NoDir \notin Dirs
    /\ {"missing", "partial", "incomplete"} \cap Procs = {}

VARIABLES
    alive,       \* the process exists, as /proc tells other processes
    pc,          \* the next file system call of each process
    fence,       \* the directory at lockPath
    content,     \* what owner.json of each directory holds
    made,        \* the directory a process made or opened its record in
    aside,       \* the directory a process renamed away, still to be removed
    seen,        \* the owner record a process has read
    holders      \* services holding the fence of each process

vars == <<alive, pc, fence, content, made, aside, seen, holders>>

Acquiring == {"make", "open", "write", "inspect", "read", "judge", "rename", "discard"}
Owning == {"owned", "closing", "releasing"}
Ended == {"off", "refused", "failed", "released"}

FreeDirs ==
    Dirs \ ({fence} \cup {made[p] : p \in Procs} \cup {aside[p] : p \in Procs})

DirExists(d) == d = fence \/ \E p \in Procs : aside[p] = d

(* A live process may still complete the fence: it is not five seconds old *)
IncompleteFenceIsStale ==
    /\ fence # NoDir
    /\ ~\E p \in Procs : alive[p] /\ made[p] = fence

OwnerIsLive(p) == alive[p]

Step(p, from, to) ==
    /\ alive[p]
    /\ pc[p] = from
    /\ pc' = [pc EXCEPT ![p] = to]

Init ==
    /\ alive = [p \in Procs |-> TRUE]
    /\ pc = [p \in Procs |-> "off"]
    /\ fence = NoDir
    /\ content = [d \in Dirs |-> "missing"]
    /\ made = [p \in Procs |-> NoDir]
    /\ aside = [p \in Procs |-> NoDir]
    /\ seen = [p \in Procs |-> "incomplete"]
    /\ holders = [p \in Procs |-> {}]

----------------------------------------------------------------------------
(* acquire                                                                 *)

Start(p) ==
    /\ Step(p, "off", "make")
    /\ UNCHANGED <<alive, fence, content, made, aside, seen, holders>>

MakeFence(p) ==
    /\ Step(p, "make", IF fence = NoDir THEN "open" ELSE "inspect")
    /\ IF fence = NoDir
       THEN /\ FreeDirs # {}      \* always, as Dirs is to be large enough
            /\ fence' = CHOOSE d \in FreeDirs : TRUE
            /\ made' = [made EXCEPT ![p] = fence']
       ELSE UNCHANGED <<fence, made>>
    /\ UNCHANGED <<alive, content, aside, seen, holders>>

(* The record is opened by path, exclusively: in whatever directory is     *)
(* there now.                                                              *)
OpenOwner(p) ==
    /\ fence # NoDir
    /\ Step(p, "open", IF content[fence] = "missing" THEN "write" ELSE "inspect")
    /\ IF content[fence] = "missing"
       THEN /\ content' = [content EXCEPT ![fence] = "partial"]
            /\ made' = [made EXCEPT ![p] = fence]
       ELSE /\ made' = [made EXCEPT ![p] = NoDir]
            /\ UNCHANGED content
    /\ UNCHANGED <<alive, fence, aside, seen, holders>>

WriteOwner(p) ==
    /\ Step(p, "write", "owned")
    /\ content' = IF DirExists(made[p]) THEN [content EXCEPT ![made[p]] = p] ELSE content
    /\ UNCHANGED <<alive, fence, made, aside, seen, holders>>

(* Opening or writing fails for another reason than an existing file: the  *)
(* fence is removed by path before the error is rethrown.                  *)
AcquireFails(p) ==
    /\ Step(p, "open", "failed") \/ Step(p, "write", "failed")
    /\ fence' = NoDir
    /\ content' = IF fence = NoDir THEN content ELSE [content EXCEPT ![fence] = "missing"]
    /\ made' = [made EXCEPT ![p] = NoDir]
    /\ UNCHANGED <<alive, aside, seen, holders>>

Inspect(p) ==
    /\ Step(p, "inspect", IF fence = NoDir THEN "make" ELSE "read")
    /\ UNCHANGED <<alive, fence, content, made, aside, seen, holders>>

(* The record at lockPath; absent, cut short and malformed ones are alike. *)
OwnerRecord ==
    IF fence # NoDir /\ content[fence] \in Procs THEN content[fence] ELSE "incomplete"

ReadOwner(p) ==
    /\ Step(p, "read", "judge")
    /\ seen' = [seen EXCEPT ![p] = OwnerRecord]
    /\ UNCHANGED <<alive, fence, content, made, aside, holders>>

(* A complete record is judged by its process, an incomplete one by age.   *)
MayReclaim(p) ==
    IF seen[p] \in Procs THEN ~OwnerIsLive(seen[p]) ELSE IncompleteFenceIsStale

MustReclaim(p) == seen[p] \in Procs /\ ~OwnerIsLive(seen[p])

(* What becomes of a process that finds a live owner.                      *)
TurnedAwayWaiting == "make"
TurnedAway == "refused"

Judge(p) ==
    /\ \/ MayReclaim(p) /\ Step(p, "judge", "rename")
       \/ ~MustReclaim(p) /\ Step(p, "judge", TurnedAway)
    /\ UNCHANGED <<alive, fence, content, made, aside, seen, holders>>

(* What was judged stale is renamed by path.                               *)
RenameStale(p) ==
    /\ Step(p, "rename", IF fence = NoDir THEN "make" ELSE "discard")
    /\ aside' = [aside EXCEPT ![p] = fence]
    /\ fence' = NoDir
    /\ UNCHANGED <<alive, content, made, seen, holders>>

DiscardStale(p) ==
    /\ Step(p, "discard", "make")
    /\ content' = [content EXCEPT ![aside[p]] = "missing"]
    /\ aside' = [aside EXCEPT ![p] = NoDir]
    /\ UNCHANGED <<alive, fence, made, seen, holders>>

----------------------------------------------------------------------------
(* Holding and releasing.                                                  *)

Hold(p, s) ==
    /\ alive[p] /\ pc[p] = "owned"
    /\ s \notin holders[p]
    /\ holders' = [holders EXCEPT ![p] = @ \cup {s}]
    /\ UNCHANGED <<alive, pc, fence, content, made, aside, seen>>

Unhold(p, s) ==
    /\ alive[p] /\ s \in holders[p]
    /\ holders' = [holders EXCEPT ![p] = @ \ {s}]
    /\ UNCHANGED <<alive, pc, fence, content, made, aside, seen>>

Dispose(p) ==
    /\ Step(p, "owned", "closing")
    /\ UNCHANGED <<alive, fence, content, made, aside, seen, holders>>

MayReleaseAtOnce(p) == TRUE
MayRelease(p) == holders[p] = {}

(* release reads the record; only its own nonce is renamed away.           *)
ReadForRelease(p) ==
    /\ MayRelease(p)
    /\ Step(p, "closing",
            IF fence # NoDir /\ content[fence] = p THEN "releasing" ELSE "released")
    /\ UNCHANGED <<alive, fence, content, made, aside, seen, holders>>

Release(p) ==
    /\ Step(p, "releasing", "released")
    /\ content' = IF fence = NoDir THEN content ELSE [content EXCEPT ![fence] = "missing"]
    /\ fence' = NoDir
    /\ made' = [made EXCEPT ![p] = NoDir]
    /\ UNCHANGED <<alive, aside, seen, holders>>

(* A process may end at any step, and leaves the file system as it is.     *)
Exit(p) ==
    /\ alive[p] /\ pc[p] # "off"
    /\ alive' = [alive EXCEPT ![p] = FALSE]
    /\ made' = [made EXCEPT ![p] = NoDir]
    /\ aside' = [aside EXCEPT ![p] = NoDir]
    /\ content' = IF aside[p] = NoDir THEN content ELSE [content EXCEPT ![aside[p]] = "missing"]
    /\ holders' = [holders EXCEPT ![p] = {}]
    /\ seen' = [seen EXCEPT ![p] = "incomplete"]
    /\ UNCHANGED <<pc, fence>>

----------------------------------------------------------------------------
AcquireStep(p) ==
    \/ MakeFence(p) \/ OpenOwner(p) \/ WriteOwner(p) \/ AcquireFails(p)
    \/ Inspect(p) \/ ReadOwner(p) \/ Judge(p) \/ RenameStale(p) \/ DiscardStale(p)

ReleaseStep(p) == ReadForRelease(p) \/ Release(p)

Next ==
    \E p \in Procs :
        \/ Start(p) \/ AcquireStep(p)
        \/ \E s \in Services : Hold(p, s) \/ Unhold(p, s)
        \/ Dispose(p) \/ ReleaseStep(p)
        \/ Exit(p)

Spec == Init /\ [][Next]_vars

(* A process that has begun to acquire or to release goes on: its calls    *)
(* are awaited in a loop.  A service drops its hold when it is disposed.   *)
Fairness ==
    /\ \A p \in Procs : WF_vars(AcquireStep(p)) /\ WF_vars(ReleaseStep(p))
    /\ \A p \in Procs, s \in Services : WF_vars(pc[p] = "closing" /\ Unhold(p, s))

FairSpec == Spec /\ Fairness

----------------------------------------------------------------------------
TypeOK ==
    /\ alive \in [Procs -> BOOLEAN]
    /\ pc \in [Procs -> Acquiring \cup Owning \cup Ended]
    /\ fence \in Dirs \cup {NoDir}
    /\ content \in [Dirs -> {"missing", "partial"} \cup Procs]
    /\ made \in [Procs -> Dirs \cup {NoDir}]
    /\ aside \in [Procs -> Dirs \cup {NoDir}]
    /\ seen \in [Procs -> {"incomplete"} \cup Procs]
    /\ holders \in [Procs -> SUBSET Services]

Operating(p) == alive[p] /\ (pc[p] \in Owning \/ holders[p] # {})

(* Whoever operates the store, or still has a service shutting down on it, *)
(* is named by the fence: no contender reclaims a live owner's fence, be   *)
(* it half written, complete or closing, and two owners are impossible.    *)
OwnersAreFenced ==
    \A p \in Procs : Operating(p) => fence # NoDir /\ content[fence] = p

(* "A second Host using the same store refuses to dispatch."               *)
SecondHostRefuses ==
    \A p, q \in Procs : Operating(p) /\ Operating(q) => p = q

(* An attempt ends: with the fence, a refusal or an error, however many    *)
(* fences appear and vanish meanwhile; a disposed owner releases.          *)
AttemptsEnd ==
    \A p \in Procs :
        /\ pc[p] \in Acquiring ~> pc[p] \in Owning \cup Ended \/ ~alive[p]
        /\ pc[p] = "closing" ~> pc[p] = "released" \/ ~alive[p]

=============================================================================
