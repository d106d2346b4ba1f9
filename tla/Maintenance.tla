---------------------------- MODULE Maintenance ----------------------------
(***************************************************************************)
(* Removal of the worktrees of merged runs (operations/cleanup.ts,         *)
(* cleanup-inspector.ts, retention.ts, service.ts, store.ts): an operator  *)
(* and the periodic retention pass preview a run, and remove its worktree  *)
(* after a second inspection.  Both inspections and the removal hold the   *)
(* run's fence, which the run's lifecycle needs too; the person who owns   *)
(* the repository holds no fence, and neither does the code host.          *)
(*                                                                         *)
(* An inspection reads the pull request first and the worktree later.  The *)
(* intent to remove is durable before Git is called, and its outcome is    *)
(* recorded afterwards: a restart finds intents without one.               *)
(***************************************************************************)
EXTENDS Integers, FiniteSets

CONSTANTS
    Runs,              \* published runs, in the order of the record
    PreservesCommits,  \* whether the code host publishes the local commits
    MaxObservations,   \* operations/state.ts: mergeObservations at most
    MaxChanges,        \* bound: changes to worktrees, and deliveries retried
    MaxRequests,       \* bound: previews an operator asks for
    MaxRestarts        \* bound: Host restarts

ASSUME MaintenanceAssumption ==
    /\ Runs \subseteq Nat /\ IsFiniteSet(Runs)
    /\ PreservesCommits \in BOOLEAN
    /\ {MaxObservations, MaxChanges, MaxRequests, MaxRestarts} \subseteq Nat

VARIABLES
    run,             \* durable: each run's lifecycle, as far as cleanup asks
    generation,      \* fence: lifecycle changes of each run (only compared in a process)
    worktree,        \* the file system: [files, ahead, removedBy] of each run
    pullRequest,     \* the code host: each run's pull request
    observations,    \* durable: runs whose merge was observed
    aged,            \* runs whose observed merge is older than the retention
    pending,         \* durable: the removal begun, [by, run], or Nobody's
    outcome,         \* durable audit: how each caller's last removal ended
    failure,         \* store: whether its last update failed
    caller,          \* where the operator's and the retention's requests are
    pass,            \* retention: runs the pass in progress has still to see
    bounds           \* history: [changes, requests, restarts]

vars == <<run, generation, worktree, pullRequest, observations, aged, pending, outcome, failure,
          caller, pass, bounds>>
storeVars == <<observations, pending, outcome, failure>>
worldVars == <<worktree, pullRequest, aged>>

Callers == {"operator", "retention"}
None == [by |-> "nobody", run |-> 0]
Idle == [step |-> "idle", run |-> 0, merged |-> FALSE, generation |-> 0]

(* Runs whose pull request is recorded; "unresolved" stands for a delivery *)
(* that is not at its end, and for every earlier state of a run: cleanup   *)
(* turns all of them down alike.                                           *)
RunStates == {"unresolved", "completed"}
Steps == {"idle", "inspecting", "reading", "previewed", "waiting", "rechecking", "rereading",
          "removing", "removed", "refused"}
Fenced == Steps \ {"idle", "previewed", "waiting"}
Removing == (Fenced \ {"inspecting", "reading"}) \cup {"waiting"}

Init ==
    /\ run = [r \in Runs |-> "unresolved"]
    /\ generation = [r \in Runs |-> 0]
    /\ worktree = [r \in Runs |-> [files |-> "clean", ahead |-> 0, removedBy |-> "nobody"]]
    /\ pullRequest = [r \in Runs |-> "open"]
    /\ observations = {}
    /\ aged = {}
    /\ pending = None
    /\ outcome = [c \in Callers |-> [r \in Runs |-> "none"]]
    /\ failure = FALSE
    /\ caller = [c \in Callers |-> Idle]
    /\ pass = {}
    /\ bounds = [changes |-> 0, requests |-> 0, restarts |-> 0]

----------------------------------------------------------------------------
(* The run's lifecycle, under its fence.                                   *)

FenceFreeAlways(r) == TRUE
FenceFree(r) == \A c \in Callers : ~(caller[c].run = r /\ caller[c].step \in Fenced)

Mutate(r, from, to) ==
    /\ run[r] = from
    /\ FenceFree(r)
    /\ run' = [run EXCEPT ![r] = to]
    /\ generation' = [generation EXCEPT ![r] = @ + 1]
    /\ UNCHANGED <<worldVars, storeVars, caller, pass>>

Deliver(r) == Mutate(r, "unresolved", "completed") /\ UNCHANGED bounds

(* An operator has a delivery repeated, for which a label was repaired.    *)
RetryDelivery(r) ==
    /\ bounds.changes < MaxChanges
    /\ Mutate(r, "completed", "unresolved")
    /\ bounds' = [bounds EXCEPT !.changes = @ + 1]

----------------------------------------------------------------------------
(* The world: people, the code host, time.                                 *)

Merge(r) ==
    /\ pullRequest[r] = "open"
    /\ pullRequest' = [pullRequest EXCEPT ![r] = "merged"]
    /\ UNCHANGED <<run, generation, worktree, aged, storeVars, caller, pass, bounds>>

Edit(r) ==
    /\ bounds.changes < MaxChanges
    /\ worktree[r].files # "gone"
    /\ worktree' = [worktree EXCEPT ![r] =
          CASE @.files = "dirty" -> [@ EXCEPT !.files = "clean"]
            [] OTHER -> [@ EXCEPT !.files = "dirty"]]
    /\ bounds' = [bounds EXCEPT !.changes = @ + 1]
    /\ UNCHANGED <<run, generation, pullRequest, aged, storeVars, caller, pass>>

Commit(r) ==
    /\ bounds.changes < MaxChanges
    /\ worktree[r].files # "gone"
    /\ worktree' = [worktree EXCEPT ![r].files = "clean", ![r].ahead = 1]
    /\ bounds' = [bounds EXCEPT !.changes = @ + 1]
    /\ UNCHANGED <<run, generation, pullRequest, aged, storeVars, caller, pass>>

Age(r) ==
    /\ r \in observations \ aged
    /\ aged' = aged \cup {r}
    /\ UNCHANGED <<run, generation, worktree, pullRequest, storeVars, caller, pass, bounds>>

----------------------------------------------------------------------------
(* Inspection.                                                             *)

Goto(c, step) == caller' = [caller EXCEPT ![c].step = step]

(* A caller's request ends; a retention pass ends with its first failure.  *)
GiveUp(c) ==
    /\ caller' = [caller EXCEPT ![c] = Idle]
    /\ pass' = IF c = "retention" THEN {} ELSE pass

(* preview: under the fence, once it is free.                              *)
Inspect(c, r) ==
    /\ FenceFree(r)
    /\ caller' = [caller EXCEPT ![c] = [Idle EXCEPT !.step = "inspecting", !.run = r]]
    /\ UNCHANGED <<run, generation, worldVars, storeVars>>

RequestPreview(r) ==
    /\ caller["operator"].step \in {"idle", "previewed"}
    /\ bounds.requests < MaxRequests
    /\ bounds' = [bounds EXCEPT !.requests = @ + 1]
    /\ Inspect("operator", r)
    /\ UNCHANGED pass

(* observeMerged: a run's merge is recorded once; the record has a limit   *)
(* of which nothing is ever taken away.                                    *)
RecordFull(r) == r \notin observations /\ Cardinality(observations) >= MaxObservations

ReadStep == [inspecting |-> "reading", rechecking |-> "rereading"]

ReadPullRequest(c) ==
    LET r == caller[c].run
        merged == pullRequest[r] = "merged"
    IN /\ caller[c].step \in DOMAIN ReadStep
       /\ IF merged /\ RecordFull(r)
          THEN failure' = TRUE /\ GiveUp(c) /\ UNCHANGED observations
          ELSE /\ observations' = IF merged THEN observations \cup {r} ELSE observations
               /\ failure' = IF merged /\ r \notin observations THEN FALSE ELSE failure
               /\ caller' = [caller EXCEPT ![c].step = ReadStep[@], ![c].merged = merged]
               /\ UNCHANGED pass
       /\ UNCHANGED <<run, generation, worldVars, pending, outcome, bounds>>

(* cleanupRejections finds none.  The commits that are not at the code     *)
(* host are counted from the head of the pull request, which must be a     *)
(* commit the worktree knows.                                              *)
Unpushed(r) == IF PreservesCommits THEN worktree[r].ahead ELSE 1

Eligible(c, r) ==
    /\ run[r] = "completed"
    /\ worktree[r].files = "clean"
    /\ Unpushed(r) = 0
    /\ caller[c].merged
    /\ r \in aged

(* A run that is not eligible does not end a retention pass.               *)
PassEndedByRejection(c) == IF c = "retention" THEN {} ELSE pass
PassAfterRejection(c) == pass

(* A preview is kept with the generation it was made in; the retention     *)
(* pass lets go of one that is not eligible.                               *)
Preview(c) ==
    LET r == caller[c].run
    IN /\ caller[c].step = "reading"
       /\ caller' = [caller EXCEPT ![c] =
             IF Eligible(c, r)
             THEN [@ EXCEPT !.step = "previewed", !.generation = generation[r]] ELSE Idle]
       /\ pass' = IF Eligible(c, r) THEN pass ELSE PassAfterRejection(c)
       /\ UNCHANGED <<run, generation, worldVars, storeVars, bounds>>

----------------------------------------------------------------------------
(* Removal.                                                                *)

AttemptFreeAlways == TRUE
AttemptFree == \A c \in Callers : caller[c].step \notin Removing

(* remove: a preview is used once, and one removal is under way at a time. *)
Remove(c) ==
    /\ caller[c].step = "previewed"
    /\ IF AttemptFree THEN Goto(c, "waiting") /\ UNCHANGED pass ELSE GiveUp(c)
    /\ UNCHANGED <<run, generation, worldVars, storeVars, bounds>>

SameGeneration(c) == generation[caller[c].run] = caller[c].generation

Recheck(c) ==
    /\ caller[c].step = "waiting"
    /\ FenceFree(caller[c].run)
    /\ IF SameGeneration(c) THEN Goto(c, "rechecking") /\ UNCHANGED pass ELSE GiveUp(c)
    /\ UNCHANGED <<run, generation, worldVars, storeVars, bounds>>

(* All facts the fingerprint covers are as they were: an eligible preview  *)
(* leaves them no other value.  The intent becomes durable.                *)
Begin(c) ==
    LET r == caller[c].run
    IN /\ caller[c].step = "rereading"
       /\ IF Eligible(c, r)
          THEN /\ pending' = [by |-> c, run |-> r]
               /\ outcome' = [outcome EXCEPT ![c][r] = "none"]
               /\ failure' = FALSE
               /\ Goto(c, "removing")
               /\ UNCHANGED pass
          ELSE GiveUp(c) /\ UNCHANGED <<pending, outcome, failure>>
       /\ UNCHANGED <<run, generation, worldVars, observations, bounds>>

(* git worktree remove refuses a worktree with changes in it.              *)
GitRemove(c) ==
    LET r == caller[c].run
    IN /\ caller[c].step = "removing"
       /\ IF worktree[r].files = "clean"
          THEN /\ worktree' = [worktree EXCEPT ![r].files = "gone", ![r].removedBy = c]
               /\ Goto(c, "removed")
          ELSE Goto(c, "refused") /\ UNCHANGED worktree
       /\ UNCHANGED <<run, generation, pullRequest, aged, storeVars, pass, bounds>>

Finish(c) ==
    LET r == caller[c].run
    IN /\ caller[c].step \in {"removed", "refused"}
       /\ pending' = None
       /\ outcome' = [outcome EXCEPT ![c][r] =
             IF caller[c].step = "removed" THEN "completed" ELSE "retry-required"]
       /\ failure' = FALSE
       /\ caller' = [caller EXCEPT ![c] = Idle]
       /\ pass' = IF c = "retention" /\ caller[c].step = "refused" THEN {} ELSE pass
       /\ UNCHANGED <<run, generation, worldVars, observations, bounds>>

----------------------------------------------------------------------------
(* The retention pass sees every run that has a worktree, in order.        *)

StartPass ==
    /\ pass = {} /\ caller["retention"] = Idle
    /\ pass' = Runs
    /\ UNCHANGED <<run, generation, worldVars, storeVars, caller, bounds>>

NextRun(r) == r \in pass /\ \A q \in pass : r <= q

PassOn(r) ==
    /\ NextRun(r)
    /\ caller["retention"] = Idle
    /\ Inspect("retention", r)
    /\ pass' = pass \ {r}
    /\ UNCHANGED bounds

----------------------------------------------------------------------------
(* Restart: reconcilePendingCleanup looks whether the worktree is there.   *)
RemainsUnread(r) == TRUE
Remains(r) == worktree[r].files # "gone"

RecoveredNot == UNCHANGED <<pending, outcome>>
Recovered ==
    /\ pending' = None
    /\ outcome' = IF pending = None THEN outcome
                  ELSE [outcome EXCEPT ![pending.by][pending.run] =
                          IF Remains(pending.run) THEN "retry-required" ELSE "completed"]

Restart ==
    /\ bounds.restarts < MaxRestarts
    /\ bounds' = [bounds EXCEPT !.restarts = @ + 1]
    /\ Recovered
    /\ failure' = FALSE
    /\ caller' = [c \in Callers |-> Idle]
    /\ pass' = {}
    /\ UNCHANGED <<run, generation, worldVars, observations>>

(* health: whether maintenance lets new work start.                        *)
HealthComplete == ~failure /\ pending = None

CallerStep(c) ==
    \/ ReadPullRequest(c) \/ Preview(c) \/ Recheck(c) \/ Begin(c) \/ GitRemove(c) \/ Finish(c)

RetentionStep ==
    \/ StartPass
    \/ Remove("retention")
    \/ \E r \in Runs : PassOn(r)

Lifecycle(r) == Deliver(r) \/ RetryDelivery(r)
World(r) == Merge(r) \/ Edit(r) \/ Commit(r) \/ Age(r)

Next ==
    \/ \E r \in Runs : Lifecycle(r) \/ World(r) \/ RequestPreview(r)
    \/ \E c \in Callers : CallerStep(c)
    \/ RetentionStep
    \/ Remove("operator")
    \/ Restart

(* A step that was begun is taken, the fence serves those who wait for it  *)
(* in turn, retention passes go on for ever, time passes and deliveries    *)
(* are made.                                                               *)
Fairness ==
    /\ \A c \in Callers : WF_vars(CallerStep(c)) /\ SF_vars(Recheck(c))
    /\ WF_vars(RetentionStep)
    /\ WF_vars(\E r \in Runs : Age(r) \/ Deliver(r))

Spec == Init /\ [][Next]_vars /\ Fairness

----------------------------------------------------------------------------
(* Properties.                                                             *)

(* Types; one removal is under way at a time, and while Git is called for  *)
(* it the intent is durable.                                               *)
TypeOK ==
    /\ run \in [Runs -> RunStates]
    /\ generation \in [Runs -> Nat]
    /\ \A r \in Runs : worktree[r].files \in {"clean", "dirty", "gone"} /\ worktree[r].ahead \in 0 .. 1
    /\ pullRequest \in [Runs -> {"open", "merged"}]
    /\ observations \subseteq Runs /\ aged \subseteq observations
    /\ Cardinality(observations) <= MaxObservations
    /\ pending \in {None} \cup [by : Callers, run : Runs]
    /\ pass \subseteq Runs
    /\ \A c \in Callers :
          /\ caller[c].step \in Steps
          /\ caller[c].step \in {"removing", "removed", "refused"} =>
                pending = [by |-> c, run |-> caller[c].run]
    /\ \A b, c \in Callers : {caller[b].step, caller[c].step} \subseteq Removing => b = c

(* Whatever happens between a preview and its confirmation, and between    *)
(* the second inspection and the call of Git, a worktree that goes belongs *)
(* to a completed run with nothing left to deliver, whose merge is older   *)
(* than the retention, and holds no uncommitted change (operations.md:67). *)
RemovalIsAuthorized ==
    [][\A r \in Runs : worktree[r].files # "gone" /\ worktree'[r].files = "gone" =>
          /\ run[r] = "completed" /\ run'[r] = "completed"
          /\ pullRequest[r] = "merged" /\ r \in aged
          /\ worktree[r].files = "clean"
          /\ pending.run = r]_vars

(* What the audit says of a removal is what happened to the worktree, also *)
(* when the Host stopped between the two: a replayed command is answered   *)
(* from it.                                                                *)
OutcomeIsTrue ==
    \A c \in Callers, r \in Runs :
        /\ outcome[c][r] = "completed" => worktree[r].removedBy = c
        /\ outcome[c][r] = "retry-required" => worktree[r].removedBy # c

(* Merged, clean work that is accounted for at the code host is cleaned up *)
(* in the end, unless it changes again (operations.md:89).                 *)
Accounted(r) ==
    run[r] = "completed" /\ pullRequest[r] = "merged"
    /\ worktree[r].files = "clean" /\ worktree[r].ahead = 0

MergedIsCleaned == \A r \in Runs : Accounted(r) ~> ~Accounted(r)

(* Maintenance keeps new work from starting only for a while: a removal    *)
(* that was begun comes to an end, be it by a restart.                     *)
MaintenanceGivesWay == []<>HealthComplete

=============================================================================
