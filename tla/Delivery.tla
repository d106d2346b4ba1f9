------------------------------ MODULE Delivery ------------------------------
(***************************************************************************)
(* The outbox of deliveries about one issue (admission/deliveries,         *)
(* admission/delivery-control, delivery/, notification/): lifecycle events *)
(* of the issue's runs append an append-only report, a mutable label       *)
(* projection and a notification to the durable record; workers claim      *)
(* them, look at the tracker, write to it or to the destination subscribed *)
(* and record the outcome.  The workflow lane delivers all due ones        *)
(* together and waits for them; an operator's retry or repair delivers one *)
(* more, outside the lane.  A Host restart forgets the workers.            *)
(*                                                                         *)
(* A delivery is named by its place in the outbox: every projection is     *)
(* appended under a higher revision of the record than those before it, so *)
(* that place is also the order of the runRevision of projections.  Retry  *)
(* times are abstract: a delivery that waits for one is due at any time.   *)
(* A write takes effect before its caller learns how it ended, or never.   *)
(***************************************************************************)
EXTENDS Integers, Sequences, FiniteSets

CONSTANTS
    Generations,     \* bound: readiness transitions of the issue
    MaxEvents,       \* bound: lifecycle events and repairs
    MaxAttempts,     \* MAX_AUTOMATIC_EXTERNAL_ATTEMPTS
    MaxOperated,     \* bound: retries and repairs an operator requests
    Kinds            \* the kinds of delivery an event creates

ASSUME DeliveryAssumption ==
    /\ {Generations, MaxEvents, MaxAttempts} \subseteq Nat \ {0}
    /\ MaxOperated \in Nat
    /\ Kinds \subseteq {"report", "projection", "notification"}

VARIABLES
    run,             \* lifecycle state of each generation's run
    outbox,          \* durable deliveries, oldest first
    worker,          \* where the process is with each delivery: Delivery.active
    batch,           \* deliveries deliverPending waits for, in the workflow lane
    readiness,       \* the tracker: current readiness generation
    shown,           \* the tracker: the projection whose label it shows
    received,        \* the tracker: comments with each report's marker; the
                     \* destination: how often it was sent each notification
    operated         \* history: retries and repairs so far

vars == <<run, outbox, worker, batch, readiness, shown, received, operated>>
trackerVars == <<readiness, shown, received>>

Runs == 1 .. Generations
Ids == 1 .. 3 * MaxEvents
Sent == DOMAIN outbox

(* "implementing" stands for pausing and publishing as well, which have its *)
(* label, and "completed" for failed: neither can be cancelled.             *)
RunStates == {"absent", "queued", "implementing", "paused", "blocked", "completed", "cancelled"}
Labels == {"implementing", "paused", "blocked", "completed"}
Statuses == {"pending", "in-flight", "uncertain", "retryable-failure", "permanent-failure",
             "exhausted", "succeeded", "retired"}
Stages == {"idle", "claiming", "reading", "missing", "delivered", "conflict", "writing", "written"}

Final == {"succeeded", "retired"}
Due == {"pending", "uncertain", "retryable-failure"}

IsProjection(d) == outbox[d].kind = "projection"
IsNotification(d) == outbox[d].kind = "notification"
Label(d) == IF d = 0 THEN "none" ELSE outbox[d].label

Newer(d) == {e \in Sent : e > d /\ IsProjection(e)}
Older(d) == {e \in Sent : e < d /\ IsProjection(e)}

SetStatus(d, status) == [outbox EXCEPT ![d].status = status]

Init ==
    /\ run = [r \in Runs |-> IF r = 1 THEN "queued" ELSE "absent"]
    /\ outbox = <<>>
    /\ worker = [d \in Ids |-> "idle"]
    /\ batch = {}
    /\ readiness = 1
    /\ shown = 0
    /\ received = [d \in Ids |-> 0]
    /\ operated = 0

----------------------------------------------------------------------------
(* Lifecycle events.                                                       *)

Record(r, kind, label) ==
    [run |-> r, kind |-> kind, label |-> label, status |-> "pending", attempts |-> 0]

Retired(record) == [record EXCEPT !.status = "retired"]

Events == Cardinality({d \in Sent : IsProjection(d) \/ "projection" \notin Kinds})

(* The run's earlier projections are retired, whatever becomes of them.    *)
WithRetired(r) ==
    [d \in Sent |->
        IF outbox[d].run = r /\ IsProjection(d) /\ outbox[d].status \notin Final
        THEN Retired(outbox[d]) ELSE outbox[d]]

(* appendLifecycleDeliveries, with one subscription to every event.        *)
Appended(r, label) ==
    LET new(kind) == IF kind \in Kinds THEN <<Record(r, kind, label)>> ELSE <<>>
    IN WithRetired(r) \o new("report") \o new("projection") \o new("notification")

Event(r, from, to) ==
    /\ run[r] = from
    /\ Events < MaxEvents
    /\ run' = [run EXCEPT ![r] = to]
    /\ outbox' = Appended(r, to)
    /\ UNCHANGED <<worker, batch, trackerVars, operated>>

Start(r) == Event(r, "queued", "implementing")
Pause(r) == Event(r, "implementing", "paused")
End(r) == \E to \in {"blocked", "completed"} : Event(r, "implementing", to)

(* A resumption and a cancellation report nothing.                         *)
Move(r, from, to) ==
    /\ run[r] = from
    /\ run' = [run EXCEPT ![r] = to]
    /\ UNCHANGED <<outbox, worker, batch, trackerVars, operated>>

Resume(r) == Move(r, "paused", "implementing")
Cancel(r) == \E from \in {"queued", "paused", "blocked"} : Move(r, from, "cancelled")

(* A human makes the issue ready again; the next run of it is admitted.    *)
NewReadiness ==
    /\ readiness < Generations
    /\ readiness' = readiness + 1
    /\ run' = [run EXCEPT ![readiness'] = "queued"]
    /\ UNCHANGED <<outbox, worker, batch, shown, received, operated>>

----------------------------------------------------------------------------
(* Who delivers.                                                           *)

LaneFreeWhenListed == TRUE
LaneFree == batch = {}

DueNowPending == {d \in Sent : outbox[d].status = "pending"}
DueNow == {d \in Sent : outbox[d].status \in Due}

(* deliverPending, in the lane; a delivery that has a worker is shared.    *)
DeliverPending ==
    /\ LaneFree
    /\ DueNow # {}
    /\ batch' = DueNow
    /\ worker' = [d \in Ids |->
          IF d \in DueNow /\ worker[d] = "idle" THEN "claiming" ELSE worker[d]]
    /\ UNCHANGED <<run, outbox, trackerVars, operated>>

(* retry: requeue one delivery that has not ended well, and deliver it.    *)
Retry(d) ==
    /\ operated < MaxOperated
    /\ outbox[d].status \notin Final \cup {"in-flight"}
    /\ outbox' = SetStatus(d, "pending")
    /\ worker' = [worker EXCEPT ![d] = IF @ = "idle" THEN "claiming" ELSE @]
    /\ operated' = operated + 1
    /\ UNCHANGED <<run, batch, trackerVars>>

Repairable(d) ==
    /\ outbox[d].status \in {"permanent-failure", "retryable-failure", "exhausted"}
    /\ Newer(d) = {}
    /\ \A e \in Older(d) : outbox[e].status # "in-flight"

Projectable(r) == run[r] # "cancelled"

(* repairProjection: a failed projection gives way to one of the run's     *)
(* current state, which is delivered.                                      *)
Repair(d) ==
    /\ operated < MaxOperated
    /\ Events < MaxEvents
    /\ IsProjection(d)
    /\ Repairable(d)
    /\ Projectable(outbox[d].run)
    /\ outbox' = Append(SetStatus(d, "retired"),
                        Record(outbox[d].run, "projection", run[outbox[d].run]))
    /\ worker' = [worker EXCEPT ![Len(outbox')] = "claiming"]
    /\ operated' = operated + 1
    /\ UNCHANGED <<run, batch, trackerVars>>

----------------------------------------------------------------------------
(* A worker: deliverOwned.                                                 *)

(* The lane no longer waits for a worker that has ended.                   *)
Goes(d, from, to) ==
    /\ worker[d] = from
    /\ worker' = [worker EXCEPT ![d] = to]
    /\ batch' = IF to = "idle" THEN batch \ {d} ELSE batch

Superseded(d) == IsProjection(d) /\ Newer(d) # {}
NeverWaits(d) == FALSE
WaitsForOlder(d) ==
    IsProjection(d) /\ \E e \in Older(d) : outbox[e].status = "in-flight"

(* The claim retires what the projection supersedes, in any run.           *)
Claimed(d) ==
    [e \in Sent |->
        IF e = d
        THEN [outbox[d] EXCEPT !.status = "in-flight", !.attempts = @ + 1]
        ELSE IF IsProjection(d) /\ e \in Older(d) /\ outbox[e].status \notin Final
        THEN Retired(outbox[e])
        ELSE outbox[e]]

Claim(d) ==
    /\ outbox[d].status \in Due
    /\ ~Superseded(d)
    /\ ~WaitsForOlder(d)
    /\ Goes(d, "claiming", "reading")
    /\ outbox' = Claimed(d)
    /\ UNCHANGED <<run, trackerVars, operated>>

ClaimSuperseded(d) ==
    /\ outbox[d].status \in Due
    /\ Superseded(d)
    /\ Goes(d, "claiming", "idle")
    /\ outbox' = SetStatus(d, "retired")
    /\ UNCHANGED <<run, trackerVars, operated>>

ClaimRejected(d) ==
    /\ outbox[d].status \notin Due \/ (~Superseded(d) /\ WaitsForOlder(d))
    /\ Goes(d, "claiming", "idle")
    /\ UNCHANGED <<run, outbox, trackerVars, operated>>

ReadinessChanged(d) == outbox[d].run # readiness

ObservedUnread(d) == "missing"

(* The issue carries the one label, of those that are managed, which the   *)
(* projection asks for.                                                    *)
ProjectionMatches(d) == Label(shown) = outbox[d].label

(* reconcileDelivery: the report's marker, or the label, at the tracker.   *)
(* No notification provider can tell what its destination received.        *)
Observed(d) ==
    IF IsProjection(d)
    THEN IF ReadinessChanged(d) THEN "conflict"
         ELSE IF ProjectionMatches(d) THEN "delivered" ELSE "missing"
    ELSE IF IsNotification(d) \/ received[d] = 0 THEN "missing"
         ELSE IF received[d] = 1 THEN "delivered" ELSE "conflict"

Look(d) ==
    /\ Goes(d, "reading", Observed(d))
    /\ UNCHANGED <<run, outbox, trackerVars, operated>>

OwnsIgnored(d) == TRUE
Owns(d) == outbox[d].status = "in-flight"

(* assertOwner, just before the provider is asked to write.                *)
BeginWrite(d) ==
    /\ Owns(d)
    /\ Goes(d, "missing", "writing")
    /\ UNCHANGED <<run, outbox, trackerVars, operated>>

(* The tracker's provider checks the readiness again and writes.           *)
Write(d) ==
    /\ ~IsNotification(d)
    /\ IsProjection(d) => ~ReadinessChanged(d)
    /\ Goes(d, "writing", "written")
    /\ shown' = IF IsProjection(d) THEN d ELSE shown
    /\ received' = IF IsProjection(d) THEN received ELSE [received EXCEPT ![d] = @ + 1]
    /\ UNCHANGED <<run, outbox, readiness, operated>>

(* The destination is sent the notification, whatever it received before.  *)
Notify(d) ==
    /\ IsNotification(d)
    /\ Goes(d, "writing", "written")
    /\ received' = [received EXCEPT ![d] = @ + 1]
    /\ UNCHANGED <<run, outbox, readiness, shown, operated>>

(* succeed and fail record an outcome for the owner of the claim only.     *)
Recorded(d, status) == IF Owns(d) THEN SetStatus(d, status) ELSE outbox

Succeed(d) ==
    /\ Goes(d, "delivered", "idle") \/ Goes(d, "written", "idle")
    /\ outbox' = Recorded(d, "succeeded")
    /\ UNCHANGED <<run, trackerVars, operated>>

FailedStatus(d, status) ==
    IF status # "permanent-failure" /\ outbox[d].attempts >= MaxAttempts
    THEN "exhausted" ELSE status

(* The mutation took place, or may have: no error of it says otherwise.    *)
MutationFailures == {"uncertain"}

(* A call of a provider that refuses, fails, answers nonsense or is        *)
(* withdrawn while it is called.                                           *)
CallFailures == {"uncertain", "retryable-failure", "permanent-failure"}

(* Until it is sent, a notification lacks a provider, or loses it.         *)
LookupFailures == {"uncertain", "retryable-failure"}

(* A destination that cannot be reached, refuses, does not answer in time, *)
(* or answers what cannot be read although it took the notification.       *)
PostFailures == {"uncertain", "retryable-failure", "permanent-failure"}

(* What may be known of a failure, by how far the worker came; whoever has *)
(* lost the claim fails without a trace.                                   *)
Failures(d) ==
    CASE worker[d] = "conflict" -> {"permanent-failure"}
      [] worker[d] \in {"reading", "missing", "delivered"} ->
            IF IsNotification(d) THEN LookupFailures ELSE CallFailures
      [] worker[d] = "writing" -> IF IsNotification(d) THEN PostFailures ELSE CallFailures
      [] worker[d] = "written" -> IF IsNotification(d) THEN PostFailures ELSE MutationFailures
      [] OTHER -> {}

Fail(d) ==
    /\ \E status \in Failures(d) : outbox' = Recorded(d, FailedStatus(d, status))
    /\ Goes(d, worker[d], "idle")
    /\ UNCHANGED <<run, trackerVars, operated>>

InterruptedStatus(d) ==
    IF outbox[d].attempts >= MaxAttempts THEN "exhausted" ELSE "uncertain"

(* markInterruptedRunsForRecovery                                          *)
Restart ==
    /\ \E d \in Sent : worker[d] # "idle"
    /\ outbox' = [d \in Sent |->
          IF outbox[d].status = "in-flight"
          THEN [outbox[d] EXCEPT !.status = InterruptedStatus(d)] ELSE outbox[d]]
    /\ worker' = [d \in Ids |-> "idle"]
    /\ batch' = {}
    /\ UNCHANGED <<run, trackerVars, operated>>

----------------------------------------------------------------------------
WorkerStep(d) ==
    \/ Claim(d) \/ ClaimSuperseded(d) \/ ClaimRejected(d)
    \/ Look(d) \/ BeginWrite(d) \/ Write(d) \/ Notify(d)
    \/ Succeed(d) \/ Fail(d)

Next ==
    \/ \E r \in Runs : Start(r) \/ Pause(r) \/ End(r) \/ Resume(r) \/ Cancel(r)
    \/ NewReadiness
    \/ DeliverPending
    \/ \E d \in Sent : Retry(d) \/ Repair(d) \/ WorkerStep(d)
    \/ Restart

Spec == Init /\ [][Next]_vars

(* The workflow lane drains the outbox again and again, a worker's calls   *)
(* are awaited, and restarts are rare enough for a claim to be reached.    *)
Fairness ==
    /\ WF_vars(DeliverPending)
    /\ \A d \in Ids :
          /\ WF_vars(d \in Sent /\ WorkerStep(d))
          /\ SF_vars(d \in Sent /\ Claim(d))

FairSpec == Spec /\ Fairness

----------------------------------------------------------------------------
(* Properties.                                                             *)

TypeOK ==
    /\ run \in [Runs -> RunStates]
    /\ outbox \in
          Seq([run : Runs, kind : Kinds, label : Labels, status : Statuses, attempts : Nat])
    /\ worker \in [Ids -> Stages]
    /\ batch \subseteq Sent
    /\ readiness \in Runs
    /\ shown \in Sent \cup {0}
    /\ received \in [Ids -> Nat]
    /\ operated \in 0 .. MaxOperated

(* Projections of one issue are not delivered side by side, whoever asked  *)
(* for them and whichever runs they belong to, except that a worker goes   *)
(* on for a while after an event of its own run has retired its claim.     *)
ProjectionsAreSerialized ==
    LET busy == {d \in Sent : IsProjection(d) /\ worker[d] \notin {"idle", "claiming"}}
    IN \A d, e \in busy : d < e => \E f \in Newer(d) : outbox[f].run = outbox[d].run

(* A report is written once, however often its write is uncertain, a Host  *)
(* crashes between the write and its record, or an operator retries it; a  *)
(* notification may be sent again then ("at least once",                   *)
(* integrations.md:71), but what is recorded as succeeded did arrive.      *)
ReportedOnce ==
    \A d \in Sent : ~IsProjection(d) =>
        /\ outbox[d].kind = "report" => received[d] <= 1
        /\ outbox[d].status = "succeeded" => received[d] >= 1

(* While no operator intervenes, the tracker shows what the newest         *)
(* projection says as soon as it has succeeded, and keeps showing it: a    *)
(* worker whose claim was retired under it never has the last word.        *)
LabelIsCurrent ==
    operated = 0 =>
        \A d \in Sent :
            IsProjection(d) /\ Newer(d) = {} /\ outbox[d].status = "succeeded"
                => Label(shown) = Label(d)

(* A projection that ended, well or superseded, is never revived, and only *)
(* the newest projection of the issue is ever claimed.                     *)
NeverRevived ==
    [][\A d \in Sent :
          /\ outbox[d].status \in Final => outbox'[d] = outbox[d]
          /\ outbox[d].status # "in-flight" /\ outbox'[d].status = "in-flight" /\ IsProjection(d)
                => Newer(d) = {}]_vars

(* Every delivery ends: it succeeds, is superseded, or is left to the      *)
(* operator as a failure; no claim, conflict or restart leaves it behind.  *)
DeliveriesEnd ==
    \A d \in Ids :
        d \in Sent ~> d \in Sent /\ outbox[d].status \in Final \cup {"permanent-failure", "exhausted"}

=============================================================================
