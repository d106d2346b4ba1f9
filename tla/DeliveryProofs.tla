--------------------------- MODULE DeliveryProofs ---------------------------
(* Machine-checked proofs about Delivery, for every number of runs, of     *)
(* lifecycle events and of attempts.                                       *)
EXTENDS Delivery, FiniteSetTheorems, SequenceTheorems, TLAPS

Records ==
    [run : Runs, kind : Kinds, label : Labels, status : Statuses, attempts : Nat]

(* Only a run that has started has deliveries, and only runs of readiness  *)
(* transitions that took place have started: what a repair projects is     *)
(* therefore a state that has a label.                                     *)
RunsOfDeliveries ==
    /\ \A d \in Sent : run[outbox[d].run] \notin {"absent", "queued"}
    /\ \A r \in Runs : r > readiness => run[r] = "absent"

DeliveryInv == TypeOK /\ RunsOfDeliveries

(* A delivery in the outbox is a record, of one of the issue's runs.       *)
LEMMA RecordOf ==
    ASSUME outbox \in Seq(Records), NEW d \in Sent
    PROVE  outbox[d] \in Records /\ outbox[d].run \in Runs
<1>1. outbox[d] \in Records
  BY DEF Sent
<1> QED
  BY <1>1 DEF Records

(* Changing records in place gives an outbox of the same length.           *)
LEMMA ChangedInPlace ==
    ASSUME outbox \in Seq(Records), NEW out,
           out = [d \in Sent |-> out[d]], \A d \in Sent : out[d] \in Records
    PROVE  out \in Seq(Records) /\ Len(out) = Len(outbox) /\ DOMAIN out = Sent
<1>1. Sent = 1 .. Len(outbox) /\ Len(outbox) \in Nat
  BY DEF Sent
<1>2. out \in [1 .. Len(outbox) -> Records]
  BY <1>1
<1> QED
  BY <1>1, <1>2

(* Setting a delivery's status keeps everything else about the outbox.     *)
LEMMA SetStatusKeeps ==
    ASSUME outbox \in Seq(Records), NEW d \in Sent, NEW status \in Statuses
    PROVE  /\ SetStatus(d, status) \in Seq(Records)
           /\ DOMAIN SetStatus(d, status) = Sent
           /\ SetStatus(d, status)[d].status = status
           /\ SetStatus(d, status)[d].run = outbox[d].run
           /\ SetStatus(d, status)[d].kind = outbox[d].kind
           /\ SetStatus(d, status)[d].label = outbox[d].label
           /\ \A e \in Sent : e # d => SetStatus(d, status)[e] = outbox[e]
<1> DEFINE out == SetStatus(d, status)
<1>1. out = [e \in Sent |-> out[e]]
  BY DEF SetStatus, Sent
<1>2. \A e \in Sent : outbox[e] \in Records
  BY DEF Sent
<1>3. out[d] = [outbox[d] EXCEPT !.status = status]
  BY DEF SetStatus, Sent
<1>4. \A e \in Sent : e # d => out[e] = outbox[e]
  BY DEF SetStatus, Sent
<1>5. /\ out[d] \in Records /\ out[d].status = status /\ out[d].run = outbox[d].run
      /\ out[d].kind = outbox[d].kind /\ out[d].label = outbox[d].label
  BY <1>2, <1>3 DEF Records
<1>6. \A e \in Sent : out[e] \in Records
  BY <1>2, <1>4, <1>5
<1> HIDE DEF out
<1>7. out \in Seq(Records) /\ DOMAIN out = Sent
  BY <1>1, <1>6, ChangedInPlace
<1> QED
  BY <1>4, <1>5, <1>7 DEF out

(* An event's deliveries are typed, keep what was there in its place, and  *)
(* are all of the run.                                                     *)
LEMMA AppendedKeeps ==
    ASSUME outbox \in Seq(Records), NEW r \in Runs, NEW label \in Labels
    PROVE  /\ Appended(r, label) \in Seq(Records)
           /\ Sent \subseteq DOMAIN Appended(r, label)
           /\ \A d \in Sent : Appended(r, label)[d] = WithRetired(r)[d]
           /\ \A d \in Sent : WithRetired(r)[d].run = outbox[d].run
           /\ \A d \in DOMAIN Appended(r, label) \ Sent : Appended(r, label)[d].run = r
<1> DEFINE old == WithRetired(r)
           new(kind) == IF kind \in Kinds THEN <<Record(r, kind, label)>> ELSE <<>>
<1>1. \A d \in Sent : outbox[d] \in Records
  BY DEF Sent
<1>2. \A d \in Sent : old[d] = IF outbox[d].run = r /\ IsProjection(d) /\ outbox[d].status \notin Final
                              THEN Retired(outbox[d]) ELSE outbox[d]
  BY DEF WithRetired
<1>3. \A d \in Sent : old[d] \in Records /\ old[d].run = outbox[d].run
  BY <1>1, <1>2 DEF Retired, Records, Statuses
<1>4. old = [d \in Sent |-> old[d]]
  BY DEF WithRetired
<1>5. \A kind : kind \in Kinds => Record(r, kind, label) \in Records
  BY DEF Record, Records, Statuses
<1> HIDE DEF old
<1>6. old \in Seq(Records) /\ Len(old) = Len(outbox) /\ DOMAIN old = Sent
  BY <1>3, <1>4, ChangedInPlace
<1>7. \A kind : new(kind) \in Seq(Records)
  BY <1>5
<1>8. \A kind : \A k \in DOMAIN new(kind) : new(kind)[k].run = r
  BY DEF Record
<1> HIDE DEF new
<1> DEFINE report == new("report") \* the deliveries that are new
           projection == new("projection")
           notification == new("notification")
<1>9. report \in Seq(Records) /\ projection \in Seq(Records) /\ notification \in Seq(Records)
  BY <1>7
<1>10. /\ \A k \in DOMAIN report : report[k].run = r
       /\ \A k \in DOMAIN projection : projection[k].run = r
       /\ \A k \in DOMAIN notification : notification[k].run = r
  BY <1>8
<1>11. Appended(r, label) = ((old \o report) \o projection) \o notification
  BY DEF Appended, old, report, projection, notification, new
<1> HIDE DEF report, projection, notification
<1>12. Sent = 1 .. Len(old)
  BY <1>6
<1> DEFINE sent == (old \o report) \o projection
<1>13. /\ sent \in Seq(Records) /\ Sent \subseteq DOMAIN sent
       /\ \A d \in Sent : sent[d] = old[d]
       /\ \A d \in DOMAIN sent \ Sent : sent[d].run = r
  BY <1>6, <1>9, <1>10, <1>12
<1> HIDE DEF sent
<1>14. /\ sent \o notification \in Seq(Records) /\ Sent \subseteq DOMAIN (sent \o notification)
       /\ \A d \in Sent : (sent \o notification)[d] = old[d]
       /\ \A d \in DOMAIN (sent \o notification) \ Sent : (sent \o notification)[d].run = r
  BY <1>9, <1>10, <1>12, <1>13
<1> QED
  BY <1>3, <1>11, <1>14 DEF old, sent

(* A step of a worker that only changes records in place, of deliveries    *)
(* that keep their run, preserves the invariant.                           *)
LEMMA WorkerStepTyped ==
    ASSUME DeliveryInv, NEW d \in Sent, NEW from, NEW to \in Stages, Goes(d, from, to),
           outbox' \in Seq(Records), DOMAIN outbox' = Sent,
           \A e \in Sent : outbox'[e].run = outbox[e].run,
           run' = run, readiness' = readiness, operated' = operated,
           shown' \in Sent \cup {0}, received' \in [Ids -> Nat]
    PROVE  DeliveryInv'
<1>1. worker' \in [Ids -> Stages] /\ batch' \subseteq Sent
  BY DEF DeliveryInv, TypeOK, Goes
<1>2. Sent' = Sent
  BY DEF Sent
<1>3. TypeOK'
  BY <1>1, <1>2 DEF DeliveryInv, TypeOK, Records
<1>4. RunsOfDeliveries'
  BY <1>2 DEF DeliveryInv, RunsOfDeliveries
<1> QED
  BY <1>3, <1>4 DEF DeliveryInv

(* The outcomes a worker records are statuses.                             *)
LEMMA FailureTyped ==
    ASSUME NEW d \in Sent, NEW status \in Failures(d)
    PROVE  FailedStatus(d, status) \in Statuses
BY DEF Failures, MutationFailures, CallFailures, LookupFailures, PostFailures,
   FailedStatus, Statuses

(* Each step of a worker preserves the invariant, whatever happened to its *)
(* claim since.                                                            *)
LEMMA DeliveryWorkerInv ==
    ASSUME DeliveryInv, NEW d \in Sent, WorkerStep(d)
    PROVE  DeliveryInv'
<1>0. outbox \in Seq(Records) /\ shown \in Sent \cup {0} /\ received \in [Ids -> Nat]
  BY DEF DeliveryInv, TypeOK, Records
<1>1. /\ outbox \in Seq(Records) /\ shown \in Sent \cup {0} /\ received \in [Ids -> Nat]
      /\ \A e \in Sent : outbox[e] \in Records
  BY <1>0 DEF Sent
<1>2. DOMAIN outbox = Sent
  BY DEF Sent
<1>3. \A status \in Statuses :
          /\ SetStatus(d, status) \in Seq(Records) /\ DOMAIN SetStatus(d, status) = Sent
          /\ \A e \in Sent : SetStatus(d, status)[e].run = outbox[e].run
  BY <1>1, SetStatusKeeps
<1>4. \A status \in Statuses :
          /\ Recorded(d, status) \in Seq(Records) /\ DOMAIN Recorded(d, status) = Sent
          /\ \A e \in Sent : Recorded(d, status)[e].run = outbox[e].run
  BY <1>1, <1>2, <1>3 DEF Recorded
<1>5. CASE Claim(d)
  <2> DEFINE out == Claimed(d)
  <2>1. out = [e \in Sent |-> out[e]]
    BY DEF Claimed
  <2>2. \A e \in Sent : out[e] \in Records /\ out[e].run = outbox[e].run
    <3> TAKE e \in Sent
    <3>1. outbox[e] \in Records
      BY <1>1
    <3>2. outbox[e].attempts + 1 \in Nat /\ "in-flight" \in Statuses
      BY <3>1 DEF Records, Statuses
    <3>3. Retired(outbox[e]) \in Records /\ Retired(outbox[e]).run = outbox[e].run
      BY <3>1 DEF Retired, Records, Statuses
    <3>4. CASE e = d
      <4>1. out[e] = [run |-> outbox[e].run, kind |-> outbox[e].kind, label |-> outbox[e].label,
                      status |-> "in-flight", attempts |-> outbox[e].attempts + 1]
        BY <3>1, <3>4 DEF Claimed, Records
      <4> QED
        BY <3>1, <3>2, <4>1 DEF Records
    <3>5. CASE e # d
      BY <3>1, <3>3, <3>5 DEF Claimed
    <3> QED
      BY <3>4, <3>5
  <2> HIDE DEF out
  <2>3. out \in Seq(Records) /\ DOMAIN out = Sent
    BY <1>1, <2>1, <2>2, ChangedInPlace
  <2>4. outbox' = out /\ UNCHANGED <<run, readiness, shown, received, operated>>
    BY <1>5 DEF Claim, trackerVars, out
  <2>5. Goes(d, "claiming", "reading")
    BY <1>5 DEF Claim
  <2> QED
    BY <1>1, <2>2, <2>3, <2>4, <2>5, WorkerStepTyped DEF Stages
<1>6. CASE ClaimSuperseded(d)
  <2>1. outbox' = SetStatus(d, "retired") /\ UNCHANGED <<run, readiness, shown, received, operated>>
    BY <1>6 DEF ClaimSuperseded, trackerVars
  <2>2. Goes(d, "claiming", "idle")
    BY <1>6 DEF ClaimSuperseded
  <2> QED
    BY <1>1, <1>3, <2>1, <2>2, WorkerStepTyped DEF Stages, Statuses
<1>7. CASE ClaimRejected(d)
  <2>1. UNCHANGED <<outbox, run, readiness, shown, received, operated>>
    BY <1>7 DEF ClaimRejected, trackerVars
  <2>2. Goes(d, "claiming", "idle")
    BY <1>7 DEF ClaimRejected
  <2> QED
    BY <1>1, <1>2, <2>1, <2>2, WorkerStepTyped DEF Stages
<1>8. CASE Look(d)
  <2>1. UNCHANGED <<outbox, run, readiness, shown, received, operated>>
    BY <1>8 DEF Look, trackerVars
  <2>2. Goes(d, "reading", Observed(d))
    BY <1>8 DEF Look
  <2>3. Observed(d) \in Stages
    BY DEF Observed, Stages
  <2> QED
    BY <1>1, <1>2, <2>1, <2>2, <2>3, WorkerStepTyped
<1>9. CASE BeginWrite(d)
  <2>1. UNCHANGED <<outbox, run, readiness, shown, received, operated>>
    BY <1>9 DEF BeginWrite, trackerVars
  <2>2. Goes(d, "missing", "writing")
    BY <1>9 DEF BeginWrite
  <2> QED
    BY <1>1, <1>2, <2>1, <2>2, WorkerStepTyped DEF Stages
<1>10. [received EXCEPT ![d] = @ + 1] \in [Ids -> Nat]
  <2>1. [received EXCEPT ![d] = @ + 1] =
            [k \in Ids |-> IF k = d THEN received[k] + 1 ELSE received[k]]
    BY <1>1
  <2>2. [k \in Ids |-> IF k = d THEN received[k] + 1 ELSE received[k]] \in [Ids -> Nat]
    BY <1>1
  <2> QED
    BY <2>1, <2>2
<1>11. CASE Write(d)
  <2>1. UNCHANGED <<outbox, run, readiness, operated>>
    BY <1>11 DEF Write
  <2>2. Goes(d, "writing", "written")
    BY <1>11 DEF Write
  <2>3. shown' \in Sent \cup {0} /\ received' \in [Ids -> Nat]
    BY <1>1, <1>10, <1>11 DEF Write
  <2> QED
    BY <1>1, <1>2, <2>1, <2>2, <2>3, WorkerStepTyped DEF Stages
<1>12. CASE Notify(d)
  <2>1. UNCHANGED <<outbox, run, readiness, shown, operated>>
    BY <1>12 DEF Notify
  <2>2. Goes(d, "writing", "written") /\ received' \in [Ids -> Nat]
    BY <1>10, <1>12 DEF Notify
  <2> QED
    BY <1>1, <1>2, <2>1, <2>2, WorkerStepTyped DEF Stages
<1>13. CASE Succeed(d)
  <2>1. outbox' = Recorded(d, "succeeded") /\ UNCHANGED <<run, readiness, shown, received, operated>>
    BY <1>13 DEF Succeed, trackerVars
  <2>2. Goes(d, "delivered", "idle") \/ Goes(d, "written", "idle")
    BY <1>13 DEF Succeed
  <2> QED
    BY <1>1, <1>4, <2>1, <2>2, WorkerStepTyped DEF Stages, Statuses
<1>14. CASE Fail(d)
  <2>1. PICK status \in Failures(d) : outbox' = Recorded(d, FailedStatus(d, status))
    BY <1>14 DEF Fail
  <2>2. Goes(d, worker[d], "idle") /\ UNCHANGED <<run, readiness, shown, received, operated>>
    BY <1>14 DEF Fail, trackerVars
  <2> QED
    BY <1>1, <1>4, <2>1, <2>2, FailureTyped, WorkerStepTyped DEF Stages
<1> QED
  BY <1>5, <1>6, <1>7, <1>8, <1>9, <1>11, <1>12, <1>13, <1>14
     DEF WorkerStep

(* Lifecycle events of the issue's runs preserve the invariant.            *)
LEMMA EventInv ==
    ASSUME DeliveryInv, NEW r \in Runs, NEW from \in RunStates, from # "absent",
           NEW to \in Labels, Event(r, from, to)
    PROVE  DeliveryInv'
<1>1. outbox \in Seq(Records) /\ run \in [Runs -> RunStates]
  BY DEF DeliveryInv, TypeOK, Records
<1>2. run[r] = from /\ run' = [run EXCEPT ![r] = to] /\ outbox' = Appended(r, to)
  BY DEF Event
<1>3. UNCHANGED <<worker, batch, readiness, shown, received, operated>>
  BY DEF Event, trackerVars
<1>4. /\ outbox' \in Seq(Records) /\ Sent \subseteq Sent'
      /\ \A d \in Sent : outbox'[d].run = outbox[d].run
      /\ \A d \in Sent' \ Sent : outbox'[d].run = r
  <2> DEFINE out == Appended(r, to)
  <2>1. /\ out \in Seq(Records) /\ Sent \subseteq DOMAIN out
        /\ \A d \in Sent : out[d].run = outbox[d].run
        /\ \A d \in DOMAIN out \ Sent : out[d].run = r
    BY <1>1, AppendedKeeps
  <2>2. outbox' = out /\ Sent' = DOMAIN out
    BY <1>2 DEF Sent
  <2> HIDE DEF out
  <2> QED
    BY <2>1, <2>2
<1>5. to \in RunStates /\ to \notin {"absent", "queued"}
  BY DEF Labels, RunStates
<1>6. TypeOK'
  BY <1>1, <1>2, <1>3, <1>4, <1>5 DEF DeliveryInv, TypeOK, Records
<1>7. \A d \in Sent' : run'[outbox'[d].run] \notin {"absent", "queued"}
  <2> TAKE d \in Sent'
  <2>1. CASE d \in Sent
    <3>1. run[outbox[d].run] \notin {"absent", "queued"} /\ outbox[d].run \in Runs
      BY <1>1, <2>1, RecordOf DEF DeliveryInv, RunsOfDeliveries
    <3> QED
      BY <1>1, <1>2, <1>4, <1>5, <2>1, <3>1
  <2>2. CASE d \notin Sent
    BY <1>1, <1>2, <1>4, <1>5, <2>2
  <2> QED
    BY <2>1, <2>2
<1>8. \A q \in Runs : q > readiness' => run'[q] = "absent"
  BY <1>1, <1>2, <1>3 DEF DeliveryInv, RunsOfDeliveries
<1> QED
  BY <1>6, <1>7, <1>8 DEF DeliveryInv, RunsOfDeliveries

(* So do the moves that report nothing, none of which revives a run.       *)
LEMMA MoveInv ==
    ASSUME DeliveryInv, NEW r \in Runs, NEW from \in RunStates, from # "absent",
           NEW to \in RunStates, to \notin {"absent", "queued"}, Move(r, from, to)
    PROVE  DeliveryInv'
<1>1. outbox \in Seq(Records) /\ run \in [Runs -> RunStates]
  BY DEF DeliveryInv, TypeOK, Records
<1>2. run[r] = from /\ run' = [run EXCEPT ![r] = to]
  BY DEF Move
<1>3. UNCHANGED <<outbox, worker, batch, readiness, shown, received, operated>>
  BY DEF Move, trackerVars
<1>4. TypeOK'
  BY <1>1, <1>2, <1>3 DEF DeliveryInv, TypeOK, Sent
<1>5. \A d \in Sent : outbox[d].run \in Runs
  BY <1>1, RecordOf
<1>6. RunsOfDeliveries'
  BY <1>1, <1>2, <1>3, <1>5 DEF DeliveryInv, RunsOfDeliveries, Sent
<1> QED
  BY <1>4, <1>6 DEF DeliveryInv

(* The next run of the issue starts without deliveries.                    *)
LEMMA NewReadinessInv ==
    ASSUME DeliveryInv, NewReadiness
    PROVE  DeliveryInv'
<1>1. /\ outbox \in Seq(Records) /\ run \in [Runs -> RunStates]
      /\ readiness \in Runs /\ readiness < Generations
  BY DEF DeliveryInv, TypeOK, Records, NewReadiness
<1>2. readiness' = readiness + 1 /\ run' = [run EXCEPT ![readiness + 1] = "queued"]
  BY DEF NewReadiness
<1>3. UNCHANGED <<outbox, worker, batch, shown, received, operated>>
  BY DEF NewReadiness
<1>4. readiness + 1 \in Runs /\ run[readiness + 1] = "absent"
  BY <1>1, DeliveryAssumption DEF Runs, DeliveryInv, RunsOfDeliveries
<1>5. TypeOK'
  BY <1>1, <1>2, <1>3, <1>4 DEF DeliveryInv, TypeOK, Sent, RunStates
<1>6. \A d \in Sent : outbox[d].run \in Runs /\ outbox[d].run # readiness + 1
  BY <1>1, <1>4, RecordOf DEF DeliveryInv, RunsOfDeliveries
<1>7. \A d \in Sent' : run'[outbox'[d].run] \notin {"absent", "queued"}
  BY <1>1, <1>2, <1>3, <1>6 DEF DeliveryInv, RunsOfDeliveries, Sent
<1>8. \A q \in Runs : q > readiness' => run'[q] = "absent"
  BY <1>1, <1>2 DEF DeliveryInv, RunsOfDeliveries, Runs
<1> QED
  BY <1>5, <1>7, <1>8 DEF DeliveryInv, RunsOfDeliveries

(* Whoever asks for deliveries, in the lane or by a retry, preserves it.   *)
LEMMA DeliverInv ==
    ASSUME DeliveryInv, DeliverPending \/ \E d \in Sent : Retry(d)
    PROVE  DeliveryInv'
<1>1. outbox \in Seq(Records)
  BY DEF DeliveryInv, TypeOK, Records
<1>2. CASE DeliverPending
  <2>1. UNCHANGED <<run, outbox, readiness, shown, received, operated>>
    BY <1>2 DEF DeliverPending, trackerVars
  <2>2. batch' \subseteq Sent /\ worker' \in [Ids -> Stages]
    BY <1>2 DEF DeliverPending, DueNow, DeliveryInv, TypeOK, Stages
  <2> QED
    BY <2>1, <2>2 DEF DeliveryInv, TypeOK, RunsOfDeliveries, Sent
<1>3. ASSUME NEW d \in Sent, Retry(d)
      PROVE  DeliveryInv'
  <2>1. outbox' = SetStatus(d, "pending")
    BY <1>3 DEF Retry
  <2>2. "pending" \in Statuses
    BY DEF Statuses
  <2>3. /\ outbox' \in Seq(Records) /\ Sent' = Sent
        /\ \A e \in Sent : outbox'[e].run = outbox[e].run
    BY <1>1, <2>1, <2>2, SetStatusKeeps DEF Sent
  <2>4. UNCHANGED <<run, batch, readiness, shown, received>>
    BY <1>3 DEF Retry, trackerVars
  <2>5. operated' \in 0 .. MaxOperated
    BY <1>3, DeliveryAssumption DEF Retry, DeliveryInv, TypeOK
  <2>6. worker' \in [Ids -> Stages]
    BY <1>3 DEF Retry, DeliveryInv, TypeOK, Stages
  <2>7. TypeOK'
    BY <2>3, <2>4, <2>5, <2>6 DEF DeliveryInv, TypeOK, Records
  <2>8. RunsOfDeliveries'
    BY <2>3, <2>4 DEF DeliveryInv, RunsOfDeliveries
  <2> QED
    BY <2>7, <2>8 DEF DeliveryInv
<1> QED
  BY <1>2, <1>3

(* A repair projects a state that has a label, as its run has started.     *)
LEMMA RepairInv ==
    ASSUME DeliveryInv, NEW d \in Sent, Repair(d)
    PROVE  DeliveryInv'
<1> DEFINE old == SetStatus(d, "retired")
           record == Record(outbox[d].run, "projection", run[outbox[d].run])
<1>1. outbox \in Seq(Records) /\ run \in [Runs -> RunStates]
  BY DEF DeliveryInv, TypeOK, Records
<1>2. outbox[d] \in Records /\ outbox[d].run \in Runs
  BY <1>1, RecordOf
<1>3. /\ old \in Seq(Records) /\ DOMAIN old = Sent
      /\ \A e \in Sent : old[e].run = outbox[e].run
  <2>1. "retired" \in Statuses
    BY DEF Statuses
  <2>2. old \in Seq(Records) /\ DOMAIN old = Sent /\ old[d].run = outbox[d].run
    BY <1>1, <2>1, SetStatusKeeps
  <2>3. \A e \in Sent : e # d => old[e] = outbox[e]
    BY <1>1, <2>1, SetStatusKeeps
  <2> HIDE DEF old
  <2> QED
    BY <2>2, <2>3
<1>4. run[outbox[d].run] \in Labels
  <2>1. run[outbox[d].run] # "cancelled"
    BY DEF Repair, Projectable
  <2>2. run[outbox[d].run] \notin {"absent", "queued"}
    BY DEF DeliveryInv, RunsOfDeliveries
  <2> QED
    BY <1>1, <1>2, <2>1, <2>2 DEF RunStates, Labels
<1>5. "projection" \in Kinds
  BY <1>2 DEF Repair, IsProjection, Records
<1>6. record \in Records /\ record.run = outbox[d].run
  BY <1>2, <1>4, <1>5 DEF Record, Records, Statuses
<1> HIDE DEF old, record
<1>7. outbox' = Append(old, record)
  BY DEF Repair, old, record
<1>8. /\ outbox' \in Seq(Records) /\ Sent' = Sent \cup {Len(old) + 1}
      /\ \A e \in Sent : outbox'[e] = old[e]
      /\ outbox'[Len(old) + 1] = record
  BY <1>3, <1>6, <1>7 DEF Sent
<1>9. UNCHANGED <<run, batch, readiness, shown, received>>
  BY DEF Repair, trackerVars
<1>10. operated' \in 0 .. MaxOperated
  BY DeliveryAssumption DEF Repair, DeliveryInv, TypeOK
<1>11. worker' \in [Ids -> Stages]
  BY DEF Repair, DeliveryInv, TypeOK, Stages
<1>12. TypeOK'
  BY <1>8, <1>9, <1>10, <1>11 DEF DeliveryInv, TypeOK, Records
<1>13. \A e \in Sent' : run'[outbox'[e].run] \notin {"absent", "queued"}
  BY <1>3, <1>6, <1>8, <1>9 DEF DeliveryInv, RunsOfDeliveries
<1> QED
  BY <1>9, <1>12, <1>13 DEF DeliveryInv, RunsOfDeliveries

(* A restart changes deliveries that were in flight, in place.             *)
LEMMA DeliveryRestartInv ==
    ASSUME DeliveryInv, Restart
    PROVE  DeliveryInv'
<1>1. outbox \in Seq(Records)
  BY DEF DeliveryInv, TypeOK, Records
<1>2. outbox' = [d \in Sent |-> IF outbox[d].status = "in-flight"
          THEN [outbox[d] EXCEPT !.status = InterruptedStatus(d)] ELSE outbox[d]]
  BY DEF Restart
<1>3. \A d \in Sent : outbox'[d] \in Records /\ outbox'[d].run = outbox[d].run
  <2> TAKE d \in Sent
  <2>1. outbox[d] \in Records
    BY <1>1 DEF Sent
  <2>2. InterruptedStatus(d) \in Statuses
    BY DEF InterruptedStatus, Statuses
  <2> QED
    BY <1>2, <2>1, <2>2 DEF Records
<1>4. outbox' \in Seq(Records) /\ Sent' = Sent
  <2> DEFINE out == outbox'
  <2>1. out = [d \in Sent |-> out[d]] /\ \A d \in Sent : out[d] \in Records
    BY <1>2, <1>3
  <2> HIDE DEF out
  <2>2. out \in Seq(Records) /\ DOMAIN out = Sent
    BY <1>1, <2>1, ChangedInPlace
  <2> QED
    BY <2>2 DEF out, Sent
<1>5. UNCHANGED <<run, readiness, shown, received, operated>>
  BY DEF Restart, trackerVars
<1>6. worker' \in [Ids -> Stages] /\ batch' \subseteq Sent'
  BY DEF Restart, Stages
<1>7. TypeOK'
  BY <1>4, <1>5, <1>6 DEF DeliveryInv, TypeOK, Records
<1>8. RunsOfDeliveries'
  BY <1>3, <1>4, <1>5 DEF DeliveryInv, RunsOfDeliveries
<1> QED
  BY <1>7, <1>8 DEF DeliveryInv

(* The invariant holds at first.                                           *)
LEMMA DeliveryInitInv == Init => DeliveryInv
<1> SUFFICES ASSUME Init PROVE DeliveryInv
  OBVIOUS
<1>1. 1 \in Runs
  BY DeliveryAssumption DEF Runs
<1>2. outbox \in Seq(Records) /\ Sent = {}
  BY DEF Init, Sent
<1>3. TypeOK
  BY <1>1, <1>2, DeliveryAssumption DEF Init, TypeOK, RunStates, Stages, Records
<1>4. RunsOfDeliveries
  BY <1>2 DEF Init, RunsOfDeliveries, Runs
<1> QED
  BY <1>3, <1>4 DEF DeliveryInv

(* Every step preserves the invariant.                                     *)
LEMMA DeliveryNextInv ==
    ASSUME DeliveryInv, [Next]_vars
    PROVE  DeliveryInv'
<1>1. CASE UNCHANGED vars
  BY <1>1 DEF vars, trackerVars, DeliveryInv, TypeOK, RunsOfDeliveries, Sent
<1>2. ASSUME NEW r \in Runs, Start(r) \/ Pause(r) \/ End(r)
      PROVE  DeliveryInv'
  BY <1>2, EventInv DEF Start, Pause, End, RunStates, Labels
<1>3. ASSUME NEW r \in Runs, Resume(r) \/ Cancel(r)
      PROVE  DeliveryInv'
  BY <1>3, MoveInv DEF Resume, Cancel, RunStates
<1> QED
  BY <1>1, <1>2, <1>3, NewReadinessInv, DeliverInv, RepairInv, DeliveryWorkerInv,
     DeliveryRestartInv DEF Next

(* Every reachable state of the outbox, its workers and the tracker is     *)
(* typed; in particular every projection has a label.                      *)
THEOREM DeliveryTypeCorrect == Spec => []TypeOK
<1>1. DeliveryInv /\ [Next]_vars => DeliveryInv'
  BY DeliveryNextInv
<1>2. Spec => []DeliveryInv
  BY <1>1, DeliveryInitInv, PTL DEF Spec
<1>3. DeliveryInv => TypeOK
  BY DEF DeliveryInv
<1> QED
  BY <1>2, <1>3, PTL

----------------------------------------------------------------------------
(* What a step may never do to a delivery that is there.                   *)
Unrevived(d) ==
    /\ outbox[d].status \in Final => outbox'[d] = outbox[d]
    /\ outbox[d].status # "in-flight" /\ outbox'[d].status = "in-flight" /\ IsProjection(d)
          => Newer(d) = {}

(* Giving a delivery that has not ended another status than a claim's.     *)
LEMMA SetStatusUnrevived ==
    ASSUME outbox \in Seq(Records), NEW d \in Sent, NEW status \in Statuses,
           outbox[d].status \notin Final, status # "in-flight",
           \A e \in Sent : outbox'[e] = SetStatus(d, status)[e]
    PROVE  \A e \in Sent : Unrevived(e)
<1> TAKE e \in Sent
<1>1. CASE e = d
  BY <1>1, SetStatusKeeps DEF Unrevived
<1>2. CASE e # d
  BY <1>2, SetStatusKeeps DEF Unrevived
<1> QED
  BY <1>1, <1>2

(* An operator retries or repairs only what has not ended.                 *)
LEMMA RequestUnrevived ==
    ASSUME DeliveryInv, NEW d \in Sent, Retry(d) \/ Repair(d)
    PROVE  \A e \in Sent : Unrevived(e)
<1>1. outbox \in Seq(Records)
  BY DEF DeliveryInv, TypeOK, Records
<1>2. "pending" \in Statuses /\ "retired" \in Statuses
  BY DEF Statuses
<1>3. CASE Retry(d)
  BY <1>1, <1>2, <1>3, SetStatusUnrevived DEF Retry
<1>4. CASE Repair(d)
  <2> DEFINE old == SetStatus(d, "retired")
  <2>1. outbox[d].status \notin Final
    BY <1>4 DEF Repair, Repairable, Final
  <2>2. old \in Seq(Records) /\ DOMAIN old = Sent
    BY <1>1, <1>2, SetStatusKeeps
  <2>3. outbox' = Append(old, Record(outbox[d].run, "projection", run[outbox[d].run]))
    BY <1>4 DEF Repair
  <2> HIDE DEF old
  <2>4. \A e \in Sent : outbox'[e] = old[e]
    BY <2>2, <2>3
  <2> QED
    BY <1>1, <1>2, <2>1, <2>4, SetStatusUnrevived DEF old
<1> QED
  BY <1>3, <1>4

(* An event of a run retires what has not ended.                           *)
LEMMA EventUnrevived ==
    ASSUME DeliveryInv, NEW r \in Runs, NEW from, NEW to \in Labels, Event(r, from, to)
    PROVE  \A e \in Sent : Unrevived(e)
<1>1. outbox \in Seq(Records)
  BY DEF DeliveryInv, TypeOK, Records
<1>2. \A e \in Sent : outbox'[e] = WithRetired(r)[e]
  BY <1>1, AppendedKeeps DEF Event
<1> TAKE e \in Sent
<1>3. \/ outbox'[e] = outbox[e]
      \/ outbox[e].status \notin Final /\ outbox'[e] = Retired(outbox[e])
  BY <1>2 DEF WithRetired
<1>4. outbox[e] \in Records
  BY <1>1, RecordOf
<1>5. Retired(outbox[e]).status = "retired"
  BY <1>4 DEF Retired, Records
<1> QED
  BY <1>3, <1>5 DEF Unrevived

(* A worker claims the newest projection or ends what it has claimed.      *)
LEMMA WorkerUnrevived ==
    ASSUME DeliveryInv, NEW d \in Sent, WorkerStep(d)
    PROVE  \A e \in Sent : Unrevived(e)
<1>1. outbox \in Seq(Records)
  BY DEF DeliveryInv, TypeOK, Records
<1>2. CASE outbox' = outbox
  BY <1>2 DEF Unrevived
<1>3. CASE Claim(d)
  <2> TAKE e \in Sent
  <2>1. outbox[e] \in Records
    BY <1>1, RecordOf
  <2>2. CASE e = d
    BY <1>3, <2>2 DEF Claim, Superseded, Due, Final, Unrevived
  <2>3. CASE e # d
    <3>1. \/ outbox'[e] = outbox[e]
          \/ outbox[e].status \notin Final /\ outbox'[e] = Retired(outbox[e])
      BY <1>3, <2>3 DEF Claim, Claimed
    <3>2. Retired(outbox[e]).status = "retired"
      BY <2>1 DEF Retired, Records
    <3> QED
      BY <3>1, <3>2 DEF Unrevived
  <2> QED
    BY <2>2, <2>3
<1>4. CASE ClaimSuperseded(d)
  <2>1. "retired" \in Statuses /\ outbox[d].status \notin Final
    BY <1>4 DEF ClaimSuperseded, Statuses, Due, Final
  <2> QED
    BY <1>1, <1>4, <2>1, SetStatusUnrevived DEF ClaimSuperseded
<1>5. ASSUME NEW status \in Statuses \ {"in-flight"}, outbox' = Recorded(d, status)
      PROVE  \A e \in Sent : Unrevived(e)
  <2>1. Owns(d) => outbox[d].status \notin Final
    BY DEF Owns, Final
  <2> QED
    BY <1>1, <1>2, <1>5, <2>1, SetStatusUnrevived DEF Recorded
<1>6. CASE Succeed(d)
  BY <1>5, <1>6 DEF Succeed, Statuses
<1>7. CASE Fail(d)
  <2>1. PICK status \in Failures(d) : outbox' = Recorded(d, FailedStatus(d, status))
    BY <1>7 DEF Fail
  <2>2. FailedStatus(d, status) \in Statuses \ {"in-flight"}
    BY DEF Failures, MutationFailures, CallFailures, LookupFailures, PostFailures,
           FailedStatus, Statuses
  <2> QED
    BY <1>5, <2>1, <2>2
<1> QED
  BY <1>2, <1>3, <1>4, <1>6, <1>7
     DEF WorkerStep, ClaimRejected, Look, BeginWrite, Write, Notify

(* A restart ends claims.                                                  *)
LEMMA RestartUnrevived ==
    ASSUME DeliveryInv, Restart
    PROVE  \A e \in Sent : Unrevived(e)
<1>1. outbox \in Seq(Records)
  BY DEF DeliveryInv, TypeOK, Records
<1> TAKE e \in Sent
<1>2. outbox[e] \in Records
  BY <1>1, RecordOf
<1>3. \/ outbox'[e] = outbox[e]
      \/ /\ outbox[e].status = "in-flight"
         /\ outbox'[e] = [outbox[e] EXCEPT !.status = InterruptedStatus(e)]
  BY DEF Restart
<1> QED
  BY <1>2, <1>3 DEF Unrevived, Final

(* No step revives a delivery that ended, and none but the newest          *)
(* projection of the issue is claimed, whatever events, operators, workers *)
(* of retired claims and restarts do in between.                           *)
THEOREM DeliveriesNeverRevived == Spec => NeverRevived
<1>1. ASSUME DeliveryInv, [Next]_vars
      PROVE  [\A d \in Sent : Unrevived(d)]_vars
  <2>1. ASSUME UNCHANGED outbox
        PROVE  \A d \in Sent : Unrevived(d)
    BY <2>1 DEF Unrevived
  <2>2. ASSUME NEW r \in Runs, Start(r) \/ Pause(r) \/ End(r)
        PROVE  \A d \in Sent : Unrevived(d)
    <3>1. "implementing" \in Labels /\ "paused" \in Labels /\ {"blocked", "completed"} \subseteq Labels
      BY DEF Labels
    <3>2. CASE Start(r)
      BY <1>1, <3>1, <3>2, EventUnrevived DEF Start
    <3>3. CASE Pause(r)
      BY <1>1, <3>1, <3>3, EventUnrevived DEF Pause
    <3>4. CASE End(r)
      BY <1>1, <3>1, <3>4, EventUnrevived DEF End
    <3> QED
      BY <2>2, <3>2, <3>3, <3>4
  <2>3. ASSUME NEW r \in Runs, Resume(r) \/ Cancel(r)
        PROVE  UNCHANGED outbox
    BY <2>3 DEF Resume, Cancel, Move
  <2>4. NewReadiness \/ DeliverPending => UNCHANGED outbox
    BY DEF NewReadiness, DeliverPending
  <2>5. Next => \A d \in Sent : Unrevived(d)
    <3> HAVE Next
    <3>1. CASE \E r \in Runs : Start(r) \/ Pause(r) \/ End(r) \/ Resume(r) \/ Cancel(r)
      BY <2>1, <2>2, <2>3, <3>1
    <3>2. CASE NewReadiness \/ DeliverPending
      BY <2>1, <2>4, <3>2
    <3>3. ASSUME NEW d \in Sent, Retry(d) \/ Repair(d) \/ WorkerStep(d)
          PROVE  \A e \in Sent : Unrevived(e)
      BY <1>1, <3>3, RequestUnrevived, WorkerUnrevived
    <3>4. CASE Restart
      BY <1>1, <3>4, RestartUnrevived
    <3> QED
      BY <3>1, <3>2, <3>3, <3>4 DEF Next
  <2> QED
    BY <1>1, <2>1, <2>5 DEF vars
<1>2. DeliveryInv /\ [Next]_vars => DeliveryInv'
  BY DeliveryNextInv
<1>3. Spec => [][\A d \in Sent : Unrevived(d)]_vars
  BY <1>1, <1>2, DeliveryInitInv, PTL DEF Spec
<1> QED
  BY <1>3, PTL DEF NeverRevived, Unrevived

----------------------------------------------------------------------------
(* The inductive invariant of the safety properties.                       *)

Busy(d) == worker[d] \notin {"idle", "claiming"}

(* A delivery beyond the end of the outbox has no worker and no trace.     *)
PlacesInv ==
    /\ Sent \subseteq Ids
    /\ IF "projection" \in Kinds THEN Len(outbox) <= 3 * Events /\ Events <= MaxEvents
       ELSE Len(outbox) <= MaxEvents + 1
    /\ \A d \in Ids \ Sent : worker[d] = "idle" /\ received[d] = 0

(* Whoever writes a projection holds its claim, or an event of the same run*)
(* has retired it; and every older projection of the issue has ended.      *)
SerialInv(d) ==
    IsProjection(d) /\ Busy(d) =>
        /\ \/ Owns(d)
           \/ outbox[d].status = "retired" /\ \E f \in Newer(d) : outbox[f].run = outbox[d].run
        /\ \A e \in Older(d) : outbox[e].status \in Final

(* As long as no operator intervened, the lane's batch has every worker, no*)
(* newer projection takes part in it, and the newest one that was written  *)
(* is the one shown.                                                       *)
LaneInv(d) ==
    /\ worker[d] # "idle" => d \in batch
    /\ IsProjection(d) /\ Busy(d) => \A e \in Newer(d) : e \notin batch /\ outbox[e].status # "succeeded"
    /\ IsProjection(d) /\ Newer(d) = {}
            /\ (outbox[d].status = "succeeded" \/ worker[d] \in {"delivered", "written"})
          => Label(shown) = Label(d)

(* What the tracker or the destination has received agrees with the worker's*)
(* place and with the record.                                              *)
ReportInv(d) ==
    ~IsProjection(d) =>
        /\ outbox[d].kind = "report" =>
              received[d] <= IF worker[d] \in {"missing", "writing"} THEN 0 ELSE 1
        /\ outbox[d].status = "succeeded" \/ worker[d] \in {"delivered", "written"} => received[d] >= 1

(* The lane says nothing once an operator retries or repairs beside it.    *)
OutboxInv ==
    /\ DeliveryInv
    /\ PlacesInv
    /\ \A d \in Sent : SerialInv(d) /\ (operated = 0 => LaneInv(d)) /\ ReportInv(d)

(* What no step changes of a delivery.                                     *)
Stays(d) ==
    /\ outbox'[d].kind = outbox[d].kind
    /\ outbox'[d].run = outbox[d].run
    /\ outbox'[d].label = outbox[d].label

(* A delivery is its position in the outbox.                               *)
LEMMA Positions ==
    ASSUME outbox \in Seq(Records)
    PROVE  Sent = 1 .. Len(outbox) /\ Len(outbox) \in Nat
BY LenProperties DEF Sent

(* What is said of a delivery that stays depends on it and on older ones.  *)
LEMMA StaysMeans ==
    ASSUME outbox \in Seq(Records), outbox' \in Seq(Records), Sent \subseteq Sent',
           \A x \in Sent : Stays(x), NEW d \in Sent
    PROVE  /\ IsProjection(d)' <=> IsProjection(d)
           /\ Older(d)' = Older(d)
           /\ Newer(d) \subseteq Newer(d)'
           /\ Label(d)' = Label(d)
           /\ Label(0)' = Label(0)
<1>1. Sent = 1 .. Len(outbox) /\ Len(outbox) \in Nat BY Positions
<1>2. Sent' = 1 .. Len(outbox') /\ Len(outbox') \in Nat BY LenProperties DEF Sent
<1>3. \A x \in Sent : IsProjection(x)' <=> IsProjection(x) BY DEF IsProjection, Stays
<1>4. \A x \in Sent' : x < d => x \in Sent BY <1>1, <1>2
<1>5. Older(d)' = Older(d) BY <1>3, <1>4 DEF Older
<1>6. Newer(d) \subseteq Newer(d)' BY <1>3 DEF Newer
<1>7. Label(d)' = Label(d) BY <1>1 DEF Label, Stays
<1> QED BY <1>3, <1>5, <1>6, <1>7 DEF Label

(* A step that does not make a delivery busy, and takes its claim away     *)
(* only as an event of its run does.                                       *)
LEMMA SerialKept ==
    ASSUME outbox \in Seq(Records), outbox' \in Seq(Records), Sent \subseteq Sent',
           \A x \in Sent : Stays(x) /\ Unrevived(x), NEW d \in Sent, SerialInv(d),
           Busy(d)' => Busy(d),
           IsProjection(d) /\ Busy(d)' /\ Owns(d) =>
              \/ Owns(d)'
              \/ outbox'[d].status = "retired" /\ \E f \in Newer(d)' : outbox'[f].run = outbox'[d].run
    PROVE  SerialInv(d)'
<1> SUFFICES ASSUME IsProjection(d)', Busy(d)'
             PROVE  /\ \/ Owns(d)'
                       \/ /\ outbox'[d].status = "retired"
                          /\ \E f \in Newer(d)' : outbox'[f].run = outbox'[d].run
                    /\ \A e \in Older(d)' : outbox'[e].status \in Final
  BY DEF SerialInv
<1>1. IsProjection(d) /\ Busy(d) /\ Older(d)' = Older(d) /\ Newer(d) \subseteq Newer(d)'
  BY StaysMeans
<1>2. \A e \in Older(d) : outbox'[e].status \in Final
  BY <1>1 DEF SerialInv, Older, Unrevived
<1>3. CASE Owns(d) BY <1>1, <1>2, <1>3
<1>4. CASE ~Owns(d)
  <2>1. PICK f \in Newer(d) : outbox[d].status = "retired" /\ outbox[f].run = outbox[d].run
    BY <1>1, <1>4 DEF SerialInv
  <2>2. outbox'[d] = outbox[d] BY <2>1 DEF Unrevived, Final
  <2>3. outbox'[f].run = outbox[f].run BY DEF Stays, Newer
  <2> QED BY <1>1, <1>2, <2>1, <2>2, <2>3
<1> QED BY <1>3, <1>4

(* A step in the lane that starts no worker.                               *)
LEMMA LaneKept ==
    ASSUME outbox \in Seq(Records), outbox' \in Seq(Records), Sent \subseteq Sent', batch \subseteq Sent,
           \A x \in Sent : Stays(x), NEW d \in Sent, LaneInv(d),
           worker'[d] # "idle" => d \in batch',
           Busy(d)' => Busy(d),
           batch' \subseteq batch,
           \A e \in Sent : outbox'[e].status = "succeeded" => outbox[e].status = "succeeded" \/ e \in batch,
           \A e \in Sent' \ Sent : outbox'[e].status # "succeeded",
           IsProjection(d) /\ Newer(d) = {}
                 /\ (outbox'[d].status = "succeeded" \/ worker'[d] \in {"delivered", "written"})
              => Label(shown)' = Label(d)
    PROVE  LaneInv(d)'
<1>1. /\ IsProjection(d)' <=> IsProjection(d)
      /\ Newer(d) \subseteq Newer(d)' /\ Label(d)' = Label(d)
  BY StaysMeans
<1>2. \A e \in Newer(d)' : e \in Newer(d) \/ e \in Sent' \ Sent
  BY DEF Newer, IsProjection, Stays
<1>3. ASSUME IsProjection(d), Busy(d)', NEW e \in Newer(d)'
      PROVE  e \notin batch' /\ outbox'[e].status # "succeeded"
  <2>1. CASE e \in Newer(d)
    <3>1. e \notin batch /\ outbox[e].status # "succeeded" BY <1>3, <2>1 DEF LaneInv
    <3> QED BY <2>1, <3>1 DEF Newer
  <2>2. CASE e \in Sent' \ Sent BY <2>2
  <2> QED BY <1>2, <2>1, <2>2
<1>4. Newer(d)' = {} => Newer(d) = {} BY <1>1
<1> QED BY <1>1, <1>3, <1>4 DEF LaneInv

----------------------------------------------------------------------------
(* Workers.                                                                *)

(* What a step of one worker does to the rest.                             *)
LEMMA WorkerShape ==
    ASSUME OutboxInv, NEW d \in Sent, WorkerStep(d)
    PROVE  /\ Sent' = Sent /\ operated' = operated /\ worker[d] # "idle"
           /\ \E to : /\ worker' = [worker EXCEPT ![d] = to]
                      /\ batch' = IF to = "idle" THEN batch \ {d} ELSE batch
           /\ \A x \in Sent : Stays(x) /\ Unrevived(x)
           /\ \A x \in Sent \ {d} :
                 \/ outbox'[x] = outbox[x]
                 \/ outbox[x].status # "in-flight" /\ outbox'[x].status = "retired"
           /\ shown' = shown \/ (IsProjection(d) /\ worker[d] = "writing" /\ shown' = d)
           /\ \A x \in Ids \ {d} : received'[x] = received[x]
<1>1. outbox \in Seq(Records) /\ received \in [Ids -> Nat]
  BY DEF OutboxInv, DeliveryInv, TypeOK, Records
<1>2. \A x \in Sent : Unrevived(x) BY WorkerUnrevived DEF OutboxInv
<1>3. \A x \in Sent : outbox[x] \in Records BY <1>1, RecordOf
<1>4. DOMAIN outbox = Sent BY DEF Sent
<1>5. ASSUME NEW status \in Statuses, outbox' = SetStatus(d, status)
      PROVE  /\ Sent' = Sent /\ \A x \in Sent : Stays(x)
             /\ \A x \in Sent \ {d} : outbox'[x] = outbox[x]
  BY <1>1, <1>5, SetStatusKeeps DEF Stays, Sent
<1>6. ASSUME NEW status \in Statuses, outbox' = Recorded(d, status)
      PROVE  /\ Sent' = Sent /\ \A x \in Sent : Stays(x)
             /\ \A x \in Sent \ {d} : outbox'[x] = outbox[x]
  BY <1>5, <1>6 DEF Recorded, Stays, Sent
<1>7. outbox' = outbox => Sent' = Sent /\ \A x \in Sent : Stays(x) BY DEF Stays, Sent
<1>8. CASE Claim(d)
  <2>1. outbox' = Claimed(d) /\ Goes(d, "claiming", "reading") /\ ~WaitsForOlder(d)
        /\ UNCHANGED <<shown, received, operated>>
    BY <1>8 DEF Claim, trackerVars
  <2>2. Sent' = Sent BY <2>1 DEF Claimed, Sent
  <2>3. ASSUME NEW x \in Sent
        PROVE  /\ Stays(x)
               /\ x # d =>
                     \/ outbox'[x] = outbox[x]
                     \/ outbox[x].status # "in-flight" /\ outbox'[x].status = "retired"
    <3>1. outbox[x] \in Records BY <1>3
    <3>2. CASE x = d
      <4>1. outbox'[x] = [outbox[x] EXCEPT !.status = "in-flight", !.attempts = @ + 1]
        BY <2>1, <3>2 DEF Claimed
      <4> QED BY <3>1, <3>2, <4>1 DEF Stays, Records
    <3>3. CASE x # d /\ outbox'[x] = outbox[x]
      <4>1. Stays(x) BY ONLY <3>3 DEF Stays
      <4> QED BY <3>3, <4>1
    <3>4. CASE x # d /\ IsProjection(d) /\ x \in Older(d) /\ outbox'[x] = Retired(outbox[x])
      <4>1. outbox[x].status # "in-flight" BY <2>1, <3>4 DEF WaitsForOlder
      <4> QED BY <3>1, <3>4, <4>1 DEF Retired, Records, Stays
    <3> QED BY <2>1, <3>2, <3>3, <3>4 DEF Claimed
  <2> QED BY <1>2, <2>1, <2>2, <2>3 DEF Goes
<1>9. CASE ClaimSuperseded(d)
  <2>1. outbox' = SetStatus(d, "retired") /\ Goes(d, "claiming", "idle")
        /\ UNCHANGED <<shown, received, operated>> /\ "retired" \in Statuses
    BY <1>9 DEF ClaimSuperseded, trackerVars, Statuses
  <2> QED BY <1>2, <1>5, <2>1 DEF Goes
<1>10. CASE ClaimRejected(d)
  <2>1. UNCHANGED <<outbox, shown, received, operated>> /\ Goes(d, "claiming", "idle")
    BY <1>10 DEF ClaimRejected, trackerVars
  <2> QED BY <1>2, <1>7, <2>1 DEF Goes
<1>11. CASE Look(d) \/ BeginWrite(d)
  <2>1. UNCHANGED <<outbox, shown, received, operated>>
        /\ (Goes(d, "reading", Observed(d)) \/ Goes(d, "missing", "writing"))
    BY <1>11 DEF Look, BeginWrite, trackerVars
  <2>2. \E to : worker' = [worker EXCEPT ![d] = to] /\ batch' = IF to = "idle" THEN batch \ {d} ELSE batch
    BY <2>1 DEF Goes
  <2>3. worker[d] # "idle" BY <2>1 DEF Goes
  <2> QED BY <1>2, <1>7, <2>1, <2>2, <2>3
<1>12. CASE Write(d) \/ Notify(d)
  <2>1. /\ UNCHANGED <<outbox, operated>> /\ Goes(d, "writing", "written")
        /\ shown' = shown \/ (IsProjection(d) /\ shown' = d)
        /\ received' = received \/ received' = [received EXCEPT ![d] = @ + 1]
    BY <1>12 DEF Write, Notify
  <2>2. \A x \in Ids \ {d} : received'[x] = received[x] BY <1>1, <2>1
  <2> QED BY <1>2, <1>7, <2>1, <2>2 DEF Goes
<1>13. CASE Succeed(d)
  <2>1. outbox' = Recorded(d, "succeeded") /\ UNCHANGED <<shown, received, operated>>
        /\ (Goes(d, "delivered", "idle") \/ Goes(d, "written", "idle")) /\ "succeeded" \in Statuses
    BY <1>13 DEF Succeed, trackerVars, Statuses
  <2> QED BY <1>2, <1>6, <2>1 DEF Goes
<1>14. CASE Fail(d)
  <2>1. PICK status \in Failures(d) : outbox' = Recorded(d, FailedStatus(d, status))
    BY <1>14 DEF Fail
  <2>2. UNCHANGED <<shown, received, operated>> /\ Goes(d, worker[d], "idle")
    BY <1>14 DEF Fail, trackerVars
  <2>3. FailedStatus(d, status) \in Statuses BY FailureTyped
  <2>4. worker[d] # "idle" BY <2>1 DEF Failures
  <2> QED BY <1>2, <1>6, <2>1, <2>2, <2>3, <2>4 DEF Goes
<1> QED BY <1>8, <1>9, <1>10, <1>11, <1>12, <1>13, <1>14 DEF WorkerStep

(* The worker's own delivery.                                              *)
LEMMA OwnSerial ==
    ASSUME OutboxInv, DeliveryInv', NEW d \in Sent, WorkerStep(d)
    PROVE  SerialInv(d)'
<1>1. /\ outbox \in Seq(Records) /\ outbox' \in Seq(Records) /\ SerialInv(d)
      /\ worker \in [Ids -> Stages] /\ d \in Ids
  BY DEF OutboxInv, PlacesInv, DeliveryInv, TypeOK, Records
<1>2. outbox[d] \in Records BY <1>1, RecordOf
<1>3. /\ Sent' = Sent /\ \A x \in Sent : Stays(x) /\ Unrevived(x)
  BY WorkerShape
<1>4. CASE Claim(d)
  <2>1. outbox' = Claimed(d) BY <1>4 DEF Claim
  <2>2. outbox'[d] = [outbox[d] EXCEPT !.status = "in-flight", !.attempts = @ + 1]
    BY <2>1 DEF Claimed
  <2>3. Owns(d)' BY <1>2, <2>2 DEF Owns, Records
  <2>4. ASSUME IsProjection(d), NEW e \in Older(d) PROVE outbox'[e].status \in Final
    <3>1. e \in Sent /\ e # d BY <1>1, Positions DEF Older
    <3>2. outbox[e] \in Records BY <1>1, <3>1, RecordOf
    <3>3. CASE outbox[e].status \in Final BY <1>3, <3>1, <3>3 DEF Unrevived
    <3>4. CASE outbox[e].status \notin Final
      <4>1. outbox'[e] = Retired(outbox[e]) BY <2>1, <2>4, <3>1, <3>4 DEF Claimed
      <4> QED BY <3>2, <4>1 DEF Retired, Records, Final
    <3> QED BY <3>3, <3>4
  <2>5. Older(d)' = Older(d) /\ (IsProjection(d)' <=> IsProjection(d)) BY <1>1, <1>3, StaysMeans
  <2> QED BY <2>3, <2>4, <2>5 DEF SerialInv
<1>5. CASE ~Claim(d)
  <2>1. ~Busy(d)' \/ (outbox' = outbox /\ Busy(d))
    <3>1. CASE ClaimSuperseded(d) \/ ClaimRejected(d) \/ Succeed(d) \/ Fail(d)
      <4>1. worker' = [worker EXCEPT ![d] = "idle"]
        BY <3>1 DEF ClaimSuperseded, ClaimRejected, Succeed, Fail, Goes
      <4> QED BY <1>1, <4>1 DEF Busy
    <3>2. CASE Look(d) \/ BeginWrite(d) \/ Write(d) \/ Notify(d)
      BY <3>2 DEF Look, BeginWrite, Write, Notify, Goes, Busy
    <3> QED BY <1>5, <3>1, <3>2 DEF WorkerStep
  <2>2. outbox' = outbox /\ Owns(d) => Owns(d)' BY DEF Owns
  <2> QED BY <1>1, <1>3, <2>1, <2>2, SerialKept
<1> QED BY <1>4, <1>5

(* A worker's step keeps the lane of its own delivery in order.            *)
LEMMA OwnLane ==
    ASSUME OutboxInv, DeliveryInv', NEW d \in Sent, WorkerStep(d), operated = 0
    PROVE  LaneInv(d)'
<1>1. /\ outbox \in Seq(Records) /\ outbox' \in Seq(Records) /\ LaneInv(d)
      /\ worker \in [Ids -> Stages] /\ d \in Ids /\ batch \subseteq Sent
  BY DEF OutboxInv, PlacesInv, DeliveryInv, TypeOK, Records
<1>2. outbox[d] \in Records BY <1>1, RecordOf
<1>3. /\ Sent' = Sent /\ \A x \in Sent : Stays(x) /\ Unrevived(x)
      /\ worker[d] # "idle" /\ batch' \subseteq batch
      /\ \A x \in Sent \ {d} : outbox'[x] = outbox[x] \/ outbox'[x].status = "retired"
  BY WorkerShape
<1>4. d \in batch BY <1>1, <1>3 DEF LaneInv
<1>5. worker'[d] # "idle" => d \in batch'
  <2>1. PICK to : worker' = [worker EXCEPT ![d] = to] /\ batch' = IF to = "idle" THEN batch \ {d} ELSE batch
    BY WorkerShape
  <2> QED BY <1>1, <1>4, <2>1
<1>6. \A e \in Sent : outbox'[e].status = "succeeded" => outbox[e].status = "succeeded" \/ e \in batch
  BY <1>3, <1>4
<1>7. CASE Claim(d)
  <2>1. Goes(d, "claiming", "reading") /\ outbox' = Claimed(d) /\ ~Superseded(d) BY <1>7 DEF Claim
  <2>2. worker'[d] = "reading" BY <1>1, <2>1 DEF Goes
  <2>3. outbox'[d] = [outbox[d] EXCEPT !.status = "in-flight", !.attempts = @ + 1]
    BY <2>1 DEF Claimed
  <2>4. outbox'[d].status # "succeeded" BY <1>2, <2>3 DEF Records
  <2>5. IsProjection(d) => Newer(d) = {} BY <2>1 DEF Superseded
  <2>6. (IsProjection(d)' <=> IsProjection(d)) /\ Newer(d)' = Newer(d)
    <3>1. IsProjection(d)' <=> IsProjection(d) BY <1>1, <1>3, StaysMeans
    <3>2. Newer(d)' = Newer(d) BY <1>3 DEF Newer, IsProjection, Stays
    <3> QED BY <3>1, <3>2
  <2> QED BY <1>5, <2>2, <2>4, <2>5, <2>6 DEF LaneInv
<1>8. CASE ~Claim(d)
  <2>1. Busy(d)' => Busy(d)
    <3>1. CASE ClaimSuperseded(d) \/ ClaimRejected(d) \/ Succeed(d) \/ Fail(d)
      <4>1. worker' = [worker EXCEPT ![d] = "idle"]
        BY <3>1 DEF ClaimSuperseded, ClaimRejected, Succeed, Fail, Goes
      <4> QED BY <1>1, <4>1 DEF Busy
    <3>2. CASE Look(d) \/ BeginWrite(d) \/ Write(d) \/ Notify(d)
      BY <3>2 DEF Look, BeginWrite, Write, Notify, Goes, Busy
    <3> QED BY <1>8, <3>1, <3>2 DEF WorkerStep
  <2>2. ASSUME IsProjection(d), Newer(d) = {},
               outbox'[d].status = "succeeded" \/ worker'[d] \in {"delivered", "written"}
        PROVE  Label(shown)' = Label(d)
    <3>1. CASE ClaimSuperseded(d) BY <2>2, <3>1 DEF ClaimSuperseded, Superseded
    <3>2. shown \in Sent \cup {0} BY DEF OutboxInv, DeliveryInv, TypeOK
    <3>3. shown' = shown => Label(shown)' = Label(shown) BY <1>1, <1>3, <3>2, StaysMeans
    <3>4. CASE ClaimRejected(d) \/ Succeed(d) \/ Fail(d) \/ BeginWrite(d)
      <4>1. shown' = shown BY <3>4 DEF ClaimRejected, Succeed, Fail, BeginWrite, trackerVars
      <4>2. worker'[d] \in {"idle", "writing"}
        BY <1>1, <3>4 DEF ClaimRejected, Succeed, Fail, BeginWrite, Goes
      <4>3. outbox[d].status = "succeeded" \/ worker[d] \in {"delivered", "written"}
        <5>1. CASE ClaimRejected(d) \/ BeginWrite(d)
          BY <2>2, <4>2, <5>1 DEF ClaimRejected, BeginWrite
        <5>2. CASE Succeed(d) BY <5>2 DEF Succeed, Goes
        <5>3. CASE Fail(d)
          <6>1. PICK status \in Failures(d) : outbox' = Recorded(d, FailedStatus(d, status))
            BY <5>3 DEF Fail
          <6>2. FailedStatus(d, status) \in Statuses /\ FailedStatus(d, status) # "succeeded"
            BY FailureTyped DEF Failures, MutationFailures, CallFailures, LookupFailures, PostFailures, FailedStatus
          <6>3. outbox'[d].status = outbox[d].status \/ outbox'[d].status # "succeeded"
            BY <1>1, <6>1, <6>2, SetStatusKeeps DEF Recorded
          <6> QED BY <2>2, <4>2, <6>3
        <5> QED BY <3>4, <5>1, <5>2, <5>3
      <4> QED BY <1>1, <2>2, <3>3, <4>1, <4>3 DEF LaneInv
    <3>5. CASE Look(d)
      <4>1. UNCHANGED <<outbox, shown>> /\ worker'[d] = Observed(d)
        BY <1>1, <3>5 DEF Look, trackerVars, Goes
      <4>2. CASE outbox[d].status = "succeeded" BY <1>1, <2>2, <3>3, <4>1, <4>2 DEF LaneInv
      <4>3. CASE outbox[d].status # "succeeded"
        <5>1. Observed(d) \in {"delivered", "written"} BY <2>2, <4>1, <4>3
        <5>2. ProjectionMatches(d) BY <2>2, <5>1 DEF Observed
        <5>3. d # 0 BY <1>1, Positions
        <5>4. Label(shown) = Label(d) BY <5>2, <5>3 DEF ProjectionMatches, Label
        <5> QED BY <3>3, <4>1, <5>4
      <4> QED BY <4>2, <4>3
    <3>6. CASE Write(d)
      <4>1. shown' = d BY <2>2, <3>6 DEF Write
      <4>2. Label(d)' = Label(d) BY <1>1, <1>3, StaysMeans
      <4>3. Label(shown)' = Label(d)' BY <4>1 DEF Label
      <4> QED BY <4>2, <4>3
    <3>7. CASE Notify(d) BY <2>2, <3>7 DEF Notify, IsNotification, IsProjection
    <3> QED BY <1>8, <3>1, <3>4, <3>5, <3>6, <3>7 DEF WorkerStep
  <2> QED BY <1>1, <1>3, <1>5, <1>6, <2>1, <2>2, LaneKept
<1> QED BY <1>7, <1>8

(* A worker's step keeps the count of its own report true.                 *)
LEMMA OwnReport ==
    ASSUME OutboxInv, NEW d \in Sent, WorkerStep(d)
    PROVE  ReportInv(d)'
<1>1. /\ outbox \in Seq(Records) /\ received \in [Ids -> Nat] /\ ReportInv(d)
      /\ worker \in [Ids -> Stages] /\ d \in Ids
  BY DEF OutboxInv, PlacesInv, DeliveryInv, TypeOK, Records
<1>2. outbox[d] \in Records /\ received[d] \in Nat BY <1>1, RecordOf
<1>3. Stays(d) /\ (IsProjection(d)' <=> IsProjection(d)) BY WorkerShape DEF IsProjection, Stays
<1> SUFFICES ASSUME ~IsProjection(d)
             PROVE  /\ outbox[d].kind = "report" =>
                          received'[d] <= IF worker'[d] \in {"missing", "writing"} THEN 0 ELSE 1
                    /\ outbox'[d].status = "succeeded" \/ worker'[d] \in {"delivered", "written"}
                          => received'[d] >= 1
  BY <1>3 DEF ReportInv, Stays
<1>4. /\ outbox[d].kind = "report" => received[d] <= IF worker[d] \in {"missing", "writing"} THEN 0 ELSE 1
      /\ outbox[d].status = "succeeded" \/ worker[d] \in {"delivered", "written"} => received[d] >= 1
  BY DEF ReportInv, OutboxInv
<1>5. CASE Claim(d)
  <2>1. worker'[d] = "reading" /\ worker[d] = "claiming" /\ received' = received
    BY <1>1, <1>5 DEF Claim, Goes, trackerVars
  <2>2. outbox'[d] = [outbox[d] EXCEPT !.status = "in-flight", !.attempts = @ + 1]
    BY <1>5 DEF Claim, Claimed
  <2>3. outbox'[d].status # "succeeded" BY <1>2, <2>2 DEF Records
  <2> QED BY <1>2, <1>4, <2>1, <2>3
<1>6. CASE ClaimSuperseded(d) BY <1>6 DEF ClaimSuperseded, Superseded
<1>7. CASE ClaimRejected(d)
  <2>1. worker'[d] = "idle" /\ worker[d] = "claiming" /\ UNCHANGED <<outbox, received>>
    BY <1>1, <1>7 DEF ClaimRejected, Goes, trackerVars
  <2> QED BY <1>2, <1>4, <2>1
<1>8. CASE Look(d)
  <2>1. worker'[d] = Observed(d) /\ UNCHANGED <<outbox, received>>
    BY <1>1, <1>8 DEF Look, Goes, trackerVars
  <2>2. /\ Observed(d) = "missing" /\ outbox[d].kind = "report" => received[d] = 0
        /\ Observed(d) = "delivered" => received[d] = 1
        /\ Observed(d) \notin {"written", "writing"}
    BY DEF Observed, IsNotification
  <2>3. outbox[d].kind = "report" => received[d] <= 1 BY <1>2, <1>4
  <2> QED BY <1>2, <1>4, <2>1, <2>2, <2>3
<1>9. CASE BeginWrite(d)
  <2>1. worker'[d] = "writing" /\ worker[d] = "missing" /\ UNCHANGED <<outbox, received>>
    BY <1>1, <1>9 DEF BeginWrite, Goes, trackerVars
  <2> QED BY <1>2, <1>4, <2>1
<1>10. CASE Write(d) \/ Notify(d)
  <2>1. /\ worker'[d] = "written" /\ worker[d] = "writing" /\ UNCHANGED outbox
        /\ received'[d] = received[d] + 1
    BY <1>1, <1>10 DEF Write, Notify, Goes
  <2> QED BY <1>2, <1>4, <2>1
<1>11. CASE Succeed(d)
  <2>1. worker'[d] = "idle" /\ worker[d] \in {"delivered", "written"} /\ received' = received
    BY <1>1, <1>11 DEF Succeed, Goes, trackerVars
  <2> QED BY <1>2, <1>4, <2>1
<1>12. CASE Fail(d)
  <2>1. PICK status \in Failures(d) : outbox' = Recorded(d, FailedStatus(d, status))
    BY <1>12 DEF Fail
  <2>2. FailedStatus(d, status) \in Statuses /\ FailedStatus(d, status) # "succeeded"
    BY FailureTyped DEF Failures, MutationFailures, CallFailures, LookupFailures, PostFailures, FailedStatus
  <2>3. outbox'[d].status = outbox[d].status \/ outbox'[d].status # "succeeded"
    BY <1>1, <2>1, <2>2, SetStatusKeeps DEF Recorded
  <2>4. worker'[d] = "idle" /\ received' = received
    BY <1>1, <1>12 DEF Fail, Goes, trackerVars
  <2> QED BY <1>2, <1>4, <2>3, <2>4
<1> QED BY <1>5, <1>6, <1>7, <1>8, <1>9, <1>10, <1>11, <1>12 DEF WorkerStep

(* A step that changes deliveries in place.                                *)
LEMMA PlacesKept ==
    ASSUME OutboxInv, outbox' \in Seq(Records), Sent' = Sent, \A x \in Sent : Stays(x),
           \A x \in Ids \ Sent : worker'[x] = worker[x] /\ received'[x] = received[x]
    PROVE  PlacesInv'
<1>1. outbox \in Seq(Records) /\ PlacesInv BY DEF OutboxInv, DeliveryInv, TypeOK, Records
<1>2. Len(outbox') = Len(outbox)
  <2>1. Sent = 1 .. Len(outbox) /\ Len(outbox) \in Nat BY <1>1, Positions
  <2>2. Sent' = 1 .. Len(outbox') /\ Len(outbox') \in Nat BY LenProperties DEF Sent
  <2> QED BY <2>1, <2>2
<1>3. Events' = Events
  <2>1. {x \in Sent' : IsProjection(x)' \/ "projection" \notin Kinds}
           = {x \in Sent : IsProjection(x) \/ "projection" \notin Kinds}
    BY DEF IsProjection, Stays
  <2> QED BY <2>1 DEF Events, IsProjection
<1> QED BY <1>1, <1>2, <1>3 DEF PlacesInv, Ids

(* Every step of a worker preserves the invariant.                         *)
LEMMA WorkerOutbox ==
    ASSUME OutboxInv, NEW d \in Sent, WorkerStep(d)
    PROVE  OutboxInv'
<1>1. DeliveryInv' BY DeliveryWorkerInv DEF OutboxInv
<1>2. /\ outbox \in Seq(Records) /\ outbox' \in Seq(Records) /\ PlacesInv /\ batch \subseteq Sent
      /\ worker \in [Ids -> Stages] /\ d \in Ids /\ Sent \subseteq Ids /\ shown \in Sent \cup {0}
  BY <1>1 DEF OutboxInv, PlacesInv, DeliveryInv, TypeOK, Records
<1>3. /\ Sent' = Sent /\ operated' = operated /\ worker[d] # "idle"
      /\ \A x \in Sent : Stays(x) /\ Unrevived(x)
      /\ \A x \in Sent \ {d} :
            \/ outbox'[x] = outbox[x]
            \/ outbox[x].status # "in-flight" /\ outbox'[x].status = "retired"
      /\ shown' = shown \/ (IsProjection(d) /\ worker[d] = "writing" /\ shown' = d)
      /\ \A x \in Ids \ {d} : received'[x] = received[x]
  BY WorkerShape
<1>4. PICK to : worker' = [worker EXCEPT ![d] = to] /\ batch' = IF to = "idle" THEN batch \ {d} ELSE batch
  BY WorkerShape
<1>5. \A x \in Ids \ {d} : worker'[x] = worker[x] BY <1>2, <1>4
<1>6. PlacesInv'
  <2>1. \A x \in Ids \ Sent : worker'[x] = worker[x] /\ received'[x] = received[x]
    BY <1>2, <1>3, <1>5
  <2> QED BY <1>2, <1>3, <2>1, PlacesKept
<1>7. ASSUME NEW x \in Sent, x # d
      PROVE  SerialInv(x)' /\ (operated' = 0 => LaneInv(x)') /\ ReportInv(x)'
  <2>1. SerialInv(x) /\ (operated = 0 => LaneInv(x)) /\ ReportInv(x) BY DEF OutboxInv
  <2>2. worker'[x] = worker[x] /\ received'[x] = received[x] BY <1>2, <1>3, <1>5, <1>7
  <2>3. Busy(x)' <=> Busy(x) BY <2>2 DEF Busy
  <2>4. Owns(x) => Owns(x)' BY <1>3, <1>7 DEF Owns
  <2>5. SerialInv(x)' BY <1>2, <1>3, <2>1, <2>3, <2>4, SerialKept
  <2>6. ReportInv(x)'
    <3>1. outbox'[x].status = "succeeded" => outbox[x].status = "succeeded" BY <1>3, <1>7
    <3>2. outbox'[x].kind = outbox[x].kind BY <1>3 DEF Stays
    <3> QED BY <2>1, <2>2, <3>1, <3>2 DEF ReportInv, IsProjection
  <2>7. ASSUME operated = 0 PROVE LaneInv(x)'
    <3>1. LaneInv(x) /\ LaneInv(d) BY <2>7 DEF OutboxInv
    <3>2. d \in batch BY <1>3, <3>1 DEF LaneInv
    <3>3. worker'[x] # "idle" => x \in batch' BY <1>4, <1>7, <2>2, <3>1 DEF LaneInv
    <3>4. \A e \in Sent : outbox'[e].status = "succeeded" => outbox[e].status = "succeeded" \/ e \in batch
      BY <1>3, <3>2
    <3>5. ASSUME IsProjection(x), Newer(x) = {},
                 outbox'[x].status = "succeeded" \/ worker'[x] \in {"delivered", "written"}
          PROVE  Label(shown)' = Label(x)
      <4>1. outbox[x].status = "succeeded" \/ worker[x] \in {"delivered", "written"}
        BY <1>3, <1>7, <2>2, <3>5
      <4>2. Label(shown) = Label(x) BY <3>1, <3>5, <4>1 DEF LaneInv
      <4>3. CASE shown' = shown
        <5>1. Label(shown)' = Label(shown) BY <1>2, <1>3, <4>3, StaysMeans
        <5> QED BY <4>2, <5>1
      <4>4. CASE IsProjection(d) /\ worker[d] = "writing"
        <5>1. d \notin Newer(x) BY <3>5
        <5>2. ~(d > x) BY <4>4, <5>1 DEF Newer
        <5>3. x > d BY <1>2, <1>7, <5>2, Positions
        <5>4. x \in Newer(d) BY <3>5, <5>3 DEF Newer
        <5>5. x \notin batch /\ outbox[x].status # "succeeded" BY <3>1, <4>4, <5>4 DEF LaneInv, Busy
        <5>6. worker[x] = "idle" BY <3>1, <5>5 DEF LaneInv
        <5> QED BY <4>1, <5>5, <5>6
      <4> QED BY <1>3, <4>3, <4>4
    <3> QED BY <1>2, <1>3, <1>4, <2>3, <3>1, <3>3, <3>4, <3>5, LaneKept
  <2> QED BY <1>3, <2>5, <2>6, <2>7
<1>8. SerialInv(d)' /\ (operated' = 0 => LaneInv(d)') /\ ReportInv(d)'
  BY <1>1, <1>3, OwnSerial, OwnLane, OwnReport
<1> QED BY <1>1, <1>3, <1>6, <1>7, <1>8 DEF OutboxInv

----------------------------------------------------------------------------
(* The outbox grows.                                                       *)

(* At most one projection at a time is added, in which case there is room  *)
(* for its event.                                                          *)
LEMMA GrowthKeeps ==
    ASSUME OutboxInv, outbox' \in Seq(Records), Events < MaxEvents, Sent \subseteq Sent',
           \A x \in Sent : Stays(x),
           Len(outbox') <= Len(outbox) + IF "projection" \in Kinds THEN 3 ELSE 2,
           "projection" \in Kinds =>
              \E p \in Sent' \ Sent :
                 \A x \in Sent' \ Sent : outbox'[x].kind = "projection" <=> x = p,
           \A x \in Ids \ Sent' : worker'[x] = worker[x], received' = received
    PROVE  PlacesInv'
<1> DEFINE counted == {x \in Sent : IsProjection(x) \/ "projection" \notin Kinds}
           countedNext == {x \in Sent' : outbox'[x].kind = "projection" \/ "projection" \notin Kinds}
<1> MaxEvents \in Nat \ {0} BY DeliveryAssumption
<1>1. outbox \in Seq(Records) /\ PlacesInv BY DEF OutboxInv, DeliveryInv, TypeOK, Records
<1>2. Sent = 1 .. Len(outbox) /\ Len(outbox) \in Nat BY <1>1, Positions
<1>3. Sent' = 1 .. Len(outbox') /\ Len(outbox') \in Nat BY LenProperties DEF Sent
<1>4. IsFiniteSet(Sent) /\ Cardinality(Sent) = Len(outbox)
  <2>1. 1 \in Int /\ Len(outbox) \in Int BY <1>2
  <2>2. IsFiniteSet(1 .. Len(outbox)) /\ Cardinality(1 .. Len(outbox)) = IF 1 > Len(outbox) THEN 0 ELSE Len(outbox) - 1 + 1
    BY <2>1, FS_Interval
  <2>3. (IF 1 > Len(outbox) THEN 0 ELSE Len(outbox) - 1 + 1) = Len(outbox) BY <1>2
  <2> QED BY <1>2, <2>2, <2>3
<1>5. IsFiniteSet(counted)
  <2>1. counted \subseteq Sent OBVIOUS
  <2> QED BY <1>4, <2>1, FS_Subset
<1>6. Cardinality(counted) \in Nat BY <1>5, FS_CardinalityType
<1>7. Events = Cardinality(counted) /\ Events' = Cardinality(countedNext)
  BY DEF Events, IsProjection
<1>8. CASE "projection" \in Kinds
  <2>1. PICK p \in Sent' \ Sent : \A x \in Sent' \ Sent : outbox'[x].kind = "projection" <=> x = p
    BY <1>8
  <2>2. countedNext = counted \cup {p} BY <1>8, <2>1 DEF IsProjection, Stays
  <2>3. Cardinality(counted \cup {p}) = Cardinality(counted) + 1
    <3>1. p \notin counted BY <2>1
    <3> QED BY <1>5, <3>1, FS_AddElement
  <2>4. Events' = Events + 1 BY <1>7, <2>2, <2>3
  <2>5. Len(outbox) <= 3 * Events /\ Events \in Nat BY <1>1, <1>6, <1>7, <1>8 DEF PlacesInv
  <2>6. Len(outbox') <= Len(outbox) + 3 BY <1>8
  <2>7. Len(outbox') <= 3 * Events' /\ Events' <= MaxEvents BY <1>2, <1>3, <2>4, <2>5, <2>6
  <2>8. Len(outbox') <= 3 * MaxEvents BY <1>3, <2>4, <2>5, <2>7
  <2>9. Sent' \subseteq Ids BY <1>3, <2>8 DEF Ids
  <2> QED BY <1>1, <1>8, <2>7, <2>9 DEF PlacesInv, Ids
<1>9. CASE "projection" \notin Kinds
  <2>1. counted = Sent BY <1>9
  <2>2. Len(outbox) < MaxEvents BY <1>4, <1>7, <2>1
  <2>3. Len(outbox') <= Len(outbox) + 2 BY <1>9
  <2>4. Len(outbox') <= MaxEvents + 1 BY <1>2, <1>3, <2>2, <2>3
  <2>5. Sent' \subseteq Ids BY <1>3, <2>4 DEF Ids
  <2> QED BY <1>1, <1>9, <2>4, <2>5 DEF PlacesInv, Ids
<1> QED BY <1>8, <1>9

(* Where the parts of a sequence put together of two are.                  *)
LEMMA TwoParts ==
    ASSUME NEW S, NEW s \in Seq(S), NEW t \in Seq(S)
    PROVE  /\ s \o t \in Seq(S) /\ Len(s \o t) = Len(s) + Len(t)
           /\ \A k \in 1 .. Len(s) : (s \o t)[k] = s[k]
           /\ \A k \in 1 .. Len(t) : (s \o t)[Len(s) + k] = t[k]
<1>1. Len(s) \in Nat /\ Len(t) \in Nat BY LenProperties
<1>2. /\ s \o t \in Seq(S) /\ Len(s \o t) = Len(s) + Len(t)
      /\ \A i \in 1 .. Len(s) + Len(t) : (s \o t)[i] = IF i <= Len(s) THEN s[i] ELSE t[i - Len(s)]
  BY ConcatProperties
<1>3. \A k \in 1 .. Len(s) : (s \o t)[k] = s[k] BY <1>1, <1>2
<1>4. ASSUME NEW k \in 1 .. Len(t) PROVE (s \o t)[Len(s) + k] = t[k]
  <2>1. Len(s) + k \in 1 .. Len(s) + Len(t) /\ ~(Len(s) + k <= Len(s)) /\ (Len(s) + k) - Len(s) = k
    BY <1>1
  <2>2. (s \o t)[Len(s) + k] = t[(Len(s) + k) - Len(s)] BY <1>2, <2>1
  <2> QED BY <2>1, <2>2
<1> QED BY <1>2, <1>3, <1>4

(* Where the parts of a sequence put together of four are.                 *)
LEMMA FourParts ==
    ASSUME NEW S, NEW s \in Seq(S), NEW t \in Seq(S), NEW u \in Seq(S), NEW v \in Seq(S),
           NEW out, out = ((s \o t) \o u) \o v
    PROVE  /\ out \in Seq(S) /\ Len(out) = Len(s) + Len(t) + Len(u) + Len(v)
           /\ \A k \in 1 .. Len(s) : out[k] = s[k]
           /\ \A k \in 1 .. Len(t) : out[Len(s) + k] = t[k]
           /\ \A k \in 1 .. Len(u) : out[Len(s) + Len(t) + k] = u[k]
           /\ \A k \in 1 .. Len(v) : out[Len(s) + Len(t) + Len(u) + k] = v[k]
<1>1. Len(s) \in Nat /\ Len(t) \in Nat /\ Len(u) \in Nat /\ Len(v) \in Nat BY LenProperties
<1> DEFINE st == s \o t
           stu == st \o u
<1>2. /\ st \in Seq(S) /\ Len(st) = Len(s) + Len(t)
      /\ \A k \in 1 .. Len(s) : st[k] = s[k]
      /\ \A k \in 1 .. Len(t) : st[Len(s) + k] = t[k]
  BY ONLY s \in Seq(S), t \in Seq(S), TwoParts
<1> HIDE DEF st
<1>3. /\ stu \in Seq(S) /\ Len(stu) = Len(st) + Len(u)
      /\ \A k \in 1 .. Len(st) : stu[k] = st[k]
      /\ \A k \in 1 .. Len(u) : stu[Len(st) + k] = u[k]
  <2>1. st \in Seq(S) BY <1>2
  <2> QED BY ONLY <2>1, u \in Seq(S), TwoParts
<1>4. out = stu \o v BY DEF st
<1> HIDE DEF stu
<1>5. /\ out \in Seq(S) /\ Len(out) = Len(stu) + Len(v)
      /\ \A k \in 1 .. Len(stu) : out[k] = stu[k]
      /\ \A k \in 1 .. Len(v) : out[Len(stu) + k] = v[k]
  <2>1. stu \in Seq(S) BY <1>3
  <2> QED BY ONLY <1>4, <2>1, v \in Seq(S), TwoParts
<1>6. \A k \in 1 .. Len(s) : out[k] = s[k] BY <1>1, <1>2, <1>3, <1>5
<1>7. \A k \in 1 .. Len(t) : out[Len(s) + k] = t[k]
  <2> TAKE k \in 1 .. Len(t)
  <2>1. Len(s) + k \in 1 .. Len(st) /\ Len(s) + k \in 1 .. Len(stu) BY <1>1, <1>2, <1>3
  <2> QED BY <1>2, <1>3, <1>5, <2>1
<1>8. \A k \in 1 .. Len(u) : out[Len(s) + Len(t) + k] = u[k]
  <2> TAKE k \in 1 .. Len(u)
  <2>1. Len(st) + k \in 1 .. Len(stu) BY <1>1, <1>2, <1>3
  <2> QED BY <1>2, <1>3, <1>5, <2>1
<1>9. \A k \in 1 .. Len(v) : out[Len(s) + Len(t) + Len(u) + k] = v[k] BY <1>2, <1>3, <1>5
<1> QED BY <1>2, <1>3, <1>5, <1>6, <1>7, <1>8, <1>9

(* An event's deliveries, each new and pending; one is a projection.       *)
LEMMA AppendedShape ==
    ASSUME outbox \in Seq(Records), NEW r \in Runs, NEW label \in Labels
    PROVE  LET out == Appended(r, label)
               new == DOMAIN out \ Sent
           IN /\ Len(out) <= Len(outbox) + IF "projection" \in Kinds THEN 3 ELSE 2
              /\ \A x \in new : out[x].status = "pending" /\ out[x].run = r
              /\ "projection" \in Kinds =>
                    \E p \in new : \A x \in new : out[x].kind = "projection" <=> x = p
<1> DEFINE old == WithRetired(r)
           part(kind) == IF kind \in Kinds THEN <<Record(r, kind, label)>> ELSE <<>>
           size(kind) == IF kind \in Kinds THEN 1 ELSE 0
<1>1. \A d \in Sent : outbox[d] \in Records BY RecordOf
<1>2. \A d \in Sent : old[d] \in Records BY <1>1 DEF WithRetired, Retired, Records, Statuses
<1>3. old = [d \in Sent |-> old[d]] BY DEF WithRetired
<1>4. ASSUME NEW kind
      PROVE  /\ part(kind) \in Seq(Records) /\ Len(part(kind)) = size(kind)
             /\ \A k \in 1 .. size(kind) : part(kind)[k] = Record(r, kind, label)
  <2>1. kind \in Kinds => Record(r, kind, label) \in Records BY DEF Record, Records, Statuses
  <2>2. CASE kind \in Kinds
    <3>1. part(kind) = <<Record(r, kind, label)>> /\ size(kind) = 1 BY <2>2
    <3> QED BY <2>1, <2>2, <3>1
  <2>3. CASE kind \notin Kinds
    <3>1. part(kind) = <<>> /\ size(kind) = 0 BY <2>3
    <3> QED BY <3>1
  <2> QED BY <2>2, <2>3
<1>5. Appended(r, label) = ((old \o part("report")) \o part("projection")) \o part("notification")
  BY DEF Appended
<1> HIDE DEF old, part
<1>6. old \in Seq(Records) /\ Len(old) = Len(outbox) BY <1>2, <1>3, ChangedInPlace
<1> DEFINE out == Appended(r, label)
           n == Len(outbox)
           a == size("report")
           b == size("projection")
           c == size("notification")
<1>7. /\ out \in Seq(Records) /\ Len(out) = n + a + b + c
      /\ \A k \in 1 .. a : out[n + k] = Record(r, "report", label)
      /\ \A k \in 1 .. b : out[n + a + k] = Record(r, "projection", label)
      /\ \A k \in 1 .. c : out[n + a + b + k] = Record(r, "notification", label)
  <2> HIDE DEF size
  <2> DEFINE report == part("report")
             projection == part("projection")
             notification == part("notification")
             whole == ((old \o report) \o projection) \o notification
  <2>1. /\ report \in Seq(Records) /\ projection \in Seq(Records) /\ notification \in Seq(Records)
        /\ Len(report) = a /\ Len(projection) = b /\ Len(notification) = c
        /\ \A k \in 1 .. a : report[k] = Record(r, "report", label)
        /\ \A k \in 1 .. b : projection[k] = Record(r, "projection", label)
        /\ \A k \in 1 .. c : notification[k] = Record(r, "notification", label)
    BY <1>4
  <2>2. out = whole BY <1>5
  <2> HIDE DEF report, projection, notification
  <2>3. old \in Seq(Records) BY <1>6
  <2>4. report \in Seq(Records) BY <2>1
  <2>5. projection \in Seq(Records) BY <2>1
  <2>6. notification \in Seq(Records) BY <2>1
  <2>8. whole = ((old \o report) \o projection) \o notification OBVIOUS
  <2> HIDE DEF whole, out
  <2>7. /\ whole \in Seq(Records)
        /\ Len(whole) = Len(old) + Len(report) + Len(projection) + Len(notification)
        /\ \A k \in 1 .. Len(report) : whole[Len(old) + k] = report[k]
        /\ \A k \in 1 .. Len(projection) : whole[Len(old) + Len(report) + k] = projection[k]
        /\ \A k \in 1 .. Len(notification) :
              whole[Len(old) + Len(report) + Len(projection) + k] = notification[k]
    BY ONLY <2>3, <2>4, <2>5, <2>6, <2>8, FourParts
  <2> QED BY <1>6, <2>1, <2>2, <2>7
<1>8. Sent = 1 .. n /\ n \in Nat BY Positions
<1>9. DOMAIN out = 1 .. n + a + b + c BY <1>7, LenProperties
<1>10. {a, b, c} \subseteq {0, 1} OBVIOUS
<1> HIDE DEF out, n, a, b, c
<1>11. ASSUME NEW x \in DOMAIN out \ Sent
       PROVE  \/ x \in n + 1 .. n + a
              \/ x \in n + a + 1 .. n + a + b
              \/ x \in n + a + b + 1 .. n + a + b + c
  BY <1>8, <1>9, <1>10
<1>12. \A x \in n + 1 .. n + a : out[x] = Record(r, "report", label)
  <2> TAKE x \in n + 1 .. n + a
  <2>1. PICK k \in 1 .. a : n + k = x
    <3>1. x - n \in 1 .. a /\ n + (x - n) = x BY <1>8, <1>10
    <3> QED BY <3>1
  <2> QED BY <1>7, <2>1
<1>13. \A x \in n + a + 1 .. n + a + b : out[x] = Record(r, "projection", label)
  <2> TAKE x \in n + a + 1 .. n + a + b
  <2>1. PICK k \in 1 .. b : n + a + k = x
    <3>1. x - (n + a) \in 1 .. b /\ n + a + (x - (n + a)) = x BY <1>8, <1>10
    <3> QED BY <3>1
  <2> QED BY <1>7, <2>1
<1>14. \A x \in n + a + b + 1 .. n + a + b + c : out[x] = Record(r, "notification", label)
  <2> TAKE x \in n + a + b + 1 .. n + a + b + c
  <2>1. PICK k \in 1 .. c : n + a + b + k = x
    <3>1. x - (n + a + b) \in 1 .. c /\ n + a + b + (x - (n + a + b)) = x BY <1>8, <1>10
    <3> QED BY <3>1
  <2> QED BY <1>7, <2>1
<1>15. \A x \in DOMAIN out \ Sent : out[x].status = "pending" /\ out[x].run = r
  BY <1>11, <1>12, <1>13, <1>14 DEF Record
<1>16. Len(out) <= n + IF "projection" \in Kinds THEN 3 ELSE 2
  BY <1>7, <1>8, <1>10 DEF b
<1>17. ASSUME "projection" \in Kinds
       PROVE  \E p \in DOMAIN out \ Sent :
                 \A x \in DOMAIN out \ Sent : out[x].kind = "projection" <=> x = p
  <2>1. b = 1 BY <1>17 DEF b
  <2>2. n + a + 1 \in DOMAIN out \ Sent BY <1>8, <1>9, <1>10, <2>1
  <2>3. ASSUME NEW x \in DOMAIN out \ Sent
        PROVE  out[x].kind = "projection" <=> x = n + a + 1
    <3>1. CASE x \in n + 1 .. n + a
      <4>1. x # n + a + 1 BY <1>8, <1>10, <3>1
      <4>2. out[x].kind = "report" BY <1>12, <3>1 DEF Record
      <4> QED BY <4>1, <4>2
    <3>2. CASE x \in n + a + 1 .. n + a + b
      <4>1. x = n + a + 1 BY <1>8, <1>10, <2>1, <3>2
      <4>2. out[x].kind = "projection" BY <1>13, <3>2 DEF Record
      <4> QED BY <4>1, <4>2
    <3>3. CASE x \in n + a + b + 1 .. n + a + b + c
      <4>1. x # n + a + 1 BY <1>8, <1>10, <2>1, <3>3
      <4>2. out[x].kind = "notification" BY <1>14, <3>3 DEF Record
      <4> QED BY <4>1, <4>2
    <3> QED BY <1>11, <3>1, <3>2, <3>3
  <2> QED BY <2>2, <2>3
<1> QED BY <1>15, <1>16, <1>17 DEF out, n
(* A step that makes no delivery succeed, nor a worker go on, keeps what   *)
(* is known of its report.                                                 *)
LEMMA ReportKept ==
    ASSUME NEW d \in Sent, ReportInv(d), Stays(d), received[d] \in Nat, received'[d] = received[d],
           worker'[d] \in {worker[d], "idle", "claiming"},
           outbox'[d].status = "succeeded" => outbox[d].status = "succeeded"
    PROVE  ReportInv(d)'
<1>1. IsProjection(d)' <=> IsProjection(d) BY DEF IsProjection, Stays
<1> SUFFICES ASSUME ~IsProjection(d)
             PROVE  /\ outbox[d].kind = "report" =>
                          received[d] <= IF worker'[d] \in {"missing", "writing"} THEN 0 ELSE 1
                    /\ outbox'[d].status = "succeeded" \/ worker'[d] \in {"delivered", "written"}
                          => received[d] >= 1
  BY <1>1 DEF ReportInv, Stays
<1> QED BY DEF ReportInv

(* What a step that leaves the tracker alone keeps of the label.           *)
LEMMA LabelKept ==
    ASSUME OutboxInv, operated = 0, outbox' \in Seq(Records), Sent \subseteq Sent', shown' = shown,
           \A x \in Sent : Stays(x), NEW d \in Sent, IsProjection(d), Newer(d) = {},
           outbox[d].status = "succeeded" \/ worker[d] \in {"delivered", "written"}
    PROVE  Label(shown)' = Label(d)
<1>1. outbox \in Seq(Records) /\ shown \in Sent \cup {0}
  BY DEF OutboxInv, DeliveryInv, TypeOK, Records
<1>2. Label(shown)' = Label(shown) BY <1>1, StaysMeans
<1>3. LaneInv(d) BY DEF OutboxInv
<1> QED BY <1>2, <1>3 DEF LaneInv

(* A lifecycle event of a run.                                             *)
LEMMA EventOutbox ==
    ASSUME OutboxInv, NEW r \in Runs, NEW from \in RunStates, from # "absent", NEW to \in Labels,
           Event(r, from, to)
    PROVE  OutboxInv'
<1>1. DeliveryInv' BY EventInv DEF OutboxInv
<1>2. /\ outbox \in Seq(Records) /\ outbox' \in Seq(Records) /\ PlacesInv /\ batch \subseteq Sent
      /\ received \in [Ids -> Nat] /\ Sent \subseteq Ids
  BY <1>1 DEF OutboxInv, PlacesInv, DeliveryInv, TypeOK, Records
<1>3. /\ UNCHANGED <<worker, batch, readiness, shown, received, operated>>
      /\ outbox' = Appended(r, to) /\ Events < MaxEvents
  BY DEF Event, trackerVars
<1>4. /\ Len(outbox') <= Len(outbox) + IF "projection" \in Kinds THEN 3 ELSE 2
      /\ \A x \in Sent' \ Sent : outbox'[x].status = "pending" /\ outbox'[x].run = r
      /\ "projection" \in Kinds =>
            \E p \in Sent' \ Sent : \A x \in Sent' \ Sent : outbox'[x].kind = "projection" <=> x = p
  <2> DEFINE out == Appended(r, to)
  <2>1. /\ Len(out) <= Len(outbox) + IF "projection" \in Kinds THEN 3 ELSE 2
        /\ \A x \in DOMAIN out \ Sent : out[x].status = "pending" /\ out[x].run = r
        /\ "projection" \in Kinds =>
              \E p \in DOMAIN out \ Sent :
                 \A x \in DOMAIN out \ Sent : out[x].kind = "projection" <=> x = p
    BY <1>2, AppendedShape
  <2>2. outbox' = out /\ Sent' = DOMAIN out BY <1>3 DEF Sent
  <2> HIDE DEF out
  <2> QED BY <2>1, <2>2
<1>5. Sent \subseteq Sent' /\ \A x \in Sent : outbox'[x] = WithRetired(r)[x]
  <2> DEFINE out == Appended(r, to)
  <2>1. Sent \subseteq DOMAIN out /\ \A x \in Sent : out[x] = WithRetired(r)[x]
    BY <1>2, AppendedKeeps
  <2>2. outbox' = out /\ Sent' = DOMAIN out BY <1>3 DEF Sent
  <2> HIDE DEF out
  <2> QED BY <2>1, <2>2
<1>6. ASSUME NEW x \in Sent
      PROVE  \/ outbox'[x] = outbox[x]
             \/ /\ outbox[x].run = r /\ IsProjection(x)
                /\ Stays(x) /\ outbox'[x].status = "retired"
  <2>1. outbox[x] \in Records BY <1>2, RecordOf
  <2>2. CASE outbox[x].run = r /\ IsProjection(x) /\ outbox[x].status \notin Final
    <3>1. outbox'[x] = Retired(outbox[x]) BY <1>5, <2>2 DEF WithRetired
    <3> QED BY <2>1, <2>2, <3>1 DEF Retired, Records, Stays
  <2>3. CASE ~(outbox[x].run = r /\ IsProjection(x) /\ outbox[x].status \notin Final)
    BY <1>5, <2>3 DEF WithRetired
  <2> QED BY <2>2, <2>3
<1>7. \A x \in Sent : Stays(x) /\ Unrevived(x)
  <2>1. \A x \in Sent : Unrevived(x) BY EventUnrevived DEF OutboxInv
  <2>2. \A x \in Sent : Stays(x) BY <1>6 DEF Stays
  <2> QED BY <2>1, <2>2
<1>8. PlacesInv' BY <1>2, <1>3, <1>4, <1>5, <1>7, GrowthKeeps
<1>9. ASSUME NEW x \in Sent' \ Sent
      PROVE  SerialInv(x)' /\ LaneInv(x)' /\ ReportInv(x)'
  <2>1. x \in Ids \ Sent BY <1>8 DEF PlacesInv, Ids
  <2>2. worker'[x] = "idle" /\ received'[x] = 0 /\ outbox'[x].status = "pending"
    BY <1>2, <1>3, <1>4, <2>1 DEF PlacesInv
  <2> QED BY <2>2 DEF SerialInv, LaneInv, ReportInv, Busy
<1>10. ASSUME NEW x \in Sent
       PROVE  SerialInv(x)' /\ (operated' = 0 => LaneInv(x)') /\ ReportInv(x)'
  <2>1. SerialInv(x) /\ (operated = 0 => LaneInv(x)) /\ ReportInv(x) BY DEF OutboxInv
  <2>2. Busy(x)' <=> Busy(x) BY <1>3 DEF Busy
  <2>3. SerialInv(x)'
    <3>1. ASSUME IsProjection(x), Owns(x)
          PROVE  \/ Owns(x)'
                 \/ /\ outbox'[x].status = "retired"
                    /\ \E f \in Newer(x)' : outbox'[f].run = outbox'[x].run
      <4>1. CASE outbox'[x] = outbox[x] BY <3>1, <4>1 DEF Owns
      <4>2. CASE outbox[x].run = r /\ Stays(x) /\ outbox'[x].status = "retired"
        <5>1. outbox[x] \in Records BY <1>2, RecordOf
        <5>2. "projection" \in Kinds BY <3>1, <5>1 DEF IsProjection, Records
        <5>3. PICK p \in Sent' \ Sent : outbox'[p].kind = "projection" BY <1>4, <5>2
        <5>4. p > x
          <6>1. Sent = 1 .. Len(outbox) /\ Len(outbox) \in Nat BY <1>2, Positions
          <6>2. Sent' = 1 .. Len(outbox') /\ Len(outbox') \in Nat BY <1>2, LenProperties DEF Sent
          <6> QED BY <6>1, <6>2
        <5>5. p \in Newer(x)' BY <5>3, <5>4 DEF Newer, IsProjection
        <5>6. outbox'[p].run = outbox'[x].run BY <1>4, <4>2 DEF Stays
        <5> QED BY <4>2, <5>5, <5>6
      <4> QED BY <1>6, <4>1, <4>2
    <3> QED BY <1>2, <1>5, <1>7, <2>1, <2>2, <3>1, SerialKept
  <2>4. outbox'[x].status = "succeeded" => outbox[x].status = "succeeded" BY <1>6
  <2>5. ReportInv(x)' BY <1>2, <1>3, <1>7, <2>1, <2>4, ReportKept
  <2>6. ASSUME operated = 0 PROVE LaneInv(x)'
    <3>1. LaneInv(x) BY <2>1, <2>6
    <3>2. worker'[x] # "idle" => x \in batch' BY <1>3, <3>1 DEF LaneInv
    <3>3. \A e \in Sent : outbox'[e].status = "succeeded" => outbox[e].status = "succeeded" \/ e \in batch
      BY <1>6
    <3>4. \A e \in Sent' \ Sent : outbox'[e].status # "succeeded" BY <1>4
    <3>5. batch' \subseteq batch BY <1>3
    <3>6. IsProjection(x) /\ Newer(x) = {}
                /\ (outbox'[x].status = "succeeded" \/ worker'[x] \in {"delivered", "written"})
             => Label(shown)' = Label(x)
      BY <1>2, <1>3, <1>5, <1>7, <2>4, <2>6, LabelKept
    <3> QED BY <1>2, <1>5, <1>7, <2>2, <3>1, <3>2, <3>3, <3>4, <3>5, <3>6, LaneKept
  <2> QED BY <1>3, <2>3, <2>5, <2>6
<1> QED BY <1>1, <1>8, <1>9, <1>10 DEF OutboxInv
(* A retry: what it requeues is not in flight, so no projection is busy.   *)
LEMMA RetryOutbox ==
    ASSUME OutboxInv, NEW d \in Sent, Retry(d)
    PROVE  OutboxInv'
<1>1. DeliveryInv' BY DeliverInv DEF OutboxInv
<1>2. /\ outbox \in Seq(Records) /\ outbox' \in Seq(Records)
      /\ worker \in [Ids -> Stages] /\ received \in [Ids -> Nat] /\ Sent \subseteq Ids
      /\ operated \in Nat
  BY <1>1, DeliveryAssumption DEF OutboxInv, PlacesInv, DeliveryInv, TypeOK, Records
<1>3. /\ outbox' = SetStatus(d, "pending") /\ outbox[d].status \notin Final \cup {"in-flight"}
      /\ worker' = [worker EXCEPT ![d] = IF @ = "idle" THEN "claiming" ELSE @]
      /\ operated' = operated + 1 /\ UNCHANGED <<batch, received>>
  BY DEF Retry, trackerVars
<1>4. /\ Sent' = Sent /\ outbox'[d].status = "pending" /\ \A x \in Sent : Stays(x)
      /\ \A x \in Sent \ {d} : outbox'[x] = outbox[x]
  <2>1. "pending" \in Statuses BY DEF Statuses
  <2>2. Sent' = Sent BY <1>2, <1>3, <2>1, SetStatusKeeps DEF Sent
  <2>3. \A x \in Sent : Stays(x) BY <1>2, <1>3, <2>1, SetStatusKeeps DEF Stays
  <2> QED BY <1>2, <1>3, <2>1, <2>2, <2>3, SetStatusKeeps
<1>5. \A x \in Sent : Unrevived(x) BY RequestUnrevived DEF OutboxInv
<1>6. \A x \in Ids : worker'[x] = worker[x] \/ (x = d /\ worker[x] = "idle" /\ worker'[x] = "claiming")
  BY <1>2, <1>3
<1>7. PlacesInv'
  <2>1. \A x \in Ids \ Sent : worker'[x] = worker[x] /\ received'[x] = received[x] BY <1>3, <1>6
  <2> QED BY <1>2, <1>4, <2>1, PlacesKept
<1>8. ASSUME NEW x \in Sent PROVE SerialInv(x)' /\ ReportInv(x)'
  <2>1. SerialInv(x) /\ ReportInv(x) BY DEF OutboxInv
  <2>2. Busy(x)' => Busy(x) BY <1>2, <1>6 DEF Busy
  <2>3. Owns(x) => Owns(x)' BY <1>3, <1>4 DEF Owns
  <2>4. SerialInv(x)' BY <1>2, <1>4, <1>5, <2>1, <2>2, <2>3, SerialKept
  <2>5. outbox'[x].status = "succeeded" => outbox[x].status = "succeeded" BY <1>4
  <2>6. received[x] \in Nat /\ received'[x] = received[x] BY <1>2, <1>3
  <2>7. worker'[x] \in {worker[x], "idle", "claiming"} BY <1>2, <1>6
  <2>8. ReportInv(x)' BY <1>4, <2>1, <2>5, <2>6, <2>7, ReportKept
  <2> QED BY <2>4, <2>8
<1>9. operated' # 0 BY <1>2, <1>3
<1> QED BY <1>1, <1>4, <1>7, <1>8, <1>9 DEF OutboxInv

(* A repair: the failed projection has no busy worker.                     *)
LEMMA RepairOutbox ==
    ASSUME OutboxInv, NEW d \in Sent, Repair(d)
    PROVE  OutboxInv'
<1> DEFINE old == SetStatus(d, "retired")
           record == Record(outbox[d].run, "projection", run[outbox[d].run])
<1>0. PICK last : last = Len(outbox) + 1 OBVIOUS
<1>1. DeliveryInv' BY RepairInv DEF OutboxInv
<1>2. /\ outbox \in Seq(Records) /\ outbox' \in Seq(Records)
      /\ worker \in [Ids -> Stages] /\ received \in [Ids -> Nat] /\ Sent \subseteq Ids
      /\ operated \in Nat
  BY <1>1, DeliveryAssumption DEF OutboxInv, PlacesInv, DeliveryInv, TypeOK, Records
<1>3. /\ outbox[d].status \in {"permanent-failure", "retryable-failure", "exhausted"}
      /\ outbox' = Append(old, record) /\ worker' = [worker EXCEPT ![Len(outbox')] = "claiming"]
      /\ operated' = operated + 1 /\ UNCHANGED <<batch, received>>
      /\ Events < MaxEvents /\ IsProjection(d)
  BY DEF Repair, Repairable, trackerVars
<1>4. /\ old \in Seq(Records) /\ DOMAIN old = Sent /\ old[d].status = "retired"
      /\ old[d].run = outbox[d].run /\ old[d].kind = outbox[d].kind /\ old[d].label = outbox[d].label
      /\ \A x \in Sent : x # d => old[x] = outbox[x]
  <2>1. "retired" \in Statuses BY DEF Statuses
  <2> QED BY <1>2, <2>1, SetStatusKeeps
<1>5. record.kind = "projection" /\ record.status = "pending" BY DEF Record
<1> HIDE DEF old, record
<1>6. /\ Sent' = Sent \cup {last} /\ Len(outbox') = last /\ outbox'[last] = record
      /\ \A x \in Sent : outbox'[x] = old[x]
  <2>1. Len(old) = Len(outbox) /\ Sent = 1 .. Len(outbox) /\ Len(outbox) \in Nat
    BY <1>2, <1>4, Positions
  <2> QED BY <1>0, <1>3, <1>4, <2>1 DEF Sent
<1>7. last \notin Sent BY <1>0, <1>2, Positions
<1>8. \A x \in Sent : Stays(x) /\ (x # d => outbox'[x] = outbox[x]) BY <1>4, <1>6 DEF Stays
<1>9. \A x \in Sent : Unrevived(x) BY RequestUnrevived DEF OutboxInv
<1>10. \A x \in Ids : worker'[x] = worker[x] \/ (x = last /\ worker'[x] = "claiming")
  BY <1>2, <1>3, <1>6
<1>11. PlacesInv'
  <2>1. "projection" \in Kinds
    <3>1. outbox[d] \in Records BY <1>2, RecordOf
    <3> QED BY <1>3, <3>1 DEF IsProjection, Records
  <2>2. last \in Sent' \ Sent /\ \A x \in Sent' \ Sent : outbox'[x].kind = "projection" <=> x = last
    BY <1>5, <1>6, <1>7
  <2>3. Len(outbox') <= Len(outbox) + 3
    <3>1. Len(outbox) \in Nat BY <1>2, Positions
    <3> QED BY <1>0, <1>6, <3>1
  <2>4. \A x \in Ids \ Sent' : worker'[x] = worker[x] BY <1>6, <1>10
  <2> QED BY <1>2, <1>3, <1>6, <1>8, <2>1, <2>2, <2>3, <2>4, GrowthKeeps
<1>12. ASSUME NEW x \in Sent PROVE SerialInv(x)' /\ ReportInv(x)'
  <2>1. SerialInv(x) /\ ReportInv(x) BY DEF OutboxInv
  <2>2. worker'[x] = worker[x] BY <1>2, <1>7, <1>10
  <2>3. Owns(x) => Owns(x)' BY <1>3, <1>8 DEF Owns
  <2>4. (Busy(x)' <=> Busy(x)) /\ Sent \subseteq Sent' BY <1>6, <2>2 DEF Busy
  <2>5. SerialInv(x)' BY <1>2, <1>8, <1>9, <2>1, <2>3, <2>4, SerialKept
  <2>6. outbox'[x].status = "succeeded" => outbox[x].status = "succeeded" BY <1>4, <1>6, <1>8
  <2>7. received[x] \in Nat /\ received'[x] = received[x] BY <1>2, <1>3
  <2>8. ReportInv(x)' BY <1>8, <2>1, <2>2, <2>6, <2>7, ReportKept
  <2> QED BY <2>5, <2>8
<1>13. SerialInv(last)' /\ ReportInv(last)'
  <2>1. last \in Ids BY <1>6, <1>11 DEF PlacesInv, Ids
  <2>2. ~Busy(last)' BY <1>2, <1>3, <1>6, <2>1 DEF Busy
  <2>3. IsProjection(last)' BY <1>5, <1>6 DEF IsProjection
  <2> QED BY <2>2, <2>3 DEF SerialInv, ReportInv
<1>14. operated' # 0 BY <1>2, <1>3
<1> QED BY <1>1, <1>6, <1>11, <1>12, <1>13, <1>14 DEF OutboxInv
(* The lane delivers what is due, when it waits for nothing: outside an    *)
(* operator's requests no worker is left then.                             *)
LEMMA DeliverPendingOutbox ==
    ASSUME OutboxInv, DeliverPending
    PROVE  OutboxInv'
<1>1. DeliveryInv' BY DeliverInv DEF OutboxInv
<1>2. /\ outbox \in Seq(Records) /\ outbox' \in Seq(Records)
      /\ worker \in [Ids -> Stages] /\ received \in [Ids -> Nat] /\ Sent \subseteq Ids
  BY <1>1 DEF OutboxInv, PlacesInv, DeliveryInv, TypeOK, Records
<1>3. /\ batch = {} /\ batch' = DueNow
      /\ \A x \in Ids : worker'[x] = IF x \in DueNow /\ worker[x] = "idle" THEN "claiming" ELSE worker[x]
      /\ UNCHANGED <<outbox, shown, received, operated>>
  BY DEF DeliverPending, LaneFree, trackerVars
<1>4. Sent' = Sent /\ \A x \in Sent : Stays(x) /\ Unrevived(x) BY <1>3 DEF Sent, Stays, Unrevived
<1>5. PlacesInv'
  <2>1. DueNow \subseteq Sent BY DEF DueNow
  <2>2. \A x \in Ids \ Sent : worker'[x] = worker[x] /\ received'[x] = received[x] BY <1>3, <2>1
  <2> QED BY <1>2, <1>4, <2>2, PlacesKept
<1>6. ASSUME NEW x \in Sent
      PROVE  SerialInv(x)' /\ (operated' = 0 => LaneInv(x)') /\ ReportInv(x)'
  <2>1. SerialInv(x) /\ (operated = 0 => LaneInv(x)) /\ ReportInv(x) BY DEF OutboxInv
  <2>2. Busy(x)' => Busy(x) BY <1>2, <1>3 DEF Busy
  <2>3. SerialInv(x)' BY <1>2, <1>3, <1>4, <2>1, <2>2, SerialKept DEF Owns
  <2>4. worker'[x] \in {worker[x], "idle", "claiming"} BY <1>2, <1>3
  <2>5. received[x] \in Nat /\ received'[x] = received[x] /\ outbox'[x] = outbox[x] BY <1>2, <1>3
  <2>6. ReportInv(x)' BY <1>4, <2>1, <2>4, <2>5, ReportKept
  <2>7. ASSUME operated = 0 PROVE LaneInv(x)'
    <3>1. worker[x] = "idle" BY <1>3, <2>1, <2>7 DEF LaneInv
    <3>2. worker'[x] # "idle" => x \in batch' BY <1>2, <1>3, <3>1
    <3>3. worker'[x] \in {"idle", "claiming"} BY <2>4, <3>1
    <3>4. Newer(x)' = Newer(x) /\ (IsProjection(x)' <=> IsProjection(x)) /\ Label(x)' = Label(x)
      BY <1>3, <1>4 DEF Newer, IsProjection, Label
    <3>5. ASSUME IsProjection(x), Newer(x) = {}, outbox[x].status = "succeeded"
          PROVE  Label(shown)' = Label(x)
      BY <1>2, <1>3, <1>4, <2>7, <3>5, LabelKept
    <3> QED BY <2>5, <3>2, <3>3, <3>4, <3>5 DEF LaneInv, Busy
  <2> QED BY <1>3, <2>3, <2>6, <2>7
<1> QED BY <1>1, <1>4, <1>5, <1>6 DEF OutboxInv

(* A restart leaves no worker and no claim.                                *)
LEMMA RestartOutbox ==
    ASSUME OutboxInv, Restart
    PROVE  OutboxInv'
<1>1. DeliveryInv' BY DeliveryRestartInv DEF OutboxInv
<1>2. /\ outbox \in Seq(Records) /\ outbox' \in Seq(Records) /\ PlacesInv
      /\ worker \in [Ids -> Stages] /\ received \in [Ids -> Nat] /\ Sent \subseteq Ids
  BY <1>1 DEF OutboxInv, PlacesInv, DeliveryInv, TypeOK, Records
<1>3. /\ \A x \in Sent : outbox'[x] = IF outbox[x].status = "in-flight"
            THEN [outbox[x] EXCEPT !.status = InterruptedStatus(x)] ELSE outbox[x]
      /\ Sent' = Sent
  BY DEF Restart, Sent
<1>4. /\ \A x \in Ids : worker'[x] = "idle"
      /\ UNCHANGED <<shown, received, operated>>
  BY DEF Restart, trackerVars
<1>5. ASSUME NEW x \in Sent
      PROVE  Stays(x) /\ (outbox'[x].status = "succeeded" => outbox[x].status = "succeeded")
  <2>1. outbox[x] \in Records BY <1>2, RecordOf
  <2>2. InterruptedStatus(x) # "succeeded" BY DEF InterruptedStatus
  <2>3. CASE outbox[x].status = "in-flight"
    <3>1. outbox'[x] = [outbox[x] EXCEPT !.status = InterruptedStatus(x)] BY <1>3, <2>3
    <3> QED BY <2>1, <2>2, <3>1 DEF Stays, Records
  <2>4. CASE outbox[x].status # "in-flight" BY <1>3, <2>4 DEF Stays
  <2> QED BY <2>3, <2>4
<1>6. PlacesInv'
  <2>1. \A x \in Ids \ Sent : worker'[x] = worker[x] /\ received'[x] = received[x]
    BY <1>2, <1>4 DEF PlacesInv
  <2> QED BY <1>2, <1>3, <1>5, <2>1, PlacesKept
<1>7. ASSUME NEW x \in Sent
      PROVE  SerialInv(x)' /\ (operated' = 0 => LaneInv(x)') /\ ReportInv(x)'
  <2>1. ReportInv(x) /\ worker'[x] = "idle" BY <1>2, <1>4 DEF OutboxInv
  <2>2. received[x] \in Nat /\ received'[x] = received[x] BY <1>2, <1>4
  <2>3. ReportInv(x)' BY <1>5, <2>1, <2>2, ReportKept
  <2>4. SerialInv(x)' BY <2>1 DEF SerialInv, Busy
  <2>5. ASSUME operated = 0 PROVE LaneInv(x)'
    <3>1. /\ IsProjection(x)' <=> IsProjection(x)
          /\ Newer(x) \subseteq Newer(x)' /\ Label(x)' = Label(x)
      BY <1>2, <1>3, <1>5, StaysMeans
    <3>2. IsProjection(x) /\ Newer(x) = {} /\ outbox[x].status = "succeeded" => Label(shown)' = Label(x)
      BY <1>2, <1>3, <1>4, <1>5, <2>5, LabelKept
    <3>3. Newer(x)' = {} => Newer(x) = {} BY <3>1
    <3> QED BY <1>5, <2>1, <3>1, <3>2, <3>3 DEF LaneInv, Busy
  <2> QED BY <1>4, <2>3, <2>4, <2>5
<1> QED BY <1>1, <1>3, <1>6, <1>7 DEF OutboxInv

(* Steps that touch neither the outbox, nor a worker, nor what it wrote.   *)
LEMMA QuietOutbox ==
    ASSUME OutboxInv, DeliveryInv', UNCHANGED <<outbox, worker, batch, shown, received, operated>>
    PROVE  OutboxInv'
<1>1. Sent' = Sent BY DEF Sent
<1>2. PlacesInv' BY <1>1 DEF OutboxInv, PlacesInv, Events, IsProjection, Ids
<1>3. ASSUME NEW x \in Sent
      PROVE  SerialInv(x)' /\ (operated' = 0 => LaneInv(x)') /\ ReportInv(x)'
  <2>1. SerialInv(x) /\ (operated = 0 => LaneInv(x)) /\ ReportInv(x) BY DEF OutboxInv
  <2>2. /\ Newer(x)' = Newer(x) /\ Older(x)' = Older(x) /\ (IsProjection(x)' <=> IsProjection(x))
        /\ Label(x)' = Label(x) /\ Label(shown)' = Label(shown)
    BY <1>1 DEF Newer, Older, IsProjection, Label
  <2>3. (Busy(x)' <=> Busy(x)) /\ (Owns(x)' <=> Owns(x)) BY DEF Busy, Owns
  <2>4. SerialInv(x)' BY <2>1, <2>2, <2>3 DEF SerialInv
  <2>5. operated = 0 => LaneInv(x)' BY <2>1, <2>2, <2>3 DEF LaneInv
  <2>6. ReportInv(x)' BY <2>1, <2>2 DEF ReportInv
  <2> QED BY <2>4, <2>5, <2>6
<1> QED BY <1>1, <1>2, <1>3 DEF OutboxInv
(* The empty outbox.                                                       *)
LEMMA OutboxInit == Init => OutboxInv
<1> SUFFICES ASSUME Init PROVE OutboxInv
  OBVIOUS
<1>1. DeliveryInv BY DeliveryInitInv
<1>2. Sent = {} /\ Len(outbox) = 0 BY DEF Init, Sent
<1>3. Events = 0
  <2>1. {d \in Sent : IsProjection(d) \/ "projection" \notin Kinds} = {} BY <1>2
  <2> QED BY <2>1, FS_EmptySet DEF Events
<1>4. MaxEvents \in Nat BY DeliveryAssumption
<1>5. PlacesInv BY <1>2, <1>3, <1>4 DEF Init, PlacesInv
<1> QED BY <1>1, <1>2, <1>5 DEF OutboxInv

(* Every step preserves the invariant.                                     *)
LEMMA OutboxStep ==
    ASSUME OutboxInv, [Next]_vars
    PROVE  OutboxInv'
<1>1. DeliveryInv' BY DeliveryNextInv DEF OutboxInv
<1>2. CASE UNCHANGED vars BY <1>1, <1>2, QuietOutbox DEF vars, trackerVars
<1>3. ASSUME NEW r \in Runs, Start(r) \/ Pause(r) \/ End(r)
      PROVE  OutboxInv'
  BY <1>3, EventOutbox DEF Start, Pause, End, RunStates, Labels
<1>4. ASSUME NEW r \in Runs, Resume(r) \/ Cancel(r)
      PROVE  OutboxInv'
  BY <1>1, <1>4, QuietOutbox DEF Resume, Cancel, Move, trackerVars
<1>5. CASE NewReadiness BY <1>1, <1>5, QuietOutbox DEF NewReadiness
<1>6. ASSUME NEW d \in Sent, Retry(d) \/ Repair(d) \/ WorkerStep(d)
      PROVE  OutboxInv'
  BY <1>6, RetryOutbox, RepairOutbox, WorkerOutbox
<1> QED
  BY <1>2, <1>3, <1>4, <1>5, <1>6, DeliverPendingOutbox, RestartOutbox DEF Next

(* The invariant of the outbox, its workers and what they wrote.           *)
THEOREM OutboxInvariant == Spec => []OutboxInv
<1>1. OutboxInv /\ [Next]_vars => OutboxInv' BY OutboxStep
<1> QED BY <1>1, OutboxInit, PTL DEF Spec

(* Whoever asks for deliveries, in the lane or outside it, and however     *)
(* events, claims and restarts interleave, two projections are never       *)
(* delivered side by side, unless the older one's claim was retired by an  *)
(* event of its own run: the worker of the newer one started only after    *)
(* every older projection had ended.                                       *)
THEOREM SerializationProven == Spec => []ProjectionsAreSerialized
<1>1. OutboxInv => ProjectionsAreSerialized
  <2> SUFFICES ASSUME OutboxInv, NEW d \in Sent, NEW e \in Sent, IsProjection(d), IsProjection(e),
                      Busy(d), Busy(e), d < e
               PROVE  \E f \in Newer(d) : outbox[f].run = outbox[d].run
    BY DEF ProjectionsAreSerialized, Busy
  <2>1. SerialInv(d) /\ SerialInv(e) BY DEF OutboxInv
  <2>2. d \in Older(e) BY DEF Older
  <2>3. outbox[d].status \in Final BY <2>1, <2>2 DEF SerialInv
  <2>4. ~Owns(d) BY <2>3 DEF Owns, Final
  <2> QED BY <2>1, <2>4 DEF SerialInv
<1> QED BY <1>1, OutboxInvariant, PTL

(* While no operator intervenes, the label the tracker shows is the one of *)
(* the newest projection once that has succeeded: no worker of an older    *)
(* one is left that could still write.                                     *)
THEOREM LabelProven == Spec => []LabelIsCurrent
<1>1. OutboxInv => LabelIsCurrent
  BY DEF OutboxInv, LaneInv, LabelIsCurrent
<1> QED BY <1>1, OutboxInvariant, PTL

(* A report reaches the tracker at most once, through any number of        *)
(* uncertain writes, restarts and retries; what is recorded as succeeded   *)
(* was received.                                                           *)
THEOREM ReportsProven == Spec => []ReportedOnce
<1>1. OutboxInv => ReportedOnce
  <2> SUFFICES ASSUME OutboxInv, NEW d \in Sent, ~IsProjection(d)
               PROVE  /\ outbox[d].kind = "report" => received[d] <= 1
                      /\ outbox[d].status = "succeeded" => received[d] >= 1
    BY DEF ReportedOnce
  <2>1. ReportInv(d) /\ received[d] \in Nat
    BY DEF OutboxInv, PlacesInv, DeliveryInv, TypeOK
  <2> QED BY <2>1 DEF ReportInv
<1> QED BY <1>1, OutboxInvariant, PTL


=============================================================================
