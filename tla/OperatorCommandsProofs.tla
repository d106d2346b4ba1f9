----------------------- MODULE OperatorCommandsProofs -----------------------
(* Machine-checked proofs about OperatorCommands, for every set of         *)
(* requests, every capacity of the record and every number of restarts.    *)
EXTENDS OperatorCommands, FiniteSetTheorems, SequenceTheorems, TLAPS

----------------------------------------------------------------------------
(* The inductive invariant.                                                *)

Known(r) == Recorded(r) \/ Checked(r)

(* A task does what its command is for.                                    *)
TaskInv(r) ==
    /\ tasks[r] \in {"hold", "stop", "stopping"} => kind[r] = "pause-run"
    /\ tasks[r] \in {"release", "resume", "owning"} => kind[r] = "resume-run"
    /\ tasks[r] = "cancel" => kind[r] = "cancel-run"

(* The history has seen the run where the command wanted it: whenever it   *)
(* is there, when a resumption finds it already past that, and when the    *)
(* task has succeeded or the record says so.                               *)
HistoryInv(r) ==
    /\ Known(r) /\ Wanted(r) => r \in reached
    /\ Known(r) /\ kind[r] = "resume-run" /\ run.state \in {"publishing", "blocked"} => r \in reached
    /\ tasks[r] \in {"succeeded", "owning"} => r \in reached
    /\ Status(r) = "succeeded" => r \in reached

CommandsInv ==
    /\ TypeOK
    /\ bounds \in [interruptions : Nat, restarts : Nat]
    /\ \A r \in Requests : TaskInv(r) /\ HistoryInv(r)

----------------------------------------------------------------------------
(* Command records.                                                        *)

Records == [request : Requests \cup {Nobody}, status : Statuses]

(* The records, as a value: at most one for each request.                  *)
WellKept(cmds) ==
    /\ cmds \in Seq(Records)
    /\ Len(cmds) <= MaxRecords
    /\ \A i, j \in DOMAIN cmds : cmds[i].request = cmds[j].request => i = j

RecordedIn(cmds, r) == \E i \in DOMAIN cmds : cmds[i].request = r
StatusIn(cmds, r) ==
    IF RecordedIn(cmds, r) THEN cmds[CHOOSE i \in DOMAIN cmds : cmds[i].request = r].status
    ELSE "none"

(* The model's operators on the command log, as functions of its value.    *)
LEMMA RecordsAreValues ==
    /\ \A r : Recorded(r) <=> RecordedIn(commands, r)
    /\ \A r : Recorded(r)' <=> RecordedIn(commands', r)
    /\ \A r : Status(r) = StatusIn(commands, r)
    /\ \A r : Status(r)' = StatusIn(commands', r)
BY DEF Recorded, RecordedIn, Status, StatusIn

(* In a log that is kept well, a record is the record of its request.      *)
LEMMA StatusOfRecord ==
    ASSUME NEW cmds, WellKept(cmds), NEW i \in DOMAIN cmds
    PROVE  /\ RecordedIn(cmds, cmds[i].request)
           /\ StatusIn(cmds, cmds[i].request) = cmds[i].status
           /\ cmds[i] \in Records
<1> DEFINE r == cmds[i].request
           k == CHOOSE j \in DOMAIN cmds : cmds[j].request = r
<1>1. RecordedIn(cmds, r)
  BY DEF RecordedIn
<1>2. k \in DOMAIN cmds /\ cmds[k].request = r
  OBVIOUS
<1>3. k = i
  BY <1>2 DEF WellKept
<1>4. cmds[i] \in Records
  BY ElementOfSeq, LenProperties DEF WellKept
<1> QED
  BY <1>1, <1>3, <1>4 DEF StatusIn

(* And a recorded request has a record.                                    *)
LEMMA RecordOfRequest ==
    ASSUME NEW cmds, WellKept(cmds), NEW r, RecordedIn(cmds, r)
    PROVE  \E i \in DOMAIN cmds : cmds[i].request = r /\ StatusIn(cmds, r) = cmds[i].status
<1>1. PICK i \in DOMAIN cmds : cmds[i].request = r
  BY DEF RecordedIn
<1> QED
  BY <1>1, StatusOfRecord

(* An update changes the status of one command, and keeps every record.    *)
LEMMA UpdatedRecords ==
    ASSUME WellKept(commands), NEW r, NEW status \in Statuses, RecordedIn(commands, r)
    PROVE  /\ WellKept(Updated(r, status))
           /\ StatusIn(Updated(r, status), r) = status
           /\ \A q : RecordedIn(Updated(r, status), q) <=> RecordedIn(commands, q)
           /\ \A q : q # r => StatusIn(Updated(r, status), q) = StatusIn(commands, q)
<1> DEFINE new == Updated(r, status)
           updated(i) == IF commands[i].request = r THEN [commands[i] EXCEPT !.status = status]
                         ELSE commands[i]
<1>1. /\ Len(commands) \in Nat
      /\ DOMAIN commands = 1 .. Len(commands)
      /\ \A i \in 1 .. Len(commands) : commands[i] \in Records
  BY LenProperties, ElementOfSeq DEF WellKept
<1>2. \A i \in 1 .. Len(commands) :
        /\ updated(i) \in Records
        /\ updated(i).request = commands[i].request
        /\ commands[i].request = r => updated(i).status = status
        /\ commands[i].request # r => updated(i).status = commands[i].status
  BY <1>1 DEF Records
<1>3. new = [i \in 1 .. Len(commands) |-> updated(i)]
  BY <1>1 DEF Updated
<1> HIDE DEF updated
<1>4. new \in Seq(Records) /\ Len(new) = Len(commands) /\ DOMAIN new = DOMAIN commands
  BY <1>1, <1>2, <1>3, IsASeq
<1>5. \A i \in DOMAIN commands :
        /\ new[i].request = commands[i].request
        /\ commands[i].request = r => new[i].status = status
        /\ commands[i].request # r => new[i].status = commands[i].status
  BY <1>1, <1>2, <1>3
<1> HIDE DEF new
<1>6. WellKept(new)
  BY <1>4, <1>5 DEF WellKept
<1>7. \A q : RecordedIn(new, q) <=> RecordedIn(commands, q)
  BY <1>4, <1>5 DEF RecordedIn
<1>8. StatusIn(new, r) = status
  <2>1. PICK i \in DOMAIN new : new[i].request = r /\ StatusIn(new, r) = new[i].status
    BY <1>6, <1>7, RecordOfRequest
  <2> QED
    BY <1>4, <1>5, <2>1
<1>9. ASSUME NEW q, q # r PROVE StatusIn(new, q) = StatusIn(commands, q)
  <2>1. CASE RecordedIn(commands, q)
    <3>1. PICK i \in DOMAIN commands :
            commands[i].request = q /\ StatusIn(commands, q) = commands[i].status
      BY <2>1, RecordOfRequest
    <3>2. StatusIn(new, q) = new[i].status
      BY <1>4, <1>5, <1>6, <3>1, StatusOfRecord
    <3> QED
      BY <1>5, <1>9, <3>1, <3>2
  <2>2. CASE ~RecordedIn(commands, q)
    BY <1>7, <2>2 DEF StatusIn
  <2> QED
    BY <2>1, <2>2
<1> QED
  BY <1>6, <1>7, <1>8, <1>9 DEF new

(* A set of positions that is not empty has a first one.                   *)
LEMMA FirstPosition ==
    ASSUME NEW n \in Nat, NEW S \in SUBSET (1 .. n), S # {}
    PROVE  \E i \in S : \A j \in S : i <= j
<1>1. IsFiniteSet(S)
  <2>1. IsFiniteSet(1 .. n)
    BY FS_Interval
  <2> QED
    BY <2>1, FS_Subset
<1> DEFINE upTo(i) == {j \in S : j <= i}
           initials == {upTo(i) : i \in S}
<1>2. initials \subseteq FiniteSubsetsOf(S)
  <2> SUFFICES ASSUME NEW i \in S PROVE upTo(i) \in FiniteSubsetsOf(S)
    OBVIOUS
  <2>1. upTo(i) \in SUBSET S
    OBVIOUS
  <2>2. IsFiniteSet(upTo(i))
    BY <1>1, <2>1, FS_Subset
  <2> QED
    BY <2>1, <2>2 DEF FiniteSubsetsOf
<1>3. PICK T \in initials : \A U \in initials : <<U, T>> \notin StrictSubsetOrdering(S)
  <2>1. initials # {}
    OBVIOUS
  <2> HIDE DEF initials
  <2> QED
    BY <1>2, <2>1, WFMin, FS_StrictSubsetOrderingWellFounded
<1>4. PICK i \in S : T = upTo(i)
  BY <1>3
<1>5. \A j \in S : i <= j
  <2> SUFFICES ASSUME NEW j \in S, j < i PROVE FALSE
    BY <1>4
  <2>1. \A k \in S : k <= j => k <= i
    <3> SUFFICES ASSUME NEW k \in S, k <= j PROVE k <= i
      OBVIOUS
    <3>1. i \in Nat /\ j \in Nat /\ k \in Nat
      BY <1>4
    <3> QED
      BY <3>1
  <2>2. i \in S /\ i <= i /\ ~(i <= j)
    BY <1>4
  <2>3. upTo(j) \subseteq upTo(i) /\ i \in upTo(i) /\ i \notin upTo(j)
    BY <2>1, <2>2
  <2>4. <<upTo(j), upTo(i)>> \in StrictSubsetOrdering(S)
    BY <2>3 DEF StrictSubsetOrdering
  <2> QED
    BY <1>3, <1>4, <2>4
<1> QED
  BY <1>4, <1>5

(* To remove a record leaves the others in their order.                    *)
LEMMA RemovedRecord ==
    ASSUME WellKept(commands), NEW o \in DOMAIN commands
    PROVE  LET rest == RemoveAt(commands, o) IN
           /\ rest \in Seq(Records)
           /\ Len(rest) = Len(commands) - 1
           /\ DOMAIN rest = 1 .. Len(commands) - 1
           /\ \A i \in DOMAIN rest : rest[i] = commands[IF i < o THEN i ELSE i + 1]
<1> DEFINE n == Len(commands)
           front == SubSeq(commands, 1, o - 1)
           back == SubSeq(commands, o + 1, n)
<1>1. n \in Nat /\ DOMAIN commands = 1 .. n /\ \A i \in 1 .. n : commands[i] \in Records
  BY LenProperties, ElementOfSeq DEF WellKept
<1>2. o \in 1 .. n /\ o - 1 \in Int /\ o + 1 \in Int /\ 1 \in Int /\ n \in Int
  BY <1>1
<1> HIDE DEF n
<1>3. /\ front \in Seq(Records)
      /\ Len(front) = o - 1
      /\ \A i \in 1 .. o - 1 : front[i] = commands[i]
  <2>1. \A i \in 1 .. o - 1 : commands[i] \in Records
    BY <1>1, <1>2
  <2>2. /\ front \in Seq(Records)
        /\ Len(front) = IF 1 <= o - 1 THEN (o - 1) - 1 + 1 ELSE 0
        /\ \A i \in 1 .. (o - 1) - 1 + 1 : front[i] = commands[1 + i - 1]
    BY <1>2, <2>1, SubSeqProperties
  <2> HIDE DEF front
  <2> QED
    BY <1>2, <2>2
<1>4. /\ back \in Seq(Records)
      /\ Len(back) = n - o
      /\ \A i \in 1 .. n - o : back[i] = commands[o + i]
  <2>1. \A i \in o + 1 .. n : commands[i] \in Records
    BY <1>1, <1>2
  <2>2. /\ back \in Seq(Records)
        /\ Len(back) = IF o + 1 <= n THEN n - (o + 1) + 1 ELSE 0
        /\ \A i \in 1 .. n - (o + 1) + 1 : back[i] = commands[(o + 1) + i - 1]
    BY <1>2, <2>1, SubSeqProperties
  <2> HIDE DEF back
  <2>3. n - (o + 1) + 1 = n - o /\ Len(back) = n - o
    BY <1>2, <2>2
  <2>4. ASSUME NEW i \in 1 .. n - o PROVE back[i] = commands[o + i]
    <3>1. (o + 1) + i - 1 = o + i
      BY <1>2
    <3> QED
      BY <2>2, <2>3, <3>1
  <2> QED
    BY <2>2, <2>3, <2>4
<1> HIDE DEF front, back
<1> DEFINE rest == front \o back
<1>5. /\ rest \in Seq(Records)
      /\ Len(rest) = n - 1
      /\ \A i \in 1 .. n - 1 : rest[i] = IF i <= o - 1 THEN front[i] ELSE back[i - (o - 1)]
  <2>1. /\ rest \in Seq(Records)
        /\ Len(rest) = Len(front) + Len(back)
        /\ \A i \in 1 .. Len(front) + Len(back) :
             rest[i] = IF i <= Len(front) THEN front[i] ELSE back[i - Len(front)]
    BY <1>3, <1>4, ConcatProperties
  <2>2. Len(front) + Len(back) = n - 1
    BY <1>2, <1>3, <1>4
  <2> HIDE DEF rest
  <2> QED
    BY <1>3, <2>1, <2>2
<1>6. RemoveAt(commands, o) = rest
  BY DEF RemoveAt, rest, front, back, n
<1> HIDE DEF rest
<1>7. DOMAIN rest = 1 .. n - 1
  BY <1>5, LenProperties
<1>8. ASSUME NEW i \in 1 .. n - 1
      PROVE  rest[i] = commands[IF i < o THEN i ELSE i + 1]
  <2>1. CASE i < o
    BY <1>2, <1>3, <1>5, <1>8, <2>1
  <2>2. CASE ~(i < o)
    <3>1. i - (o - 1) \in 1 .. n - o /\ o + (i - (o - 1)) = i + 1 /\ ~(i <= o - 1)
      BY <1>2, <1>8, <2>2
    <3>2. rest[i] = back[i - (o - 1)]
      BY <1>5, <1>8, <3>1
    <3>3. back[i - (o - 1)] = commands[o + (i - (o - 1))]
      BY <1>4, <3>1
    <3> QED
      BY <2>2, <3>1, <3>2, <3>3
  <2> QED
    BY <2>1, <2>2
<1> QED
  BY <1>5, <1>6, <1>7, <1>8 DEF n

(* A new record takes the place of a finished one at most.                 *)
LEMMA AcceptedRecords ==
    ASSUME WellKept(commands), NEW r \in Requests, ~RecordedIn(commands, r),
           AtCapacity => Removable # {}
    PROVE  /\ WellKept(Accepted(r))
           /\ RecordedIn(Accepted(r), r)
           /\ StatusIn(Accepted(r), r) = "accepted"
           /\ \A q : q # r =>
                \/ /\ RecordedIn(Accepted(r), q) <=> RecordedIn(commands, q)
                   /\ StatusIn(Accepted(r), q) = StatusIn(commands, q)
                \/ /\ StatusIn(commands, q) \in Outcomes
                   /\ ~RecordedIn(Accepted(r), q)
<1> DEFINE oldest == CHOOSE i \in Removable : \A j \in Removable : i <= j
           kept == IF AtCapacity THEN RemoveAt(commands, oldest) ELSE commands
           record == [request |-> r, status |-> "accepted"]
           new == Append(kept, record)
<1>0. /\ Len(commands) \in Nat
      /\ DOMAIN commands = 1 .. Len(commands)
      /\ MaxRecords \in Nat \ {0}
  BY LenProperties, OperatorCommandsAssumption DEF WellKept
<1>1. record \in Records
  BY DEF Records, Statuses
<1>2. /\ kept \in Seq(Records)
      /\ Len(kept) \in Nat
      /\ Len(kept) < MaxRecords
      /\ DOMAIN kept = 1 .. Len(kept)
      /\ \A i, j \in DOMAIN kept : kept[i].request = kept[j].request => i = j
      /\ \A i \in DOMAIN kept : \E k \in DOMAIN commands : kept[i] = commands[k]
      /\ \A k \in DOMAIN commands :
           (\E i \in DOMAIN kept : kept[i] = commands[k]) \/ (commands[k].status \in Outcomes
              /\ \A i \in DOMAIN kept : kept[i].request # commands[k].request)
  <2>1. CASE ~AtCapacity
    BY <1>0, <2>1 DEF WellKept, AtCapacity
  <2>2. CASE AtCapacity
    <3>1. oldest \in Removable
      <4>1. Removable \in SUBSET (1 .. Len(commands)) /\ Removable # {}
        BY <1>0, <2>2 DEF Removable
      <4>2. \E i \in Removable : \A j \in Removable : i <= j
        BY <1>0, <4>1, FirstPosition
      <4> QED
        BY <4>2
    <3> HIDE DEF oldest
    <3>2. /\ oldest \in 1 .. Len(commands)
          /\ oldest \in DOMAIN commands
          /\ commands[oldest].status \in Outcomes
      BY <1>0, <3>1 DEF Removable
    <3>3. kept = RemoveAt(commands, oldest)
      BY <2>2
    <3>4. /\ kept \in Seq(Records)
          /\ Len(kept) = Len(commands) - 1
          /\ DOMAIN kept = 1 .. Len(commands) - 1
          /\ \A i \in DOMAIN kept : kept[i] = commands[IF i < oldest THEN i ELSE i + 1]
      BY <3>2, <3>3, RemovedRecord
    <3> HIDE DEF kept
    <3>5. /\ Len(commands) - 1 \in Nat
          /\ Len(commands) - 1 < MaxRecords
      BY <1>0, <3>2 DEF WellKept
    <3>6. \A i \in DOMAIN kept :
            /\ (IF i < oldest THEN i ELSE i + 1) \in DOMAIN commands \ {oldest}
      BY <1>0, <3>2, <3>4
    <3>7. \A i, j \in DOMAIN kept : kept[i].request = kept[j].request => i = j
      <4> SUFFICES ASSUME NEW i \in DOMAIN kept, NEW j \in DOMAIN kept,
                          kept[i].request = kept[j].request
                   PROVE  i = j
        OBVIOUS
      <4>1. (IF i < oldest THEN i ELSE i + 1) = (IF j < oldest THEN j ELSE j + 1)
        BY <3>4, <3>6 DEF WellKept
      <4>2. i \in Int /\ j \in Int /\ oldest \in Int
        BY <1>0, <3>2, <3>4
      <4> QED
        BY <4>1, <4>2
    <3>8. ASSUME NEW k \in DOMAIN commands, k # oldest
          PROVE  \E i \in DOMAIN kept : kept[i] = commands[k]
      <4> DEFINE i == IF k < oldest THEN k ELSE k - 1
      <4>1. k \in 1 .. Len(commands)
        BY <1>0
      <4>2. i \in 1 .. Len(commands) - 1 /\ (IF i < oldest THEN i ELSE i + 1) = k
        BY <1>0, <3>2, <3>8, <4>1
      <4> HIDE DEF i
      <4>3. kept[i] = commands[k]
        BY <3>4, <4>2
      <4> QED
        BY <3>4, <4>2, <4>3
    <3>9. \A i \in DOMAIN kept : kept[i].request # commands[oldest].request
      BY <3>2, <3>4, <3>6 DEF WellKept
    <3> QED
      BY <3>2, <3>4, <3>5, <3>6, <3>7, <3>8, <3>9
  <2> QED
    BY <2>1, <2>2
<1>3. Accepted(r) = new
  BY DEF Accepted
<1> HIDE DEF kept, oldest
<1>4. /\ new \in Seq(Records)
      /\ Len(new) = Len(kept) + 1
      /\ DOMAIN new = 1 .. Len(kept) + 1
      /\ \A i \in DOMAIN kept : new[i] = kept[i]
      /\ new[Len(kept) + 1] = record
  BY <1>1, <1>2, AppendProperties, LenProperties
<1> HIDE DEF new
<1>5. \A i \in DOMAIN kept : kept[i].request # r
  BY <1>2 DEF RecordedIn
<1>6. WellKept(new)
  <2>1. Len(new) <= MaxRecords
    BY <1>0, <1>2, <1>4
  <2>2. \A i \in DOMAIN new : i \in DOMAIN kept \/ i = Len(kept) + 1
    BY <1>2, <1>4
  <2>3. ASSUME NEW i \in DOMAIN new, NEW j \in DOMAIN new, new[i].request = new[j].request
        PROVE  i = j
    BY <1>2, <1>4, <1>5, <2>2, <2>3
  <2> QED
    BY <1>4, <2>1, <2>3 DEF WellKept
<1>7. RecordedIn(new, r) /\ StatusIn(new, r) = "accepted"
  <2>1. Len(kept) + 1 \in DOMAIN new
    BY <1>2, <1>4
  <2>2. /\ RecordedIn(new, new[Len(kept) + 1].request)
        /\ StatusIn(new, new[Len(kept) + 1].request) = new[Len(kept) + 1].status
    BY <1>6, <2>1, StatusOfRecord
  <2> QED
    BY <1>4, <2>2
<1>8. ASSUME NEW q, q # r
      PROVE  \/ /\ RecordedIn(new, q) <=> RecordedIn(commands, q)
                /\ StatusIn(new, q) = StatusIn(commands, q)
             \/ /\ StatusIn(commands, q) \in Outcomes
                /\ ~RecordedIn(new, q)
  <2>1. \A i \in DOMAIN new : new[i].request = q => i \in DOMAIN kept
    BY <1>2, <1>4, <1>8
  <2>2. CASE ~RecordedIn(commands, q)
    <3>1. ~RecordedIn(new, q)
      BY <1>2, <1>4, <2>1, <2>2 DEF RecordedIn
    <3> QED
      BY <2>2, <3>1 DEF StatusIn
  <2>3. CASE RecordedIn(commands, q)
    <3>1. PICK k \in DOMAIN commands :
            commands[k].request = q /\ StatusIn(commands, q) = commands[k].status
      BY <2>3, RecordOfRequest
    <3>2. CASE \E i \in DOMAIN kept : kept[i] = commands[k]
      <4>1. PICK i \in DOMAIN kept : kept[i] = commands[k]
        BY <3>2
      <4>2. i \in DOMAIN new /\ new[i] = commands[k]
        BY <1>2, <1>4, <4>1
      <4>3. RecordedIn(new, q) /\ StatusIn(new, q) = commands[k].status
        BY <1>6, <3>1, <4>2, StatusOfRecord
      <4> QED
        BY <2>3, <3>1, <4>3
    <3>3. CASE /\ commands[k].status \in Outcomes
               /\ \A i \in DOMAIN kept : kept[i].request # commands[k].request
      <4>1. ~RecordedIn(new, q)
        BY <1>4, <2>1, <3>1, <3>3 DEF RecordedIn
      <4> QED
        BY <3>1, <3>3, <4>1
    <3> QED
      BY <1>2, <3>2, <3>3
  <2> QED
    BY <2>2, <2>3
<1> QED
  BY <1>3, <1>6, <1>7, <1>8

----------------------------------------------------------------------------
(* What every step must keep.                                              *)

RunRecords == [state : RunStates, stranded : BOOLEAN, cancelledBy : Requests \cup {Nobody}]
Calls == [request : Requests, step : {"sent", "checked"}, answered : BOOLEAN]

(* TypeOK, with its sets named.                                            *)
Typed ==
    /\ run \in RunRecords
    /\ WellKept(commands)
    /\ tasks \in [Requests -> Steps]
    /\ \A r \in Requests : tasks[r] # Idle => Active(r)
    /\ service \in {"up", "withdrawn", "down"}
    /\ calls \subseteq Calls
    /\ browser \in [Requests -> Waiting \cup Shown]
    /\ kind \in [Requests -> Kinds]
    /\ reached \subseteq Requests
    /\ bounds.interruptions \in 0..MaxInterruptions
    /\ bounds.restarts \in 0..MaxRestarts

(* The types, with the log's apart.                                        *)
LEMMA TypeParts == (TypeOK <=> Typed) /\ (TypeOK' <=> Typed')
BY DEF TypeOK, Typed, WellKept, Records, RunRecords, Calls

(* The history of one command: what has to be shown of a step.             *)
LEMMA HistoryStep ==
    ASSUME CommandsInv, Observe, UNCHANGED kind, NEW r \in Requests,
           Known(r)' => Known(r) \/ (UNCHANGED run /\ MayBe(r)),
           run'.state \in {"publishing", "blocked"} =>
               run'.state = run.state \/ (run.state = "implementing" /\ (Known(r)' => Known(r))),
           Status(r)' = "succeeded" => Status(r) = "succeeded" \/ tasks[r] = "succeeded",
           tasks'[r] # Idle => Active(r)',
           tasks'[r] \in {"succeeded", "owning"} =>
               tasks[r] \in {"succeeded", "owning"} \/ Wanted(r)' \/ r \in reached
    PROVE  HistoryInv(r)'
<1>1. Known(r)' /\ (r \in reached \/ Wanted(r)') => r \in reached'
  BY DEF Observe, Known
<1>2. HistoryInv(r)
  BY DEF CommandsInv
<1>3. Known(r)' /\ kind'[r] = "resume-run" /\ run'.state \in {"publishing", "blocked"} => r \in reached'
  <2>1. SUFFICES ASSUME Known(r)', kind[r] = "resume-run", run'.state \in {"publishing", "blocked"}
                 PROVE  r \in reached
    BY <1>1
  <2>2. CASE run'.state = run.state
    <3>1. ~MayBe(r)
      BY <2>1, <2>2 DEF MayBe
    <3> QED
      BY <1>2, <2>1, <2>2, <3>1 DEF HistoryInv
  <2>3. CASE run.state = "implementing" /\ (Known(r)' => Known(r))
    <3>1. Known(r) /\ Wanted(r)
      BY <2>1, <2>3 DEF Wanted
    <3> QED
      BY <1>2, <3>1 DEF HistoryInv
  <2> QED
    BY <2>1, <2>2, <2>3
<1>4. Status(r)' = "succeeded" => Known(r)'
  BY DEF Status, Known
<1>5. Active(r)' => Known(r)'
  BY DEF Active, Unfinished, Status, Known
<1>6. tasks'[r] \in {"succeeded", "owning"} => r \in reached'
  BY <1>1, <1>2, <1>5 DEF HistoryInv, Idle
<1>7. Status(r)' = "succeeded" => r \in reached'
  BY <1>1, <1>2, <1>4 DEF HistoryInv
<1> QED
  BY <1>1, <1>3, <1>6, <1>7 DEF HistoryInv

(* A step that leaves records and tasks alone, and lets no call pass.      *)
LEMMA OutsideStep ==
    ASSUME CommandsInv, Observe, UNCHANGED <<commands, tasks, kind>>,
           run' \in RunRecords,
           service' \in {"up", "withdrawn", "down"},
           calls' \subseteq Calls,
           \A r \in Requests : Checked(r)' => Checked(r) \/ Recorded(r) \/ (UNCHANGED run /\ MayBe(r)),
           run'.state \in {"publishing", "blocked"} =>
               run'.state = run.state \/ (run.state = "implementing" /\ UNCHANGED calls),
           browser' \in [Requests -> Waiting \cup Shown],
           bounds' \in [interruptions : 0..MaxInterruptions, restarts : 0..MaxRestarts]
    PROVE  CommandsInv'
<1>1. TypeOK
  BY DEF CommandsInv
<1>2. \A r \in Requests : /\ Recorded(r)' <=> Recorded(r)
                          /\ Status(r)' = Status(r)
                          /\ Active(r)' <=> Active(r)
  BY DEF Recorded, Status, Active
<1>3. reached' \subseteq Requests
  BY DEF Observe
<1>4. TypeOK'
  BY <1>1, <1>2, <1>3, TypeParts DEF Typed
<1>5. ASSUME NEW r \in Requests PROVE TaskInv(r)' /\ HistoryInv(r)'
  <2>1. TaskInv(r)'
    BY DEF CommandsInv, TaskInv
  <2>2. Known(r)' => Known(r) \/ (UNCHANGED run /\ MayBe(r))
    BY <1>2 DEF Known
  <2>3. UNCHANGED calls => (Known(r)' => Known(r))
    BY <1>2 DEF Known, Checked
  <2>4. tasks'[r] # Idle => Active(r)'
    BY <1>1, <1>2, TypeParts DEF Typed
  <2> QED
    BY <1>2, <2>1, <2>2, <2>3, <2>4, HistoryStep
<1>6. bounds' \in [interruptions : Nat, restarts : Nat]
  BY OperatorCommandsAssumption
<1> QED
  BY <1>4, <1>5, <1>6 DEF CommandsInv

(* What the types say of the bounds.                                       *)
LEMMA BoundsOf ==
    ASSUME CommandsInv
    PROVE  bounds \in [interruptions : 0..MaxInterruptions, restarts : 0..MaxRestarts]
BY TypeParts DEF CommandsInv, Typed

(* The run moves on, and the browsers ask.                                 *)
LEMMA ProceedKeepsInv ==
    ASSUME CommandsInv, Observe, Proceed
    PROVE  CommandsInv'
<1>1. TypeOK /\ run \in RunRecords
  BY TypeParts DEF CommandsInv, Typed
<1>2. PICK state \in RunStates : /\ Become(state)
                                 /\ state \in {"publishing", "blocked"} => run.state = "implementing"
  BY DEF Proceed, Dispatch, AgentEnds, Executing, RunStates
<1>3. run' \in RunRecords /\ run'.state = state
  BY <1>1, <1>2 DEF Become, RunRecords
<1>4. UNCHANGED <<commands, tasks, service, calls, browser, kind, bounds>>
  BY DEF Proceed
<1>5. \A r \in Requests : Checked(r)' <=> Checked(r)
  BY <1>4 DEF Checked
<1> QED
  BY <1>1, <1>2, <1>3, <1>4, <1>5, TypeParts, BoundsOf, OutsideStep DEF Typed

(* A browser that asks, gives up or asks again changes no record.          *)
LEMMA BrowserKeepsInv ==
    ASSUME CommandsInv, Observe, NEW r \in Requests, Issue(r) \/ Interrupt(r) \/ Follow(r)
    PROVE  CommandsInv'
<1>1. /\ TypeOK
      /\ run \in RunRecords
      /\ calls \subseteq Calls
      /\ service \in {"up", "withdrawn", "down"}
      /\ browser \in [Requests -> Waiting \cup Shown]
  BY TypeParts DEF CommandsInv, Typed
<1>2. UNCHANGED <<run, commands, tasks, service, kind>>
  BY DEF Issue, Interrupt, Follow
<1>3. /\ calls' \subseteq Calls
      /\ \A q \in Requests : Checked(q)' => Checked(q)
  <2>0. Call(r, "sent", TRUE) \in Calls /\ Call(r, "sent", TRUE).step = "sent"
    BY DEF Call, Calls
  <2>1. CASE calls' = calls
    BY <1>1, <2>1 DEF Checked
  <2>2. CASE calls' = calls \cup {Call(r, "sent", TRUE)}
    BY <1>1, <2>0, <2>2 DEF Checked
  <2>3. CASE calls' = {c \in calls : c.request # r}
    BY <1>1, <2>3 DEF Checked
  <2>4. CASE calls' = BrokenOff(r)
    <3>1. \A c \in calls : /\ [c EXCEPT !.answered = FALSE] \in Calls
                           /\ [c EXCEPT !.answered = FALSE].request = c.request
                           /\ [c EXCEPT !.answered = FALSE].step = c.step
      BY <1>1 DEF Calls
    <3>2. \A c \in calls' : c \in Calls /\ \E d \in calls : d.request = c.request /\ d.step = c.step
      BY <1>1, <2>4, <3>1 DEF BrokenOff
    <3> QED
      BY <3>2 DEF Checked
  <2> QED
    BY <2>1, <2>2, <2>3, <2>4 DEF Issue, Interrupt, Follow
<1>4. browser' \in [Requests -> Waiting \cup Shown]
  <2>1. \E shown \in Waiting \cup Shown : browser' = [browser EXCEPT ![r] = shown]
    <3>1. CASE Issue(r)
      BY <3>1 DEF Issue, Show, Waiting
    <3>2. CASE Interrupt(r)
      BY <3>2 DEF Interrupt, Show, Waiting, Shown
    <3>3. CASE Follow(r)
      <4>1. \/ Show(r, "rejected")
            \/ Status(r) \in Outcomes /\ Show(r, Status(r))
            \/ Show(r, "submitting")
        BY <3>3 DEF Follow
      <4> QED
        BY <4>1 DEF Show, Waiting, Shown, Outcomes
    <3> QED
      BY <3>1, <3>2, <3>3
  <2> QED
    BY <1>1, <2>1
<1>5. bounds' \in [interruptions : 0..MaxInterruptions, restarts : 0..MaxRestarts]
  <2>1. CASE bounds' = bounds
    BY <2>1, BoundsOf
  <2>2. CASE /\ bounds.interruptions < MaxInterruptions
             /\ bounds' = [bounds EXCEPT !.interruptions = bounds.interruptions + 1]
    <3>1. bounds.interruptions + 1 \in 0 .. MaxInterruptions
      BY <2>2, BoundsOf, OperatorCommandsAssumption
    <3> QED
      BY <2>2, <3>1, BoundsOf
  <2> QED
    BY <2>1, <2>2 DEF Issue, Interrupt, Follow
<1> QED
  BY <1>1, <1>2, <1>3, <1>4, <1>5, OutsideStep

(* The precondition lets a call pass only of a run that the command may    *)
(* still want something of, or of a command that is recorded.              *)
LEMMA ReceiveKeepsInv ==
    ASSUME CommandsInv, Observe, NEW c \in calls, Receive(c)
    PROVE  CommandsInv'
<1>1. /\ TypeOK
      /\ run \in RunRecords
      /\ calls \subseteq Calls
      /\ service \in {"up", "withdrawn", "down"}
      /\ browser \in [Requests -> Waiting \cup Shown]
  BY TypeParts DEF CommandsInv, Typed
<1>2. UNCHANGED <<run, commands, tasks, service, kind, bounds>>
  BY DEF Receive
<1>3. c \in Calls
  BY <1>1
<1>4. CASE /\ Recorded(c.request) \/ MayBe(c.request)
           /\ calls' = (calls \ {c}) \cup {[c EXCEPT !.step = "checked"]}
           /\ UNCHANGED browser
  <2>1. /\ [c EXCEPT !.step = "checked"] \in Calls
        /\ [c EXCEPT !.step = "checked"].request = c.request
    BY <1>3 DEF Calls
  <2>2. calls' \subseteq Calls
    BY <1>1, <1>4, <2>1
  <2>3. \A r \in Requests : Checked(r)' => Checked(r) \/ r = c.request
    BY <1>4, <2>1 DEF Checked
  <2> QED
    BY <1>1, <1>2, <1>4, <2>2, <2>3, BoundsOf, OutsideStep
<1>5. CASE Answer(c, "rejected")
  <2>1. calls' = calls \ {c}
    BY <1>5 DEF Answer
  <2>2. browser' \in [Requests -> Waiting \cup Shown]
    BY <1>1, <1>3, <1>5 DEF Answer, Show, Shown, Outcomes, Calls
  <2>3. \A r \in Requests : Checked(r)' => Checked(r)
    BY <2>1 DEF Checked
  <2> QED
    BY <1>1, <1>2, <2>1, <2>2, <2>3, BoundsOf, OutsideStep
<1> QED
  BY <1>4, <1>5 DEF Receive

----------------------------------------------------------------------------
(* Acceptance, and the tasks.                                              *)

(* Scheduling tasks starts only idle ones, and only of the given requests. *)
LEMMA Scheduled ==
    ASSUME CommandsInv, NEW rs, NEW new, new \in {StartedBy(rs), Scheduling(rs)}
    PROVE  /\ new \in [Requests -> Steps]
           /\ \A r \in Requests : \/ new[r] = tasks[r]
                                  \/ r \in rs /\ tasks[r] = Idle /\ new[r] = "scheduled"
<1>1. tasks \in [Requests -> Steps]
  BY TypeParts DEF CommandsInv, Typed
<1>2. CASE new = tasks
  BY <1>1, <1>2
<1>3. CASE new = Scheduling(rs)
  BY <1>1, <1>3 DEF Scheduling, Steps
<1> QED
  BY <1>2, <1>3 DEF StartedBy

(* A step of records and tasks.                                            *)
LEMMA TasksStep ==
    ASSUME CommandsInv, Observe, UNCHANGED kind,
           run' \in RunRecords,
           WellKept(commands'),
           tasks' \in [Requests -> Steps],
           service' \in {"up", "withdrawn", "down"},
           calls' \subseteq Calls,
           browser' \in [Requests -> Waiting \cup Shown],
           bounds' \in [interruptions : 0..MaxInterruptions, restarts : 0..MaxRestarts],
           run'.state \in {"publishing", "blocked"} => run'.state = run.state,
           \A r \in Requests :
               /\ tasks'[r] # Idle => Active(r)'
               /\ TaskInv(r)'
               /\ Known(r)' => Known(r)
               /\ Status(r)' = "succeeded" => Status(r) = "succeeded" \/ tasks[r] = "succeeded"
               /\ tasks'[r] \in {"succeeded", "owning"} =>
                     tasks[r] \in {"succeeded", "owning"} \/ Wanted(r)' \/ r \in reached
    PROVE  CommandsInv'
<1>1. reached' \subseteq Requests
  BY DEF Observe
<1>2. kind \in [Requests -> Kinds]
  BY TypeParts DEF CommandsInv, Typed
<1>3. TypeOK'
  BY <1>1, <1>2, TypeParts DEF Typed
<1>4. \A r \in Requests : HistoryInv(r)'
  BY HistoryStep
<1>5. bounds' \in [interruptions : Nat, restarts : Nat]
  BY OperatorCommandsAssumption
<1> QED
  BY <1>3, <1>4, <1>5 DEF CommandsInv

(* Acceptance, in each of its outcomes, keeps the invariant.               *)
LEMMA AcceptKeepsInv ==
    ASSUME CommandsInv, Observe, NEW c \in calls, Accept(c)
    PROVE  CommandsInv'
<1> DEFINE r == c.request
<1>1. /\ TypeOK
      /\ run \in RunRecords
      /\ WellKept(commands)
      /\ tasks \in [Requests -> Steps]
      /\ \A q \in Requests : tasks[q] # Idle => Active(q)
      /\ calls \subseteq Calls
      /\ service \in {"up", "withdrawn", "down"}
      /\ browser \in [Requests -> Waiting \cup Shown]
      /\ kind \in [Requests -> Kinds]
  BY TypeParts DEF CommandsInv, Typed
<1>2. UNCHANGED <<run, service, kind, bounds>>
  BY DEF Accept
<1>3. c \in Calls /\ r \in Requests /\ Checked(r)
  BY <1>1 DEF Calls, Checked, Accept
<1>4. \E shown \in Waiting \cup Shown : Answer(c, shown)
  <2>1. Recorded(r) => Status(r) \in Statuses
    BY <1>1, RecordsAreValues, RecordOfRequest, StatusOfRecord DEF Records
  <2>2. Recorded(r) => Receipt(Status(r)) \in Waiting \cup Shown
    BY <2>1 DEF Receipt, Unfinished, Statuses, Shown, Waiting
  <2>3. {"rejected", "following"} \subseteq Waiting \cup Shown
    BY DEF Waiting, Shown, Outcomes
  <2> QED
    BY <2>2, <2>3 DEF Accept
<1>5. calls' = calls \ {c} /\ browser' \in [Requests -> Waiting \cup Shown]
  BY <1>1, <1>3, <1>4 DEF Answer, Show
<1>6. \A q \in Requests : Checked(q)' => Checked(q)
  BY <1>5 DEF Checked
<1>7. \A q \in Requests : TaskInv(q)
  BY DEF CommandsInv
<1>8. WellKept(commands') /\ tasks' \in [Requests -> Steps]
      /\ \A q \in Requests :
           /\ tasks'[q] = tasks[q] \/ tasks'[q] = "scheduled"
           /\ tasks'[q] # Idle => Active(q)'
           /\ Recorded(q)' => Recorded(q) \/ q = r
           /\ Status(q)' = "succeeded" => Status(q) = "succeeded"
  <2>1. CASE /\ UNCHANGED commands
             /\ tasks' = StartedBy(IF Active(r) THEN {r} ELSE {}) \/ tasks' = tasks
    <3>1. \A q \in Requests : /\ Recorded(q)' <=> Recorded(q)
                              /\ Status(q)' = Status(q)
                              /\ Active(q)' <=> Active(q)
      BY <2>1 DEF Recorded, Status, Active
    <3>2. CASE tasks' = tasks
      BY <1>1, <2>1, <3>1, <3>2
    <3>3. CASE tasks' = StartedBy(IF Active(r) THEN {r} ELSE {})
      <4>1. /\ tasks' \in [Requests -> Steps]
            /\ \A q \in Requests :
                 \/ tasks'[q] = tasks[q]
                 \/ /\ q \in (IF Active(r) THEN {r} ELSE {})
                    /\ tasks[q] = Idle /\ tasks'[q] = "scheduled"
        BY <3>3, Scheduled
      <4> QED
        BY <1>1, <2>1, <3>1, <4>1
    <3> QED
      BY <2>1, <3>2, <3>3
  <2>2. CASE /\ ~Recorded(r)
             /\ ~(AtCapacity /\ Removable = {})
             /\ commands' = Accepted(r)
             /\ tasks' = StartedBy({r})
    <3>1. /\ WellKept(commands')
          /\ Recorded(r)'
          /\ Status(r)' = "accepted"
          /\ \A q : q # r =>
               \/ (Recorded(q)' <=> Recorded(q)) /\ Status(q)' = Status(q)
               \/ Status(q) \in Outcomes /\ ~Recorded(q)'
      BY <1>1, <1>3, <2>2, AcceptedRecords, RecordsAreValues
    <3>2. \A q : ~Recorded(q) => Status(q) = "none"
      BY DEF Status
    <3>3. \A q \in Requests : Active(q) => q # r /\ Active(q)'
      BY <2>2, <3>1, <3>2 DEF Active, Unfinished, Outcomes
    <3>4. Active(r)'
      BY <3>1 DEF Active, Unfinished
    <3>5. /\ tasks' \in [Requests -> Steps]
          /\ \A q \in Requests : \/ tasks'[q] = tasks[q]
                                 \/ q \in {r} /\ tasks[q] = Idle /\ tasks'[q] = "scheduled"
      BY <2>2, Scheduled
    <3>6. \A q : ~Recorded(q)' => Status(q)' = "none"
      BY DEF Status, Recorded
    <3> QED
      BY <1>1, <3>1, <3>3, <3>4, <3>5, <3>6
  <2> QED
    BY <2>1, <2>2 DEF Accept
<1>9. ASSUME NEW q \in Requests
      PROVE  /\ tasks'[q] # Idle => Active(q)'
             /\ TaskInv(q)'
             /\ Known(q)' => Known(q)
             /\ Status(q)' = "succeeded" => Status(q) = "succeeded" \/ tasks[q] = "succeeded"
             /\ tasks'[q] \in {"succeeded", "owning"} =>
                   tasks[q] \in {"succeeded", "owning"} \/ Wanted(q)' \/ q \in reached
  <2>1. TaskInv(q)'
    BY <1>2, <1>7, <1>8 DEF TaskInv
  <2>2. Known(q)' => Known(q)
    BY <1>3, <1>6, <1>8 DEF Known
  <2> QED
    BY <1>8, <2>1, <2>2
<1>10. calls' \subseteq Calls
  BY <1>1, <1>5
<1> QED
  BY <1>1, <1>2, <1>5, <1>8, <1>9, <1>10, BoundsOf, TasksStep

(* A step of one task: what it does to its record, and where it gets to.   *)
LEMMA TaskMoves ==
    ASSUME CommandsInv, Observe, UNCHANGED <<service, calls, browser, kind, bounds>>,
           NEW r \in Requests, tasks[r] # Idle,
           run' \in RunRecords,
           run'.state \in {"publishing", "blocked"} => run'.state = run.state,
           NEW step \in Steps, tasks' = [tasks EXCEPT ![r] = step],
           TaskInv(r)',
           NEW status \in Statuses,
           \/ UNCHANGED commands /\ step # Idle
           \/ /\ commands' = Updated(r, status)
              /\ step # Idle => Unfinished(status)
              /\ status = "succeeded" => tasks[r] = "succeeded",
           step \in {"succeeded", "owning"} =>
               tasks[r] \in {"succeeded", "owning"} \/ Wanted(r)' \/ r \in reached
    PROVE  CommandsInv'
<1>1. /\ WellKept(commands)
      /\ tasks \in [Requests -> Steps]
      /\ \A q \in Requests : tasks[q] # Idle => Active(q)
      /\ calls \subseteq Calls
      /\ service \in {"up", "withdrawn", "down"}
      /\ browser \in [Requests -> Waiting \cup Shown]
  BY TypeParts DEF CommandsInv, Typed
<1>2. Recorded(r)
  BY <1>1 DEF Active, Unfinished, Status
<1>3. /\ WellKept(commands')
      /\ \A q \in Requests : Recorded(q)' <=> Recorded(q)
      /\ \A q \in Requests : q # r => Status(q)' = Status(q)
      /\ step # Idle => Active(r)'
      /\ Status(r)' = "succeeded" => Status(r) = "succeeded" \/ tasks[r] = "succeeded"
  <2>1. CASE UNCHANGED commands
    BY <1>1, <2>1 DEF Recorded, Status, Active
  <2>2. CASE /\ commands' = Updated(r, status)
             /\ step # Idle => Unfinished(status)
             /\ status = "succeeded" => tasks[r] = "succeeded"
    <3>1. /\ WellKept(commands')
          /\ Status(r)' = status
          /\ \A q : Recorded(q)' <=> Recorded(q)
          /\ \A q : q # r => Status(q)' = Status(q)
      BY <1>1, <1>2, <2>2, UpdatedRecords, RecordsAreValues
    <3> QED
      BY <2>2, <3>1 DEF Active
  <2> QED
    BY <2>1, <2>2
<1>4. \A q \in Requests : q # r => tasks'[q] = tasks[q]
  BY <1>1
<1>5. tasks'[r] = step /\ tasks' \in [Requests -> Steps]
  BY <1>1
<1>6. \A q \in Requests : Checked(q)' <=> Checked(q)
  BY DEF Checked
<1>7. ASSUME NEW q \in Requests
      PROVE  /\ tasks'[q] # Idle => Active(q)'
             /\ TaskInv(q)'
             /\ Known(q)' => Known(q)
             /\ Status(q)' = "succeeded" => Status(q) = "succeeded" \/ tasks[q] = "succeeded"
             /\ tasks'[q] \in {"succeeded", "owning"} =>
                   tasks[q] \in {"succeeded", "owning"} \/ Wanted(q)' \/ q \in reached
  <2>1. Known(q)' => Known(q)
    BY <1>3, <1>6 DEF Known
  <2>2. CASE q = r
    BY <1>3, <1>5, <2>1, <2>2
  <2>3. CASE q # r
    <3>1. Active(q)' <=> Active(q)
      BY <1>3, <2>3 DEF Active
    <3>2. TaskInv(q)'
      BY <1>4, <2>3 DEF CommandsInv, TaskInv
    <3> QED
      BY <1>1, <1>3, <1>4, <2>1, <2>3, <3>1, <3>2
  <2> QED
    BY <2>2, <2>3
<1> QED
  BY <1>1, <1>3, <1>5, <1>7, BoundsOf, TasksStep

(* Each step of a task.                                                    *)
LEMMA TaskStepKeepsInv ==
    ASSUME CommandsInv, Observe, NEW r \in Requests, TaskStep(r)
    PROVE  CommandsInv'
<1>1. /\ run \in RunRecords
      /\ tasks \in [Requests -> Steps]
      /\ kind \in [Requests -> Kinds]
      /\ \A q \in Requests : tasks[q] # Idle => Active(q)
  BY TypeParts DEF CommandsInv, Typed
<1>2. UNCHANGED <<service, calls, browser, kind, bounds>>
  BY DEF TaskStep
<1>3. TaskInv(r) /\ HistoryInv(r) /\ kind[r] \in Kinds
  BY <1>1 DEF CommandsInv
<1>4. tasks[r] # Idle => Known(r)
  BY <1>1 DEF Known, Active, Unfinished, Status
<1>5. {"accepted", "in-progress", "succeeded", "rejected"} \subseteq Statuses
  BY DEF Statuses, Outcomes
(* A step that only decides where to go on.                                *)
<1>6. ASSUME NEW step \in Steps \ {Idle}, tasks[r] # Idle, To(r, step), UNCHANGED commands,
             run' \in RunRecords,
             run'.state \in {"publishing", "blocked"} => run'.state = run.state,
             step \in {"hold", "stop", "stopping"} => kind[r] = "pause-run",
             step \in {"release", "resume", "owning"} => kind[r] = "resume-run",
             step = "cancel" => kind[r] = "cancel-run",
             step \in {"succeeded", "owning"} =>
                 tasks[r] \in {"succeeded", "owning"} \/ Wanted(r)' \/ r \in reached
      PROVE  CommandsInv'
  <2>1. tasks' = [tasks EXCEPT ![r] = step] /\ tasks'[r] = step
    BY <1>1, <1>6 DEF To
  <2>2. TaskInv(r)'
    BY <1>2, <1>6, <2>1 DEF TaskInv
  <2> QED
    BY <1>2, <1>5, <1>6, <2>1, <2>2, TaskMoves
<1>7. CASE Begin(r)
  <2> DEFINE step == IF Aborted THEN Idle ELSE "reading"
             status == IF Aborted THEN "accepted" ELSE "in-progress"
  <2>1. /\ tasks[r] # Idle
        /\ step \in Steps /\ status \in Statuses
        /\ step # Idle => Unfinished(status)
        /\ status # "succeeded" /\ step \notin {"succeeded", "owning"}
    BY <1>5, <1>7 DEF Begin, Idle, Steps, Unfinished
  <2>2. /\ commands' = Updated(r, status)
        /\ tasks' = [tasks EXCEPT ![r] = step]
        /\ run' = run
    BY <1>7 DEF Begin, To
  <2>3. TaskInv(r)'
    BY <1>1, <2>2 DEF TaskInv, Idle
  <2> HIDE DEF step, status
  <2> QED
    BY <1>1, <1>2, <2>1, <2>2, <2>3, TaskMoves
<1>8. CASE Read(r)
  <2> DEFINE step == Plan(r)
  <2>1. /\ tasks[r] # Idle /\ To(r, step) /\ UNCHANGED <<run, commands>>
    BY <1>8 DEF Read, Idle
  <2>2. /\ step \in Steps \ {Idle}
        /\ step \in {"hold", "stop", "stopping"} => kind[r] = "pause-run"
        /\ step \in {"release", "resume", "owning"} => kind[r] = "resume-run"
        /\ step = "cancel" => kind[r] = "cancel-run"
        /\ step = "succeeded" =>
              \/ kind[r] = "pause-run" /\ run.state \in {"held", "paused"}
              \/ kind[r] = "resume-run" /\ run.state \in ResumedAlready
        /\ step # "owning"
    <3>1. CASE kind[r] = "cancel-run"
      BY <3>1 DEF Plan, Steps, Idle
    <3>2. CASE kind[r] = "pause-run"
      BY <3>2 DEF Plan, Steps, Idle, Outcomes
    <3>3. CASE kind[r] = "resume-run"
      BY <3>3 DEF Plan, Steps, Idle, Outcomes
    <3> QED
      BY <1>3, <3>1, <3>2, <3>3 DEF Kinds
  <2>3. step = "succeeded" => r \in reached
    <3>1. SUFFICES ASSUME step = "succeeded" PROVE r \in reached
      OBVIOUS
    <3>2. Known(r)
      BY <1>4, <2>1
    <3>3. Wanted(r) \/ (kind[r] = "resume-run" /\ run.state \in {"publishing", "blocked"})
      BY <2>2, <3>1 DEF Wanted, ResumedAlready
    <3> QED
      BY <1>3, <3>2, <3>3 DEF HistoryInv
  <2> HIDE DEF step
  <2> QED
    BY <1>1, <1>6, <2>1, <2>2, <2>3
<1>9. ASSUME NEW step, NEW from, NEW state \in RunStates \ {"publishing", "blocked"},
             Effect(r, step, from, state), tasks[r] # Idle,
             \/ kind[r] = "pause-run" /\ state = "held"
             \/ kind[r] = "resume-run" /\ state = "queued"
      PROVE  CommandsInv'
  <2>1. CASE Become(state) /\ To(r, "succeeded")
    <3>1. run' \in RunRecords /\ run'.state = state
      BY <1>1, <1>9, <2>1 DEF Become, RunRecords
    <3>2. Wanted(r)'
      BY <1>2, <1>9, <3>1 DEF Wanted
    <3>3. "succeeded" \in Steps \ {Idle}
      BY DEF Steps, Outcomes, Idle
    <3> QED
      BY <1>6, <1>9, <2>1, <3>1, <3>2, <3>3 DEF Effect
  <2>2. CASE UNCHANGED run /\ To(r, "rejected")
    <3>1. "rejected" \in Steps \ {Idle}
      BY DEF Steps, Outcomes, Idle
    <3> QED
      BY <1>1, <1>6, <1>9, <2>2, <3>1 DEF Effect
  <2> QED
    BY <1>9, <2>1, <2>2 DEF Effect
<1>10. CASE Hold(r)
  <2>1. tasks[r] = "hold" /\ tasks[r] # Idle
    BY <1>10 DEF Hold, Effect, Idle
  <2>2. kind[r] = "pause-run" /\ "held" \in RunStates \ {"publishing", "blocked"}
    BY <1>3, <2>1 DEF TaskInv, RunStates
  <2> QED
    BY <1>9, <1>10, <2>1, <2>2 DEF Hold
<1>11. CASE Release(r)
  <2>1. tasks[r] = "release" /\ tasks[r] # Idle
    BY <1>11 DEF Release, Effect, Idle
  <2>2. kind[r] = "resume-run" /\ "queued" \in RunStates \ {"publishing", "blocked"}
    BY <1>3, <2>1 DEF TaskInv, RunStates
  <2> QED
    BY <1>9, <1>11, <2>1, <2>2 DEF Release
<1>12. CASE Cancel(r)
  <2>0. {"succeeded", "rejected"} \subseteq Steps \ {Idle}
    BY DEF Steps, Outcomes, Idle
  <2>1. tasks[r] # Idle /\ kind[r] = "cancel-run" /\ UNCHANGED commands
    BY <1>3, <1>12 DEF Cancel, Idle, TaskInv
  <2>2. CASE UNCHANGED run /\ To(r, "rejected")
    BY <1>1, <1>6, <2>0, <2>1, <2>2
  <2>3. CASE UNCHANGED run /\ To(r, "succeeded") /\ run.state = "cancelled" /\ run.cancelledBy = r
    <3>1. Wanted(r)'
      BY <1>2, <2>1, <2>3 DEF Wanted
    <3> QED
      BY <1>1, <1>6, <2>0, <2>1, <2>3, <3>1
  <2>4. CASE run' = [run EXCEPT !.state = "cancelled", !.cancelledBy = r] /\ To(r, "succeeded")
    <3>1. run' \in RunRecords /\ run'.state = "cancelled" /\ run'.cancelledBy = r
      BY <1>1, <2>4 DEF RunRecords, RunStates
    <3>2. Wanted(r)'
      BY <1>2, <2>1, <3>1 DEF Wanted
    <3> QED
      BY <1>6, <2>0, <2>1, <2>4, <3>1, <3>2
  <2> QED
    BY <1>12, <2>2, <2>3, <2>4 DEF Cancel
<1>13. CASE Stop(r) \/ Stopped(r)
  <2>0. {"succeeded", "rejected", "stopping"} \subseteq Steps \ {Idle}
    BY DEF Steps, Outcomes, Idle
  <2>1. tasks[r] # Idle /\ kind[r] = "pause-run" /\ UNCHANGED commands
    BY <1>3, <1>13 DEF Stop, Stopped, Idle, TaskInv
  <2>2. CASE UNCHANGED run /\ To(r, "rejected")
    BY <1>1, <1>6, <2>0, <2>1, <2>2
  <2>3. CASE Become("pausing") /\ To(r, "stopping")
    <3>1. run' \in RunRecords /\ run'.state = "pausing"
      BY <1>1, <2>3 DEF Become, RunRecords, RunStates
    <3> QED
      BY <1>6, <2>0, <2>1, <2>3, <3>1
  <2>4. CASE UNCHANGED run /\ To(r, "succeeded") /\ run.state = "paused"
    <3>1. Wanted(r)'
      BY <1>2, <2>1, <2>4 DEF Wanted
    <3> QED
      BY <1>1, <1>6, <2>0, <2>1, <2>4, <3>1
  <2> QED
    BY <1>13, <2>2, <2>3, <2>4 DEF Stop, Stopped
<1>14. CASE Resume(r)
  <2>0. {"owning", "rejected"} \subseteq Steps \ {Idle}
    BY DEF Steps, Outcomes, Idle
  <2>1. tasks[r] # Idle /\ kind[r] = "resume-run" /\ UNCHANGED commands
    BY <1>3, <1>14 DEF Resume, Idle, TaskInv
  <2>2. CASE UNCHANGED run /\ To(r, "rejected")
    BY <1>1, <1>6, <2>0, <2>1, <2>2
  <2>3. CASE Become("implementing") /\ To(r, "owning")
    <3>1. run' \in RunRecords /\ run'.state = "implementing"
      BY <1>1, <2>3 DEF Become, RunRecords, RunStates
    <3>2. Wanted(r)'
      BY <1>2, <2>1, <3>1 DEF Wanted
    <3> QED
      BY <1>6, <2>0, <2>1, <2>3, <3>1, <3>2
  <2> QED
    BY <1>14, <2>2, <2>3 DEF Resume
<1>15. CASE Surrender(r)
  <2>0. "owning" \in Steps \ {Idle}
    BY DEF Steps, Idle
  <2>1. /\ tasks[r] = "owning" /\ tasks[r] # Idle /\ kind[r] = "resume-run"
        /\ UNCHANGED <<tasks, commands>> /\ Become("pausing")
    BY <1>3, <1>15 DEF Surrender, Idle, TaskInv
  <2>2. run' \in RunRecords /\ run'.state = "pausing"
    BY <1>1, <2>1 DEF Become, RunRecords, RunStates
  <2>3. To(r, "owning")
    BY <1>1, <2>1 DEF To
  <2> QED
    BY <1>6, <2>0, <2>1, <2>2, <2>3
<1>16. CASE Resumed(r)
  <2>0. "succeeded" \in Steps \ {Idle}
    BY DEF Steps, Outcomes, Idle
  <2>1. /\ tasks[r] = "owning" /\ tasks[r] # Idle
        /\ UNCHANGED <<run, commands>> /\ To(r, "succeeded")
    BY <1>16 DEF Resumed, Idle
  <2> QED
    BY <1>1, <1>6, <2>0, <2>1
<1>17. CASE Finish(r)
  <2> DEFINE status == IF Aborted THEN "accepted" ELSE tasks[r]
  <2>1. /\ tasks[r] # Idle /\ tasks[r] \in Outcomes
        /\ status \in Statuses
        /\ status = "succeeded" => tasks[r] = "succeeded"
        /\ Idle \in Steps
    BY <1>17 DEF Finish, Idle, Outcomes, Statuses, Steps
  <2>2. /\ commands' = Updated(r, status)
        /\ tasks' = [tasks EXCEPT ![r] = Idle]
        /\ run' = run
    BY <1>17 DEF Finish, To
  <2>3. TaskInv(r)'
    BY <1>1, <2>2 DEF TaskInv, Idle
  <2>4. Idle \notin {"succeeded", "owning"}
    BY DEF Idle
  <2> HIDE DEF status
  <2> QED
    BY <1>1, <1>2, <2>1, <2>2, <2>3, <2>4, TaskMoves
<1> QED
  BY <1>7, <1>8, <1>10, <1>11, <1>12, <1>13, <1>14, <1>15, <1>16, <1>17 DEF TaskStep

----------------------------------------------------------------------------
(* The Web service and the Host.                                           *)

(* So do the withdrawal of the service, a crash and a start.               *)
LEMMA ServiceKeepsInv ==
    ASSUME CommandsInv, Observe, Withdraw \/ Crash \/ Start
    PROVE  CommandsInv'
<1>1. /\ run \in RunRecords
      /\ WellKept(commands)
      /\ tasks \in [Requests -> Steps]
      /\ \A q \in Requests : tasks[q] # Idle => Active(q)
      /\ service \in {"up", "withdrawn", "down"}
      /\ calls \subseteq Calls
      /\ browser \in [Requests -> Waiting \cup Shown]
  BY TypeParts DEF CommandsInv, Typed
<1>2. UNCHANGED <<commands, kind>> /\ service' \in {"up", "withdrawn", "down"}
  BY DEF Withdraw, Crash, Start
<1>3. \A r \in Requests : /\ Recorded(r)' <=> Recorded(r)
                          /\ Status(r)' = Status(r)
                          /\ Active(r)' <=> Active(r)
  BY <1>2 DEF Recorded, Status, Active
<1>4. bounds' \in [interruptions : 0..MaxInterruptions, restarts : 0..MaxRestarts]
  <2>1. CASE bounds' = bounds
    BY <2>1, BoundsOf
  <2>2. CASE CountRestart
    <3>1. bounds.restarts + 1 \in 0 .. MaxRestarts
      BY <2>2, BoundsOf, OperatorCommandsAssumption DEF CountRestart
    <3> QED
      BY <2>2, <3>1, BoundsOf DEF CountRestart
  <2> QED
    BY <2>1, <2>2 DEF Withdraw, Crash, Start
<1>5. /\ run' \in RunRecords
      /\ run'.state = run.state
      /\ calls' \subseteq calls
      /\ browser' \in [Requests -> Waiting \cup Shown]
  <2>1. CASE Withdraw \/ Start
    BY <1>1, <2>1 DEF Withdraw, Start
  <2>2. CASE Crash
    <3>1. run' = [run EXCEPT !.stranded = run.stranded \/ Executing]
      BY <2>2 DEF Crash
    <3>2. (run.stranded \/ Executing) \in BOOLEAN
      BY DEF Executing
    <3>3. run' \in RunRecords /\ run'.state = run.state
      BY <1>1, <3>1, <3>2 DEF RunRecords
    <3>4. browser' \in [Requests -> Waiting \cup Shown]
      BY <1>1, <2>2 DEF Crash, Waiting
    <3> QED
      BY <2>2, <3>3, <3>4 DEF Crash
  <2> QED
    BY <2>1, <2>2 DEF Withdraw, Crash, Start
<1>6. /\ tasks' \in [Requests -> Steps]
      /\ \A r \in Requests :
           /\ tasks'[r] \in {tasks[r], Idle, "scheduled"}
           /\ tasks'[r] # Idle => Active(r)
  <2>1. CASE Withdraw
    BY <1>1, <2>1 DEF Withdraw
  <2>2. CASE Crash
    BY <2>2 DEF Crash, Steps
  <2>3. CASE Start
    <3>1. /\ tasks' \in [Requests -> Steps]
          /\ \A r \in Requests : \/ tasks'[r] = tasks[r]
                                 \/ r \in Restartable /\ tasks[r] = Idle /\ tasks'[r] = "scheduled"
      BY <2>3, Scheduled DEF Start
    <3> QED
      BY <1>1, <3>1 DEF Restartable
  <2> QED
    BY <2>1, <2>2, <2>3
<1>7. ASSUME NEW r \in Requests
      PROVE  /\ tasks'[r] # Idle => Active(r)'
             /\ TaskInv(r)'
             /\ Known(r)' => Known(r)
             /\ Status(r)' = "succeeded" => Status(r) = "succeeded" \/ tasks[r] = "succeeded"
             /\ tasks'[r] \in {"succeeded", "owning"} =>
                   tasks[r] \in {"succeeded", "owning"} \/ Wanted(r)' \/ r \in reached
  <2>1. TaskInv(r)'
    BY <1>2, <1>6 DEF CommandsInv, TaskInv, Idle
  <2>2. Known(r)' => Known(r)
    BY <1>3, <1>5 DEF Known, Checked
  <2>3. tasks'[r] \in {"succeeded", "owning"} => tasks[r] \in {"succeeded", "owning"}
    BY <1>6 DEF Idle
  <2> QED
    BY <1>3, <1>6, <2>1, <2>2, <2>3
<1>8. WellKept(commands') /\ calls' \subseteq Calls
  BY <1>1, <1>2, <1>5
<1> QED
  BY <1>2, <1>4, <1>5, <1>6, <1>7, <1>8, TasksStep

(* The invariant holds at first.                                           *)
LEMMA CommandsInit == Init => CommandsInv
<1> SUFFICES ASSUME Init PROVE CommandsInv
  OBVIOUS
<1>1. WellKept(commands)
  <2>1. [request |-> Nobody, status |-> "succeeded"] \in Records
    BY DEF Records, Statuses, Outcomes
  <2> QED
    BY <2>1, OperatorCommandsAssumption DEF Init, WellKept
<1>2. \A r \in Requests : ~Recorded(r)
  BY OperatorCommandsAssumption DEF Init, Recorded, Nobody
<1>3. \A r \in Requests : ~Known(r) /\ Status(r) = "none" /\ tasks[r] = Idle
  BY <1>2 DEF Init, Known, Checked, Status
<1>4. run \in RunRecords
  BY DEF Init, RunRecords, RunStates
<1>5. TypeOK
  BY <1>1, <1>3, <1>4, TypeParts, OperatorCommandsAssumption
     DEF Init, Typed, Steps, Shown, Idle
<1>6. \A r \in Requests : TaskInv(r) /\ HistoryInv(r)
  BY <1>3 DEF TaskInv, HistoryInv, Idle
<1>7. bounds \in [interruptions : Nat, restarts : Nat]
  BY DEF Init
<1> QED
  BY <1>5, <1>6, <1>7 DEF CommandsInv

(* Every step keeps the invariant.                                         *)
LEMMA CommandsStep == CommandsInv /\ [Next]_vars => CommandsInv'
<1> SUFFICES ASSUME CommandsInv, [Next]_vars PROVE CommandsInv'
  OBVIOUS
<1>1. CASE Next
  BY <1>1, ProceedKeepsInv, BrowserKeepsInv, TaskStepKeepsInv, ReceiveKeepsInv, AcceptKeepsInv,
     ServiceKeepsInv DEF Next
<1>2. CASE UNCHANGED vars
  <2>1. UNCHANGED <<run, commands, tasks, service, calls, browser, kind, bounds, reached>>
    BY <1>2 DEF vars, systemVars
  <2>2. TypeOK'
    BY <2>1, TypeParts DEF CommandsInv, Typed, WellKept, Active, Status, Recorded
  <2>3. ASSUME NEW r \in Requests PROVE TaskInv(r)' /\ HistoryInv(r)'
    BY <2>1 DEF CommandsInv, TaskInv, HistoryInv, Known, Checked, Status, Recorded, Wanted
  <2> QED
    BY <2>1, <2>2, <2>3 DEF CommandsInv
<1> QED
  BY <1>1, <1>2

----------------------------------------------------------------------------
(* Theorems.                                                               *)

(* Tasks, records and what was seen of the run fit together in every       *)
(* state.                                                                  *)
THEOREM CommandsInvariant == Spec => []CommandsInv
BY CommandsInit, CommandsStep, PTL DEF Spec

(* Records stay within their limit, one for each request, and a task that  *)
(* runs has a record that is not finished: the record it will update has   *)
(* never given way to a newer one.                                         *)
THEOREM CommandsTypeCorrect == Spec => []TypeOK
<1>1. CommandsInv => TypeOK
  BY DEF CommandsInv
<1> QED
  BY <1>1, CommandsInvariant, PTL

(* A command is recorded as succeeded only if the run was where the        *)
(* operator wanted it since the command was let in, however often its task *)
(* was aborted, lost or repeated.                                          *)
THEOREM SuccessProven == Spec => []SucceededIsEffective
<1>1. CommandsInv => SucceededIsEffective
  BY DEF CommandsInv, HistoryInv, SucceededIsEffective
<1> QED
  BY <1>1, CommandsInvariant, PTL

============================================================================
