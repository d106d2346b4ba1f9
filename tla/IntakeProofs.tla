---------------------------- MODULE IntakeProofs ----------------------------
(* Machine-checked proofs about Intake, for every number of issues, every  *)
(* set of attempts and every bound.                                        *)
EXTENDS Intake, FiniteSetTheorems, SequenceTheorems, TLAPS

----------------------------------------------------------------------------
(* The inductive invariant.                                                *)

Briefs == 1 .. MaxBriefs
Approvals == UNION {[1 .. n -> Briefs] : n \in 0 .. MaxGeneration}
IssueRecords == [approvals : Approvals, ready : BOOLEAN, blocked : BOOLEAN, brief : Briefs]
Deliveries == Issues \X (1 .. MaxGeneration)
Evaluations == [generation : 0 .. MaxGeneration, brief : 0 .. MaxBriefs]
Pages ==
    {<<>>, <<"listed">>} \cup {<<"listed", b>> : b \in Briefs}
        \cup {<<"listed", b, s>> : b \in Briefs, s \in Approvals}
AttemptRecords ==
    [phase : {"idle", "waiting", "reading"}, delivery : Deliveries \cup {NoDelivery},
     seen : Seq(Evaluations), page : Pages]
RunRecords ==
    [issue : Issues, generation : 1 .. MaxGeneration, brief : Briefs, state : RunStates]

Typed ==
    /\ adapter \in Adapters
    /\ issue \in [Issues -> IssueRecords]
    /\ edits \in 0 .. MaxEdits
    /\ sent \subseteq Deliveries
    /\ acknowledged \subseteq sent
    /\ provider \in {"available", "withdrawn"}
    /\ timer \in [armed : BOOLEAN, startup : BOOLEAN]
    /\ attempt \in [Attempts -> AttemptRecords]
    /\ mode \in {"enabled", "draining"}
    /\ runs \in Seq(RunRecords)
    /\ acceptedIngress \in Seq(Deliveries)
    /\ ToSet(acceptedIngress) \subseteq sent

(* What the tracker shows: an issue was ready as often as it was approved, *)
(* and each transition was delivered.                                      *)
TrackerInv ==
    /\ \A i \in Issues, g \in 1 .. MaxGeneration : <<i, g>> \in sent <=> g <= Len(issue[i].approvals)
    /\ \A i \in Issues : issue[i].ready => issue[i].approvals # <<>>

(* What was read of an issue, and admitted, was approved; approvals are    *)
(* never taken back.                                                       *)
Approved(i, run) ==
    /\ run.generation \in 1 .. Len(issue[i].approvals)
    /\ run.brief \in 1 .. issue[i].approvals[run.generation]

AttemptInv(a) ==
    LET seen == attempt[a].seen
        page == attempt[a].page
        i == Len(seen) + 1
    IN /\ attempt[a].delivery \in sent \cup {NoDelivery}
       /\ Len(seen) <= IssueCount
       /\ \A j \in 1 .. Len(seen) : seen[j] = NoRun \/ Approved(j, seen[j])
       /\ page # <<>> => i \in Issues /\ issue[i].approvals # <<>>
       /\ Len(page) = 3 =>
             /\ Len(page[3]) \in 1 .. Len(issue[i].approvals)
             /\ \A g \in 1 .. Len(page[3]) : page[3][g] = issue[i].approvals[g]

(* Readiness that was eligible ever since its transition and has no run:   *)
(* an attempt for its delivery reads what the transition left.             *)
Settled == lapsed \cup Identities
Steady == sent \ Settled

SteadyInv ==
    \A d \in Steady :
        LET facts == issue[d[1]]
        IN /\ facts.ready /\ ~facts.blocked
           /\ Len(facts.approvals) = d[2]
           /\ facts.approvals[d[2]] = facts.brief

Witnessed(a) ==
    LET i == attempt[a].delivery[1]
        g == attempt[a].delivery[2]
        seen == attempt[a].seen
        page == attempt[a].page
    IN attempt[a].delivery \in Steady =>
          /\ i <= Len(seen) => seen[i].generation = g
          /\ Len(seen) + 1 = i /\ Len(page) > 1 => page[2] = issue[i].brief
          /\ Len(seen) + 1 = i /\ Len(page) > 2 => page[3] = issue[i].approvals

RunsInv == \A k \in DOMAIN runs : Approved(runs[k].issue, runs[k])

IntakeInv ==
    /\ Typed
    /\ timer.armed => attempt[Timed].phase = "idle"
    /\ Len(acceptedIngress) <= MaxReceipts
    /\ TrackerInv
    /\ \A a \in Attempts : AttemptInv(a)
    /\ RunsInv
    /\ UniqueRuns
    /\ SteadyInv
    /\ \A a \in Attempts : Witnessed(a)
    /\ acknowledged \cup ToSet(acceptedIngress) \subseteq Settled

----------------------------------------------------------------------------
(* Values.                                                                 *)

(* The bounds are positive.                                                *)
LEMMA BoundsTyped ==
    /\ IssueCount \in Nat \ {0} /\ MaxGeneration \in Nat \ {0} /\ MaxBriefs \in Nat \ {0}
    /\ MaxEdits \in Nat \ {0} /\ MaxQueued \in Nat \ {0} /\ MaxReceipts \in Nat \ {0}
BY IntakeAssumption

(* Approvals are short sequences of briefs.                                *)
LEMMA ApprovalsAreSequences ==
    \A s : s \in Approvals <=> s \in Seq(Briefs) /\ Len(s) <= MaxGeneration
<1> MaxGeneration \in Nat BY BoundsTyped
<1>1. ASSUME NEW s \in Approvals PROVE s \in Seq(Briefs) /\ Len(s) <= MaxGeneration
  <2>1. PICK n \in 0 .. MaxGeneration : s \in [1 .. n -> Briefs] BY DEF Approvals
  <2>2. n \in Nat /\ s = [k \in 1 .. n |-> s[k]] /\ \A k \in 1 .. n : s[k] \in Briefs BY <2>1
  <2>3. [k \in 1 .. n |-> s[k]] \in Seq(Briefs) BY <2>2, IsASeq
  <2>4. s \in Seq(Briefs) BY <2>2, <2>3
  <2>5. DOMAIN s = 1 .. Len(s) /\ Len(s) \in Nat BY <2>4, LenProperties
  <2>6. DOMAIN s = 1 .. n BY <2>1
  <2>7. Len(s) = n BY <2>2, <2>5, <2>6
  <2> QED BY <2>1, <2>4, <2>7
<1>2. ASSUME NEW s \in Seq(Briefs), Len(s) <= MaxGeneration PROVE s \in Approvals
  <2>1. s \in [1 .. Len(s) -> Briefs] /\ Len(s) \in Nat BY LenProperties
  <2>2. Len(s) \in 0 .. MaxGeneration BY <1>2, <2>1
  <2> QED BY <2>1, <2>2 DEF Approvals
<1> QED BY <1>1, <1>2

(* The pieces a page may consist of.                                       *)
LEMMA PagesAre ==
    \A p : p \in Pages <=>
        \/ p = <<>>
        \/ p = <<"listed">>
        \/ \E b \in Briefs : p = <<"listed", b>>
        \/ \E b \in Briefs, s \in Approvals : p = <<"listed", b, s>>
BY DEF Pages

(* What appending to a short sequence gives.                               *)
LEMMA AppendedPieces ==
    ASSUME NEW x, NEW y, NEW z
    PROVE  Append(<<x>>, y) = <<x, y>> /\ Append(<<x, y>>, z) = <<x, y, z>>
<1> DEFINE S == {x, y, z}
<1>1. <<x>> \in Seq(S) /\ <<x, y>> \in Seq(S) /\ <<x, y, z>> \in Seq(S) OBVIOUS
<1>2. x \in S /\ y \in S /\ z \in S OBVIOUS
<1> HIDE DEF S
<1>3. /\ Append(<<x>>, y) \in Seq(S) /\ Len(Append(<<x>>, y)) = 2
      /\ Append(<<x>>, y)[1] = x /\ Append(<<x>>, y)[2] = y
  BY <1>1, <1>2, AppendProperties
<1>4. Append(<<x>>, y) = <<x, y>>
  <2>1. \A k \in 1 .. 2 : Append(<<x>>, y)[k] = <<x, y>>[k] BY <1>3
  <2> QED BY <1>1, <1>3, <2>1, SeqEqual
<1>5. /\ Append(<<x, y>>, z) \in Seq(S) /\ Len(Append(<<x, y>>, z)) = 3
      /\ Append(<<x, y>>, z)[1] = x /\ Append(<<x, y>>, z)[2] = y /\ Append(<<x, y>>, z)[3] = z
  BY <1>1, <1>2, AppendProperties
<1>6. Append(<<x, y>>, z) = <<x, y, z>>
  <2>1. \A k \in 1 .. 3 : Append(<<x, y>>, z)[k] = <<x, y, z>>[k] BY <1>5
  <2> QED BY <1>1, <1>5, <2>1, SeqEqual
<1> QED BY <1>4, <1>6

(* A page has at most three pieces, and what one more gives.               *)
LEMMA AppendedPages ==
    ASSUME NEW p \in Pages
    PROVE  /\ Len(p) \in 0 .. 3
           /\ Len(p) = 0 <=> p = <<>>
           /\ Len(p) = 0 => Append(p, "listed") = <<"listed">>
           /\ Len(p) = 1 => \A b : Append(p, b) = <<"listed", b>>
           /\ Len(p) = 2 => p[2] \in Briefs /\ \A s : Append(p, s) = <<"listed", p[2], s>>
           /\ Len(p) = 3 => p[2] \in Briefs /\ p[3] \in Approvals
<1>1. CASE p = <<>> BY <1>1
<1>2. CASE p = <<"listed">>
  <2>1. Len(p) = 1 BY <1>2
  <2>2. \A b : Append(p, b) = <<"listed", b>> BY <1>2, AppendedPieces
  <2> QED BY <1>2, <2>1, <2>2
<1>3. CASE \E b \in Briefs : p = <<"listed", b>>
  <2>1. PICK b \in Briefs : p = <<"listed", b>> BY <1>3
  <2>2. Len(p) = 2 /\ p[2] = b BY <2>1
  <2>3. \A s : Append(p, s) = <<"listed", p[2], s>> BY <2>1, <2>2, AppendedPieces
  <2> QED BY <2>1, <2>2, <2>3
<1>4. CASE \E b \in Briefs, s \in Approvals : p = <<"listed", b, s>> BY <1>4
<1> QED BY <1>1, <1>2, <1>3, <1>4, PagesAre

(* An attempt that has read nothing.                                       *)
LEMMA StagesTyped ==
    ASSUME NEW phase \in {"idle", "waiting", "reading"}, NEW d \in Deliveries \cup {NoDelivery}
    PROVE  /\ Stage(phase, d) \in AttemptRecords
           /\ Stage(phase, d).phase = phase /\ Stage(phase, d).delivery = d
           /\ Stage(phase, d).seen = <<>> /\ Stage(phase, d).page = <<>>
<1>1. <<>> \in Seq(Evaluations) BY EmptySeq
<1>2. <<>> \in Pages BY DEF Pages
<1> QED BY <1>1, <1>2 DEF Stage, AttemptRecords

(* No delivery is none.                                                    *)
LEMMA NoDeliveryIsNone == NoDelivery \notin Deliveries
BY BoundsTyped DEF NoDelivery, Deliveries, Issues

----------------------------------------------------------------------------
(* What a step keeps.                                                      *)

(* People only add approvals; readiness that is settled stays so, and of   *)
(* one that is not, the issue stays as it is.                              *)
Keeps ==
    /\ sent \subseteq sent' /\ sent' \subseteq Deliveries
    /\ issue' \in [Issues -> IssueRecords]
    /\ \A i \in Issues :
          /\ Len(issue[i].approvals) <= Len(issue'[i].approvals)
          /\ \A g \in 1 .. Len(issue[i].approvals) : issue'[i].approvals[g] = issue[i].approvals[g]
    /\ \A d \in sent : d \in Steady' => d \in Steady /\ issue'[d[1]] = issue[d[1]]

(* What the types say of one issue.                                        *)
LEMMA IssueTyped ==
    ASSUME Typed, NEW i \in Issues
    PROVE  /\ issue[i] \in IssueRecords
           /\ issue[i].approvals \in Approvals
           /\ issue[i].approvals \in Seq(Briefs) /\ Len(issue[i].approvals) \in 0 .. MaxGeneration
           /\ issue[i].brief \in Briefs /\ issue[i].ready \in BOOLEAN /\ issue[i].blocked \in BOOLEAN
           /\ \A g \in 1 .. Len(issue[i].approvals) : issue[i].approvals[g] \in Briefs
           /\ issue[i].approvals # <<>> <=> Len(issue[i].approvals) > 0
<1> MaxGeneration \in Nat BY BoundsTyped
<1>1. issue[i] \in IssueRecords BY DEF Typed
<1>2. issue[i].approvals \in Approvals BY <1>1 DEF IssueRecords
<1>3. issue[i].approvals \in Seq(Briefs) /\ Len(issue[i].approvals) <= MaxGeneration
  BY <1>2, ApprovalsAreSequences
<1>4. Len(issue[i].approvals) \in Nat BY <1>3, LenProperties
<1>5. \A g \in 1 .. Len(issue[i].approvals) : issue[i].approvals[g] \in Briefs BY <1>3, ElementOfSeq
<1>6. issue[i].approvals # <<>> <=> Len(issue[i].approvals) > 0
  BY <1>3, EmptySeq
<1> QED BY <1>1, <1>2, <1>3, <1>4, <1>5, <1>6 DEF IssueRecords

(* An approval is never withdrawn, whatever is edited later.               *)
LEMMA ApprovalKept ==
    ASSUME Typed, Keeps, NEW i \in Issues, NEW run, Approved(i, run)
    PROVE  Approved(i, run)'
<1>1. Len(issue[i].approvals) \in Nat BY IssueTyped
<1>2. issue'[i] \in IssueRecords BY DEF Keeps
<1>3. issue'[i].approvals \in Seq(Briefs) BY <1>2, ApprovalsAreSequences DEF IssueRecords
<1>4. Len(issue'[i].approvals) \in Nat BY <1>3, LenProperties
<1>5. run.generation \in 1 .. Len(issue'[i].approvals)
  BY <1>1, <1>4 DEF Approved, Keeps
<1>6. issue'[i].approvals[run.generation] = issue[i].approvals[run.generation]
  BY DEF Approved, Keeps
<1> QED BY <1>5, <1>6 DEF Approved

(* What the types say of one attempt.                                      *)
LEMMA AttemptTyped ==
    ASSUME Typed, NEW a \in Attempts
    PROVE  /\ attempt[a] \in AttemptRecords
           /\ attempt[a].phase \in {"idle", "waiting", "reading"}
           /\ attempt[a].delivery \in Deliveries \cup {NoDelivery}
           /\ attempt[a].seen \in Seq(Evaluations) /\ Len(attempt[a].seen) \in Nat
           /\ \A j \in 1 .. Len(attempt[a].seen) : attempt[a].seen[j] \in Evaluations
           /\ attempt[a].page \in Pages /\ Len(attempt[a].page) \in 0 .. 3
           /\ Len(attempt[a].page) > 1 => attempt[a].page[2] \in Briefs
           /\ Len(attempt[a].page) = 3 => attempt[a].page[3] \in Approvals
<1>1. attempt[a] \in AttemptRecords BY DEF Typed
<1>2. attempt[a].seen \in Seq(Evaluations) /\ attempt[a].page \in Pages BY <1>1 DEF AttemptRecords
<1>3. Len(attempt[a].seen) \in Nat BY <1>2, LenProperties
<1>4. \A j \in 1 .. Len(attempt[a].seen) : attempt[a].seen[j] \in Evaluations BY <1>2, ElementOfSeq
<1>5. /\ Len(attempt[a].page) \in 0 .. 3
      /\ Len(attempt[a].page) > 1 => attempt[a].page[2] \in Briefs
      /\ Len(attempt[a].page) = 3 => attempt[a].page[3] \in Approvals
  BY <1>2, AppendedPages
<1> QED BY <1>1, <1>2, <1>3, <1>4, <1>5 DEF AttemptRecords

(* An attempt that the step does not touch.                                *)
LEMMA UntouchedAttempt ==
    ASSUME IntakeInv, Keeps, NEW a \in Attempts, attempt'[a] = attempt[a]
    PROVE  AttemptInv(a)' /\ Witnessed(a)'
<1> Typed /\ AttemptInv(a) /\ Witnessed(a) BY DEF IntakeInv
<1> IssueCount \in Nat BY BoundsTyped
<1> DEFINE seen == attempt[a].seen
           page == attempt[a].page
           i == Len(seen) + 1
<1>1. attempt'[a].seen = seen /\ attempt'[a].page = page /\ attempt'[a].delivery = attempt[a].delivery
  OBVIOUS
<1>2. Len(seen) \in Nat BY AttemptTyped
<1>3. Len(seen) <= IssueCount BY DEF AttemptInv
<1>4. \A j \in 1 .. Len(seen) : seen[j] = NoRun \/ Approved(j, seen[j])'
  <2> SUFFICES ASSUME NEW j \in 1 .. Len(seen), Approved(j, seen[j]) PROVE Approved(j, seen[j])'
    BY DEF AttemptInv
  <2>1. j \in Issues BY <1>2, <1>3 DEF Issues
  <2> QED BY <2>1, ApprovalKept
<1>5. ASSUME page # <<>> PROVE i \in Issues /\ issue'[i].approvals # <<>>
  <2>1. i \in Issues /\ issue[i].approvals # <<>> BY <1>5 DEF AttemptInv
  <2>2. Len(issue[i].approvals) > 0 /\ Len(issue[i].approvals) \in Nat BY <2>1, IssueTyped
  <2>3. issue'[i].approvals \in Seq(Briefs) BY <2>1, ApprovalsAreSequences DEF Keeps, IssueRecords
  <2>4. Len(issue'[i].approvals) \in Nat BY <2>3, LenProperties
  <2>5. Len(issue'[i].approvals) > 0 BY <2>1, <2>2, <2>4 DEF Keeps
  <2>6. Len(<<>>) = 0 BY EmptySeq
  <2> QED BY <2>1, <2>5, <2>6
<1>6. ASSUME Len(page) = 3
      PROVE  /\ Len(page[3]) \in 1 .. Len(issue'[i].approvals)
             /\ \A g \in 1 .. Len(page[3]) : page[3][g] = issue'[i].approvals[g]
  <2>1. page \in Pages BY AttemptTyped
  <2>2. page # <<>> BY <1>6, <2>1, AppendedPages
  <2>3. i \in Issues BY <2>2 DEF AttemptInv
  <2>4. /\ Len(page[3]) \in 1 .. Len(issue[i].approvals)
        /\ \A g \in 1 .. Len(page[3]) : page[3][g] = issue[i].approvals[g]
    BY <1>6 DEF AttemptInv
  <2>5. Len(issue[i].approvals) \in Nat BY <2>3, IssueTyped
  <2>6. issue'[i].approvals \in Seq(Briefs) BY <2>3, ApprovalsAreSequences DEF Keeps, IssueRecords
  <2>7. Len(issue'[i].approvals) \in Nat BY <2>6, LenProperties
  <2>8. /\ Len(issue[i].approvals) <= Len(issue'[i].approvals)
        /\ \A g \in 1 .. Len(issue[i].approvals) : issue'[i].approvals[g] = issue[i].approvals[g]
    BY <2>3 DEF Keeps
  <2> HIDE DEF page, i
  <2>9. Len(page[3]) \in 1 .. Len(issue'[i].approvals) BY <2>4, <2>5, <2>7, <2>8
  <2>10. ASSUME NEW g \in 1 .. Len(page[3]) PROVE page[3][g] = issue'[i].approvals[g]
    <3>1. g \in 1 .. Len(issue[i].approvals) BY <2>4, <2>5
    <3> QED BY <2>4, <2>8, <3>1
  <2> QED BY <2>9, <2>10
<1>7. attempt[a].delivery \in sent' \cup {NoDelivery} BY DEF AttemptInv, Keeps
<1>8. AttemptInv(a)'
  BY <1>1, <1>3, <1>4, <1>5, <1>6, <1>7 DEF AttemptInv
<1>9. Witnessed(a)'
  <2> SUFFICES ASSUME attempt[a].delivery \in Steady' PROVE Witnessed(a)'
    BY <1>1 DEF Witnessed
  <2>1. attempt[a].delivery \in sent
    BY NoDeliveryIsNone DEF AttemptInv, Keeps, Steady
  <2>2. attempt[a].delivery \in Steady /\ issue'[attempt[a].delivery[1]] = issue[attempt[a].delivery[1]]
    BY <2>1 DEF Keeps
  <2> QED BY <1>1, <2>2 DEF Witnessed
<1> QED BY <1>8, <1>9

(* An attempt that begins, waits or has ended.                             *)
LEMMA FreshAttempt ==
    ASSUME NEW a \in Attempts, NEW phase \in {"idle", "waiting", "reading"},
           NEW d \in sent' \cup {NoDelivery}, sent' \subseteq Deliveries, attempt'[a] = Stage(phase, d)
    PROVE  AttemptInv(a)' /\ Witnessed(a)'
<1> IssueCount \in Nat BY BoundsTyped
<1>1. attempt'[a].delivery = d /\ attempt'[a].seen = <<>> /\ attempt'[a].page = <<>>
  BY StagesTyped
<1>2. Len(<<>>) = 0 BY EmptySeq
<1>3. AttemptInv(a)' BY <1>1, <1>2 DEF AttemptInv
<1>4. Witnessed(a)'
  <2> SUFFICES ASSUME d \in Steady' PROVE Witnessed(a)' BY <1>1 DEF Witnessed
  <2>1. d \in Deliveries BY NoDeliveryIsNone DEF Steady
  <2>2. d[1] \in Nat /\ d[1] > 0 BY <2>1 DEF Deliveries, Issues
  <2> QED BY <1>1, <1>2, <2>2 DEF Witnessed
<1> QED BY <1>3, <1>4

(* A step that is not a person's edit.                                     *)
LEMMA TrackerUntouched ==
    ASSUME IntakeInv, UNCHANGED trackerVars, Settled \subseteq Settled'
    PROVE  Keeps /\ TrackerInv' /\ SteadyInv'
<1> Typed /\ TrackerInv /\ SteadyInv BY DEF IntakeInv
<1>1. sent' = sent /\ issue' = issue BY DEF trackerVars
<1>2. Steady' \subseteq Steady BY <1>1 DEF Steady
<1>3. \A i \in Issues : Len(issue[i].approvals) \in Nat BY IssueTyped
<1>4. Keeps
  <2>1. \A i \in Issues : Len(issue[i].approvals) <= Len(issue'[i].approvals) BY <1>1, <1>3
  <2>2. sent' \subseteq Deliveries /\ issue' \in [Issues -> IssueRecords] BY <1>1 DEF Typed
  <2> QED BY <1>1, <1>2, <2>1, <2>2 DEF Keeps
<1>5. TrackerInv' BY <1>1 DEF TrackerInv
<1>6. SteadyInv' BY <1>1, <1>2 DEF SteadyInv
<1> QED BY <1>4, <1>5, <1>6

(* While approvals are kept, runs that stay as they are stay approved.     *)
LEMMA RunsUntouched ==
    ASSUME IntakeInv, Keeps, runs' = runs
    PROVE  RunsInv' /\ UniqueRuns' /\ Identities' = Identities
<1> Typed /\ RunsInv /\ UniqueRuns BY DEF IntakeInv
<1>1. \A k \in DOMAIN runs : runs[k].issue \in Issues
  <2> TAKE k \in DOMAIN runs
  <2>1. runs[k] \in RunRecords BY LenProperties, ElementOfSeq DEF Typed
  <2> QED BY <2>1 DEF RunRecords
<1>2. RunsInv' BY <1>1, ApprovalKept DEF RunsInv
<1>3. UniqueRuns' BY DEF UniqueRuns, Identity
<1>4. Identities' = Identities BY DEF Identities, Identity
<1> QED BY <1>2, <1>3, <1>4

(* A step of the process that commits nothing.                             *)
LEMMA ProcessStep ==
    ASSUME IntakeInv, UNCHANGED <<trackerVars, runs, acceptedIngress>>,
           provider' \in {"available", "withdrawn"}, mode' \in {"enabled", "draining"},
           timer' \in [armed : BOOLEAN, startup : BOOLEAN],
           attempt' \in [Attempts -> AttemptRecords],
           timer'.armed => attempt'[Timed].phase = "idle",
           acknowledged' \subseteq sent, acknowledged' \subseteq Settled,
           \A a \in Attempts :
              \/ attempt'[a] = attempt[a]
              \/ \E phase \in {"idle", "waiting", "reading"}, d \in sent \cup {NoDelivery} :
                    attempt'[a] = Stage(phase, d)
              \/ AttemptInv(a)' /\ Witnessed(a)'
    PROVE  IntakeInv'
<1> Typed BY DEF IntakeInv
<1>1. sent' = sent /\ issue' = issue /\ lapsed' = lapsed /\ adapter' = adapter /\ edits' = edits
  BY DEF trackerVars
<1>2. Identities' = Identities BY DEF Identities, Identity
<1>3. Settled' = Settled BY <1>1, <1>2 DEF Settled
<1>4. Keeps /\ TrackerInv' /\ SteadyInv' BY <1>3, TrackerUntouched
<1>5. RunsInv' /\ UniqueRuns' BY <1>4, RunsUntouched
<1>6. sent' \subseteq Deliveries BY <1>4 DEF Keeps
<1>7. \A a \in Attempts : AttemptInv(a)' /\ Witnessed(a)'
  BY <1>1, <1>4, <1>6, UntouchedAttempt, FreshAttempt
<1>8. Typed' BY <1>1 DEF Typed
<1>9. (acknowledged \cup ToSet(acceptedIngress) \subseteq Settled)' BY <1>3 DEF IntakeInv
<1>10. (Len(acceptedIngress) <= MaxReceipts)' BY DEF IntakeInv
<1> QED BY <1>4, <1>5, <1>7, <1>8, <1>9, <1>10 DEF IntakeInv

(* However an attempt ends.                                                *)
LEMMA EndOf ==
    ASSUME Typed, timer.armed => attempt[Timed].phase = "idle", NEW a \in Attempts, End(a)
    PROVE  /\ timer' \in [armed : BOOLEAN, startup : BOOLEAN]
           /\ attempt' \in [Attempts -> AttemptRecords]
           /\ timer'.armed => attempt'[Timed].phase = "idle"
           /\ \E phase \in {"idle", "waiting", "reading"} : attempt'[a] = Stage(phase, NoDelivery)
           /\ \A b \in Attempts \ {a} : attempt'[b] = attempt[b]
<1> attempt \in [Attempts -> AttemptRecords] /\ timer \in [armed : BOOLEAN, startup : BOOLEAN]
  BY DEF Typed
<1>1. Waiting \in AttemptRecords /\ Idle \in AttemptRecords /\ Idle.phase = "idle"
  BY StagesTyped DEF Waiting, Idle
<1>2. Timed \in Attempts BY DEF Attempts
<1>3. CASE a = Timed
  <2>1. attempt' = [attempt EXCEPT ![a] = IF timer.startup THEN Waiting ELSE Idle]
    BY <1>3 DEF End
  <2>2. timer' = [armed |-> ~timer.startup, startup |-> FALSE] BY <1>3 DEF End, Rearmed
  <2> QED BY <1>1, <1>2, <1>3, <2>1, <2>2 DEF Waiting, Idle
<1>4. CASE a # Timed
  <2>1. attempt' = [attempt EXCEPT ![a] = Idle] /\ timer' = timer BY <1>4 DEF End
  <2> QED BY <1>1, <1>2, <1>4, <2>1 DEF Idle
<1> QED BY <1>3, <1>4

(* An attempt that ends forgets what it read.                              *)
LEMMA EndKeepsInv ==
    ASSUME IntakeInv, NEW a \in Attempts, End(a),
           UNCHANGED <<provider, trackerVars, runs, mode, acceptedIngress>>,
           acknowledged' \subseteq sent, acknowledged' \subseteq Settled
    PROVE  IntakeInv'
<1> Typed /\ (timer.armed => attempt[Timed].phase = "idle") BY DEF IntakeInv
<1>1. provider' \in {"available", "withdrawn"} /\ mode' \in {"enabled", "draining"} BY DEF Typed
<1>2. \A b \in Attempts :
         \/ attempt'[b] = attempt[b]
         \/ \E phase \in {"idle", "waiting", "reading"}, d \in sent \cup {NoDelivery} :
               attempt'[b] = Stage(phase, d)
  BY EndOf
<1> QED BY <1>1, <1>2, EndOf, ProcessStep

----------------------------------------------------------------------------
(* The provider's generation, the timer and the process.                   *)

(* The provider, a restart and the mode touch no issue and no run.         *)
LEMMA ProviderKeepsInv ==
    IntakeInv /\ (WithdrawProvider \/ RegisterProvider \/ Restart \/ SetMode) => IntakeInv'
<1> SUFFICES ASSUME IntakeInv, WithdrawProvider \/ RegisterProvider \/ Restart \/ SetMode
             PROVE  IntakeInv'
  OBVIOUS
<1>1. Typed /\ (timer.armed => attempt[Timed].phase = "idle") /\ acknowledged \subseteq Settled
  BY DEF IntakeInv
<1>2. /\ attempt \in [Attempts -> AttemptRecords] /\ timer \in [armed : BOOLEAN, startup : BOOLEAN]
      /\ provider \in {"available", "withdrawn"} /\ mode \in {"enabled", "draining"}
      /\ acknowledged \subseteq sent
  BY <1>1 DEF Typed
<1>3. Waiting \in AttemptRecords /\ Idle \in AttemptRecords /\ Idle.phase = "idle"
  BY StagesTyped DEF Waiting, Idle
<1>4. Timed \in Attempts BY DEF Attempts
<1>5. CASE WithdrawProvider
  <2>1. provider' = "withdrawn" /\ UNCHANGED <<trackerVars, acknowledged, timer, attempt, durableVars>>
    BY <1>5 DEF WithdrawProvider
  <2> QED BY <1>1, <1>2, <2>1, ProcessStep DEF durableVars
<1>8. CASE SetMode
  <2>1. /\ mode' \in {"enabled", "draining"}
        /\ UNCHANGED <<trackerVars, acknowledged, processVars, runs, acceptedIngress>>
    BY <1>2, <1>8 DEF SetMode
  <2> QED BY <1>1, <1>2, <2>1, ProcessStep DEF processVars
<1>6. CASE RegisterProvider
  <2> USE DEF RegisterProvider, durableVars
  <2>1. CASE attempt[Timed].phase = "idle"
    <3>1. attempt' = [attempt EXCEPT ![Timed] = Waiting] /\ timer' = [timer EXCEPT !.armed = FALSE]
      BY <1>6, <2>1
    <3>2. /\ attempt' \in [Attempts -> AttemptRecords] /\ timer' \in [armed : BOOLEAN, startup : BOOLEAN]
          /\ timer'.armed = FALSE
      BY <1>2, <1>3, <3>1
    <3>3. \A a \in Attempts :
             attempt'[a] = attempt[a] \/ attempt'[a] = Stage("waiting", NoDelivery)
      BY <1>2, <3>1 DEF Waiting
    <3> QED BY <1>1, <1>2, <1>6, <3>2, <3>3, ProcessStep
  <2>2. CASE attempt[Timed].phase # "idle"
    <3>1. attempt' = attempt /\ timer' = [timer EXCEPT !.startup = TRUE] BY <1>6, <2>2
    <3>2. timer' \in [armed : BOOLEAN, startup : BOOLEAN] /\ timer'.armed = timer.armed
      BY <1>2, <3>1
    <3> QED BY <1>1, <1>2, <1>6, <3>1, <3>2, ProcessStep
  <2> QED BY <2>1, <2>2
<1>7. CASE Restart
  <2>1. /\ provider' = "withdrawn" /\ timer' = [armed |-> FALSE, startup |-> FALSE]
        /\ attempt' = [a \in Attempts |-> IF a = Timed THEN Waiting ELSE Idle]
        /\ UNCHANGED <<trackerVars, acknowledged, durableVars>>
    BY <1>7 DEF Restart, Started
  <2>2. /\ attempt' \in [Attempts -> AttemptRecords] /\ timer' \in [armed : BOOLEAN, startup : BOOLEAN]
        /\ timer'.armed = FALSE
    BY <1>3, <2>1
  <2>3. \A a \in Attempts :
           attempt'[a] = Stage("waiting", NoDelivery) \/ attempt'[a] = Stage("idle", NoDelivery)
    BY <2>1 DEF Waiting, Idle
  <2> QED BY <1>1, <1>2, <2>1, <2>2, <2>3, ProcessStep DEF durableVars
<1> QED BY <1>5, <1>6, <1>7, <1>8

(* An attempt that begins has read nothing.                                *)
LEMMA BeginKeepsInv ==
    ASSUME IntakeInv, NEW a \in Attempts, NEW phase \in {"waiting", "reading"},
           NEW d \in sent \cup {NoDelivery}, attempt' = [attempt EXCEPT ![a] = Stage(phase, d)],
           timer' \in {timer, [timer EXCEPT !.armed = FALSE]},
           a = Timed => ~timer'.armed,
           UNCHANGED <<provider, trackerVars, acknowledged, durableVars>>
    PROVE  IntakeInv'
<1>1. Typed /\ (timer.armed => attempt[Timed].phase = "idle") /\ acknowledged \subseteq Settled
  BY DEF IntakeInv
<1>2. /\ attempt \in [Attempts -> AttemptRecords] /\ timer \in [armed : BOOLEAN, startup : BOOLEAN]
      /\ provider \in {"available", "withdrawn"} /\ mode \in {"enabled", "draining"}
      /\ acknowledged \subseteq sent /\ sent \subseteq Deliveries
  BY <1>1 DEF Typed
<1>3. Stage(phase, d) \in AttemptRecords BY <1>2, StagesTyped
<1>4. attempt' \in [Attempts -> AttemptRecords] BY <1>2, <1>3
<1>5. timer' \in [armed : BOOLEAN, startup : BOOLEAN] /\ (timer'.armed => timer.armed) BY <1>2
<1>6. Timed \in Attempts /\ (a # Timed => attempt'[Timed] = attempt[Timed]) BY <1>2 DEF Attempts
<1>7. timer'.armed => attempt'[Timed].phase = "idle" BY <1>1, <1>5, <1>6
<1>8. \A b \in Attempts : attempt'[b] = attempt[b] \/ attempt'[b] = Stage(phase, d) BY <1>2
<1>9. \A b \in Attempts :
         \/ attempt'[b] = attempt[b]
         \/ \E p \in {"idle", "waiting", "reading"}, e \in sent \cup {NoDelivery} :
               attempt'[b] = Stage(p, e)
  BY <1>8
<1> QED BY <1>1, <1>2, <1>4, <1>5, <1>7, <1>9, ProcessStep DEF durableVars

(* However an attempt begins: on schedule, by hand or for a delivery.      *)
LEMMA AttemptsBegin ==
    ASSUME IntakeInv,
           \/ BeginScheduled \/ BeginReading
           \/ \E a \in Requests : BeginManual(a) \/ \E d \in sent : BeginIngress(a, d)
    PROVE  IntakeInv'
<1>1. Typed /\ (timer.armed => attempt[Timed].phase = "idle") BY DEF IntakeInv
<1>2. timer \in [armed : BOOLEAN, startup : BOOLEAN] BY <1>1 DEF Typed
<1>3. Timed \in Attempts /\ Requests \subseteq Attempts /\ Timed \notin Requests
  BY IntakeAssumption DEF Attempts
<1>4. CASE BeginScheduled
  <2>1. ~[timer EXCEPT !.armed = FALSE].armed BY <1>2
  <2> QED BY <1>3, <1>4, <2>1, BeginKeepsInv DEF BeginScheduled, Waiting
<1>5. CASE BeginReading
  <2>1. ~timer.armed BY <1>1, <1>5 DEF BeginReading
  <2> QED BY <1>3, <1>5, <2>1, BeginKeepsInv DEF BeginReading, Reading
<1>6. CASE \E a \in Requests : BeginManual(a) \/ \E d \in sent : BeginIngress(a, d)
  <2>1. PICK a \in Requests : BeginManual(a) \/ \E d \in sent : BeginIngress(a, d) BY <1>6
  <2>2. \E d \in sent \cup {NoDelivery} :
           /\ attempt' = [attempt EXCEPT ![a] = Stage("reading", d)]
           /\ UNCHANGED <<provider, timer, trackerVars, acknowledged, durableVars>>
    BY <2>1 DEF BeginManual, BeginIngress, Reading
  <2> QED BY <1>3, <2>1, <2>2, BeginKeepsInv
<1> QED BY <1>4, <1>5, <1>6

(* Attempts that end without a commit, and deliveries that are known.      *)
LEMMA NothingCommitted ==
    ASSUME IntakeInv,
           \/ TimedEnds
           \/ \E d \in sent : AcknowledgeKnown(d)
           \/ \E a \in Attempts : ReadingFails(a) \/ AbortReading(a) \/ TimelineDisagrees(a)
           \/ \E a \in Attempts : CommitNothing(a)
    PROVE  IntakeInv'
<1>1. /\ Typed /\ (timer.armed => attempt[Timed].phase = "idle")
      /\ acknowledged \cup ToSet(acceptedIngress) \subseteq Settled
  BY DEF IntakeInv
<1>2. /\ attempt \in [Attempts -> AttemptRecords] /\ timer \in [armed : BOOLEAN, startup : BOOLEAN]
      /\ provider \in {"available", "withdrawn"} /\ mode \in {"enabled", "draining"}
      /\ acknowledged \subseteq sent /\ ToSet(acceptedIngress) \subseteq sent
  BY <1>1 DEF Typed
<1>3. Timed \in Attempts BY DEF Attempts
<1>4. CASE TimedEnds
  BY <1>1, <1>2, <1>3, <1>4, EndKeepsInv DEF TimedEnds, durableVars
<1>5. CASE \E d \in sent : AcknowledgeKnown(d)
  <2>1. PICK d \in sent : AcknowledgeKnown(d) BY <1>5
  <2>2. acknowledged' \subseteq sent /\ acknowledged' \subseteq Settled
    BY <1>1, <1>2, <2>1 DEF AcknowledgeKnown
  <2> QED BY <1>1, <1>2, <2>1, <2>2, ProcessStep DEF AcknowledgeKnown, processVars, durableVars
<1>6. CASE \E a \in Attempts : ReadingFails(a) \/ AbortReading(a) \/ TimelineDisagrees(a)
  <2>1. PICK a \in Attempts : FailAttempt(a)
    BY <1>6 DEF ReadingFails, AbortReading, TimelineDisagrees
  <2> QED BY <1>1, <1>2, <2>1, EndKeepsInv DEF FailAttempt, durableVars
<1>7. CASE \E a \in Attempts : CommitNothing(a)
  <2>1. PICK a \in Attempts : CommitNothing(a) BY <1>7
  <2>2. acknowledged' \subseteq sent /\ acknowledged' \subseteq Settled
    BY <1>1, <1>2, <2>1 DEF CommitNothing, Answered
  <2> QED BY <1>1, <1>2, <2>1, <2>2, EndKeepsInv DEF CommitNothing, durableVars
<1> QED BY <1>4, <1>5, <1>6, <1>7

----------------------------------------------------------------------------
(* Reading.                                                                *)

ReadingFrame == UNCHANGED <<provider, timer, trackerVars, acknowledged, durableVars>>

(* What one attempt has read changes; the others' does not.                *)
LEMMA ReadKeepsInv ==
    ASSUME IntakeInv, ReadingFrame, NEW a \in Attempts, NEW seen \in Seq(Evaluations), NEW page \in Pages,
           attempt' = [attempt EXCEPT ![a].seen = seen, ![a].page = page],
           AttemptInv(a)', Witnessed(a)'
    PROVE  IntakeInv'
<1>1. /\ Typed /\ (timer.armed => attempt[Timed].phase = "idle")
      /\ acknowledged \subseteq Settled
  BY DEF IntakeInv
<1>2. /\ attempt \in [Attempts -> AttemptRecords] /\ timer \in [armed : BOOLEAN, startup : BOOLEAN]
      /\ provider \in {"available", "withdrawn"} /\ mode \in {"enabled", "draining"}
      /\ acknowledged \subseteq sent
  BY <1>1 DEF Typed
<1>3. Timed \in Attempts BY DEF Attempts
<1> DEFINE turned == [attempt[a] EXCEPT !.seen = seen, !.page = page]
<1>x. attempt' = [attempt EXCEPT ![a] = turned] OBVIOUS
<1>y. turned \in AttemptRecords /\ turned.phase = attempt[a].phase
  <2>1. attempt[a] \in AttemptRecords BY <1>2
  <2> QED BY <2>1 DEF AttemptRecords
<1> HIDE DEF turned
<1>4. attempt' \in [Attempts -> AttemptRecords] BY <1>2, <1>x, <1>y
<1>5. \A b \in Attempts : attempt'[b].phase = attempt[b].phase BY <1>2, <1>x, <1>y
<1>6. \A b \in Attempts : b # a => attempt'[b] = attempt[b] BY <1>2
<1>7. \A b \in Attempts : attempt'[b] = attempt[b] \/ (AttemptInv(b)' /\ Witnessed(b)')
  BY <1>6
<1> QED BY <1>1, <1>2, <1>3, <1>4, <1>5, <1>7, ProcessStep DEF ReadingFrame, durableVars

(* Reading one more piece of an issue keeps the invariant, whatever was    *)
(* edited since the one before.                                            *)
LEMMA KeepingAPiece ==
    ASSUME IntakeInv, ReadingFrame, NEW a \in Attempts, NEW n \in 0 .. 2, At(a, n), NEW piece, Keep(a, piece),
           n = 0 => piece = "listed" /\ IssueAt(a).ready,
           n = 1 => piece = IssueAt(a).brief,
           n = 2 => piece = IssueAt(a).approvals
    PROVE  IntakeInv'
<1> IssueCount \in Nat BY BoundsTyped
<1> DEFINE seen == attempt[a].seen
           page == attempt[a].page
           next == Append(page, piece)
           i == Len(seen) + 1
<1>1. Typed /\ TrackerInv /\ AttemptInv(a) /\ Witnessed(a) BY DEF IntakeInv
<1>2. /\ attempt \in [Attempts -> AttemptRecords] /\ attempt[a] \in AttemptRecords
      /\ seen \in Seq(Evaluations) /\ Len(seen) \in Nat /\ page \in Pages
  BY <1>1, AttemptTyped DEF Typed
<1>3. i \in Issues /\ Len(seen) < IssueCount /\ Len(page) = n BY <1>2 DEF At, Issues
<1>4. issue[i] = IssueAt(a) BY DEF IssueAt
<1>5. issue[i].brief \in Briefs /\ issue[i].approvals \in Approvals /\ Len(issue[i].approvals) \in Nat
  BY <1>1, <1>3, IssueTyped
<1>6. issue[i].approvals # <<>>
  <2>1. CASE n = 0 BY <1>1, <1>3, <1>4, <2>1 DEF TrackerInv
  <2>2. CASE n # 0
    <3>1. page # <<>> BY <1>2, <1>3, <2>2, AppendedPages
    <3> QED BY <1>1, <3>1 DEF AttemptInv
  <2> QED BY <2>1, <2>2
<1>7. /\ next \in Pages /\ Len(next) = n + 1
      /\ n + 1 > 1 => next[2] = IF n = 1 THEN issue[i].brief ELSE page[2]
      /\ n = 2 => next[3] = issue[i].approvals
  <2>1. CASE n = 0
    <3>1. next = <<"listed">> BY <1>2, <1>3, <2>1, AppendedPages
    <3> QED BY <2>1, <3>1, PagesAre
  <2>2. CASE n = 1
    <3>1. next = <<"listed", issue[i].brief>> BY <1>2, <1>3, <1>4, <2>2, AppendedPages
    <3> QED BY <1>5, <2>2, <3>1, PagesAre
  <2>3. CASE n = 2
    <3>1. next = <<"listed", page[2], issue[i].approvals>> /\ page[2] \in Briefs
      BY <1>2, <1>3, <1>4, <2>3, AppendedPages
    <3> QED BY <1>5, <2>3, <3>1, PagesAre
  <2> QED BY <2>1, <2>2, <2>3
<1>8. attempt' = [attempt EXCEPT ![a].seen = seen, ![a].page = next]
  BY <1>2 DEF Keep, AttemptRecords
<1>9. /\ attempt'[a].seen = seen /\ attempt'[a].page = next
      /\ attempt'[a].delivery = attempt[a].delivery
  BY <1>2, <1>8 DEF AttemptRecords
<1>10. issue' = issue /\ sent' = sent /\ Steady' = Steady
  BY DEF ReadingFrame, trackerVars, durableVars, Steady, Settled, Identities, Identity
<1> HIDE DEF seen, page, next, i
<1>11. AttemptInv(a)'
  <2>1. \A j \in 1 .. Len(seen) :
           \/ seen[j] = NoRun
           \/ /\ seen[j].generation \in 1 .. Len(issue'[j].approvals)
              /\ seen[j].brief \in 1 .. issue'[j].approvals[seen[j].generation]
    BY <1>1, <1>10 DEF AttemptInv, Approved, seen
  <2>2. ASSUME Len(next) = 3
        PROVE  /\ Len(next[3]) \in 1 .. Len(issue[i].approvals)
               /\ \A g \in 1 .. Len(next[3]) : next[3][g] = issue[i].approvals[g]
    <3>1. next[3] = issue[i].approvals
      <4>1. Len(next) = n + 1 BY <1>7
      <4>2. n = 2 BY <2>2, <4>1
      <4> QED BY <1>7, <4>2
    <3>2. Len(issue[i].approvals) > 0 BY <1>1, <1>3, <1>6, IssueTyped
    <3> QED BY <1>5, <3>1, <3>2
  <2>3. attempt[a].delivery \in sent \cup {NoDelivery} BY <1>1 DEF AttemptInv
  <2>4. Len(seen) <= IssueCount BY <1>2, <1>3 DEF seen
  <2> QED BY <1>3, <1>6, <1>9, <1>10, <2>1, <2>2, <2>3, <2>4 DEF AttemptInv, Approved, i
<1>12. Witnessed(a)'
  <2> SUFFICES ASSUME attempt[a].delivery \in Steady PROVE Witnessed(a)'
    BY <1>9, <1>10 DEF Witnessed
  <2>1. /\ attempt[a].delivery[1] <= Len(seen) =>
              seen[attempt[a].delivery[1]].generation = attempt[a].delivery[2]
        /\ i = attempt[a].delivery[1] /\ Len(page) > 1 => page[2] = issue[i].brief
    BY <1>1 DEF Witnessed, seen, page, i
  <2>2. i = attempt[a].delivery[1] /\ n + 1 > 1 => next[2] = issue[i].brief
    BY <1>3, <1>7, <2>1
  <2>3. n + 1 > 2 => next[3] = issue[i].approvals BY <1>7
  <2> QED BY <1>7, <1>9, <1>10, <2>1, <2>2, <2>3 DEF Witnessed, i
<1> QED BY <1>2, <1>7, <1>8, <1>11, <1>12, ReadKeepsInv DEF seen

(* So does going on to the next issue.                                     *)
LEMMA TurningThePage ==
    ASSUME IntakeInv, ReadingFrame, NEW a \in Attempts, NEW n \in 0 .. 3, At(a, n),
           NEW evaluation \in Evaluations, NextPage(a, evaluation),
           evaluation = NoRun \/ Approved(Len(attempt[a].seen) + 1, evaluation),
           attempt[a].delivery \in Steady /\ attempt[a].delivery[1] = Len(attempt[a].seen) + 1 =>
               evaluation.generation = attempt[a].delivery[2]
    PROVE  IntakeInv'
<1> IssueCount \in Nat BY BoundsTyped
<1> DEFINE seen == attempt[a].seen
           next == Append(seen, evaluation)
           i == Len(seen) + 1
<1>1. Typed /\ AttemptInv(a) /\ Witnessed(a) BY DEF IntakeInv
<1>2. /\ attempt \in [Attempts -> AttemptRecords] /\ attempt[a] \in AttemptRecords
      /\ seen \in Seq(Evaluations) /\ Len(seen) \in Nat
  BY <1>1, AttemptTyped DEF Typed
<1>3. Len(seen) < IssueCount BY DEF At
<1>4. /\ next \in Seq(Evaluations) /\ Len(next) = i
      /\ \A j \in 1 .. Len(seen) : next[j] = seen[j]
      /\ next[i] = evaluation
  BY <1>2, AppendProperties
<1>5. attempt' = [attempt EXCEPT ![a].seen = next, ![a].page = <<>>]
  BY <1>2 DEF NextPage, AttemptRecords
<1>6. /\ attempt'[a].seen = next /\ attempt'[a].page = <<>>
      /\ attempt'[a].delivery = attempt[a].delivery
  BY <1>2, <1>5 DEF AttemptRecords
<1>7. issue' = issue /\ sent' = sent /\ Steady' = Steady
  BY DEF ReadingFrame, trackerVars, durableVars, Steady, Settled, Identities, Identity
<1>8. <<>> \in Pages BY PagesAre
<1>9. Len(<<>>) = 0 BY <1>8, AppendedPages
<1>10. \A j \in 1 .. Len(seen) : seen[j] = NoRun \/ Approved(j, seen[j]) BY <1>1 DEF AttemptInv
<1> HIDE DEF seen, next, i
<1>11. AttemptInv(a)'
  <2>1. \A j \in 1 .. Len(next) : next[j] = NoRun \/ Approved(j, next[j])
    <3> TAKE j \in 1 .. Len(next)
    <3>1. CASE j = i BY <1>4, <3>1 DEF i, seen
    <3>2. CASE j # i
      <4>1. j \in 1 .. Len(seen) BY <1>2, <1>4, <3>2 DEF i
      <4> QED BY <1>4, <1>10, <4>1
    <3> QED BY <3>1, <3>2
  <2>2. \A j \in 1 .. Len(next) :
           \/ next[j] = NoRun
           \/ /\ next[j].generation \in 1 .. Len(issue'[j].approvals)
              /\ next[j].brief \in 1 .. issue'[j].approvals[next[j].generation]
    BY <1>7, <2>1 DEF Approved
  <2>3. attempt[a].delivery \in sent \cup {NoDelivery} BY <1>1 DEF AttemptInv
  <2>4. Len(next) <= IssueCount BY <1>2, <1>3, <1>4 DEF i
  <2> QED BY <1>6, <1>7, <1>9, <2>2, <2>3, <2>4 DEF AttemptInv, Approved
<1>12. Witnessed(a)'
  <2> SUFFICES ASSUME attempt[a].delivery \in Steady PROVE Witnessed(a)'
    BY <1>6, <1>7 DEF Witnessed
  <2>1. attempt[a].delivery[1] <= Len(seen) =>
              seen[attempt[a].delivery[1]].generation = attempt[a].delivery[2]
    BY <1>1 DEF Witnessed, seen
  <2>2. attempt[a].delivery \in Deliveries BY <1>1 DEF Typed, Steady
  <2>3. attempt[a].delivery[1] \in Nat /\ attempt[a].delivery[1] > 0
    BY <2>2 DEF Deliveries, Issues
  <2>4. attempt[a].delivery[1] <= Len(next) =>
              next[attempt[a].delivery[1]].generation = attempt[a].delivery[2]
    <3>1. CASE attempt[a].delivery[1] = i BY <1>4, <3>1 DEF i, seen
    <3>2. CASE attempt[a].delivery[1] # i
      <4> SUFFICES ASSUME attempt[a].delivery[1] <= Len(next)
                   PROVE  next[attempt[a].delivery[1]].generation = attempt[a].delivery[2]
        OBVIOUS
      <4>1. attempt[a].delivery[1] \in 1 .. Len(seen) BY <1>2, <1>4, <2>3, <3>2 DEF i
      <4> QED BY <1>2, <1>4, <2>1, <4>1
    <3> QED BY <3>1, <3>2
  <2> QED BY <1>6, <1>9, <2>4 DEF Witnessed
<1> QED BY <1>4, <1>5, <1>8, <1>11, <1>12, ReadKeepsInv

(* An issue that is listed with the facts at hand: what its evaluation     *)
(* asks for was approved.                                                  *)
LEMMA EvaluationApproved ==
    ASSUME IntakeInv, NEW i \in Issues, NEW approvals \in Approvals, NEW brief \in Briefs,
           NEW blocked \in BOOLEAN, Len(approvals) \in 1 .. Len(issue[i].approvals),
           \A g \in 1 .. Len(approvals) : approvals[g] = issue[i].approvals[g]
    PROVE  LET evaluation == Evaluate(ReadyBy(approvals, brief, blocked))
           IN /\ evaluation \in Evaluations
              /\ evaluation = NoRun \/ Approved(i, evaluation)
              /\ ~blocked /\ brief <= approvals[Len(approvals)] => evaluation.generation = Len(approvals)
<1> DEFINE facts == ReadyBy(approvals, brief, blocked)
           evaluation == Evaluate(facts)
<1> MaxGeneration \in Nat /\ MaxBriefs \in Nat BY BoundsTyped
<1>1. Typed BY DEF IntakeInv
<1>2. Len(issue[i].approvals) \in 0 .. MaxGeneration BY <1>1, IssueTyped
<1>3. Len(approvals) \in 1 .. MaxGeneration BY <1>2
<1>4. approvals[Len(approvals)] = issue[i].approvals[Len(approvals)] BY <1>3
<1>5. approvals[Len(approvals)] \in Briefs BY <1>1, <1>2, <1>4, IssueTyped
<1>6. /\ facts.ready = TRUE /\ facts.blocked = blocked /\ facts.brief = brief /\ facts.approvals = approvals
  BY DEF ReadyBy
<1> HIDE DEF facts
<1>7. Eligible(facts) <=> ~blocked /\ brief <= approvals[Len(approvals)]
  BY <1>5, <1>6 DEF Eligible, AmendedSince, Last, Briefs
<1>8. NoRun \in Evaluations BY DEF NoRun, Evaluations
<1>9. CASE Eligible(facts)
  <2>1. evaluation = [generation |-> Len(approvals), brief |-> brief] BY <1>6, <1>9 DEF Evaluate
  <2>2. evaluation \in Evaluations BY <1>3, <2>1 DEF Evaluations, Briefs
  <2>3. Approved(i, evaluation) BY <1>3, <1>4, <1>5, <1>7, <1>9, <2>1 DEF Approved, Briefs
  <2> QED BY <2>1, <2>2, <2>3 DEF facts
<1>10. CASE ~Eligible(facts)
  <2>1. evaluation = NoRun BY <1>10 DEF Evaluate
  <2> QED BY <1>7, <1>8, <1>10, <2>1 DEF facts
<1> QED BY <1>9, <1>10

(* Every read of an attempt keeps the invariant.                           *)
LEMMA ReadNextKeepsInv ==
    ASSUME IntakeInv, NEW a \in Attempts, ReadNext(a)
    PROVE  IntakeInv'
<1> IssueCount \in Nat BY BoundsTyped
<1> DEFINE seen == attempt[a].seen
           page == attempt[a].page
           i == Len(seen) + 1
           d == attempt[a].delivery
<1>1. Typed /\ TrackerInv /\ AttemptInv(a) /\ Witnessed(a) /\ SteadyInv BY DEF IntakeInv
<1>2. ReadingFrame BY DEF ReadNext, ReadingFrame
<1>3. page \in Pages /\ Len(seen) \in Nat BY <1>1, AttemptTyped
<1>4. ASSUME NEW n \in 0 .. 3, At(a, n)
      PROVE  i \in Issues /\ Len(page) = n /\ issue[i] = IssueAt(a) /\ IssueAt(a) \in IssueRecords
    BY <1>1, <1>3, <1>4, IssueTyped DEF At, IssueAt, Issues
<1>5. NoRun \in Evaluations BY BoundsTyped DEF NoRun, Evaluations
(* An issue that is not listed, or is blocked, is not steady.              *)
<1>6. ASSUME At(a, 0), ~(IssueAt(a).ready /\ ~IssueAt(a).blocked), NextPage(a, NoRun)
      PROVE  IntakeInv'
  <2>1. ~(d \in Steady /\ d[1] = i) BY <1>1, <1>4, <1>6 DEF SteadyInv
  <2> QED BY <1>2, <1>5, <1>6, <2>1, TurningThePage
<1>7. CASE SearchIssues(a)
  <2>1. CASE IssueAt(a).ready /\ ~IssueAt(a).blocked
    <3>1. At(a, 0) /\ Keep(a, "listed") BY <1>7, <2>1 DEF SearchIssues
    <3> QED BY <1>2, <2>1, <3>1, KeepingAPiece
  <2>2. CASE ~(IssueAt(a).ready /\ ~IssueAt(a).blocked)
    <3>1. At(a, 0) /\ NextPage(a, NoRun) BY <1>7, <2>2 DEF SearchIssues
    <3> QED BY <1>6, <2>2, <3>1
  <2> QED BY <2>1, <2>2
<1>8. CASE ListLabelled(a)
  <2>1. CASE IssueAt(a).ready
    <3>1. At(a, 0) /\ Keep(a, "listed") BY <1>8, <2>1 DEF ListLabelled
    <3> QED BY <1>2, <2>1, <3>1, KeepingAPiece
  <2>2. CASE ~IssueAt(a).ready
    <3>1. At(a, 0) /\ NextPage(a, NoRun) BY <1>8, <2>2 DEF ListLabelled
    <3> QED BY <1>6, <2>2, <3>1
  <2> QED BY <2>1, <2>2
<1>9. CASE ReadJiraComments(a) \/ ReadGitHubComments(a)
  <2>1. At(a, 1) /\ Keep(a, IssueAt(a).brief) BY <1>9 DEF ReadJiraComments, ReadGitHubComments
  <2> QED BY <1>2, <2>1, KeepingAPiece
<1>10. CASE ReadTimeline(a)
  <2>1. At(a, 2) /\ Keep(a, IssueAt(a).approvals) BY <1>10 DEF ReadTimeline
  <2> QED BY <1>2, <2>1, KeepingAPiece
<1>11. CASE ReadChangelogs(a)
  <2>1. At(a, 2) BY <1>11 DEF ReadChangelogs
  <2>2. i \in Issues /\ Len(page) = 2 /\ issue[i] = IssueAt(a) BY <1>4, <2>1
  <2> DEFINE approvals == issue[i].approvals
             evaluation == Evaluate(ReadyBy(approvals, page[2], FALSE))
  <2>3. page[2] \in Briefs BY <1>3, <2>2, AppendedPages
  <2>4. page # <<>> BY <1>3, <2>2, AppendedPages
  <2>5. approvals # <<>> BY <1>1, <2>4 DEF AttemptInv
  <2>6. approvals \in Approvals /\ Len(approvals) \in Nat /\ Len(approvals) > 0
    BY <1>1, <2>2, <2>5, IssueTyped
  <2>7. Len(approvals) \in 1 .. Len(issue[i].approvals) BY <2>6
  <2>8. /\ evaluation \in Evaluations
        /\ evaluation = NoRun \/ Approved(i, evaluation)
        /\ page[2] <= approvals[Len(approvals)] => evaluation.generation = Len(approvals)
    BY <2>2, <2>3, <2>6, <2>7, EvaluationApproved
  <2>9. ASSUME d \in Steady, d[1] = i PROVE evaluation.generation = d[2]
    <3>1. Len(approvals) = d[2] /\ approvals[d[2]] = issue[i].brief BY <1>1, <2>9 DEF SteadyInv
    <3>2. page[2] = issue[i].brief BY <1>1, <2>2, <2>9 DEF Witnessed
    <3>3. page[2] <= approvals[Len(approvals)]
      <4>1. page[2] = approvals[Len(approvals)] BY <3>1, <3>2
      <4>2. page[2] \in Nat BY <2>3 DEF Briefs
      <4> HIDE DEF page, approvals
      <4> QED BY <4>1, <4>2
    <3> QED BY <2>8, <3>1, <3>3
  <2>10. NextPage(a, evaluation)
    <3>1. JiraSnapshot(a) = ReadyBy(approvals, page[2], FALSE) BY <2>2 DEF JiraSnapshot
    <3> QED BY <1>11, <3>1 DEF ReadChangelogs
  <2> HIDE DEF evaluation
  <2> QED BY <1>2, <2>1, <2>8, <2>9, <2>10, TurningThePage
<1>12. CASE ReadDependencies(a)
  <2>1. At(a, 3) BY <1>12 DEF ReadDependencies
  <2>2. i \in Issues /\ Len(page) = 3 /\ issue[i] = IssueAt(a) BY <1>4, <2>1
  <2> DEFINE approvals == page[3]
             blocked == issue[i].blocked
             evaluation == Evaluate(ReadyBy(approvals, page[2], blocked))
  <2>3. page[2] \in Briefs /\ approvals \in Approvals BY <1>3, <2>2, AppendedPages, AttemptTyped, <1>1
  <2>4. blocked \in BOOLEAN BY <1>1, <2>2, IssueTyped
  <2>5. /\ Len(approvals) \in 1 .. Len(issue[i].approvals)
        /\ \A g \in 1 .. Len(approvals) : approvals[g] = issue[i].approvals[g]
    BY <1>1, <2>2 DEF AttemptInv
  <2>6. /\ evaluation \in Evaluations
        /\ evaluation = NoRun \/ Approved(i, evaluation)
        /\ ~blocked /\ page[2] <= approvals[Len(approvals)] => evaluation.generation = Len(approvals)
    BY <2>2, <2>3, <2>4, <2>5, EvaluationApproved
  <2>7. ASSUME d \in Steady, d[1] = i PROVE evaluation.generation = d[2]
    <3>1. Len(issue[i].approvals) = d[2] /\ issue[i].approvals[d[2]] = issue[i].brief /\ ~blocked
      BY <1>1, <2>7 DEF SteadyInv
    <3>2. page[2] = issue[i].brief /\ approvals = issue[i].approvals
      BY <1>1, <2>2, <2>7 DEF Witnessed
    <3>3. page[2] <= approvals[Len(approvals)]
      <4>1. page[2] = approvals[Len(approvals)] BY <3>1, <3>2
      <4>2. page[2] \in Nat BY <2>3 DEF Briefs
      <4> HIDE DEF page, approvals
      <4> QED BY <4>1, <4>2
    <3> QED BY <2>6, <3>1, <3>2, <3>3
  <2>8. NextPage(a, evaluation)
    <3>1. GitHubSnapshot(a) = ReadyBy(approvals, page[2], blocked) BY <2>2 DEF GitHubSnapshot
    <3> QED BY <1>12, <3>1 DEF ReadDependencies
  <2> HIDE DEF evaluation
  <2> QED BY <1>2, <2>1, <2>6, <2>7, <2>8, TurningThePage
<1> QED BY <1>7, <1>8, <1>9, <1>10, <1>11, <1>12 DEF ReadNext

----------------------------------------------------------------------------
(* The tracker.                                                            *)

(* An edit after which no readiness of the issue that was delivered before *)
(* is steady, and the one it makes, if any, is.                            *)
LEMMA EditKeepsInv ==
    ASSUME IntakeInv, NEW i \in Issues, NEW edited \in IssueRecords, Edit(i, edited),
           sent \subseteq sent', sent' \subseteq Deliveries, lapsed \subseteq lapsed',
           TrackerInv',
           Len(issue[i].approvals) <= Len(edited.approvals),
           \A g \in 1 .. Len(issue[i].approvals) : edited.approvals[g] = issue[i].approvals[g],
           \A d \in Steady' : d[1] = i =>
              /\ d \notin sent
              /\ edited.ready /\ ~edited.blocked
              /\ Len(edited.approvals) = d[2]
              /\ edited.approvals[d[2]] = edited.brief,
           \A d \in sent' \ sent : d[1] = i
    PROVE  IntakeInv'
<1> MaxEdits \in Nat BY BoundsTyped
<1>1. /\ Typed /\ (timer.armed => attempt[Timed].phase = "idle") /\ SteadyInv
      /\ acknowledged \cup ToSet(acceptedIngress) \subseteq Settled
      /\ Len(acceptedIngress) <= MaxReceipts
  BY DEF IntakeInv
<1>2. /\ edits' \in 0 .. MaxEdits
      /\ issue' = [issue EXCEPT ![i] = edited]
      /\ UNCHANGED <<adapter, acknowledged, provider, timer, attempt, mode, runs, acceptedIngress>>
  BY <1>1 DEF Edit, Typed, processVars, durableVars
<1>3. issue \in [Issues -> IssueRecords] BY <1>1 DEF Typed
<1>4. issue' \in [Issues -> IssueRecords] /\ issue'[i] = edited
  BY <1>2, <1>3
<1>5. \A j \in Issues : j # i => issue'[j] = issue[j] BY <1>2, <1>3
<1>6. Identities' = Identities BY <1>2 DEF Identities, Identity
<1>7. Settled \subseteq Settled' BY <1>6 DEF Settled
<1>8. Keeps
  <2>1. ASSUME NEW j \in Issues
        PROVE  /\ Len(issue[j].approvals) <= Len(issue'[j].approvals)
               /\ \A g \in 1 .. Len(issue[j].approvals) : issue'[j].approvals[g] = issue[j].approvals[g]
    <3>1. CASE j = i BY <1>4, <3>1
    <3>2. CASE j # i
      <4>1. Len(issue[j].approvals) \in Nat BY <1>1, IssueTyped
      <4> QED BY <1>5, <3>2, <4>1
    <3> QED BY <3>1, <3>2
  <2>2. ASSUME NEW d \in sent, d \in Steady' PROVE d \in Steady /\ issue'[d[1]] = issue[d[1]]
    <3>1. d \in Steady BY <1>7, <2>2 DEF Steady
    <3>2. d[1] # i BY <2>2
    <3>3. d[1] \in Issues BY <1>1 DEF Typed, Deliveries
    <3> QED BY <1>5, <3>1, <3>2, <3>3
  <2> QED BY <1>4, <2>1, <2>2 DEF Keeps
<1>9. RunsInv' /\ UniqueRuns' BY <1>2, <1>8, RunsUntouched
<1>10. \A a \in Attempts : AttemptInv(a)' /\ Witnessed(a)' BY <1>2, <1>8, UntouchedAttempt
<1>11. SteadyInv'
  <2> SUFFICES ASSUME NEW d \in Steady'
               PROVE  /\ issue'[d[1]].ready /\ ~issue'[d[1]].blocked
                      /\ Len(issue'[d[1]].approvals) = d[2]
                      /\ issue'[d[1]].approvals[d[2]] = issue'[d[1]].brief
    BY DEF SteadyInv
  <2>1. CASE d[1] = i BY <1>4, <2>1
  <2>2. CASE d[1] # i
    <3>1. d \in sent BY <2>2 DEF Steady
    <3>2. d \in Steady /\ issue'[d[1]] = issue[d[1]] BY <1>8, <3>1 DEF Keeps
    <3> QED BY <1>1, <3>2 DEF SteadyInv
  <2> QED BY <2>1, <2>2
<1>12. Typed' BY <1>1, <1>2, <1>4 DEF Typed
<1>13. (acknowledged \cup ToSet(acceptedIngress) \subseteq Settled)' BY <1>1, <1>2, <1>7
<1>14. (Len(acceptedIngress) <= MaxReceipts)' BY <1>1, <1>2
<1>15. (timer.armed => attempt[Timed].phase = "idle")' BY <1>1, <1>2
<1> QED BY <1>9, <1>10, <1>11, <1>12, <1>13, <1>14, <1>15 DEF IntakeInv

(* Nothing of an issue that is not ready, is blocked or was made ready     *)
(* again is steady.                                                        *)
LEMMA SteadyIsLast ==
    ASSUME IntakeInv, NEW i \in Issues, NEW d \in Steady, d[1] = i
    PROVE  issue[i].ready /\ ~issue[i].blocked /\ d = Readiness(i)
<1>1. d \in Deliveries BY DEF IntakeInv, Typed, Steady
<1>2. d = <<d[1], d[2]>> BY <1>1 DEF Deliveries
<1> QED BY <1>2 DEF IntakeInv, SteadyInv, Readiness

(* A new readiness generation adds an approval and takes none away.        *)
LEMMA MakeReadyKeepsInv ==
    ASSUME IntakeInv, NEW i \in Issues, MakeReady(i)
    PROVE  IntakeInv'
<1> MaxGeneration \in Nat BY BoundsTyped
<1> DEFINE made == <<i, Len(issue[i].approvals) + 1>>
           edited == [issue[i] EXCEPT !.approvals = Append(@, issue[i].brief), !.ready = TRUE]
           old == issue[i].approvals
           new == Append(old, issue[i].brief)
<1>1. Typed /\ TrackerInv /\ RunsInv BY DEF IntakeInv
<1>2. /\ issue[i] \in IssueRecords /\ old \in Seq(Briefs) /\ Len(old) \in 0 .. MaxGeneration
      /\ issue[i].brief \in Briefs
  BY <1>1, IssueTyped
<1>3. /\ new \in Seq(Briefs) /\ Len(new) = Len(old) + 1 /\ new # <<>>
      /\ \A g \in 1 .. Len(old) : new[g] = old[g]
      /\ new[Len(old) + 1] = issue[i].brief
  BY <1>2, AppendProperties
<1>4. ~issue[i].ready /\ Len(old) < MaxGeneration /\ Edit(i, edited) /\ sent' = sent \cup {made}
  BY DEF MakeReady
<1>5. new \in Approvals
  <2> HIDE DEF new
  <2>1. Len(new) <= MaxGeneration BY <1>2, <1>3, <1>4
  <2> QED BY <1>3, <2>1, ApprovalsAreSequences
<1>6. /\ edited \in IssueRecords /\ edited.approvals = new /\ edited.ready = TRUE
      /\ edited.blocked = issue[i].blocked /\ edited.brief = issue[i].brief
  BY <1>2, <1>5 DEF IssueRecords
<1>7. made \in Deliveries /\ sent \subseteq Deliveries BY <1>1, <1>2, <1>4 DEF Deliveries, Typed
<1>8. issue' = [issue EXCEPT ![i] = edited] /\ issue \in [Issues -> IssueRecords] /\ runs' = runs
  BY <1>1, <1>4 DEF Edit, Typed, durableVars
<1>9. Identities' = Identities BY <1>8 DEF Identities, Identity
<1>10. lapsed' = IF issue[i].blocked /\ made \notin Identities THEN lapsed \cup {made} ELSE lapsed
  BY DEF MakeReady, Lapses
<1> HIDE DEF edited, old, new
<1>11. TrackerInv'
  <2>1. ASSUME NEW j \in Issues, NEW g \in 1 .. MaxGeneration
        PROVE  <<j, g>> \in sent' <=> g <= Len(issue'[j].approvals)
    <3>1. CASE j = i
      <4>1. Len(issue'[j].approvals) = Len(old) + 1 BY <1>3, <1>6, <1>8, <3>1
      <4>2. <<j, g>> = made <=> g = Len(old) + 1 BY <3>1 DEF old
      <4>3. <<j, g>> \in sent <=> g <= Len(old) BY <1>1, <3>1 DEF TrackerInv, old
      <4> QED BY <1>2, <1>4, <4>1, <4>2, <4>3
    <3>2. CASE j # i
      <4>1. issue'[j] = issue[j] BY <1>8, <3>2
      <4>2. <<j, g>> # made BY <3>2
      <4> QED BY <1>1, <1>4, <4>1, <4>2 DEF TrackerInv
    <3> QED BY <3>1, <3>2
  <2>2. ASSUME NEW j \in Issues, issue'[j].ready PROVE issue'[j].approvals # <<>>
    <3>1. CASE j = i BY <1>3, <1>6, <1>8, <3>1
    <3>2. CASE j # i BY <1>1, <1>8, <2>2, <3>2 DEF TrackerInv
    <3> QED BY <3>1, <3>2
  <2> QED BY <2>1, <2>2 DEF TrackerInv
<1>12. made \notin Identities
  <2> SUFFICES ASSUME NEW k \in DOMAIN runs, Identity(runs[k]) = made PROVE FALSE
    BY DEF Identities
  <2>1. runs[k].issue = i /\ runs[k].generation = Len(old) + 1 BY DEF Identity, old
  <2>2. runs[k].generation \in 1 .. Len(old) BY <1>1, <2>1 DEF RunsInv, Approved, old
  <2> QED BY <1>2, <2>1, <2>2
<1>13. ASSUME NEW d \in Steady', d[1] = i
       PROVE  /\ d \notin sent /\ edited.ready /\ ~edited.blocked
              /\ Len(edited.approvals) = d[2] /\ edited.approvals[d[2]] = edited.brief
  <2>1. d \in sent' /\ d \notin lapsed' /\ d \notin Identities BY <1>9 DEF Steady, Settled
  <2>2. d \notin sent
    <3> SUFFICES ASSUME d \in sent PROVE FALSE OBVIOUS
    <3>1. d \in Steady BY <1>10, <2>1 DEF Steady, Settled
    <3> QED BY <1>4, <1>13, <3>1, SteadyIsLast
  <2>3. d = made BY <1>4, <2>1, <2>2
  <2>4. ~issue[i].blocked BY <1>10, <1>12, <2>1, <2>3
  <2>5. d[2] = Len(old) + 1 BY <2>3 DEF old
  <2> QED BY <1>3, <1>6, <2>2, <2>4, <2>5
<1>14. \A d \in sent' \ sent : d[1] = i BY <1>4
<1>15. Len(old) <= Len(edited.approvals) /\ \A g \in 1 .. Len(old) : edited.approvals[g] = old[g]
  BY <1>2, <1>3, <1>6
<1>16. sent \subseteq sent' /\ sent' \subseteq Deliveries /\ lapsed \subseteq lapsed'
  BY <1>4, <1>7, <1>10
<1> QED BY <1>4, <1>6, <1>11, <1>13, <1>14, <1>15, <1>16, EditKeepsInv DEF old

(* Other edits of an issue approve nothing.                                *)
LEMMA OtherEditsKeepInv ==
    ASSUME IntakeInv, NEW i \in Issues, Spoil(i) \/ Unblock(i)
    PROVE  IntakeInv'
<1> MaxBriefs \in Nat BY BoundsTyped
<1>1. Typed /\ TrackerInv BY DEF IntakeInv
<1>2. /\ issue[i] \in IssueRecords /\ Len(issue[i].approvals) \in 0 .. MaxGeneration
      /\ issue[i].brief \in Briefs
  BY <1>1, IssueTyped
<1>3. PICK edited :
         /\ Edit(i, edited)
         /\ \/ issue[i].ready /\ edited = [issue[i] EXCEPT !.ready = FALSE]
            \/ edited = [issue[i] EXCEPT !.blocked = TRUE]
            \/ issue[i].brief < MaxBriefs /\ edited = [issue[i] EXCEPT !.brief = @ + 1]
            \/ edited = [issue[i] EXCEPT !.blocked = FALSE]
  BY DEF Spoil, Unblock
<1>4. /\ edited \in IssueRecords /\ edited.approvals = issue[i].approvals
      /\ edited.ready => issue[i].ready
  <2>1. CASE edited = [issue[i] EXCEPT !.ready = FALSE] BY <1>2, <2>1 DEF IssueRecords
  <2>2. CASE edited = [issue[i] EXCEPT !.blocked = TRUE] \/ edited = [issue[i] EXCEPT !.blocked = FALSE]
    BY <1>2, <2>2 DEF IssueRecords
  <2>3. CASE issue[i].brief < MaxBriefs /\ edited = [issue[i] EXCEPT !.brief = @ + 1]
    <3>1. issue[i].brief + 1 \in Briefs BY <1>2, <2>3 DEF Briefs
    <3> QED BY <1>2, <2>3, <3>1 DEF IssueRecords
  <2> QED BY <1>3, <2>1, <2>2, <2>3
<1>5. /\ issue' = [issue EXCEPT ![i] = edited] /\ issue \in [Issues -> IssueRecords]
      /\ runs' = runs /\ sent' = sent
  BY <1>1, <1>3 DEF Edit, Typed, durableVars, Spoil, Unblock
<1>6. Identities' = Identities BY <1>5 DEF Identities, Identity
<1>7. TrackerInv'
  <2>1. \A j \in Issues : issue'[j].approvals = issue[j].approvals /\ (issue'[j].ready => issue[j].ready)
    BY <1>4, <1>5
  <2> QED BY <1>1, <1>5, <2>1 DEF TrackerInv
<1>8. lapsed \subseteq lapsed' BY DEF Spoil, Unblock, Lapses
<1>9. \A d \in Steady' : d[1] # i
  <2> SUFFICES ASSUME NEW d \in Steady', d[1] = i PROVE FALSE OBVIOUS
  <2>1. d \in Steady BY <1>5, <1>6, <1>8 DEF Steady, Settled
  <2>2. issue[i].ready /\ ~issue[i].blocked /\ d = Readiness(i) BY <2>1, SteadyIsLast
  <2>3. d \in lapsed' \/ d \in Identities BY <2>2 DEF Spoil, Unblock, Lapses
  <2> QED BY <1>6, <2>3 DEF Steady, Settled
<1>10. sent \subseteq sent' /\ sent' \subseteq Deliveries BY <1>1, <1>5 DEF Typed
<1>11. /\ Len(issue[i].approvals) <= Len(edited.approvals)
       /\ \A g \in 1 .. Len(issue[i].approvals) : edited.approvals[g] = issue[i].approvals[g]
  BY <1>2, <1>4
<1> QED BY <1>3, <1>4, <1>5, <1>7, <1>8, <1>9, <1>10, <1>11, EditKeepsInv

----------------------------------------------------------------------------
(* The durable record.                                                     *)

(* What the types say of one run.                                          *)
LEMMA RunTyped ==
    ASSUME IntakeInv, NEW k \in DOMAIN runs
    PROVE  /\ runs[k] \in RunRecords /\ runs[k].issue \in Issues /\ runs[k].state \in RunStates
           /\ Approved(runs[k].issue, runs[k])
<1>1. runs[k] \in RunRecords BY LenProperties, ElementOfSeq DEF IntakeInv, Typed
<1> QED BY <1>1 DEF IntakeInv, RunsInv, RunRecords

(* A claim moves one run on and creates none.                              *)
LEMMA ClaimKeepsInv ==
    ASSUME IntakeInv, NEW k \in DOMAIN runs, Claim(k)
    PROVE  IntakeInv'
<1>1. /\ Typed /\ (timer.armed => attempt[Timed].phase = "idle") /\ UniqueRuns
      /\ acknowledged \cup ToSet(acceptedIngress) \subseteq Settled
      /\ Len(acceptedIngress) <= MaxReceipts
  BY DEF IntakeInv
<1>2. /\ runs' = [runs EXCEPT ![k] = [runs[k] EXCEPT !.state = "started"]]
      /\ UNCHANGED <<trackerVars, acknowledged, processVars, mode, acceptedIngress>>
  BY DEF Claim
<1>3. runs \in Seq(RunRecords) /\ DOMAIN runs = 1 .. Len(runs) /\ Len(runs) \in Nat
  BY <1>1, LenProperties DEF Typed
<1>4. [runs[k] EXCEPT !.state = "started"] \in RunRecords BY RunTyped DEF RunRecords, RunStates
<1>5. runs' \in Seq(RunRecords) /\ DOMAIN runs' = DOMAIN runs
  BY <1>2, <1>3, <1>4, ExceptSeq
<1>6. \A j \in DOMAIN runs :
         runs'[j].issue = runs[j].issue /\ runs'[j].generation = runs[j].generation
            /\ runs'[j].brief = runs[j].brief
  <2> TAKE j \in DOMAIN runs
  <2>1. CASE j = k BY <1>2, <1>3, <2>1, RunTyped DEF RunRecords
  <2>2. CASE j # k BY <1>2, <1>3, <2>2
  <2> QED BY <2>1, <2>2
<1>7. Identities' = Identities BY <1>5, <1>6 DEF Identities, Identity
<1>8. Settled' = Settled BY <1>2, <1>7 DEF Settled, trackerVars
<1>9. Keeps /\ TrackerInv' /\ SteadyInv' BY <1>2, <1>8, TrackerUntouched
<1>10. \A a \in Attempts : AttemptInv(a)' /\ Witnessed(a)'
  BY <1>2, <1>9, UntouchedAttempt DEF processVars
<1>11. RunsInv'
  <2> SUFFICES ASSUME NEW j \in DOMAIN runs PROVE Approved(runs[j].issue, runs[j])'
    BY <1>5 DEF RunsInv
  <2>1. Approved(runs[j].issue, runs[j]) BY RunTyped
  <2> QED BY <1>2, <1>6, <2>1 DEF Approved, trackerVars
<1>12. UniqueRuns' BY <1>1, <1>5, <1>6 DEF UniqueRuns, Identity
<1>13. Typed' BY <1>1, <1>2, <1>5 DEF Typed, trackerVars, processVars
<1>14. (acknowledged \cup ToSet(acceptedIngress) \subseteq Settled)' BY <1>1, <1>2, <1>8
<1>15. (Len(acceptedIngress) <= MaxReceipts)' BY <1>1, <1>2
<1>16. (timer.armed => attempt[Timed].phase = "idle")' BY <1>1, <1>2 DEF processVars
<1> QED BY <1>9, <1>10, <1>11, <1>12, <1>13, <1>14, <1>15, <1>16 DEF IntakeInv

(* Receipts are kept up to the limit.                                      *)
LEMMA ReceiptsKept ==
    ASSUME NEW receipts \in Seq(Deliveries), Len(receipts) <= MaxReceipts + 1
    PROVE  /\ LastReceipts(receipts) \in Seq(Deliveries)
           /\ Len(LastReceipts(receipts)) <= MaxReceipts
           /\ ToSet(LastReceipts(receipts)) \subseteq ToSet(receipts)
<1> MaxReceipts \in Nat BY BoundsTyped
<1>1. Len(receipts) \in Nat /\ DOMAIN receipts = 1 .. Len(receipts) BY LenProperties
<1>2. CASE Len(receipts) > MaxReceipts
  <2> DEFINE rest == Tail(receipts)
  <2>1. receipts # <<>>
    <3>1. Len(<<>>) = 0 BY EmptySeq
    <3> QED BY <1>2, <3>1
  <2>2. /\ rest \in Seq(Deliveries) /\ Len(rest) = Len(receipts) - 1
        /\ \A k \in 1 .. Len(rest) : rest[k] = receipts[k + 1]
    BY <2>1, HeadTailProperties
  <2>3. LastReceipts(receipts) = rest BY <1>2 DEF LastReceipts
  <2> HIDE DEF rest
  <2>4. DOMAIN rest = 1 .. Len(rest) /\ Len(rest) \in Nat BY <2>2, LenProperties
  <2>5. ASSUME NEW k \in DOMAIN rest PROVE rest[k] \in ToSet(receipts)
    <3>1. k + 1 \in DOMAIN receipts BY <1>1, <2>2, <2>4
    <3> QED BY <2>2, <2>4, <3>1 DEF ToSet
  <2>6. ToSet(rest) \subseteq ToSet(receipts) BY <2>5 DEF ToSet
  <2> QED BY <1>1, <2>2, <2>3, <2>6
<1>3. CASE ~(Len(receipts) > MaxReceipts)
  BY <1>1, <1>3 DEF LastReceipts
<1> QED BY <1>2, <1>3

(* The runs that an attempt admits.                                        *)
RunOf(seen, i) ==
    [issue |-> i, generation |-> seen[i].generation, brief |-> seen[i].brief, state |-> "queued"]

(* The runs a reconciliation appends are approved and new.                 *)
LEMMA AdmittedRuns ==
    ASSUME IntakeInv, NEW a \in Attempts, Read(a), NEW order \in InOrder(Admitted(attempt[a].seen)),
           issue' = issue,
           runs' = runs \o [k \in DOMAIN order |-> RunOf(attempt[a].seen, order[k])]
    PROVE  /\ runs' \in Seq(RunRecords) /\ RunsInv' /\ UniqueRuns'
           /\ Identities \subseteq Identities'
           /\ \A i \in Admitted(attempt[a].seen) : <<i, attempt[a].seen[i].generation>> \in Identities'
<1> IssueCount \in Nat /\ MaxGeneration \in Nat BY BoundsTyped
<1> DEFINE seen == attempt[a].seen
           S == Admitted(seen)
           n == Cardinality(S)
           new == [k \in DOMAIN order |-> RunOf(seen, order[k])]
<1>1. Typed /\ AttemptInv(a) /\ UniqueRuns BY DEF IntakeInv
<1>2. Len(seen) = IssueCount BY DEF Read
<1>3. \A i \in S : i \in Issues /\ seen[i] # NoRun /\ ~Known(i, seen[i].generation)
  BY DEF Admitted, Fresh
<1>4. n \in Nat
  <2>1. IsFiniteSet(1 .. IssueCount) BY FS_Interval
  <2>2. S \subseteq 1 .. IssueCount BY <1>3 DEF Issues
  <2>3. IsFiniteSet(S) BY <2>1, <2>2, FS_Subset
  <2> QED BY <2>3, FS_CardinalityType
<1>5. /\ order \in [1 .. n -> S] /\ ToSet(order) = S
      /\ \A j, k \in 1 .. n : j < k => order[j] < order[k]
  BY DEF InOrder
<1>6. \A i \in S : Approved(i, seen[i]) BY <1>1, <1>2, <1>3 DEF AttemptInv, Issues
<1>7. \A i \in S : RunOf(seen, i) \in RunRecords
  <2> TAKE i \in S
  <2>1. i \in Issues /\ Approved(i, seen[i]) BY <1>3, <1>6
  <2>2. Len(issue[i].approvals) \in 0 .. MaxGeneration BY <1>1, <2>1, IssueTyped
  <2>3. seen[i].generation \in 1 .. Len(issue[i].approvals) BY <2>1 DEF Approved
  <2>4. issue[i].approvals[seen[i].generation] \in Briefs BY <1>1, <2>1, <2>3, IssueTyped
  <2>5. seen[i].brief \in Briefs
    <3>1. seen[i].brief \in 1 .. issue[i].approvals[seen[i].generation] BY <2>1 DEF Approved
    <3>2. MaxBriefs \in Nat BY BoundsTyped
    <3> HIDE DEF seen
    <3> QED BY <2>4, <3>1, <3>2 DEF Briefs
  <2>6. seen[i].generation \in 1 .. MaxGeneration BY <2>2, <2>3
  <2>7. "queued" \in RunStates BY DEF RunStates
  <2> HIDE DEF seen
  <2> QED BY <2>1, <2>5, <2>6, <2>7 DEF RunOf, RunRecords
<1> HIDE DEF S, n, seen
<1>8. new \in Seq(RunRecords) /\ Len(new) = n /\ \A k \in 1 .. n : new[k] = RunOf(seen, order[k])
  <2>1. new = [k \in 1 .. n |-> RunOf(seen, order[k])] BY <1>5
  <2>2. \A k \in 1 .. n : RunOf(seen, order[k]) \in RunRecords BY <1>5, <1>7
  <2>3. [k \in 1 .. n |-> RunOf(seen, order[k])] \in Seq(RunRecords) BY ONLY <1>4, <2>2, IsASeq
  <2>4. new \in Seq(RunRecords) BY <2>1, <2>3
  <2>5. DOMAIN new = 1 .. Len(new) /\ Len(new) \in Nat BY ONLY <2>4, LenProperties
  <2>6. DOMAIN new = 1 .. n BY <2>1
  <2>7. Len(new) = n BY <1>4, <2>5, <2>6
  <2> QED BY <2>1, <2>4, <2>7
<1>9. runs' = runs \o new BY DEF seen
<1> HIDE DEF new
<1>10. runs \in Seq(RunRecords) /\ DOMAIN runs = 1 .. Len(runs) /\ Len(runs) \in Nat
  BY <1>1, LenProperties DEF Typed
<1> DEFINE m == Len(runs)
<1>11. /\ runs' \in Seq(RunRecords) /\ DOMAIN runs' = 1 .. m + n
       /\ \A k \in 1 .. m : runs'[k] = runs[k]
       /\ \A k \in m + 1 .. m + n : k - m \in 1 .. n /\ runs'[k] = RunOf(seen, order[k - m])
  <2>1. /\ runs' \in Seq(RunRecords) /\ Len(runs') = m + n
        /\ \A k \in 1 .. m + n : runs'[k] = IF k <= m THEN runs[k] ELSE new[k - m]
    <3>1. /\ runs \o new \in Seq(RunRecords) /\ Len(runs \o new) = Len(runs) + Len(new)
          /\ \A k \in 1 .. Len(runs) + Len(new) :
                (runs \o new)[k] = IF k <= Len(runs) THEN runs[k] ELSE new[k - Len(runs)]
      BY ONLY <1>8, <1>10, ConcatProperties
    <3> QED BY <1>8, <1>9, <3>1
  <2>2. DOMAIN runs' = 1 .. m + n BY <2>1, LenProperties
  <2>3. \A k \in 1 .. m : runs'[k] = runs[k] BY <1>4, <1>10, <2>1
  <2>4. ASSUME NEW k \in m + 1 .. m + n
        PROVE  k - m \in 1 .. n /\ runs'[k] = RunOf(seen, order[k - m])
    <3>1. k \in 1 .. m + n /\ ~(k <= m) /\ k - m \in 1 .. n BY <1>4, <1>10, <2>4
    <3>2. runs'[k] = new[k - m] BY <2>1, <3>1
    <3> QED BY <1>8, <3>1, <3>2
  <2> QED BY <2>1, <2>2, <2>3, <2>4
<1> HIDE DEF m
<1>12. \A k \in 1 .. m + n : k \in 1 .. m \/ k \in m + 1 .. m + n BY <1>4, <1>10 DEF m
<1>13. \A k \in 1 .. n : order[k] \in S BY <1>5
<1>fields. \A i : /\ RunOf(seen, i).issue = i /\ RunOf(seen, i).generation = seen[i].generation
              /\ RunOf(seen, i).brief = seen[i].brief
  BY DEF RunOf
<1>14. RunsInv'
  <2> SUFFICES ASSUME NEW k \in 1 .. m + n PROVE Approved(runs[k].issue, runs[k])'
    BY <1>11 DEF RunsInv
  <2>1. CASE k \in 1 .. m
    <3>1. Approved(runs[k].issue, runs[k]) BY <1>10, <2>1, RunTyped DEF m
    <3> QED BY <1>11, <2>1, <3>1 DEF Approved
  <2>2. CASE k \in m + 1 .. m + n
    <3>1. runs'[k] = RunOf(seen, order[k - m]) /\ order[k - m] \in S BY <1>11, <1>13, <2>2
    <3>2. Approved(order[k - m], seen[order[k - m]]) BY <1>6, <3>1
    <3>3. /\ runs'[k].issue = order[k - m] /\ runs'[k].generation = seen[order[k - m]].generation
          /\ runs'[k].brief = seen[order[k - m]].brief
      BY <1>fields, <3>1
    <3> QED BY <3>2, <3>3 DEF Approved
  <2> QED BY <1>12, <2>1, <2>2
<1>15. \A k \in 1 .. m : Identity(runs'[k]) = Identity(runs[k]) BY <1>11 DEF Identity
<1>16. \A k \in m + 1 .. m + n :
          /\ Identity(runs'[k]) = <<order[k - m], seen[order[k - m]].generation>>
          /\ k - m \in 1 .. n /\ order[k - m] \in S
  <2> TAKE k \in m + 1 .. m + n
  <2>1. k - m \in 1 .. n /\ runs'[k] = RunOf(seen, order[k - m]) BY <1>11
  <2>2. /\ runs'[k].issue = order[k - m]
        /\ runs'[k].generation = seen[order[k - m]].generation
    BY <1>fields, <2>1
  <2> QED BY <1>13, <2>1, <2>2 DEF Identity
<1>17. ASSUME NEW j \in 1 .. m, NEW k \in m + 1 .. m + n PROVE Identity(runs'[j]) # Identity(runs'[k])
  <2>1. ~Known(order[k - m], seen[order[k - m]].generation) BY <1>3, <1>16
  <2>2. Identity(runs[j]) # <<order[k - m], seen[order[k - m]].generation>>
    BY <1>10, <2>1 DEF Known, m
  <2> QED BY <1>15, <1>16, <2>2
<1>18. ASSUME NEW j \in m + 1 .. m + n, NEW k \in m + 1 .. m + n, Identity(runs'[j]) = Identity(runs'[k])
       PROVE  j = k
  <2>1. order[j - m] = order[k - m]
    <3>1. <<order[j - m], seen[order[j - m]].generation>> = <<order[k - m], seen[order[k - m]].generation>>
      BY <1>16, <1>18
    <3> QED BY ONLY <3>1
  <2>2. order[j - m] \in Nat BY <1>3, <1>16 DEF Issues
  <2>3. j - m \in 1 .. n /\ k - m \in 1 .. n BY <1>16
  <2>4. ~(j - m < k - m) /\ ~(k - m < j - m) BY <1>5, <2>1, <2>2, <2>3
  <2> QED BY <1>4, <1>10, <2>3, <2>4 DEF m
<1>19. UniqueRuns'
  <2> SUFFICES ASSUME NEW j \in 1 .. m + n, NEW k \in 1 .. m + n, Identity(runs'[j]) = Identity(runs'[k])
               PROVE  j = k
    BY <1>11 DEF UniqueRuns, Identity
  <2>1. CASE j \in 1 .. m /\ k \in 1 .. m BY <1>1, <1>10, <1>15, <2>1 DEF UniqueRuns, m
  <2>2. CASE j \in m + 1 .. m + n /\ k \in m + 1 .. m + n BY <1>18, <2>2
  <2> QED BY <1>12, <1>17, <2>1, <2>2
<1>20. Identities \subseteq Identities'
  <2> SUFFICES ASSUME NEW k \in 1 .. m PROVE Identity(runs[k]) \in Identities'
    BY <1>10 DEF Identities, m
  <2>1. k \in DOMAIN runs' BY <1>4, <1>10, <1>11 DEF m
  <2> QED BY <1>15, <2>1 DEF Identities, Identity
<1>21. ASSUME NEW i \in S PROVE <<i, seen[i].generation>> \in Identities'
  <2>1. PICK k \in 1 .. n : order[k] = i BY <1>5 DEF ToSet
  <2>2. PICK q \in m + 1 .. m + n : q \in 1 .. m + n /\ q - m = k
    <3>1. m + k \in m + 1 .. m + n /\ m + k \in 1 .. m + n /\ (m + k) - m = k BY <1>4, <1>10 DEF m
    <3> QED BY <3>1
  <2>3. Identity(runs'[q]) = <<i, seen[i].generation>> BY <1>16, <2>1, <2>2
  <2> QED BY <1>11, <2>2, <2>3 DEF Identities, Identity
<1> QED BY <1>11, <1>14, <1>19, <1>20, <1>21 DEF S, seen

(* If nothing was deferred, the transition an attempt's delivery reports   *)
(* is settled once its runs are admitted.                                  *)
LEMMA DeliveryIsSettled ==
    ASSUME IntakeInv, NEW a \in Attempts, Read(a), attempt[a].delivery # NoDelivery,
           ~CapacityDeferred(attempt[a].seen), lapsed' = lapsed,
           Identities \subseteq Identities',
           \A i \in Admitted(attempt[a].seen) : <<i, attempt[a].seen[i].generation>> \in Identities'
    PROVE  attempt[a].delivery \in sent /\ attempt[a].delivery \in Settled'
<1> IssueCount \in Nat BY BoundsTyped
<1> DEFINE d == attempt[a].delivery
           seen == attempt[a].seen
<1>1. Typed /\ AttemptInv(a) /\ Witnessed(a) BY DEF IntakeInv
<1>2. d \in sent BY <1>1 DEF AttemptInv
<1>3. d \in Deliveries BY <1>1, <1>2 DEF Typed
<1>4. d[1] \in 1 .. IssueCount /\ d[2] \in 1 .. MaxGeneration /\ d = <<d[1], d[2]>>
  BY <1>3 DEF Deliveries, Issues
<1>5. CASE d \notin Steady BY <1>2, <1>5 DEF Steady, Settled
<1>6. CASE d \in Steady
  <2>1. seen[d[1]].generation = d[2] BY <1>1, <1>4, <1>6 DEF Read, Witnessed
  <2>2. MaxGeneration \in Nat BY BoundsTyped
  <2>3. seen[d[1]] # NoRun BY <1>4, <2>1, <2>2 DEF NoRun
  <2>4. Admitted(seen) = Fresh(seen) BY DEF CapacityDeferred
  <2>5. CASE Known(d[1], d[2])
    <3>1. <<d[1], d[2]>> \in Identities BY <2>5 DEF Known, Identities
    <3> QED BY <1>2, <1>4, <3>1 DEF Settled
  <2>6. CASE ~Known(d[1], d[2])
    <3>1. d[1] \in Admitted(seen) BY <1>4, <2>1, <2>3, <2>4, <2>6 DEF Fresh, Issues
    <3>2. <<d[1], d[2]>> \in Identities' BY <2>1, <3>1
    <3> QED BY <1>2, <1>4, <3>2 DEF Settled
  <2> QED BY <2>5, <2>6
<1> QED BY <1>5, <1>6

(* So a commit keeps the invariant, and acknowledges only what is settled. *)
LEMMA CommitKeepsInv ==
    ASSUME IntakeInv, NEW a \in Attempts, CommitReconcile(a)
    PROVE  IntakeInv'
<1> MaxReceipts \in Nat BY BoundsTyped
<1> DEFINE d == attempt[a].delivery
           seen == attempt[a].seen
           delivered == {d} \ {NoDelivery}
<1>1. /\ Typed /\ (timer.armed => attempt[Timed].phase = "idle") /\ AttemptInv(a)
      /\ acknowledged \cup ToSet(acceptedIngress) \subseteq Settled
      /\ Len(acceptedIngress) <= MaxReceipts
  BY DEF IntakeInv
<1>2. PICK order \in InOrder(Admitted(seen)) :
         runs' = runs \o [k \in DOMAIN order |-> RunOf(seen, order[k])]
  BY DEF CommitReconcile, RunOf
<1>3. /\ Read(a) /\ End(a) /\ UNCHANGED <<provider, trackerVars, mode>>
      /\ acceptedIngress' = IF delivered = {} THEN acceptedIngress ELSE LastReceipts(ReceiptsWith(a))
      /\ acknowledged' \in Answered(IF CapacityDeferred(seen) THEN {} ELSE delivered)
  BY DEF CommitReconcile
<1>4. issue' = issue /\ lapsed' = lapsed /\ sent' = sent /\ adapter' = adapter /\ edits' = edits
  BY <1>3 DEF trackerVars
<1>5. /\ runs' \in Seq(RunRecords) /\ RunsInv' /\ UniqueRuns' /\ Identities \subseteq Identities'
      /\ \A i \in Admitted(seen) : <<i, seen[i].generation>> \in Identities'
  BY <1>2, <1>3, <1>4, AdmittedRuns
<1>6. Settled \subseteq Settled' BY <1>4, <1>5 DEF Settled
<1>7. ~CapacityDeferred(seen) => delivered \subseteq sent /\ delivered \subseteq Settled'
  BY <1>3, <1>4, <1>5, DeliveryIsSettled
<1>8. acceptedIngress \in Seq(Deliveries) /\ ToSet(acceptedIngress) \subseteq sent /\ acknowledged \subseteq sent
  BY <1>1 DEF Typed
<1>9. acknowledged' \subseteq sent /\ acknowledged' \subseteq Settled'
  BY <1>1, <1>3, <1>6, <1>7, <1>8 DEF Answered
<1>10. /\ acceptedIngress' \in Seq(Deliveries) /\ Len(acceptedIngress') <= MaxReceipts
       /\ ToSet(acceptedIngress') \subseteq sent /\ ToSet(acceptedIngress') \subseteq Settled'
  <2> DEFINE receipts == ReceiptsWith(a)
  <2>1. Len(acceptedIngress) \in Nat /\ DOMAIN acceptedIngress = 1 .. Len(acceptedIngress)
    BY <1>8, LenProperties
  <2>2. CASE delivered = {} BY <1>1, <1>3, <1>6, <1>8, <2>2
  <2>3. CASE delivered # {}
    <3>1. /\ receipts \in Seq(Deliveries) /\ Len(receipts) <= MaxReceipts + 1
          /\ ToSet(receipts) \subseteq sent /\ ToSet(receipts) \subseteq Settled'
      <4>1. CASE CapacityDeferred(seen)
        <5>1. receipts = acceptedIngress BY <4>1 DEF ReceiptsWith
        <5> QED BY <1>1, <1>6, <1>8, <2>1, <5>1
      <4>2. CASE ~CapacityDeferred(seen)
        <5>1. receipts = Append(acceptedIngress, d) BY <4>2 DEF ReceiptsWith
        <5>2. d \in sent /\ d \in Settled' BY <1>7, <2>3, <4>2
        <5>3. d \in Deliveries BY <1>1, <5>2 DEF Typed
        <5> HIDE DEF receipts, d
        <5>4. /\ receipts \in Seq(Deliveries) /\ Len(receipts) = Len(acceptedIngress) + 1
              /\ \A k \in 1 .. Len(acceptedIngress) : receipts[k] = acceptedIngress[k]
              /\ receipts[Len(acceptedIngress) + 1] = d
          BY <1>8, <5>1, <5>3, AppendProperties
        <5>5. DOMAIN receipts = 1 .. Len(acceptedIngress) + 1 BY <5>4, LenProperties
        <5>6. ASSUME NEW k \in DOMAIN receipts PROVE receipts[k] \in ToSet(acceptedIngress) \cup {d}
          <6>1. CASE k = Len(acceptedIngress) + 1 BY <5>4, <6>1
          <6>2. CASE k # Len(acceptedIngress) + 1
            <7>1. k \in 1 .. Len(acceptedIngress) BY <2>1, <5>5, <6>2
            <7> QED BY <2>1, <5>4, <7>1 DEF ToSet
          <6> QED BY <6>1, <6>2
        <5>7. ToSet(receipts) \subseteq ToSet(acceptedIngress) \cup {d} BY <5>6 DEF ToSet
        <5> QED BY <1>1, <1>6, <1>8, <2>1, <5>2, <5>4, <5>7
      <4> QED BY <4>1, <4>2
    <3>2. acceptedIngress' = LastReceipts(receipts) BY <1>3, <2>3
    <3> HIDE DEF receipts
    <3> QED BY <3>1, <3>2, ReceiptsKept
  <2> QED BY <2>2, <2>3
<1>11. Keeps /\ TrackerInv' /\ SteadyInv' BY <1>3, <1>6, TrackerUntouched
<1>12. /\ timer' \in [armed : BOOLEAN, startup : BOOLEAN] /\ attempt' \in [Attempts -> AttemptRecords]
       /\ timer'.armed => attempt'[Timed].phase = "idle"
       /\ \E phase \in {"idle", "waiting", "reading"} : attempt'[a] = Stage(phase, NoDelivery)
       /\ \A b \in Attempts \ {a} : attempt'[b] = attempt[b]
  BY <1>1, <1>3, EndOf
<1>13. sent' \subseteq Deliveries BY <1>11 DEF Keeps
<1>14. AttemptInv(a)' /\ Witnessed(a)' BY <1>12, <1>13, FreshAttempt
<1>15. \A b \in Attempts \ {a} : AttemptInv(b)' /\ Witnessed(b)'
  BY <1>11, <1>12, UntouchedAttempt
<1>16. Typed' BY <1>1, <1>3, <1>4, <1>5, <1>9, <1>10, <1>12 DEF Typed
<1>17. (acknowledged \cup ToSet(acceptedIngress) \subseteq Settled)' BY <1>9, <1>10
<1> QED BY <1>5, <1>10, <1>11, <1>12, <1>14, <1>15, <1>16, <1>17 DEF IntakeInv

----------------------------------------------------------------------------
(* The theorems.                                                           *)

(* The invariant holds at first.                                           *)
LEMMA IntakeInit == Init => IntakeInv
<1> SUFFICES ASSUME Init PROVE IntakeInv OBVIOUS
<1> IssueCount \in Nat /\ MaxGeneration \in Nat /\ MaxBriefs \in Nat \ {0} /\ MaxEdits \in Nat /\ MaxReceipts \in Nat
  BY BoundsTyped
<1>1. Waiting \in AttemptRecords /\ Idle \in AttemptRecords /\ Idle.phase = "idle"
  BY StagesTyped DEF Waiting, Idle
<1>2. Len(<<>>) = 0 BY EmptySeq
<1>3. <<>> \in Approvals
  <2>1. <<>> \in Seq(Briefs) BY EmptySeq
  <2>2. Len(<<>>) <= MaxGeneration BY <1>2
  <2> QED BY ONLY <2>1, <2>2, ApprovalsAreSequences
<1>4. [approvals |-> <<>>, ready |-> FALSE, blocked |-> FALSE, brief |-> 1] \in IssueRecords
  BY <1>3 DEF IssueRecords, Briefs
<1>5. runs = <<>> /\ acceptedIngress = <<>> /\ runs \in Seq(RunRecords) /\ acceptedIngress \in Seq(Deliveries)
  BY EmptySeq DEF Init
<1>6. DOMAIN runs = {} /\ ToSet(acceptedIngress) = {} BY <1>5 DEF ToSet
<1>7. attempt \in [Attempts -> AttemptRecords] BY <1>1 DEF Init
<1>8. issue \in [Issues -> IssueRecords] BY <1>4 DEF Init
<1>9. Typed BY <1>5, <1>6, <1>7, <1>8 DEF Init, Typed
<1>10. TrackerInv BY <1>2 DEF Init, TrackerInv
<1>11. RunsInv /\ UniqueRuns BY <1>6 DEF RunsInv, UniqueRuns
<1>12. SteadyInv BY DEF Init, SteadyInv, Steady
<1>13. sent = {} BY DEF Init
<1>14. ASSUME NEW a \in Attempts PROVE AttemptInv(a) /\ Witnessed(a)
  <2>1. /\ attempt[a].delivery = NoDelivery /\ attempt[a].seen = <<>> /\ attempt[a].page = <<>>
    BY StagesTyped DEF Init, Waiting, Idle
  <2>2. NoDelivery \notin Steady BY <1>13 DEF Steady
  <2>3. AttemptInv(a) BY <1>2, <2>1 DEF AttemptInv
  <2> QED BY <2>1, <2>2, <2>3 DEF Witnessed
<1>15. ~timer.armed /\ acknowledged = {} BY DEF Init
<1>16. Len(acceptedIngress) <= MaxReceipts BY <1>2, <1>5
<1> QED BY <1>6, <1>9, <1>10, <1>11, <1>12, <1>14, <1>15, <1>16 DEF IntakeInv

(* Every step keeps the invariant; one step of the proof per action.       *)
LEMMA IntakeStep == IntakeInv /\ [Next]_vars => IntakeInv'
<1> SUFFICES ASSUME IntakeInv, [Next]_vars PROVE IntakeInv' OBVIOUS
<1>1. CASE UNCHANGED vars
  <2>1. Typed /\ acknowledged \subseteq Settled /\ (timer.armed => attempt[Timed].phase = "idle")
    BY DEF IntakeInv
  <2> QED BY <1>1, <2>1, ProcessStep DEF vars, trackerVars, Typed
<1>2. CASE \E i \in Issues : MakeReady(i) \/ Spoil(i) \/ Unblock(i)
  BY <1>2, MakeReadyKeepsInv, OtherEditsKeepInv
<1>3. CASE WithdrawProvider \/ RegisterProvider \/ Restart \/ SetMode BY <1>3, ProviderKeepsInv
<1>4. CASE BeginScheduled \/ BeginReading \/ \E a \in Requests : BeginManual(a) \/ \E d \in sent : BeginIngress(a, d)
  BY <1>4, AttemptsBegin
<1>5. CASE TimedEnds \/ \E d \in sent : AcknowledgeKnown(d) BY <1>5, NothingCommitted
<1>6. CASE \E a \in Attempts : AttemptStep(a) \/ ReadingFails(a)
  <2>1. PICK a \in Attempts : AttemptStep(a) \/ ReadingFails(a) BY <1>6
  <2>2. CASE ReadNext(a) BY <2>2, ReadNextKeepsInv
  <2>3. CASE CommitReconcile(a) BY <2>3, CommitKeepsInv
  <2>4. CASE ReadingFails(a) \/ AbortReading(a) \/ TimelineDisagrees(a) \/ CommitNothing(a)
    BY <2>4, NothingCommitted
  <2> QED BY <2>1, <2>2, <2>3, <2>4 DEF AttemptStep
<1>7. CASE \E k \in DOMAIN runs : Claim(k) BY <1>7, ClaimKeepsInv
<1> QED BY <1>1, <1>2, <1>3, <1>4, <1>5, <1>6, <1>7 DEF Next

(* The invariant holds of every behaviour, with fairness or without.       *)
THEOREM IntakeInvariant == Spec => []IntakeInv
BY IntakeInit, IntakeStep, PTL DEF Spec

(* Every variable keeps its type, of what is read and of what is durable.  *)
THEOREM IntakeTypeCorrect == Spec => []TypeOK
<1>1. IntakeInv => TypeOK
  <2> SUFFICES ASSUME IntakeInv PROVE TypeOK OBVIOUS
  <2>1. Typed /\ TrackerInv BY DEF IntakeInv
  <2>2. issue \in [Issues -> [approvals : UNION {[1 .. n -> 1 .. MaxBriefs] : n \in 0 .. MaxGeneration},
                              ready : BOOLEAN, blocked : BOOLEAN, brief : 1 .. MaxBriefs]]
    BY <2>1 DEF Typed, IssueRecords, Approvals, Briefs
  <2>3. ASSUME NEW a \in Attempts
        PROVE  /\ attempt[a].phase \in {"idle", "waiting", "reading"}
               /\ attempt[a].delivery \in sent \cup {NoDelivery}
               /\ Len(attempt[a].seen) <= IssueCount
    BY <2>1, AttemptTyped DEF IntakeInv, AttemptInv
  <2>4. ASSUME NEW k \in DOMAIN runs PROVE Identity(runs[k]) \in sent /\ runs[k].state \in RunStates
    <3>1. runs[k].issue \in Issues /\ Approved(runs[k].issue, runs[k]) /\ runs[k] \in RunRecords BY RunTyped
    <3>2. runs[k].generation \in 1 .. MaxGeneration /\ runs[k].state \in RunStates BY <3>1 DEF RunRecords
    <3>3. runs[k].generation <= Len(issue[runs[k].issue].approvals)
      BY <2>1, <3>1, IssueTyped DEF Approved
    <3> QED BY <2>1, <3>1, <3>2, <3>3 DEF TrackerInv, Identity
  <2>5. sent \subseteq Issues \X (1 .. MaxGeneration) BY <2>1 DEF Typed, Deliveries
  <2> QED BY <2>1, <2>2, <2>3, <2>4, <2>5 DEF TypeOK, IntakeInv, Typed
<1> QED BY <1>1, IntakeInvariant, PTL

(* One readiness transition yields one run.                                *)
THEOREM UniquenessProven == Spec => []UniqueRuns
<1>1. IntakeInv => UniqueRuns BY DEF IntakeInv
<1> QED BY <1>1, IntakeInvariant, PTL

(* No run works on a brief younger than the approval it stands for.        *)
THEOREM ApprovalProven == Spec => []BriefsWereApproved
<1>1. IntakeInv => BriefsWereApproved
  <2> SUFFICES ASSUME IntakeInv, NEW k \in DOMAIN runs
               PROVE  runs[k].brief <= issue[runs[k].issue].approvals[runs[k].generation]
    BY DEF BriefsWereApproved
  <2>1. runs[k].issue \in Issues /\ Approved(runs[k].issue, runs[k]) BY RunTyped
  <2>2. issue[runs[k].issue].approvals[runs[k].generation] \in Briefs
    BY <2>1, IssueTyped DEF IntakeInv, Approved
  <2> QED BY <2>1, <2>2 DEF Approved, Briefs
<1> QED BY <1>1, IntakeInvariant, PTL

(* The tracker may forget a delivery that was acknowledged.                *)
THEOREM AcknowledgementProven == Spec => []AcknowledgedIsAdmitted
<1>1. IntakeInv => AcknowledgedIsAdmitted BY DEF IntakeInv, Settled, AcknowledgedIsAdmitted
<1> QED BY <1>1, IntakeInvariant, PTL

=============================================================================
