------------------------------- MODULE Intake --------------------------------
(***************************************************************************)
(* How tracker issues become runs (reconciliation/, admission/reconciler,  *)
(* admission/candidates, admission/policy, mcp/mount, tracker/registry and *)
(* the reading half of a tracker adapter).  Webhook deliveries, which the  *)
(* tracker repeats until they are acknowledged, an operator and a timer    *)
(* start attempts.  Each attempt reads the candidates from the provider    *)
(* that is mounted, piece by piece, while people go on editing the issues, *)
(* and commits what it saw in one update of the durable record.            *)
(*                                                                         *)
(* An issue is named by its place in the admission order; a page holds one *)
(* issue, of which the listing, the comments, the readiness history and,   *)
(* with GitHub Issues, the dependencies are read one after another, so     *)
(* that one reading spans several moments.  A delivery is named by the     *)
(* readiness transition that causes it, and the Agent Brief by the number  *)
(* of its version.                                                         *)
(***************************************************************************)
EXTENDS Integers, Sequences, FiniteSets, SequencesExt

CONSTANTS
    Adapters,         \* tracker adapters that may be configured
    IssueCount,       \* issues of the configured project
    MaxGeneration,    \* bound: readiness transitions of one issue
    MaxBriefs,        \* bound: versions of the brief of one issue
    MaxEdits,         \* bound: edits people make to the issues
    MaxQueued,        \* settings.maxQueued
    MaxReceipts,      \* MAX_INGRESS_RECEIPTS
    Requests,         \* ingress and manual attempts at a time
    Timed             \* the one startup or scheduled attempt

ASSUME IntakeAssumption ==
    /\ Adapters \subseteq {"jira", "github-issues"}
    /\ {IssueCount, MaxGeneration, MaxBriefs, MaxEdits, MaxQueued, MaxReceipts} \subseteq Nat \ {0}
    /\ Timed \notin Requests

VARIABLES
    adapter,          \* the adapter that is configured
    issue,            \* the tracker's issues
    edits,            \* edits made to them
    sent,             \* deliveries the tracker has made at least once
    acknowledged,     \* deliveries answered with 204
    provider,         \* the tracker provider's current generation
    timer,            \* the timer, and whether a startup attempt is owed
    attempt,          \* how far each attempt has come
    mode,             \* scheduler.mode
    runs,             \* durable runs, oldest first
    acceptedIngress,  \* durable delivery receipts, oldest first
    lapsed            \* history: readiness that was not steadily eligible

vars == <<adapter, issue, edits, sent, acknowledged, provider, timer, attempt, mode, runs, acceptedIngress, lapsed>>
trackerVars == <<adapter, issue, edits, sent, lapsed>>
processVars == <<provider, timer, attempt>>
durableVars == <<mode, runs, acceptedIngress>>

Issues == 1 .. IssueCount
Attempts == Requests \cup {Timed}
NoDelivery == <<0, 0>>
NoRun == [generation |-> 0, brief |-> 0]

RunStates == {"queued", "started"}

----------------------------------------------------------------------------
(* evaluateIssue: the issue is ready by a transition no older than the     *)
(* brief that was read, and its dependencies are completed.                *)
NeverAmended(facts) == FALSE
AmendedSince(facts) == facts.brief > Last(facts.approvals)

Eligible(facts) == facts.ready /\ ~facts.blocked /\ ~AmendedSince(facts)

(* The run an evaluation asks for, if the issue is not rejected.           *)
Evaluate(facts) ==
    IF Eligible(facts) THEN [generation |-> Len(facts.approvals), brief |-> facts.brief]
    ELSE NoRun

Identity(run) == <<run.issue, run.generation>>
Identities == {Identity(runs[k]) : k \in DOMAIN runs}

KnownWhileQueued(i, generation) ==
    \E k \in DOMAIN runs : Identity(runs[k]) = <<i, generation>> /\ runs[k].state = "queued"

(* runIdentity: a retained run of any state makes an issue a duplicate.    *)
Known(i, generation) ==
    \E k \in DOMAIN runs : Identity(runs[k]) = <<i, generation>>

Occupied == Cardinality({k \in DOMAIN runs : runs[k].state = "queued"})

----------------------------------------------------------------------------
(* An attempt waits for the workflow lane, if the timer started it, and    *)
(* reads page after page; `page` is what it has of the page at hand.       *)
Stage(phase, delivery) ==
    [phase |-> phase, delivery |-> delivery, seen |-> <<>>, page |-> <<>>]
Idle == Stage("idle", NoDelivery)
Waiting == Stage("waiting", NoDelivery)
Reading(delivery) == Stage("reading", delivery)

(* Everything in the process as a Host leaves it when it starts.           *)
Started ==
    /\ provider' = "withdrawn"
    /\ timer' = [armed |-> FALSE, startup |-> FALSE]
    /\ attempt' = [a \in Attempts |-> IF a = Timed THEN Waiting ELSE Idle]

Init ==
    /\ adapter \in Adapters
    /\ issue = [i \in Issues |->
                  [approvals |-> <<>>, ready |-> FALSE, blocked |-> FALSE, brief |-> 1]]
    /\ edits = 0
    /\ sent = {}
    /\ acknowledged = {}
    /\ provider = "withdrawn"
    /\ timer = [armed |-> FALSE, startup |-> FALSE]
    /\ attempt = [a \in Attempts |-> IF a = Timed THEN Waiting ELSE Idle]
    /\ mode = "enabled"
    /\ runs = <<>>
    /\ acceptedIngress = <<>>
    /\ lapsed = {}

----------------------------------------------------------------------------
(* The tracker.                                                            *)

Readiness(i) == <<i, Len(issue[i].approvals)>>

Edit(i, edited) ==
    /\ edits < MaxEdits
    /\ edits' = edits + 1
    /\ issue' = [issue EXCEPT ![i] = edited]
    /\ UNCHANGED <<adapter, acknowledged, processVars, durableVars>>

(* Readiness that has no run yet and is interrupted.                       *)
Lapses(d) == lapsed' = IF d \in Identities THEN lapsed ELSE lapsed \cup {d}

(* A human moves the issue to ready, approving the brief as it is; the     *)
(* tracker delivers the event.                                             *)
MakeReady(i) ==
    LET made == <<i, Len(issue[i].approvals) + 1>>
    IN /\ ~issue[i].ready
       /\ Len(issue[i].approvals) < MaxGeneration
       /\ Edit(i, [issue[i] EXCEPT !.approvals = Append(@, issue[i].brief), !.ready = TRUE])
       /\ sent' = sent \cup {made}
       /\ IF issue[i].blocked THEN Lapses(made) ELSE UNCHANGED lapsed

(* Edits that make the issue ineligible: its readiness is withdrawn, a     *)
(* dependency is opened, or its brief becomes younger than its readiness.  *)
Spoil(i) ==
    /\ \/ issue[i].ready /\ Edit(i, [issue[i] EXCEPT !.ready = FALSE])
       \/ ~issue[i].blocked /\ Edit(i, [issue[i] EXCEPT !.blocked = TRUE])
       \/ issue[i].brief < MaxBriefs /\ Edit(i, [issue[i] EXCEPT !.brief = @ + 1])
    /\ IF issue[i].ready THEN Lapses(Readiness(i)) ELSE UNCHANGED lapsed
    /\ UNCHANGED sent

Unblock(i) ==
    /\ issue[i].blocked
    /\ Edit(i, [issue[i] EXCEPT !.blocked = FALSE])
    /\ UNCHANGED <<sent, lapsed>>

----------------------------------------------------------------------------
(* The provider's generation: mountMcpTracker over the registry.           *)

(* Settings or tools change: the generation takes no new operation, and    *)
(* the reads of those it has are aborted.                                  *)
WithdrawProvider ==
    /\ provider = "available"
    /\ provider' = "withdrawn"
    /\ UNCHANGED <<trackerVars, acknowledged, timer, attempt, durableVars>>

(* The disposer waits for every attempt that reads from the generation.    *)
(* Then the next one is registered, and the timer's owner is told: it      *)
(* starts a startup attempt, at once or after the attempt in progress.     *)
RegisterProvider ==
    /\ provider = "withdrawn"
    /\ \A a \in Attempts : attempt[a].phase # "reading"
    /\ provider' = "available"
    /\ IF attempt[Timed].phase = "idle"
       THEN /\ attempt' = [attempt EXCEPT ![Timed] = Waiting]
            /\ timer' = [timer EXCEPT !.armed = FALSE]
       ELSE /\ timer' = [timer EXCEPT !.startup = TRUE]
            /\ UNCHANGED attempt
    /\ UNCHANGED <<trackerVars, acknowledged, durableVars>>

----------------------------------------------------------------------------
(* Attempts begin and end.                                                 *)

(* The timer fires.                                                        *)
BeginScheduled ==
    /\ timer.armed
    /\ timer' = [timer EXCEPT !.armed = FALSE]
    /\ attempt' = [attempt EXCEPT ![Timed] = Waiting]
    /\ UNCHANGED <<provider, trackerVars, acknowledged, durableVars>>

(* However a timed attempt ends, the startup attempt that is owed follows  *)
(* it, or the timer is set again.                                          *)
RearmedIfOwed == [armed |-> timer.startup, startup |-> FALSE]
Rearmed == [armed |-> ~timer.startup, startup |-> FALSE]

End(a) ==
    IF a = Timed
    THEN /\ attempt' = [attempt EXCEPT ![a] = IF timer.startup THEN Waiting ELSE Idle]
         /\ timer' = Rearmed
    ELSE /\ attempt' = [attempt EXCEPT ![a] = Idle]
         /\ UNCHANGED timer

Accepting == mode = "enabled" /\ provider = "available"

(* Once the lane is free the timed attempt retains the provider and reads; *)
(* without a provider, or with the scheduler not enabled, it ends.         *)
BeginReading ==
    /\ attempt[Timed].phase = "waiting"
    /\ Accepting
    /\ attempt' = [attempt EXCEPT ![Timed] = Reading(NoDelivery)]
    /\ UNCHANGED <<provider, timer, trackerVars, acknowledged, durableVars>>

TimedEnds ==
    /\ attempt[Timed].phase = "waiting"
    /\ ~Accepting
    /\ End(Timed)
    /\ UNCHANGED <<provider, trackerVars, acknowledged, durableVars>>

(* An operator asks for a reconciliation, outside the lane.                *)
BeginManual(a) ==
    /\ attempt[a].phase = "idle"
    /\ Accepting
    /\ attempt' = [attempt EXCEPT ![a] = Reading(NoDelivery)]
    /\ UNCHANGED <<provider, timer, trackerVars, acknowledged, durableVars>>

(* A delivery, the first time or again, that has no receipt yet; the       *)
(* provider verifies it.                                                   *)
BeginIngress(a, d) ==
    /\ attempt[a].phase = "idle"
    /\ d \notin acknowledged
    /\ Accepting
    /\ d \notin ToSet(acceptedIngress)
    /\ attempt' = [attempt EXCEPT ![a] = Reading(d)]
    /\ UNCHANGED <<provider, timer, trackerVars, acknowledged, durableVars>>

(* A delivery with a receipt is answered at once, in any mode.             *)
AcknowledgeKnown(d) ==
    /\ provider = "available"
    /\ d \in ToSet(acceptedIngress) \ acknowledged
    /\ acknowledged' = acknowledged \cup {d}
    /\ UNCHANGED <<trackerVars, processVars, durableVars>>

----------------------------------------------------------------------------
(* Reading.                                                                *)

At(a, pieces) ==
    /\ attempt[a].phase = "reading"
    /\ Len(attempt[a].seen) < IssueCount
    /\ Len(attempt[a].page) = pieces

IssueAt(a) == issue[Len(attempt[a].seen) + 1]

Keep(a, piece) == attempt' = [attempt EXCEPT ![a].page = Append(@, piece)]

NextPage(a, evaluation) ==
    attempt' = [attempt EXCEPT ![a].seen = Append(@, evaluation), ![a].page = <<>>]

(* An issue listed as ready whose latest transition is the last approval.  *)
ReadyBy(approvals, brief, blocked) ==
    [ready |-> TRUE, blocked |-> blocked, brief |-> brief, approvals |-> approvals]

(* Jira: the search lists the issue only while it carries the ready label, *)
(* with its links to other issues; one that is blocked is rejected         *)
(* whatever else is read.                                                  *)
SearchIssues(a) ==
    /\ At(a, 0)
    /\ IF IssueAt(a).ready /\ ~IssueAt(a).blocked THEN Keep(a, "listed") ELSE NextPage(a, NoRun)

ReadJiraComments(a) == At(a, 1) /\ Keep(a, IssueAt(a).brief)

JiraSnapshot(a) == ReadyBy(IssueAt(a).approvals, attempt[a].page[2], FALSE)

(* The changelog comes last; it names the latest transition to ready.      *)
ReadChangelogs(a) == At(a, 2) /\ NextPage(a, Evaluate(JiraSnapshot(a)))

(* GitHub Issues: the listing by label, comments, timeline, dependencies.  *)
ListLabelled(a) ==
    /\ At(a, 0)
    /\ IF IssueAt(a).ready THEN Keep(a, "listed") ELSE NextPage(a, NoRun)

ReadGitHubComments(a) == At(a, 1) /\ Keep(a, IssueAt(a).brief)

(* The timeline must agree with the listing that the issue is ready.       *)
ReadTimeline(a) == At(a, 2) /\ IssueAt(a).ready /\ Keep(a, IssueAt(a).approvals)

GitHubSnapshot(a) == ReadyBy(attempt[a].page[3], attempt[a].page[2], IssueAt(a).blocked)

ReadDependencies(a) == At(a, 3) /\ NextPage(a, Evaluate(GitHubSnapshot(a)))

(* A read returns as long as its generation is not withdrawn.              *)
ReadNext(a) ==
    /\ provider = "available"
    /\ \/ /\ adapter = "jira"
          /\ SearchIssues(a) \/ ReadJiraComments(a) \/ ReadChangelogs(a)
       \/ /\ adapter = "github-issues"
          /\ \/ ListLabelled(a) \/ ReadGitHubComments(a)
             \/ ReadTimeline(a) \/ ReadDependencies(a)
    /\ UNCHANGED <<provider, timer, trackerVars, acknowledged, durableVars>>

Read(a) == attempt[a].phase = "reading" /\ Len(attempt[a].seen) = IssueCount

(* An attempt that fails before its commit has changed nothing.            *)
FailAttempt(a) ==
    /\ attempt[a].phase = "reading"
    /\ End(a)
    /\ UNCHANGED <<provider, trackerVars, acknowledged, durableVars>>

(* A read failed; the attempt is left to read on until then, which nobody  *)
(* can tell from one that ends at once.                                    *)
ReadingFails(a) == Read(a) /\ FailAttempt(a)

(* The reads of a withdrawn generation are aborted.                        *)
AbortReading(a) == provider = "withdrawn" /\ ~Read(a) /\ FailAttempt(a)

(* The issue was listed as ready and its timeline says otherwise.          *)
TimelineDisagrees(a) ==
    /\ provider = "available" /\ adapter = "github-issues"
    /\ At(a, 2) /\ ~IssueAt(a).ready
    /\ FailAttempt(a)

(* Issues to admit, and those of them that the queue has room for: the     *)
(* first ones, which are appended in their order.                          *)
FreshOrRejected(seen) == {i \in Issues : ~Known(i, seen[i].generation)}

Fresh(seen) == {i \in Issues : seen[i] # NoRun /\ ~Known(i, seen[i].generation)}

Admitted(seen) ==
    {i \in Fresh(seen) : Cardinality({j \in Fresh(seen) : j < i}) < MaxQueued - Occupied}

InOrder(S) ==
    {order \in [1 .. Cardinality(S) -> S] :
        ToSet(order) = S /\ \A j, k \in DOMAIN order : j < k => order[j] < order[k]}

CapacityDeferred(seen) == Fresh(seen) # Admitted(seen)

ReceiptsDespiteDeferral(a) == Append(acceptedIngress, attempt[a].delivery)

(* A delivery gets its receipt unless an issue was deferred; the oldest    *)
(* receipt goes when there are too many.                                   *)
ReceiptsWith(a) ==
    IF CapacityDeferred(attempt[a].seen) THEN acceptedIngress
    ELSE Append(acceptedIngress, attempt[a].delivery)

LastReceipts(receipts) ==
    IF Len(receipts) > MaxReceipts THEN Tail(receipts) ELSE receipts

(* The answer may be lost after the commit, with the connection or a Host. *)
Answered(deliveries) == {acknowledged, acknowledged \cup deliveries}

(* The update finds the scheduler not enabled, or the delivery's receipt:  *)
(* it changes nothing, and only a delivery with a receipt is acknowledged. *)
CommitNothing(a) ==
    /\ Read(a)
    /\ mode # "enabled" \/ attempt[a].delivery \in ToSet(acceptedIngress)
    /\ acknowledged' \in Answered({attempt[a].delivery} \cap ToSet(acceptedIngress))
    /\ End(a)
    /\ UNCHANGED <<provider, trackerVars, durableVars>>

(* The update admits, even if the provider was withdrawn meanwhile; a      *)
(* deferred issue makes a delivery fail afterwards.                        *)
CommitReconcile(a) ==
    LET seen == attempt[a].seen
        delivered == {attempt[a].delivery} \ {NoDelivery}
        run(i) == [issue |-> i, generation |-> seen[i].generation, brief |-> seen[i].brief,
                   state |-> "queued"]
    IN /\ Read(a)
       /\ mode = "enabled"
       /\ attempt[a].delivery \notin ToSet(acceptedIngress)
       /\ \E order \in InOrder(Admitted(seen)) :
              runs' = runs \o [k \in DOMAIN order |-> run(order[k])]
       /\ acceptedIngress' =
              IF delivered = {} THEN acceptedIngress ELSE LastReceipts(ReceiptsWith(a))
       /\ acknowledged' \in
              Answered(IF CapacityDeferred(seen) THEN {} ELSE delivered)
       /\ End(a)
       /\ UNCHANGED <<provider, trackerVars, mode>>

(* The Host ends and starts again.                                         *)
Restart ==
    /\ Started
    /\ UNCHANGED <<trackerVars, acknowledged, durableVars>>

----------------------------------------------------------------------------
(* What happens to runs, and to the mode, in outline: see Admission.       *)

(* claimNext takes the oldest queued run and reads no tracker.             *)
Claim(k) ==
    /\ mode = "enabled"
    /\ runs[k].state = "queued"
    /\ \A j \in 1 .. k - 1 : runs[j].state # "queued"
    /\ runs' = [runs EXCEPT ![k].state = "started"]
    /\ UNCHANGED <<trackerVars, acknowledged, processVars, mode, acceptedIngress>>

SetMode ==
    /\ mode' = IF mode = "enabled" THEN "draining" ELSE "enabled"
    /\ UNCHANGED <<trackerVars, acknowledged, processVars, runs, acceptedIngress>>

----------------------------------------------------------------------------
AttemptStep(a) ==
    \/ ReadNext(a) \/ AbortReading(a) \/ TimelineDisagrees(a)
    \/ CommitNothing(a) \/ CommitReconcile(a)

Next ==
    \/ \E i \in Issues : MakeReady(i) \/ Spoil(i) \/ Unblock(i)
    \/ WithdrawProvider \/ RegisterProvider
    \/ BeginScheduled \/ BeginReading \/ TimedEnds
    \/ \E a \in Requests : BeginManual(a) \/ \E d \in sent : BeginIngress(a, d)
    \/ \E d \in sent : AcknowledgeKnown(d)
    \/ \E a \in Attempts : AttemptStep(a) \/ ReadingFails(a)
    \/ Restart
    \/ \E k \in DOMAIN runs : Claim(k)
    \/ SetMode

Spec == Init /\ [][Next]_vars

TimedStep == BeginScheduled \/ BeginReading \/ TimedEnds \/ AttemptStep(Timed)

(* The timer starts an attempt again and again and the steps of attempts   *)
(* are awaited; a withdrawn generation makes way for the next.  A failure  *)
(* to read is transient, so that an attempt repeated forever gets to       *)
(* commit at times; claimed work ends.                                     *)
Fairness ==
    /\ WF_vars(RegisterProvider)
    /\ WF_vars(TimedStep)
    /\ \A a \in Requests : WF_vars(AttemptStep(a))
    /\ SF_vars(CommitReconcile(Timed))
    /\ WF_vars(\E k \in DOMAIN runs : Claim(k))

FairSpec == Spec /\ Fairness

----------------------------------------------------------------------------
(* Properties.                                                             *)

Admissible(i) == Evaluate(issue[i])

TypeOK ==
    /\ adapter \in Adapters
    /\ issue \in [Issues -> [approvals : UNION {[1 .. n -> 1 .. MaxBriefs] : n \in 0 .. MaxGeneration},
                             ready : BOOLEAN, blocked : BOOLEAN, brief : 1 .. MaxBriefs]]
    /\ edits \in 0 .. MaxEdits
    /\ sent \subseteq Issues \X (1 .. MaxGeneration)
    /\ acknowledged \subseteq sent
    /\ provider \in {"available", "withdrawn"}
    /\ timer \in [armed : BOOLEAN, startup : BOOLEAN]
    /\ timer.armed => attempt[Timed].phase = "idle"
    /\ \A a \in Attempts :
          /\ attempt[a].phase \in {"idle", "waiting", "reading"}
          /\ attempt[a].delivery \in sent \cup {NoDelivery}
          /\ Len(attempt[a].seen) <= IssueCount
    /\ mode \in {"enabled", "draining"}
    /\ \A k \in DOMAIN runs : Identity(runs[k]) \in sent /\ runs[k].state \in RunStates
    /\ ToSet(acceptedIngress) \subseteq sent
    /\ Len(acceptedIngress) <= MaxReceipts

(* One readiness transition yields one run, however often its delivery is  *)
(* repeated, its receipt evicted, and its issue read by two attempts at    *)
(* the same time.                                                          *)
UniqueRuns ==
    \A j, k \in DOMAIN runs : Identity(runs[j]) = Identity(runs[k]) => j = k

(* No run works on a brief that was written after the human transition it  *)
(* stands for, although the two are read at different moments and people   *)
(* edit one, withdraw the other and make the issue ready again meanwhile.  *)
BriefsWereApproved ==
    \A k \in DOMAIN runs :
        runs[k].brief <= issue[runs[k].issue].approvals[runs[k].generation]

(* A delivery is acknowledged only when its issue is taken care of: if the *)
(* issue stayed eligible since the transition the delivery reports, it has *)
(* a run, so the tracker may forget the delivery.                          *)
AcknowledgedIsAdmitted == acknowledged \ lapsed \subseteq Identities

(* An issue that stays eligible while the scheduler stays enabled is       *)
(* admitted in the end, even if every delivery about it is lost, providers *)
(* come and go at first, attempts fail half way and the queue is full.     *)
EligibleIsAdmitted ==
    <>[][provider = "available" => provider' = "available"]_vars =>
        \A i \in Issues :
            <>[](mode = "enabled" /\ Eligible(issue[i])) => []<>(Readiness(i) \in Identities)

(* "A newly blocked queued issue never starts."                            *)
NewlyBlockedNeverStarts ==
    [][\A k \in DOMAIN runs : runs[k].state = "queued" /\ runs'[k].state = "started" =>
          Admissible(runs[k].issue).generation = runs[k].generation]_vars

=============================================================================
