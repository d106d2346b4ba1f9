-------------------------- MODULE OperatorCommands --------------------------
(***************************************************************************)
(* Operator commands about a run, from the browser that issues one to its  *)
(* recorded end (client/state.ts, web/commands.ts, the operations of       *)
(* admission/service.ts on command records).  A command is durable before  *)
(* it is executed, and executed by a task of the Host that outlives the    *)
(* browser's call; a task aborted by the withdrawal of the Web service, or *)
(* lost in a crash, starts again with the next start of the service, when  *)
(* its effect may already have happened.                                   *)
(*                                                                         *)
(* Each request comes from a browser of its own and names the same run,    *)
(* which goes its own way between any two steps of a task.                 *)
(***************************************************************************)
EXTENDS Integers, FiniteSets, SequencesExt

CONSTANTS
    Requests,          \* request ids
    MaxRecords,        \* admission/constants.ts: MAX_OPERATOR_COMMANDS
    MaxInterruptions,  \* bound: broken calls and reloaded browsers
    MaxRestarts        \* bound: withdrawals of the Web service, and crashes

ASSUME OperatorCommandsAssumption ==
    /\ Requests \subseteq Nat \ {0} /\ IsFiniteSet(Requests)
    /\ MaxRecords \in Nat \ {0}
    /\ {MaxInterruptions, MaxRestarts} \subseteq Nat

VARIABLES
    run,        \* durable: [state, stranded, cancelledBy] of the run
    commands,   \* durable: command records, oldest first
    tasks,      \* Host: the command tasks that run, and how far each got
    service,    \* the Web service: "up", "withdrawn" or "down"
    calls,      \* command calls that have not been answered
    browser,    \* what each browser shows of its command
    kind,       \* the command each browser issued
    reached,    \* history: commands whose run was where they wanted it
    bounds      \* history: [interruptions, restarts]

systemVars == <<run, commands, tasks, service, calls, browser, kind, bounds>>
vars == <<systemVars, reached>>

Kinds == {"pause-run", "resume-run", "cancel-run"}
Nobody == 0     \* of the record that is there at first, finished long ago, too

(* "held" and "paused" are the pauses of a queued and of an allocated run; *)
(* a stranded run was executing when the Host crashed; "publishing" stands *)
(* for the states after it too, and "blocked" for every end without work   *)
(* to publish.                                                             *)
RunStates == {"queued", "held", "implementing", "pausing", "paused", "publishing", "blocked",
              "cancelled"}
Executing == run.state \in {"implementing", "pausing"} /\ ~run.stranded

Outcomes == {"succeeded", "rejected"}
Statuses == {"accepted", "in-progress"} \cup Outcomes
Idle == "idle"
Steps == {Idle, "scheduled", "reading", "hold", "stop", "stopping", "release", "resume", "owning",
          "cancel"} \cup Outcomes
Shown == Outcomes \cup {"unsent", "closed"}
Waiting == {"submitting", "following", "adopted"}

Init ==
    /\ run \in [state : {"queued", "paused"}, stranded : {FALSE}, cancelledBy : {Nobody}]
    /\ commands = <<[request |-> Nobody, status |-> "succeeded"]>>
    /\ tasks = [r \in Requests |-> Idle]
    /\ service = "up"
    /\ calls = {}
    /\ browser = [r \in Requests |-> "unsent"]
    /\ kind \in [Requests -> Kinds]
    /\ reached = {}
    /\ bounds = [interruptions |-> 0, restarts |-> 0]

----------------------------------------------------------------------------
(* Command records.                                                        *)

Recorded(r) == \E i \in DOMAIN commands : commands[i].request = r
Status(r) ==
    IF Recorded(r) THEN commands[CHOOSE i \in DOMAIN commands : commands[i].request = r].status
    ELSE "none"
Unfinished(status) == status \in {"accepted", "in-progress"}
Active(r) == Unfinished(Status(r))

Removable == {i \in DOMAIN commands : commands[i].status \in Outcomes}
AtCapacityLate == Len(commands) > MaxRecords
AtCapacity == Len(commands) >= MaxRecords

(* A new record takes the place of the oldest finished one when there are  *)
(* too many.                                                               *)
Accepted(r) ==
    LET oldest == CHOOSE i \in Removable : \A j \in Removable : i <= j
        kept == IF AtCapacity THEN RemoveAt(commands, oldest) ELSE commands
    IN  Append(kept, [request |-> r, status |-> "accepted"])

Updated(r, status) ==
    [i \in DOMAIN commands |->
        IF commands[i].request = r THEN [commands[i] EXCEPT !.status = status] ELSE commands[i]]

----------------------------------------------------------------------------
(* The run, as the rest of the system moves it.                            *)

Become(state) == run' = [run EXCEPT !.state = state]

Dispatch == run.state = "queued" /\ Become("implementing")
AgentEnds ==
    /\ Executing
    /\ IF run.state = "pausing" THEN Become("paused") ELSE Become("publishing") \/ Become("blocked")

Proceed ==
    /\ service # "down"
    /\ Dispatch \/ AgentEnds
    /\ UNCHANGED <<commands, tasks, service, calls, browser, kind, bounds>>

----------------------------------------------------------------------------
(* Browsers.                                                               *)

Show(r, status) == browser' = [browser EXCEPT ![r] = status]

(* An answered call knows its browser; a forgotten one was broken off, but *)
(* may still be on its way.                                                *)
Call(r, step, answered) == [request |-> r, step |-> step, answered |-> answered]

(* runCommand, submitCommand: while connected.                             *)
Issue(r) ==
    /\ browser[r] = "unsent"
    /\ service = "up"
    /\ Show(r, "submitting")
    /\ calls' = calls \cup {Call(r, "sent", TRUE)}
    /\ UNCHANGED <<run, commands, tasks, service, kind, bounds>>

(* The connection breaks during the call, and the browser goes on by       *)
(* asking for the status; or it is reloaded, and all it finds afterwards   *)
(* is the Host's list of commands that are not finished.                   *)
BrokenOff(r) ==
    {c \in calls : c.request # r \/ ~c.answered}
      \cup {[c EXCEPT !.answered = FALSE] : c \in {d \in calls : d.request = r}}
Interrupt(r) ==
    /\ bounds.interruptions < MaxInterruptions
    /\ bounds' = [bounds EXCEPT !.interruptions = @ + 1]
    /\ \/ browser[r] = "submitting" /\ Show(r, "following")
       \/ browser[r] \in Waiting /\ Show(r, IF Active(r) THEN "adopted" ELSE "closed")
    /\ calls' \in {BrokenOff(r), {c \in calls : c.request # r}}
    /\ UNCHANGED <<run, commands, tasks, service, kind>>

(* followCommand: a command the Host does not know is submitted again by   *)
(* the browser that still has the request.  Without the service the status *)
(* call is refused, which the browser shows as a rejection.                *)
Follow(r) ==
    /\ browser[r] \in {"following", "adopted"}
    /\ service # "down"
    /\ \/ service = "withdrawn" /\ Show(r, "rejected") /\ UNCHANGED calls
       \/ Status(r) \in Outcomes /\ Show(r, Status(r)) /\ UNCHANGED calls
       \/ /\ Status(r) = "none"
          /\ browser[r] = "adopted"
          /\ Show(r, "rejected")
          /\ UNCHANGED calls
       \/ /\ Status(r) = "none"
          /\ browser[r] = "following"
          /\ Show(r, "submitting")
          /\ calls' = calls \cup {Call(r, "sent", TRUE)}
    /\ UNCHANGED <<run, commands, tasks, service, kind, bounds>>

----------------------------------------------------------------------------
(* Acceptance.                                                             *)

MayBe(r) ==
    CASE kind[r] = "pause-run" -> run.state \in {"queued", "implementing", "pausing"}
      [] kind[r] = "resume-run" -> run.state \in {"held", "paused"}
      [] kind[r] = "cancel-run" -> run.state \in {"queued", "held", "paused", "blocked"}

Answer(c, status) ==
    /\ calls' = calls \ {c}
    /\ IF c.answered THEN Show(c.request, status) ELSE UNCHANGED browser
Receipt(status) == IF Unfinished(status) THEN "following" ELSE status

(* command: the precondition is read before the record is written.         *)
Receive(c) ==
    /\ c.step = "sent"
    /\ service # "down"
    /\ IF service = "up" /\ (Recorded(c.request) \/ MayBe(c.request))
       THEN calls' = (calls \ {c}) \cup {[c EXCEPT !.step = "checked"]} /\ UNCHANGED browser
       ELSE Answer(c, "rejected")
    /\ UNCHANGED <<run, commands, tasks, service, kind, bounds>>

(* schedule: one task for each request, none while the service retires.    *)
Scheduling(rs) ==
    [r \in Requests |-> IF r \in rs /\ tasks[r] = Idle THEN "scheduled" ELSE tasks[r]]
StartedBy(rs) == IF service = "up" THEN Scheduling(rs) ELSE tasks

(* acceptOperatorCommand.                                                  *)
Accept(c) ==
    /\ c.step = "checked"
    /\ IF Recorded(c.request)
       THEN /\ tasks' = StartedBy(IF Active(c.request) THEN {c.request} ELSE {})
            /\ Answer(c, Receipt(Status(c.request)))
            /\ UNCHANGED commands
       ELSE IF AtCapacity /\ Removable = {}
       THEN Answer(c, "rejected") /\ UNCHANGED <<commands, tasks>>
       ELSE /\ commands' = Accepted(c.request)
            /\ tasks' = StartedBy({c.request})
            /\ Answer(c, "following")
    /\ UNCHANGED <<run, service, kind, bounds>>

----------------------------------------------------------------------------
(* A command's task.                                                       *)

To(r, step) == tasks' = [tasks EXCEPT ![r] = step]
Aborted == service # "up"

Begin(r) ==
    /\ tasks[r] = "scheduled"
    /\ commands' = Updated(r, IF Aborted THEN "accepted" ELSE "in-progress")
    /\ To(r, IF Aborted THEN Idle ELSE "reading")
    /\ UNCHANGED run

(* execute: what to do is decided from the run's state as read here.       *)
ResumedAlreadyOrEnded == {"queued", "publishing", "blocked", "cancelled"}
ResumedAlready == {"queued", "publishing", "blocked"}
Plan(r) ==
    CASE kind[r] = "cancel-run" -> "cancel"
      [] kind[r] = "pause-run" ->
            IF run.state \in {"held", "paused"} THEN "succeeded"
            ELSE IF run.state = "queued" THEN "hold" ELSE "stop"
      [] kind[r] = "resume-run" ->
            IF run.state = "held" THEN "release"
            ELSE IF run.state = "paused" THEN "resume"
            ELSE IF run.state \in ResumedAlready THEN "succeeded" ELSE "rejected"
Read(r) == tasks[r] = "reading" /\ To(r, Plan(r)) /\ UNCHANGED <<run, commands>>

(* Each effect checks the state again, in the update that makes it.        *)
Effect(r, step, from, state) ==
    /\ tasks[r] = step
    /\ IF run.state \in from
       THEN Become(state) /\ To(r, "succeeded")
       ELSE UNCHANGED run /\ To(r, "rejected")
    /\ UNCHANGED commands

Hold(r) == Effect(r, "hold", {"queued"}, "held")
Release(r) == Effect(r, "release", {"held"}, "queued")

(* CancellationControl.cancel, which a repeated request has done already.  *)
Cancel(r) ==
    /\ tasks[r] = "cancel"
    /\ IF run.state = "cancelled"
       THEN /\ To(r, IF run.cancelledBy = r THEN "succeeded" ELSE "rejected")
            /\ UNCHANGED run
       ELSE IF run.state \in {"queued", "held", "paused", "blocked"}
       THEN /\ run' = [run EXCEPT !.state = "cancelled", !.cancelledBy = r]
            /\ To(r, "succeeded")
       ELSE To(r, "rejected") /\ UNCHANGED run
    /\ UNCHANGED commands

(* stopRun: the owner of the execution is asked to stop, and awaited.      *)
Stop(r) ==
    /\ tasks[r] = "stop"
    /\ IF Executing
       THEN Become("pausing") /\ To(r, "stopping")
       ELSE UNCHANGED run /\ To(r, "rejected")
    /\ UNCHANGED commands
Stopped(r) ==
    /\ tasks[r] = "stopping"
    /\ ~Executing
    /\ To(r, IF run.state = "paused" THEN "succeeded" ELSE "rejected")
    /\ UNCHANGED <<run, commands>>

(* dispatch.resumeRun: refused if the run is not paused any more, or there *)
(* is no capacity, budget, Session or worktree for it.  The task owns the  *)
(* execution until it ends; aborted, it asks for a pause and still awaits. *)
Resume(r) ==
    /\ tasks[r] = "resume"
    /\ \/ run.state = "paused" /\ ~Aborted /\ Become("implementing") /\ To(r, "owning")
       \/ UNCHANGED run /\ To(r, "rejected")
    /\ UNCHANGED commands
Surrender(r) ==
    /\ tasks[r] = "owning"
    /\ Aborted
    /\ run.state = "implementing"
    /\ Become("pausing")
    /\ UNCHANGED <<tasks, commands>>
Resumed(r) ==
    /\ tasks[r] = "owning"
    /\ ~Executing
    /\ To(r, "succeeded")
    /\ UNCHANGED <<run, commands>>

(* The end is recorded, unless the task was aborted: then the command is   *)
(* to be executed again, whatever it has done.                             *)
Finish(r) ==
    /\ tasks[r] \in Outcomes
    /\ commands' = Updated(r, IF Aborted THEN "accepted" ELSE tasks[r])
    /\ To(r, Idle)
    /\ UNCHANGED run

TaskStep(r) ==
    /\ \/ Begin(r) \/ Read(r)
       \/ Hold(r) \/ Release(r) \/ Cancel(r)
       \/ Stop(r) \/ Stopped(r)
       \/ Resume(r) \/ Surrender(r) \/ Resumed(r)
       \/ Finish(r)
    /\ UNCHANGED <<service, calls, browser, kind, bounds>>

----------------------------------------------------------------------------
(* The Web service and the Host.                                           *)

CountRestart ==
    /\ bounds.restarts < MaxRestarts
    /\ bounds' = [bounds EXCEPT !.restarts = @ + 1]

(* dispose: every task is aborted, and awaited.                            *)
Withdraw ==
    /\ service = "up"
    /\ CountRestart
    /\ service' = "withdrawn"
    /\ UNCHANGED <<run, commands, tasks, calls, browser, kind>>

(* A crash loses tasks and calls, and strands what was executing.          *)
Crash ==
    /\ service = "up"
    /\ CountRestart
    /\ service' = "down"
    /\ tasks' = [r \in Requests |-> Idle]
    /\ calls' = {}
    /\ browser' = [r \in Requests |-> IF browser[r] = "submitting" THEN "following" ELSE browser[r]]
    /\ run' = [run EXCEPT !.stranded = @ \/ Executing]
    /\ UNCHANGED <<commands, kind>>

(* start: commands that are not finished are executed again.               *)
RestartableUnbegun == {r \in Requests : Status(r) = "accepted"}
Restartable == {r \in Requests : Active(r)}
Start ==
    /\ service # "up"
    /\ \A r \in Requests : tasks[r] = Idle
    /\ service' = "up"
    /\ tasks' = Scheduling(Restartable)
    /\ UNCHANGED <<run, commands, calls, browser, kind, bounds>>

----------------------------------------------------------------------------

(* Where a command wants its run.                                          *)
Wanted(r) ==
    CASE kind[r] = "pause-run" -> run.state \in {"held", "paused"}
      [] kind[r] = "resume-run" -> run.state \in {"queued", "implementing"}
      [] kind[r] = "cancel-run" -> run.state = "cancelled" /\ run.cancelledBy = r

(* What is observed of it, from the moment the Host lets its call pass, as *)
(* long as the Host knows of it.                                           *)
Checked(r) == \E c \in calls : c.request = r /\ c.step = "checked"
Observe ==
    reached' = {r \in Requests : (Recorded(r) \/ Checked(r))' /\ (r \in reached \/ Wanted(r)')}

Next ==
    /\ \/ Proceed
       \/ \E r \in Requests : Issue(r) \/ Interrupt(r) \/ Follow(r) \/ TaskStep(r)
       \/ \E c \in calls : Receive(c) \/ Accept(c)
       \/ Withdraw \/ Crash \/ Start
    /\ Observe

(* Agents end, the code host answers, and the Host is started again.  A    *)
(* browser polls as long as it has a command to follow, and a call that    *)
(* has arrived is answered.                                                *)
Progress == (AgentEnds /\ Proceed) \/ Start
Answered == \E c \in calls : Receive(c) \/ Accept(c)
Fairness ==
    /\ WF_systemVars(Progress)
    /\ WF_systemVars(Answered)
    /\ \A r \in Requests : WF_systemVars(TaskStep(r)) /\ WF_systemVars(Follow(r))

Spec == Init /\ [][Next]_vars /\ Fairness

----------------------------------------------------------------------------
(* Records stay within their limit, one for each request, and a task that  *)
(* runs has a record that is not finished.                                 *)
TypeOK ==
    /\ run \in [state : RunStates, stranded : BOOLEAN, cancelledBy : Requests \cup {Nobody}]
    /\ commands \in Seq([request : Requests \cup {Nobody}, status : Statuses])
    /\ Len(commands) <= MaxRecords
    /\ \A i, j \in DOMAIN commands : commands[i].request = commands[j].request => i = j
    /\ tasks \in [Requests -> Steps]
    /\ \A r \in Requests : tasks[r] # Idle => Active(r)
    /\ service \in {"up", "withdrawn", "down"}
    /\ calls \subseteq [request : Requests, step : {"sent", "checked"}, answered : BOOLEAN]
    /\ browser \in [Requests -> Waiting \cup Shown]
    /\ kind \in [Requests -> Kinds]
    /\ reached \subseteq Requests
    /\ bounds.interruptions \in 0..MaxInterruptions
    /\ bounds.restarts \in 0..MaxRestarts

(* A command whose record says succeeded has put the run where the operator*)
(* wanted it, or found it put there, at some time since it was let in: a  *)
(* pause has a checkpoint, a resumption was not overtaken by a             *)
(* cancellation, and a cancellation is this request's own; however often   *)
(* the command was executed.                                               *)
SucceededIsEffective == \A r \in Requests : Status(r) = "succeeded" => r \in reached

(* Every accepted command comes to an end, and every browser that waits is *)
(* shown one, through broken calls, withdrawals and crashes.               *)
Pending(r) == Active(r) \/ browser[r] \in Waiting
CommandsEnd == \A r \in Requests : Pending(r) ~> ~Pending(r)
=============================================================================
