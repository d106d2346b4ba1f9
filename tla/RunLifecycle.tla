--------------------------- MODULE RunLifecycle ----------------------------
(* What a run promises an operator: it waits, executes, may park and go on *)
(* executing, hands its verified work off, and ends once.  Work interrupted*)
(* by a Host crash is stranded: it never executes, parks or hands off      *)
(* again.                                                                  *)
CONSTANT Runs

VARIABLES phase, stranded

lifecycleVars == <<phase, stranded>>

Phases == {"unseen", "waiting", "executing", "parked", "handoff", "ended"}

Init ==
    /\ phase = [r \in Runs |-> "unseen"]
    /\ stranded = {}

Admit ==
    /\ \A r \in Runs : phase'[r] = phase[r] \/ (phase[r] = "unseen" /\ phase'[r] = "waiting")
    /\ phase' \in [Runs -> Phases]
    /\ UNCHANGED stranded

Move(r, from, to) ==
    /\ r \notin stranded
    /\ phase[r] = from
    /\ phase' = [phase EXCEPT ![r] = to]
    /\ UNCHANGED stranded

Start(r) == Move(r, "waiting", "executing") \/ Move(r, "parked", "executing")
Park(r) == Move(r, "executing", "parked")
Finish(r) == Move(r, "executing", "handoff") \/ Move(r, "executing", "ended")
HandOff(r) == Move(r, "handoff", "ended")

(* Waiting or parked work can be ended, stranded or not.                   *)
Cancel(r) ==
    /\ phase[r] \in {"waiting", "parked"}
    /\ phase' = [phase EXCEPT ![r] = "ended"]
    /\ UNCHANGED stranded

(* A crash strands everything that was executing.                          *)
Crash ==
    /\ stranded' = stranded \cup {r \in Runs : phase[r] = "executing"}
    /\ UNCHANGED phase

(* A retained resource of a parked run is gone.                            *)
Strand(r) ==
    /\ phase[r] = "parked"
    /\ stranded' = stranded \cup {r}
    /\ UNCHANGED phase

Next ==
    \/ Admit \/ Crash
    \/ \E r \in Runs : Start(r) \/ Park(r) \/ Finish(r) \/ HandOff(r) \/ Cancel(r) \/ Strand(r)

Spec == Init /\ [][Next]_lifecycleVars

=============================================================================
