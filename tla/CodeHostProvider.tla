-------------------------- MODULE CodeHostProvider --------------------------
(***************************************************************************)
(* How the Host's one GitHub code-host provider follows its settings and   *)
(* the MCP tools it is made of (providers/github-code-host/provider.ts),   *)
(* over the registry that keeps a single generation of a provider at a     *)
(* time (providers/generation-registry.ts, code-host/registry.ts).         *)
(*                                                                         *)
(* Every change of settings or tools requests a reconciliation; a queue    *)
(* runs the requests one after another.  A generation that is withdrawn    *)
(* takes no new operation, aborts those it has, and is forgotten only when *)
(* the last of them has ended.                                             *)
(*                                                                         *)
(* A configuration is a number: 0 stands for settings that are incomplete  *)
(* or tools that are missing, and two different numbers for anything that  *)
(* makes the settings or the bound tool definitions differ.                *)
(***************************************************************************)
EXTENDS Integers, Sequences

CONSTANTS
    Configurations,  \* usable configurations
    MaxChanges       \* bound: changes of settings or tools

ASSUME CodeHostProviderAssumption ==
    /\ Configurations \subseteq Nat \ {0}
    /\ MaxChanges \in Nat

VARIABLES
    wanted,          \* the configuration that settings and tools amount to now
    revision,        \* provider.ts: revision
    queue,           \* provider.ts: requested revisions, oldest first
    loop,            \* provider.ts: where the reconciliation in progress is
    active,          \* provider.ts: the configuration it has registered, or 0
    provider,        \* registry: the generation, [config, accepting]
    retained         \* registry: the generation an operation holds, or 0

providerVars == <<wanted, revision, queue, loop, active, provider, retained>>

Absent == [config |-> 0, accepting |-> FALSE]
Resting == [step |-> "resting", requested |-> 0, snapshot |-> 0]

ProviderTypeOK ==
    /\ wanted \in {0} \cup Configurations
    /\ revision \in 1 .. MaxChanges + 1
    /\ \A i \in DOMAIN queue : queue[i] \in 1 .. revision
    /\ loop.step \in {"resting", "draining", "registering"}
    /\ loop.requested \in 0 .. revision
    /\ loop.snapshot \in {0} \cup Configurations
    /\ active \in {0} \cup Configurations
    /\ provider.config \in {0} \cup Configurations
    /\ provider.accepting \in BOOLEAN
    /\ retained \in {0} \cup Configurations

(* The plugin starts: it requests a first reconciliation.                  *)
Mounted ==
    /\ revision = 1
    /\ queue = <<1>>
    /\ loop = Resting
    /\ active = 0
    /\ provider = Absent
    /\ retained = 0

----------------------------------------------------------------------------
(* Settings or tools change: schedule.                                     *)
ScheduledWhenResting ==
    IF loop.step = "resting" THEN Append(queue, revision + 1) ELSE queue
Scheduled == Append(queue, revision + 1)

ChangeSettings ==
    /\ revision <= MaxChanges
    /\ \E config \in ({0} \cup Configurations) \ {wanted} : wanted' = config
    /\ revision' = revision + 1
    /\ queue' = Scheduled
    /\ UNCHANGED <<loop, active, provider, retained>>

(* Withdrawing fences and aborts the generation at once.                   *)
Withdrawn(generation) == [generation EXCEPT !.accepting = FALSE]

(* The next request: what is registered already stays, anything else goes. *)
TakeRequest ==
    /\ loop.step = "resting"
    /\ queue # <<>>
    /\ queue' = Tail(queue)
    /\ IF wanted # 0 /\ active = wanted
       THEN UNCHANGED <<loop, active, provider>>
       ELSE /\ loop' = [step |-> "draining", requested |-> Head(queue), snapshot |-> wanted]
            /\ active' = 0
            /\ provider' = IF active = 0 THEN provider ELSE Withdrawn(provider)
    /\ UNCHANGED <<wanted, revision, retained>>

(* The disposer waits for the operations that hold the generation.         *)
DrainedAtOnce == TRUE
Drained == retained = 0

ForgetGeneration ==
    /\ loop.step = "draining"
    /\ Drained
    /\ provider' = Absent
    /\ loop' = IF loop.snapshot = 0 THEN Resting ELSE [loop EXCEPT !.step = "registering"]
    /\ UNCHANGED <<wanted, revision, queue, active, retained>>

(* A request that is no longer the newest registers nothing: a later one   *)
(* is waiting.                                                             *)
IsNewest == loop.requested = revision

Register ==
    /\ loop.step = "registering"
    /\ loop' = Resting
    /\ IF IsNewest
       THEN /\ active' = loop.snapshot
            /\ provider' = [config |-> loop.snapshot, accepting |-> TRUE]
       ELSE UNCHANGED <<active, provider>>
    /\ UNCHANGED <<wanted, revision, queue, retained>>

=============================================================================
