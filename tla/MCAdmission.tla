---------------------------- MODULE MCAdmission ----------------------------
(* A small instance of Admission for TLC: runs 1 and 2 are issues of the   *)
(* same priority, so queue order is decided by class and sequence.         *)
EXTENDS Admission

MCRuns == {1, 2}
MCPriority == [r \in MCRuns |-> 1]

=============================================================================
