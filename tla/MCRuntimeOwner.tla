-------------------------- MODULE MCRuntimeOwner ---------------------------
(* A small instance of RuntimeOwner for TLC: the dispatcher is the service *)
(* that holds the fence.                                                   *)
EXTENDS RuntimeOwner, TLC

CONSTANTS h1, h2, h3

TwoHosts == {h1, h2}
ThreeHosts == {h1, h2, h3}

HostSymmetry == Permutations(ThreeHosts)

=============================================================================
