---------------------------- MODULE TokenLedger ----------------------------
(* What Autopilot promises about model spending, whatever runs exist: a    *)
(* deployment reserves before it spends, spends no more than it reserved,  *)
(* and stops reserving for good once it cannot prove what was spent.       *)
EXTENDS Integers

CONSTANT Cap

VARIABLES reserved, spent, frozen

ledgerVars == <<reserved, spent, frozen>>

Init == reserved = 0 /\ spent = 0 /\ frozen = FALSE

Reserve ==
    /\ ~frozen
    /\ reserved' > reserved
    /\ reserved' + spent <= Cap
    /\ UNCHANGED <<spent, frozen>>

(* A reservation is given back and at most as many tokens become spent.    *)
Settle ==
    /\ reserved' < reserved
    /\ spent' \in spent .. spent + (reserved - reserved')
    /\ UNCHANGED frozen

Freeze ==
    /\ frozen' = TRUE
    /\ UNCHANGED <<reserved, spent>>

Next == Reserve \/ Settle \/ Freeze

Spec == Init /\ [][Next]_ledgerVars

=============================================================================
