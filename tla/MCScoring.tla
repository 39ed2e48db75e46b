----------------------------- MODULE MCScoring -----------------------------
(* Small instances of Scoring.                                             *)
EXTENDS Scoring, TLC

CONSTANTS r1, e1, e2, w1, low, high

Row(enabled, from, condition) ==
    [enabled |-> enabled, from |-> from, to |-> None, condition |-> condition]

(* A rule about the transaction alone, one about the customer, and one     *)
(* that comes into force later.                                            *)
ThreeRules == {Row(TRUE, None, "any"), Row(TRUE, None, "customer"),
               Row(TRUE, 2, "any")}

HighFires(c, f) == c = "any" \/ f[c] = high

BothCalls == Permutations({e1, e2})
=============================================================================
