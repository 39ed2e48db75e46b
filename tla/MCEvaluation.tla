---------------------------- MODULE MCEvaluation ----------------------------
(* Small instances of Evaluation.                                          *)
EXTENDS Evaluation, TLC

CONSTANTS e1, e2, e3, x, y

BothCalls == Permutations({e1, e2})
BothIds   == Permutations({x, y})
CallsAndIds == BothCalls \cup BothIds
=============================================================================
