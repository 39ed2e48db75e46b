--------------------------- MODULE MCAlertReview ---------------------------
(* Small instances of AlertReview.                                         *)
EXTENDS AlertReview, TLC

CONSTANTS alert1, s1, s2, s3, ann, bob

Interchangeable == Permutations({s1, s2, s3}) \cup Permutations({ann, bob})
=============================================================================
