--------------------------- MODULE MCSystemConfig ---------------------------
(* Small instances of SystemConfig.                                        *)
EXTENDS SystemConfig, TLC

CONSTANTS s1, s2

(* The threshold and the retention, two values each; the first value is    *)
(* the default of the code.                                                *)
TwoEach == <<{90, 80}, {90, 30}>>

Ninety == <<90, 90>>
=============================================================================
