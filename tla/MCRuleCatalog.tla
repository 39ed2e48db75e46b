--------------------------- MODULE MCRuleCatalog ---------------------------
(* Small instances of RuleCatalog.                                         *)
EXTENDS RuleCatalog, TLC

CONSTANTS r1, r2, s1, s2, k1, k2

OneDefault == <<r1>>

Disabled == [enabled |-> FALSE, from |-> None, to |-> 2]

Set(fields, enabled, from, to) ==
    [fields |-> fields,
     values |-> [enabled |-> enabled, from |-> from, to |-> to]]

(* A switch with a new window, one end of a window, and a null.            *)
Few == {Set({"enabled", "from", "to"}, TRUE, 2, None),
        Set({"from"}, TRUE, 2, None),
        Set({"enabled"}, None, None, None)}

Plain == {Disabled}
=============================================================================
