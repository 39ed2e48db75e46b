------------------------------ MODULE Settings ------------------------------
(* What PUT /config promises: a request sets all the keys it names in one  *)
(* step, or none of them.  A key that others have changed while the        *)
(* request was under way may keep their value.                             *)
CONSTANTS Sessions, Bodies, Keys, Defaults, None

VARIABLES
    config,     \* the settings as everybody sees them
    body,       \* the requests that are under way
    touched     \* the keys others have changed since each came

vars == <<config, body, touched>>

NamedBy(b) == {k \in Keys : b[k] # None}

Init ==
    /\ config = Defaults
    /\ body = [s \in Sessions |-> None]
    /\ touched = [s \in Sessions |-> {}]

Put(s) ==
    /\ body[s] = None
    /\ \E b \in Bodies : body' = [body EXCEPT ![s] = b]
    /\ UNCHANGED <<config, touched>>

Forget(s) == body' = [body EXCEPT ![s] = None]

Apply(s) ==
    /\ body[s] # None
    /\ \E set \in SUBSET NamedBy(body[s]) :
          /\ NamedBy(body[s]) \ touched[s] \subseteq set
          /\ config' = [k \in Keys |-> IF k \in set THEN body[s][k] ELSE config[k]]
          /\ touched' = [t \in Sessions |->
                IF t = s \/ body[t] = None THEN {}
                ELSE touched[t] \cup {k \in set : body[s][k] # config[k]}]
    /\ Forget(s)

Refuse(s) ==
    /\ body[s] # None
    /\ touched' = [touched EXCEPT ![s] = {}]
    /\ Forget(s)
    /\ UNCHANGED config

Next == \E s \in Sessions : Put(s) \/ Apply(s) \/ Refuse(s)

Spec == Init /\ [][Next]_vars
=============================================================================
