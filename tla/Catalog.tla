------------------------------ MODULE Catalog ------------------------------
(* What the rules API and the seeding of containers promise: a request is  *)
(* merged into its rule in one step, against the row it has read, and only *)
(* a fault or a stated reason stops it; a container puts every default     *)
(* rule that is missing in its place in one step before it serves, and     *)
(* overwrites none.                                                        *)
EXTENDS Integers

CONSTANTS Sessions, Seeders, Codes, Seeded, SeedRule, Fields, Rule, Request, None

VARIABLES
    rule,       \* the catalog as everybody sees it
    req,        \* the requests that are under way
    seen,       \* the rows they have read
    serving,    \* the containers that have seeded
    faults      \* history: failures and redeployments so far

vars == <<rule, req, seen, serving, faults>>

Fault == faults' = faults + 1

(* The row that a request asks for when it has read `row`.                 *)
Wish(r, row) ==
    CASE r.op = "update" -> [f \in Fields |->
            IF f \in r.patch.fields THEN r.patch.values[f] ELSE row[f]]
      [] r.op = "delete" -> [row EXCEPT !.enabled = FALSE]
      [] r.op = "toggle" -> [row EXCEPT !.enabled = ~@]

Merge(base, mine, theirs) ==
    [f \in Fields |-> IF mine[f] = base[f] THEN theirs[f] ELSE mine[f]]

Init ==
    /\ rule = [c \in Codes |-> None]
    /\ req = [s \in Sessions |-> None]
    /\ seen = [s \in Sessions |-> None]
    /\ serving = {}
    /\ faults = 0

Ask(s) ==
    /\ req[s] = None
    /\ \E r \in Request : req' = [req EXCEPT ![s] = r]
    /\ UNCHANGED <<rule, seen, serving, faults>>

Read(s) ==
    /\ req[s] # None /\ req[s].op # "create" /\ seen[s] = None
    /\ rule[req[s].code] # None
    /\ seen' = [seen EXCEPT ![s] = rule[req[s].code]]
    /\ UNCHANGED <<rule, req, serving, faults>>

End(s) ==
    /\ req[s] # None
    /\ req' = [req EXCEPT ![s] = None]
    /\ seen' = [seen EXCEPT ![s] = None]
    /\ UNCHANGED serving

(* A creation of what exists, any other request for what does not, and a   *)
(* change to what no row can be.                                           *)
Unfit(s) ==
    \/ req[s].op = "create" /\ rule[req[s].code] # None
    \/ req[s].op # "create" /\ seen[s] = None /\ rule[req[s].code] = None
    \/ req[s].op # "create" /\ seen[s] # None /\ Wish(req[s], seen[s]) \notin Rule

Refuse(s) ==
    /\ End(s)
    /\ Unfit(s)
    /\ UNCHANGED <<rule, faults>>

Apply(s) ==
    LET c == req[s].code IN
    /\ End(s)
    /\ \/ /\ req[s].op = "create" /\ rule[c] = None
          /\ rule' = [rule EXCEPT ![c] = req[s].rule]
       \/ /\ req[s].op # "create" /\ seen[s] # None /\ rule[c] # None
          /\ Wish(req[s], seen[s]) \in Rule
          /\ rule' = [rule EXCEPT ![c] = Merge(seen[s], Wish(req[s], seen[s]), @)]

Change(s) == Apply(s) /\ UNCHANGED faults

(* A failure, after which the change has been made or has not.             *)
Fail(s) ==
    /\ Fault
    /\ Apply(s) \/ (End(s) /\ UNCHANGED rule)

Fill ==
    rule' = [c \in Codes |->
                IF c \in Seeded /\ rule[c] = None THEN SeedRule ELSE rule[c]]

Seed(p) ==
    /\ p \notin serving
    /\ Fill
    /\ serving' = serving \cup {p}
    /\ UNCHANGED <<req, seen, faults>>

(* A failure before the end, or after it, of a container.                  *)
Stop(p) ==
    /\ Fault
    /\ \/ p \notin serving /\ Fill
       \/ UNCHANGED rule
    /\ serving' = serving \ {p}
    /\ UNCHANGED <<req, seen>>

Next ==
    \/ \E s \in Sessions :
          Ask(s) \/ Read(s) \/ Refuse(s) \/ Change(s) \/ Fail(s)
    \/ \E p \in Seeders : Seed(p) \/ Stop(p)

Spec == Init /\ [][Next]_vars
=============================================================================
