---------------------------- MODULE SystemConfig ----------------------------
(* The settings of app/models/config.py: PUT /config upserts the keys that *)
(* its body names, one after the other in one transaction, builds its      *)
(* answer from all settings, and commits after the answer.                 *)
(*                                                                         *)
(* A step is one call to PostgreSQL, or the turn of the handler around a   *)
(* key its body does not name.  As in RuleCatalog the ORM sends no UPDATE  *)
(* for a value equal to the one it has read, and an INSERT waits for an    *)
(* open transaction that has inserted the same key.  The refresh after     *)
(* each flush only reads and is part of the flush; its failure is Abort.   *)
(*                                                                         *)
(* Left out: GET /config and get_int, which are one SELECT of `stored`     *)
(* (Evaluation models what it makes of the threshold), the description     *)
(* column (always written with the same text) and the role check.  Values  *)
(* are integers: str() and int() of what the schema admits are inverse.    *)
EXTENDS Integers

CONSTANTS
    LastKey,    \* how many keys there are, in update_config's order:
                \*   auto_escalation_threshold, data_retention_days
    Values,     \* Values[k]: what ConfigUpdateRequest admits for key k
    Defaults,   \* CONFIG_DEFAULTS
    Sessions,   \* requests that can be under way at a time
    MaxFaults,  \* bound on the failures of PostgreSQL in a behaviour
    None        \* a field left out, no row, no lock

Keys == 1..LastKey

AllValues == UNION {Values[k] : k \in Keys}

Body == {b \in [Keys -> AllValues \cup {None}] :
            \A k \in Keys : b[k] \in Values[k] \cup {None}}

ASSUME KeysAssumption == LastKey \in Nat
ASSUME ValuesAssumption ==
    /\ \A k \in Keys : Values[k] \subseteq Nat
    /\ Defaults \in [Keys -> AllValues]
    /\ \A k \in Keys : Defaults[k] \in Values[k]
ASSUME NoneAssumption ==
    /\ None \notin AllValues /\ None \notin Sessions
    /\ None \notin [Keys -> AllValues \cup {None}]
ASSUME FaultsAssumption == MaxFaults \in Nat

VARIABLES
    stored,     \* system_config as committed
    lock,       \* the open transaction that has written a row or a new key
    pc,         \* where each request is, named for what it does next
    body,       \* what it asks for
    at,         \* the key it is at
    seen,       \* the value it has read of that key
    view,       \* what get_all has returned to it
    touched,    \* history: the keys others have changed since it came
    faults      \* history: the failures so far

vars == <<stored, lock, pc, body, at, seen, view, touched, faults>>

(* The state is well-formed; a key is locked by a request only if it has   *)
(* passed the key, names it, and has not ended.                            *)
TypeOK ==
    /\ stored \in [Keys -> AllValues \cup {None}]
    /\ lock \in [Keys -> Sessions \cup {None}]
    /\ pc \in [Sessions -> {"idle", "select", "flush", "answer"}]
    /\ body \in [Sessions -> Body \cup {None}]
    /\ at \in [Sessions -> 1..(LastKey + 1)]
    /\ seen \in [Sessions -> AllValues \cup {None}]
    /\ view \in [Sessions -> [Keys -> AllValues] \cup {None}]
    /\ touched \in [Sessions -> SUBSET Keys]
    /\ \A s \in Sessions :
          /\ body[s] = None <=> pc[s] = "idle"
          /\ view[s] # None <=> pc[s] = "answer"
          /\ pc[s] = "flush" => at[s] \in Keys /\ body[s][at[s]] # None
          /\ \A k \in Keys : lock[k] = s =>
                pc[s] # "idle" /\ k < at[s] /\ body[s][k] # None
    /\ faults \in Nat

(* Migrations leave a row for each setting, at its default; a database     *)
(* made by create_all() alone, as that of the integration tests, has none. *)
Init ==
    /\ stored \in {Defaults, [k \in Keys |-> None]}
    /\ lock = [k \in Keys |-> None]
    /\ pc = [s \in Sessions |-> "idle"]
    /\ body = [s \in Sessions |-> None]
    /\ at = [s \in Sessions |-> 1]
    /\ seen = [s \in Sessions |-> None]
    /\ view = [s \in Sessions |-> None]
    /\ touched = [s \in Sessions |-> {}]
    /\ faults = 0

-----------------------------------------------------------------------------
Goto(s, label) == pc' = [pc EXCEPT ![s] = label]

Fault == faults < MaxFaults /\ faults' = faults + 1

(* get_all, and get: "Merge defaults for any missing keys".                *)
Effective(row, k) == IF row[k] = None THEN Defaults[k] ELSE row[k]

(* Does the ORM find the value of the object changed?                      *)
IsNoDefault(s) == body[s][at[s]] # Defaults[at[s]]

Changes(s) == body[s][at[s]] # seen[s]

(* A transaction ends, by COMMIT or ROLLBACK.                              *)
KeepsLocks(s) == lock

Released(s) == [k \in Keys |-> IF lock[k] = s THEN None ELSE lock[k]]

(* What the transaction has written becomes visible.                       *)
LastKeyOnly(s) ==
    [k \in Keys |-> IF lock[k] = s /\ k = LastKey THEN body[s][k] ELSE stored[k]]

Written(s) == [k \in Keys |-> IF lock[k] = s THEN body[s][k] ELSE stored[k]]

Write(s) ==
    /\ stored' = Written(s)
    /\ touched' = [t \in Sessions |->
          IF t = s \/ pc[t] = "idle" THEN {}
          ELSE touched[t] \cup
                  {k \in Keys : lock[k] = s /\ body[s][k] # Effective(stored, k)}]

(* The request is over and its session closed.                             *)
StartOver(s) ==
    /\ Goto(s, "select")
    /\ at' = [at EXCEPT ![s] = 1]
    /\ view' = [view EXCEPT ![s] = None]
    /\ lock' = Released(s)
    /\ UNCHANGED <<body, seen>>

Close(s) ==
    /\ Goto(s, "idle")
    /\ body' = [body EXCEPT ![s] = None]
    /\ at' = [at EXCEPT ![s] = 1]
    /\ seen' = [seen EXCEPT ![s] = None]
    /\ view' = [view EXCEPT ![s] = None]
    /\ lock' = Released(s)

(* Rollback, 500.                                                          *)
Fail(s) ==
    /\ Close(s)
    /\ touched' = [touched EXCEPT ![s] = {}]
    /\ UNCHANGED stored

(* flush() has returned: on to the next key.                               *)
Flushed(s) ==
    /\ Goto(s, "select")
    /\ at' = [at EXCEPT ![s] = @ + 1]
    /\ seen' = [seen EXCEPT ![s] = None]
    /\ UNCHANGED <<stored, body, view, touched, faults>>

-----------------------------------------------------------------------------
Receive(s) ==
    /\ pc[s] = "idle"
    /\ \E b \in Body : body' = [body EXCEPT ![s] = b]
    /\ Goto(s, "select")
    /\ UNCHANGED <<stored, lock, at, seen, view, touched, faults>>

(* "is not None" does not hold.                                            *)
Pass(s) ==
    /\ pc[s] = "select" /\ at[s] \in Keys /\ body[s][at[s]] = None
    /\ at' = [at EXCEPT ![s] = @ + 1]
    /\ UNCHANGED <<stored, lock, pc, body, seen, view, touched, faults>>

(* upsert(): the SELECT.                                                   *)
Select(s) ==
    /\ pc[s] = "select" /\ at[s] \in Keys /\ body[s][at[s]] # None
    /\ seen' = [seen EXCEPT ![s] = stored[at[s]]]
    /\ Goto(s, "flush")
    /\ UNCHANGED <<stored, lock, body, at, view, touched, faults>>

(* flush(): the INSERT.                                                    *)
Insert(s) ==
    /\ pc[s] = "flush" /\ seen[s] = None
    /\ stored[at[s]] = None /\ lock[at[s]] = None
    /\ lock' = [lock EXCEPT ![at[s]] = s]
    /\ Flushed(s)

(* flush(): IntegrityError.                                                *)
Duplicate(s) ==
    /\ pc[s] = "flush" /\ seen[s] = None
    /\ stored[at[s]] # None
    /\ Fail(s)
    /\ UNCHANGED faults

(* flush(): the UPDATE, once the row's lock can be had.                    *)
Update(s) ==
    /\ pc[s] = "flush" /\ seen[s] # None /\ Changes(s)
    /\ lock[at[s]] = None
    /\ lock' = [lock EXCEPT ![at[s]] = s]
    /\ Flushed(s)

(* flush(), with nothing to write.                                         *)
Unchanged(s) ==
    /\ pc[s] = "flush" /\ seen[s] # None /\ ~Changes(s)
    /\ Flushed(s)
    /\ UNCHANGED lock

(* get_all(): the committed rows, and its own.                             *)
GetAll(s) ==
    /\ pc[s] = "select" /\ at[s] = LastKey + 1
    /\ view' = [view EXCEPT ![s] =
          [k \in Keys |-> IF lock[k] = s THEN body[s][k] ELSE Effective(stored, k)]]
    /\ Goto(s, "answer")
    /\ UNCHANGED <<stored, lock, body, at, seen, touched, faults>>

(* The answer is sent, and get_db_session commits.                         *)
Commit(s) ==
    /\ pc[s] = "answer"
    /\ Write(s)
    /\ Close(s)
    /\ UNCHANGED faults

(* COMMIT raises, whether PostgreSQL has carried it out or not.            *)
CommitError(s) ==
    /\ pc[s] = "answer"
    /\ Fault
    /\ Fail(s) \/ (Write(s) /\ Close(s))

(* A statement fails.                                                      *)
Abort(s) ==
    /\ pc[s] \in {"select", "flush"}
    /\ Fault
    /\ Fail(s)

Turn(s) ==
    \/ Pass(s) \/ Select(s) \/ Insert(s) \/ Duplicate(s) \/ Unchanged(s)
    \/ GetAll(s) \/ Commit(s)

Next ==
    \E s \in Sessions :
        Receive(s) \/ Turn(s) \/ Update(s) \/ CommitError(s) \/ Abort(s)

Spec == Init /\ [][Next]_vars

(* Calls return, and PostgreSQL gives a row's lock to those who wait for   *)
(* it in turn.                                                             *)
FairSpec ==
    Spec /\ \A s \in Sessions : WF_vars(Turn(s)) /\ SF_vars(Update(s))

-----------------------------------------------------------------------------
Whole == INSTANCE Settings
    WITH config <- [k \in Keys |-> Effective(stored, k)], Bodies <- Body

(* A PUT sets the keys it names in one step or not at all, however many    *)
(* requests insert and update the same keys at once and whatever fails; it *)
(* leaves one of them alone only if another request has set that key in    *)
(* the meantime (config_service.py:31-47, config_repository.py:51-66).     *)
ImplementsSettings == Whole!Spec

(* The answer shows the values that the request asked for; where it does   *)
(* not, another request has set the key since this one came                *)
(* (config_repository.py:56-66, config_service.py:46-47).                  *)
AnswerExplained ==
    \A s \in Sessions, k \in Keys :
        (pc[s] = "answer" /\ body[s][k] # None /\ view[s][k] # body[s][k]) =>
            k \in touched[s]

(* Every request comes to its end: those that set both keys take their     *)
(* locks in the same order, and one that fails gives back what it holds    *)
(* (config_service.py:32-44, dependencies.py:31-37).                       *)
EveryRequestEnds == \A s \in Sessions : pc[s] # "idle" ~> pc[s] = "idle"

=============================================================================
