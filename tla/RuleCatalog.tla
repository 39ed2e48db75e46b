---------------------------- MODULE RuleCatalog ----------------------------
(* The catalog of fraud rules: administrators create, change, disable and  *)
(* toggle rules over /api/v1/rules while the entrypoints of starting       *)
(* containers seed the default rules (entrypoint.sh runs                   *)
(* scripts/seed_rules.py before the program).                              *)
(*                                                                         *)
(* A step is one call to PostgreSQL or the sending of an answer.  As in    *)
(* AlertReview the handlers read a row, set attributes on the copy, and    *)
(* the ORM writes the columns whose value differs from the copy; the       *)
(* request's session commits after its answer.  A request that changes     *)
(* nothing sends no UPDATE and takes no lock.  An INSERT of a code that an *)
(* open transaction has inserted waits for the end of that transaction.    *)
(*                                                                         *)
(* Left out: listing and reading rules, the columns that carry no control  *)
(* (name, description, category, severity, score, conditions, timestamps), *)
(* the role check and the audit log.  Any of those columns behaves like    *)
(* the three that are here, but for conditions given as null: they pass    *)
(* NOT NULL, as the JSON value null, and the request fails, and is rolled  *)
(* back, only when its answer is made (schemas/rule.py:107).               *)
EXTENDS Integers, Sequences

CONSTANTS
    Codes,      \* rule codes
    Defaults,   \* the codes of rules/default_rules.yaml, in its order
    Sessions,   \* requests that can be under way at a time
    Seeders,    \* containers that seed when they start
    Times,      \* instants that bound a rule's effect
    NewRules,   \* the rows that creations ask for
    Patches,    \* the fields and values that updates ask for
    MaxFaults,  \* bound on failures and redeployments in a behaviour
    None        \* NULL, no row, no lock, no request

Window(r) == r.from # None /\ r.to # None => r.from < r.to

Rule   == [enabled : BOOLEAN, from : Times \cup {None}, to : Times \cup {None}]
Fields == {"enabled", "from", "to"}

(* What RuleUpdate accepts: some fields, null included, and a window that  *)
(* is in order if both of its ends are among them.                         *)
Patch ==
    {p \in [fields : SUBSET Fields,
            values : [enabled : BOOLEAN \cup {None},
                      from    : Times \cup {None},
                      to      : Times \cup {None}]] :
        {"from", "to"} \subseteq p.fields => Window(p.values)}

ASSUME TimesAssumption == Times \subseteq Nat
ASSUME NoneAssumption ==
    /\ None \notin Times /\ None \notin BOOLEAN
    /\ None \notin Rule /\ None \notin Sessions \cup Seeders
ASSUME ActorsAssumption == Sessions \cap Seeders = {}
ASSUME DefaultsAssumption ==
    /\ Defaults \in Seq(Codes)
    /\ \A i, j \in 1..Len(Defaults) : Defaults[i] = Defaults[j] => i = j
ASSUME InputsAssumption ==
    /\ NewRules \subseteq {r \in Rule : Window(r)}
    /\ Patches \subseteq Patch
ASSUME FaultsAssumption == MaxFaults \in Nat

Request ==
         [op : {"create"}, code : Codes, rule : NewRules]
    \cup [op : {"update"}, code : Codes, patch : Patches]
    \cup [op : {"delete", "toggle"}, code : Codes]

ASSUME RequestAssumption == None \notin Request

VARIABLES
    rule,       \* fraud_rules as committed
    lock,       \* the open transaction that has written a row or a new key
    pc,         \* where each request is, named for what it does next
    req,        \* what it asks for
    seen,       \* the row as its identity map holds it
    stage,      \* what each container does
    at,         \* the index of the default rule a seeder looks up next
    pending,    \* whether the rule before it is added but not yet flushed
    faults      \* history: failures and redeployments so far

requests == <<pc, req, seen>>
seeding  == <<stage, at, pending>>
vars     == <<rule, lock, requests, seeding, faults>>

Writing == {"answer", "commit"}

Init ==
    /\ rule = [c \in Codes |-> None]
    /\ lock = [c \in Codes |-> None]
    /\ pc = [s \in Sessions |-> "idle"]
    /\ req = [s \in Sessions |-> None]
    /\ seen = [s \in Sessions |-> None]
    /\ stage = [p \in Seeders |-> "seeding"]
    /\ at = [p \in Seeders |-> 1]
    /\ pending = [p \in Seeders |-> FALSE]
    /\ faults = 0

-----------------------------------------------------------------------------
Goto(s, label) == pc' = [pc EXCEPT ![s] = label]

Fault == faults < MaxFaults /\ faults' = faults + 1

(* A transaction ends, by COMMIT or ROLLBACK.                              *)
KeepsLocks(t) == lock

Released(t) == [c \in Codes |-> IF lock[c] = t THEN None ELSE lock[c]]

(* What a request sets on its copy of the row: what the body names, null   *)
(* included (exclude_unset, not exclude_none).                             *)
NamedNotNull(s) ==
    IF req[s].op = "update"
    THEN {f \in req[s].patch.fields : req[s].patch.values[f] # None}
    ELSE {"enabled"}

Named(s) == IF req[s].op = "update" THEN req[s].patch.fields ELSE {"enabled"}

Value(s) ==
    CASE req[s].op = "update" -> req[s].patch.values
      [] req[s].op = "delete" -> [seen[s] EXCEPT !.enabled = FALSE]
      [] req[s].op = "toggle" -> [seen[s] EXCEPT !.enabled = ~@]

(* enabled: null passes the schema; the column is NOT NULL.                *)
Nulls(s) == "enabled" \in Named(s) /\ Value(s).enabled = None

(* The columns of its UPDATE.                                              *)
AllNamed(s) == Named(s)

Changed(s) == {f \in Named(s) : Value(s)[f] # seen[s][f]}

(* The row that a request leaves.                                          *)
SeenRow(s) ==
    IF req[s].op = "create" THEN req[s].rule
    ELSE [f \in Fields |-> IF f \in Named(s) THEN Value(s)[f] ELSE seen[s][f]]

Written(s) ==
    IF req[s].op = "create" THEN req[s].rule
    ELSE [f \in Fields |-> IF f \in Changed(s) THEN Value(s)[f]
                                               ELSE rule[req[s].code][f]]

(* A request is over and its session closed.                               *)
Finish(s) ==
    /\ Goto(s, "idle")
    /\ req' = [req EXCEPT ![s] = None]
    /\ seen' = [seen EXCEPT ![s] = None]

-----------------------------------------------------------------------------
Receive(s) ==
    /\ pc[s] = "idle"
    /\ \E r \in Request :
          /\ req' = [req EXCEPT ![s] = r]
          /\ Goto(s, IF r.op = "create" THEN "insert" ELSE "read")
    /\ UNCHANGED <<rule, lock, seen, seeding, faults>>

(* create(): the INSERT.                                                   *)
Insert(s) ==
    LET c == req[s].code IN
    /\ pc[s] = "insert"
    /\ rule[c] = None /\ lock[c] = None
    /\ lock' = [lock EXCEPT ![c] = s]
    /\ Goto(s, "answer")
    /\ UNCHANGED <<rule, req, seen, seeding, faults>>

(* IntegrityError, DuplicateRuleError: rollback and 409.                   *)
Duplicate(s) ==
    /\ pc[s] = "insert"
    /\ rule[req[s].code] # None
    /\ Finish(s)
    /\ UNCHANGED <<rule, lock, seeding, faults>>

(* get_by_code(): 404 if there is no row.                                  *)
Read(s) ==
    /\ pc[s] = "read"
    /\ IF rule[req[s].code] = None
       THEN Finish(s)
       ELSE /\ seen' = [seen EXCEPT ![s] = rule[req[s].code]]
            /\ Goto(s, "update")
            /\ UNCHANGED req
    /\ UNCHANGED <<rule, lock, seeding, faults>>

(* flush(), with nothing to write.                                         *)
Skip(s) ==
    /\ pc[s] = "update"
    /\ Changed(s) = {}
    /\ Goto(s, "answer")
    /\ UNCHANGED <<rule, lock, req, seen, seeding, faults>>

(* flush(): PostgreSQL refuses the UPDATE, 500.                            *)
Refuse(s) ==
    /\ pc[s] = "update"
    /\ Nulls(s)
    /\ Finish(s)
    /\ UNCHANGED <<rule, lock, seeding, faults>>

(* flush(): the UPDATE, once the row's lock can be had.                    *)
Update(s) ==
    LET c == req[s].code IN
    /\ pc[s] = "update"
    /\ Changed(s) # {} /\ ~Nulls(s)
    /\ lock[c] = None
    /\ lock' = [lock EXCEPT ![c] = s]
    /\ Goto(s, "answer")
    /\ UNCHANGED <<rule, req, seen, seeding, faults>>

(* A statement fails, refresh() included: rollback and 500.                *)
Abort(s) ==
    /\ pc[s] \in {"insert", "read", "update", "answer"}
    /\ Fault
    /\ lock' = Released(s)
    /\ Finish(s)
    /\ UNCHANGED <<rule, seeding>>

(* refresh() and the answer.                                               *)
Answer(s) ==
    /\ pc[s] = "answer"
    /\ Goto(s, "commit")
    /\ UNCHANGED <<rule, lock, req, seen, seeding, faults>>

(* get_db_session resumes after its yield.                                 *)
Write(s) ==
    LET c == req[s].code IN
    rule' = IF lock[c] = s THEN [rule EXCEPT ![c] = Written(s)] ELSE rule

Commit(s) ==
    /\ pc[s] = "commit"
    /\ Write(s)
    /\ lock' = Released(s)
    /\ Finish(s)
    /\ UNCHANGED <<seeding, faults>>

(* COMMIT raises, whether PostgreSQL has carried it out or not.            *)
CommitError(s) ==
    /\ pc[s] = "commit"
    /\ Fault
    /\ Write(s) \/ UNCHANGED rule
    /\ lock' = Released(s)
    /\ Finish(s)
    /\ UNCHANGED seeding

-----------------------------------------------------------------------------
Seeded   == {Defaults[i] : i \in 1..Len(Defaults)}
SeedRule == [enabled |-> TRUE, from |-> None, to |-> None]

(* The rule that session.add() has left for the next flush.                *)
Added(p) == Defaults[at[p] - 1]

(* The script ends, and with it the container and the transaction.         *)
SeedDown(p) ==
    /\ stage' = [stage EXCEPT ![p] = "down"]
    /\ at' = [at EXCEPT ![p] = 1]
    /\ pending' = [pending EXCEPT ![p] = FALSE]
    /\ lock' = Released(p)

(* The SELECT finds what is committed, not what others have inserted.      *)
SkipsTaken(p) == rule[Defaults[at[p]]] # None \/ lock[Defaults[at[p]]] # None

SeedSkips(p) == rule[Defaults[at[p]]] # None

(* "Check if rule already exists", and add it if not.                      *)
SeedSelect(p) ==
    /\ stage[p] = "seeding" /\ ~pending[p] /\ at[p] <= Len(Defaults)
    /\ pending' = [pending EXCEPT ![p] = ~SeedSkips(p)]
    /\ at' = [at EXCEPT ![p] = @ + 1]
    /\ UNCHANGED <<rule, lock, requests, stage, faults>>

(* The INSERT, by autoflush before the next SELECT or by commit().         *)
SeedFlush(p) ==
    /\ stage[p] = "seeding" /\ pending[p]
    /\ rule[Added(p)] = None /\ lock[Added(p)] = None
    /\ lock' = [lock EXCEPT ![Added(p)] = p]
    /\ pending' = [pending EXCEPT ![p] = FALSE]
    /\ UNCHANGED <<rule, requests, stage, at, faults>>

(* IntegrityError: the script and with it the container ends (set -e).     *)
RetriesInsert(p) ==
    /\ stage[p] = "seeding" /\ pending[p]
    /\ rule[Added(p)] # None
    /\ lock' = Released(p)
    /\ UNCHANGED <<rule, requests, seeding, faults>>

SeedClash(p) ==
    /\ stage[p] = "seeding" /\ pending[p]
    /\ rule[Added(p)] # None
    /\ SeedDown(p)
    /\ UNCHANGED <<rule, requests, faults>>

SeedWrite(p) ==
    rule' = [c \in Codes |-> IF lock[c] = p THEN SeedRule ELSE rule[c]]

(* commit(), after which the container's own program starts.               *)
SeedCommit(p) ==
    /\ stage[p] = "seeding" /\ ~pending[p] /\ at[p] > Len(Defaults)
    /\ SeedWrite(p)
    /\ lock' = Released(p)
    /\ stage' = [stage EXCEPT ![p] = "serving"]
    /\ UNCHANGED <<requests, at, pending, faults>>

(* A call fails or the container dies, during commit() perhaps after       *)
(* PostgreSQL has carried it out.                                          *)
SeedError(p) ==
    /\ stage[p] \in {"seeding", "serving"}
    /\ Fault
    /\ \/ UNCHANGED rule
       \/ ~pending[p] /\ at[p] > Len(Defaults) /\ SeedWrite(p)
    /\ SeedDown(p)
    /\ UNCHANGED requests

(* restart: on-failure.                                                    *)
Restart(p) ==
    /\ stage[p] = "down"
    /\ stage' = [stage EXCEPT ![p] = "seeding"]
    /\ UNCHANGED <<rule, lock, requests, at, pending, faults>>

-----------------------------------------------------------------------------
Turn(s) ==
    \/ Insert(s) \/ Duplicate(s) \/ Read(s) \/ Skip(s) \/ Refuse(s)
    \/ Answer(s) \/ Commit(s)

SeedTurn(p) ==
    SeedSelect(p) \/ SeedFlush(p) \/ SeedClash(p) \/ SeedCommit(p) \/ Restart(p)

Next ==
    \/ \E s \in Sessions :
          Receive(s) \/ Turn(s) \/ Update(s) \/ Abort(s) \/ CommitError(s)
    \/ \E p \in Seeders : SeedTurn(p) \/ SeedError(p)

Spec == Init /\ [][Next]_vars

(* Calls return, a container that has failed is started again, and         *)
(* PostgreSQL gives a row's lock to those who wait for it in turn.         *)
FairSpec ==
    /\ Spec
    /\ \A s \in Sessions : SF_vars(Turn(s) \/ Update(s))
    /\ \A p \in Seeders : WF_vars(SeedTurn(p))

-----------------------------------------------------------------------------
(* The state is well-formed, and the lock of a row belongs to the open     *)
(* transaction that has written it: a lock left behind by a request or a   *)
(* seeder would stop every later writer of the rule.                       *)
TypeOK ==
    /\ rule \in [Codes -> Rule \cup {None}]
    /\ lock \in [Codes -> Sessions \cup Seeders \cup {None}]
    /\ pc \in [Sessions -> {"idle", "insert", "read", "update"} \cup Writing]
    /\ req \in [Sessions -> Request \cup {None}]
    /\ seen \in [Sessions -> Rule \cup {None}]
    /\ \A s \in Sessions : pc[s] # "idle" => req[s] \in Request
    /\ \A s \in Sessions, c \in Codes :
          lock[c] = s => pc[s] \in Writing /\ req[s].code = c
    /\ stage \in [Seeders -> {"seeding", "serving", "down"}]
    /\ at \in [Seeders -> 1..(Len(Defaults) + 1)]
    /\ pending \in [Seeders -> BOOLEAN]
    /\ \A p \in Seeders : pending[p] => at[p] > 1 /\ stage[p] = "seeding"
    /\ \A p \in Seeders, c \in Codes : lock[c] = p => stage[p] = "seeding"
    /\ faults \in Nat

Promised == INSTANCE Catalog
    WITH serving <- {p \in Seeders : stage[p] = "serving"}

(* A request that ends without a fault has been merged into its rule in    *)
(* one step, field by field against the row it read, unless that row was   *)
(* missing, was there already or could not hold what it asks for: changes  *)
(* of different fields at the same time both last.  A container serves     *)
(* only after one step that has put in place the default rules that were   *)
(* missing and has overwritten none (rule_repository.py:56-115,            *)
(* seed_rules.py:30-63, dependencies.py:31-37).                            *)
ImplementsCatalog == Promised!Spec

(* A disabled rule becomes enabled only through a request that has read it *)
(* disabled and asks for it to be enabled: an update that sets             *)
(* enabled = true on a rule it has read as enabled does not undo a         *)
(* deletion it has not seen (rule_repository.py:80-104).                   *)
EnabledKnowingly ==
    [][\A c \in Codes :
          (rule[c] # None /\ ~rule[c].enabled /\ rule'[c].enabled) =>
              \E s \in Sessions :
                  /\ pc[s] = "commit" /\ req[s].code = c
                  /\ ~seen[s].enabled
                  /\ req[s].op # "delete"]_vars

(* A rule's window is put out of order only by an update that names one    *)
(* end of it, which is checked without the other, or by one that works on  *)
(* an old copy of an end and so leaves it out of its UPDATE: an update of  *)
(* both ends on a current copy leaves them in order, and nothing else      *)
(* breaks a window (schemas/rule.py:90-94, rule_repository.py:86-92).      *)
WindowsBrokenByHalves ==
    [][\A c \in Codes :
          (/\ rule[c] = None \/ Window(rule[c])
           /\ rule'[c] # None /\ ~Window(rule'[c])) =>
              \E s \in Sessions :
                  /\ pc[s] = "commit" /\ req[s].code = c
                  /\ req[s].op = "update"
                  /\ \/ ~({"from", "to"} \subseteq req[s].patch.fields)
                     \/ \E f \in {"from", "to"} : seen[s][f] # rule[c][f]]_vars

(* Wherever seeding has come to its end, whatever it raced with, every     *)
(* default rule is there (seed_rules.py:30-63, entrypoint.sh:7-8).         *)
SeededComplete ==
    \A p \in Seeders : stage[p] = "serving" =>
        \A i \in 1..Len(Defaults) : rule[Defaults[i]] # None

(* Requests end and containers come into service, although they wait for   *)
(* each other's rows and new keys and clash on them                        *)
(* (rule_repository.py:72-76, seed_rules.py:35-63, dependencies.py:31-37). *)
EveryoneGetsThrough ==
    /\ \A s \in Sessions : pc[s] # "idle" ~> pc[s] = "idle"
    /\ \A p \in Seeders : []<>(stage[p] = "serving")

=============================================================================
