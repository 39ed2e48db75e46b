---------------------------- MODULE Deployment ----------------------------
(***************************************************************************)
(* How a container comes up: entrypoint.sh runs `alembic upgrade head`,    *)
(* seeds the rules and executes the service; docker-compose.yml orders the *)
(* first start and restarts what has failed.  alembic/env.py runs all      *)
(* pending revisions in one database transaction, and nothing keeps two    *)
(* containers from doing so at once: PostgreSQL's locks on the tables are  *)
(* what they meet.  An operator may take revisions back meanwhile.         *)
(*                                                                         *)
(* A step is one statement.  Left out: column types and defaults, the rows *)
(* that revisions insert, alembic's own creation of its version table (on  *)
(* an empty database whoever loses the race for it waits one statement     *)
(* earlier, and fails as it does here), the single statements of seeding   *)
(* (RuleCatalog) and of an evaluation (Evaluation).                        *)
(***************************************************************************)
EXTENDS Integers, Sequences, FiniteSets

CONSTANTS
    First,          \* containers that wait for no other: fraud-inbound-http
    Dependents,     \* those with depends_on: fraud-inbound-http is healthy
    Operator,       \* whoever runs `alembic downgrade` by hand
    Alerts,         \* the rows fraud_alerts may come to have
    None,           \* no such row
    Targets,        \* the versions the operator goes back to
    MaxPadded,      \* the last number that LPAD(..., 5, '0') leaves whole
    MaxDowngrades,  \* bound on the operator's downgrades
    MaxFaults       \* bound on crashes and failing calls

Containers == First \cup Dependents
Migrators  == Containers \cup {Operator}

ASSUME DeploymentAssumption ==
    /\ First \cap Dependents = {}
    /\ Operator \notin Containers
    /\ IsFiniteSet(Alerts) /\ None \notin Nat
    /\ Targets \subseteq 0 .. 6
    /\ MaxPadded \in Nat \ {0}
    /\ MaxDowngrades \in Nat
    /\ MaxFaults \in Nat

-----------------------------------------------------------------------------
(* The revisions.  A schema says what there is of each table: "table" for  *)
(* the table itself, and those of its columns and indexes that revisions   *)
(* add or take away.  The sequence counts as a table of its own.           *)

Tables == {"fraud_rules", "transactions", "fraud_alerts", "notifications",
           "users", "system_config", "alert_ref_seq"}

Create(t)    == [do |-> "create", on |-> t, what |-> "table"]
Drop(t)      == [do |-> "drop", on |-> t, what |-> "table"]
Add(t, x)    == [do |-> "add", on |-> t, what |-> x]
Cut(t, x)    == [do |-> "remove", on |-> t, what |-> x]
Write(t, x)  == [do |-> "write", on |-> t, what |-> x]
Number       == [do |-> "number", on |-> "fraud_alerts",
                 what |-> "reference_number"]
EnsureSeq    == [do |-> "ensure", on |-> "alert_ref_seq", what |-> "sequence"]
DiscardSeq   == [do |-> "discard", on |-> "alert_ref_seq",
                 what |-> "sequence"]

(* Foreign keys: the table each table refers to.                           *)
RefersTo == {<<"fraud_alerts", "transactions">>,
             <<"notifications", "fraud_alerts">>}

InitialSchemaUp ==
    <<Create("fraud_rules"), Create("transactions"),
      Add("transactions", "idx_txn_customer_time"),
      Add("transactions", "ix_transactions_customer_id"),
      Add("transactions", "ix_transactions_external_id"),
      Create("fraud_alerts"),
      Add("fraud_alerts", "idx_alert_score"),
      Add("fraud_alerts", "idx_alert_status_created"),
      Add("fraud_alerts", "ix_fraud_alerts_customer_id"),
      Create("notifications"),
      Add("notifications", "ix_notifications_alert_id")>>

InitialSchemaDown ==
    <<Cut("notifications", "ix_notifications_alert_id"),
      Drop("notifications"),
      Cut("fraud_alerts", "ix_fraud_alerts_customer_id"),
      Cut("fraud_alerts", "idx_alert_status_created"),
      Cut("fraud_alerts", "idx_alert_score"),
      Drop("fraud_alerts"),
      Cut("transactions", "ix_transactions_external_id"),
      Cut("transactions", "ix_transactions_customer_id"),
      Cut("transactions", "idx_txn_customer_time"),
      Drop("transactions"), Drop("fraud_rules")>>

DecisionTierUp ==
    <<Add("fraud_alerts", "decision_tier"),
      Add("fraud_alerts", "decision_tier_description")>>

DecisionTierDown ==
    <<Cut("fraud_alerts", "decision_tier_description"),
      Cut("fraud_alerts", "decision_tier")>>

UsersUp ==
    <<Create("users"), Add("users", "ix_users_username"),
      Add("users", "ix_users_email"), Write("users", "table")>>

UsersDown ==
    <<Cut("users", "ix_users_email"), Cut("users", "ix_users_username"),
      Drop("users")>>

DropUsersUp ==
    <<Cut("users", "ix_users_email"), Cut("users", "ix_users_username"),
      Drop("users")>>

DropUsersDown ==
    <<Create("users"), Add("users", "ix_users_username"),
      Add("users", "ix_users_email")>>

SystemConfigUp   == <<Create("system_config"), Write("system_config", "table")>>
SystemConfigDown == <<Drop("system_config")>>

HumanIdsUp ==
    <<Add("transactions", "account_number"),
      Add("transactions", "ix_transactions_account_number"),
      EnsureSeq,
      Add("fraud_alerts", "reference_number"),
      Add("fraud_alerts", "ix_fraud_alerts_reference_number"),
      Add("fraud_alerts", "reviewed_by_username"),
      Number,
      Write("fraud_alerts", "reviewed_by_username")>>

HumanIdsDown ==
    <<Cut("fraud_alerts", "reviewed_by_username"),
      Cut("fraud_alerts", "ix_fraud_alerts_reference_number"),
      Cut("fraud_alerts", "reference_number"),
      DiscardSeq,
      Cut("transactions", "ix_transactions_account_number"),
      Cut("transactions", "account_number")>>

NumbersAgain ==
    <<Cut("fraud_alerts", "ix_fraud_alerts_reference_number"),
      Cut("fraud_alerts", "reference_number"),
      Add("fraud_alerts", "reference_number"),
      Add("fraud_alerts", "ix_fraud_alerts_reference_number"), Number,
      Add("transactions", "account_id"),
      Add("transactions", "ix_transactions_account_id")>>

AccountIdUp ==
    <<Add("transactions", "account_id"),
      Add("transactions", "ix_transactions_account_id")>>

AccountIdDown ==
    <<Cut("transactions", "ix_transactions_account_id"),
      Cut("transactions", "account_id")>>

(* The chain that the down_revision of each file makes; a version is a     *)
(* number of revisions, 0 is a database without any.                       *)
Upgrades   == <<InitialSchemaUp, DecisionTierUp, UsersUp, DropUsersUp,
                SystemConfigUp, HumanIdsUp, AccountIdUp>>
Downgrades == <<InitialSchemaDown, DecisionTierDown, UsersDown, DropUsersDown,
                SystemConfigDown, HumanIdsDown, AccountIdDown>>

HeadRevision == 7
Versions     == 0 .. HeadRevision

Exists(s, t) == "table" \in s[t]

(* Whether PostgreSQL executes a statement in a schema, or raises.         *)
Possible(op, s) ==
    \/ /\ op.do = "create"
       /\ ~Exists(s, op.on)
       /\ \A r \in RefersTo : r[1] = op.on => Exists(s, r[2])
    \/ /\ op.do = "drop"
       /\ Exists(s, op.on)
       /\ \A r \in RefersTo : r[2] = op.on => ~Exists(s, r[1])
    \/ op.do = "add" /\ Exists(s, op.on) /\ op.what \notin s[op.on]
    \/ op.do \in {"remove", "write"} /\ op.what \in s[op.on]
    \/ op.do = "number" /\ op.what \in s[op.on] /\ s["alert_ref_seq"] # {}
    \/ op.do \in {"ensure", "discard"}

(* The schema it leaves.  Indexes and columns go with their table.         *)
Altered(op, s) ==
    CASE op.do \in {"create", "add", "ensure"} ->
            [s EXCEPT ![op.on] = @ \cup {op.what}]
      [] op.do \in {"remove", "discard"} ->
            [s EXCEPT ![op.on] = @ \ {op.what}]
      [] op.do = "drop" -> [s EXCEPT ![op.on] = {}]
      [] OTHER -> s

(* After(ops, s)[i]: the schema after the first i statements.              *)
After(ops, s) ==
    LET f[i \in 0 .. Len(ops)] ==
            IF i = 0 THEN s ELSE Altered(ops[i], f[i - 1])
    IN  f

NoTable == [t \in Tables |-> {}]

(* The schema that the first v revisions make, from nothing.               *)
Replayed[v \in Versions] ==
    IF v = 0 THEN NoTable
    ELSE After(Upgrades[v], Replayed[v - 1])[Len(Upgrades[v])]

(* What alembic may execute, and the tables a transaction may lock.        *)
Statement ==
    [do : {"create", "drop", "add", "remove", "write", "number", "ensure",
           "discard"},
     on : Tables, what : STRING]

Lockable == Tables \cup {"alembic_version"}

Schema == [Tables -> SUBSET STRING]

(* Statements lead from one schema to another, each of them possible where *)
(* it stands.                                                              *)
Leads(ops, s, e) ==
    LET r == After(ops, s) IN
    /\ ops \in Seq(Statement) /\ Len(ops) > 0
    /\ r \in [0 .. Len(ops) -> Schema]
    /\ r[0] = s /\ r[Len(ops)] = e
    /\ \A i \in 1 .. Len(ops) :
          Possible(ops[i], r[i - 1]) /\ r[i] = Altered(ops[i], r[i - 1])

(* Each upgrade() leads to the next version, and each downgrade() takes    *)
(* back what its upgrade() has done.                                       *)
ASSUME RevisionsAssumption ==
    /\ \A v \in Versions \ {0} :
          /\ Leads(Upgrades[v], Replayed[v - 1], Replayed[v])
          /\ Leads(Downgrades[v], Replayed[v], Replayed[v - 1])
    /\ Replayed[0] = NoTable
    /\ Upgrades[1][1] = Create("fraud_rules")
    /\ \A v \in Versions : Exists(Replayed[v], "fraud_rules") <=> v # 0

-----------------------------------------------------------------------------
VARIABLES
    db,         \* PostgreSQL, what is committed: the version, the schema, the
                \*   reference number of each alert (0 is NULL), the sequence
    draft,      \* what the transaction of each migrator has made of it
    touched,    \* the tables its statements have locked until it ends
    pc,         \* where each container, or the operator, is
    at,         \* the revision alembic has come to
    goal,       \* the one it is going to
    step,       \* the next statement of the revision at hand
    downgrades, \* the operator's downgrades so far
    faults      \* the faults so far

vars == <<db, draft, touched, pc, at, goal, step, downgrades, faults>>
tx   == <<draft, touched, at, goal, step>>

Database == [version : Versions, schema : Schema,
             ref : [Alerts -> Nat \cup {None}], seq : Nat]

Migrating == {"revise", "commit"}
Labels    == {"waiting", "inspect", "seed", "connect", "serving", "exited",
              "stopped"} \cup Migrating

Empty == [version |-> 0, schema |-> NoTable, ref |-> [a \in Alerts |-> None],
          seq |-> 0]

Init ==
    /\ db = Empty
    /\ draft = [m \in Migrators |-> Empty]
    /\ touched = [m \in Migrators |-> {}]
    /\ pc = [m \in Migrators |-> IF m = Operator THEN "stopped" ELSE "waiting"]
    /\ at = [m \in Migrators |-> 0]
    /\ goal = [m \in Migrators |-> HeadRevision]
    /\ step = [m \in Migrators |-> 1]
    /\ downgrades = 0
    /\ faults = 0

Goto(m, label) == pc' = [pc EXCEPT ![m] = label]

Fault == faults < MaxFaults /\ faults' = faults + 1

(* A database with some tables taken from another one.                     *)
Merged(base, own, tables) ==
    [version |-> (IF "alembic_version" \in tables THEN own ELSE base).version,
     schema  |-> [t \in Tables |->
                     (IF t \in tables THEN own ELSE base).schema[t]],
     ref     |-> (IF "fraud_alerts" \in tables THEN own ELSE base).ref,
     seq     |-> (IF "alert_ref_seq" \in tables THEN own ELSE base).seq]

(* Under READ COMMITTED a transaction sees what is committed, but for the  *)
(* tables it has changed, which nobody else can touch.                     *)
Seen(m) == Merged(db, draft[m], touched[m])

(* A statement has left d, and has locked a table.                         *)
Changed(m, d, t) ==
    /\ touched' = [touched EXCEPT ![m] = @ \cup {t}]
    /\ draft' = [draft EXCEPT ![m] = Merged(Empty, d, touched'[m])]

(* ALTER and DROP take an ACCESS EXCLUSIVE lock until the end of their     *)
(* transaction; a table just created is not there for others to create.    *)
LockedByOther(m, t) == \E n \in Migrators \ {m} : t \in touched[n]

Up(m) == at[m] < goal[m]

(* The statements of the revision at hand.                                 *)
Script(m) == IF Up(m) THEN Upgrades[at[m] + 1] ELSE Downgrades[at[m]]

NextOp(m) == Script(m)[step[m]]

(* The table a migrator needs next.                                        *)
Needs(m) ==
    IF step[m] <= Len(Script(m)) THEN NextOp(m).on ELSE "alembic_version"

(* What a statement may leave.  The backfill numbers the rows without a    *)
(* number in any order.                                                    *)
Unnumbered(d) == {a \in Alerts : d.ref[a] = 0}

NumberedAlike(d) == {[a \in Unnumbered(d) |-> d.seq + 1]}

Numberings(d) ==
    {f \in [Unnumbered(d) -> d.seq + 1 .. d.seq + Cardinality(Unnumbered(d))] :
        \A a, b \in Unnumbered(d) : f[a] = f[b] => a = b}

(* LPAD cuts a longer number down to its first digits, which the sequence, *)
(* new with the column, has already given to another row: the unique index *)
(* refuses it.                                                             *)
Fits(op, d) ==
    op.do = "number" /\ Unnumbered(d) # {} =>
        d.seq + Cardinality(Unnumbered(d)) <= MaxPadded

Unfilled(d) == [a \in Alerts |-> IF d.ref[a] = None THEN None ELSE 0]

Results(op, d) ==
    CASE op.do = "number" ->
            {[d EXCEPT !.ref = [a \in Alerts |->
                                  IF a \in Unnumbered(d) THEN f[a] ELSE @[a]],
                       !.seq = @ + Cardinality(Unnumbered(d))] :
                f \in Numberings(d)}
      [] op.do = "remove" /\ op.what = "reference_number" ->
            {[d EXCEPT !.schema = Altered(op, @), !.ref = Unfilled(d)]}
      [] op.do = "drop" /\ op.on = "fraud_alerts" ->
            {[d EXCEPT !.schema = Altered(op, @),
                       !.ref = [a \in Alerts |-> None]]}
      [] op.do = "discard" ->
            {[d EXCEPT !.schema = Altered(op, @), !.seq = 0]}
      [] OTHER -> {[d EXCEPT !.schema = Altered(op, @)]}

(* The end of a transaction, and of the program that has it open.          *)
RollBack(m) ==
    /\ touched' = [touched EXCEPT ![m] = {}]
    /\ draft' = [draft EXCEPT ![m] = Empty]
    /\ at' = [at EXCEPT ![m] = 0]
    /\ goal' = [goal EXCEPT ![m] = HeadRevision]
    /\ step' = [step EXCEPT ![m] = 1]

KeepWork(m) == db' = [db EXCEPT !.schema = Seen(m).schema]
Discard(m)  == UNCHANGED db

(* `set -e`: entrypoint.sh ends with the first command that fails.         *)
GoOnAnyway(m) == Goto(m, IF m = Operator THEN "stopped" ELSE "seed")

Exit(m) == Goto(m, IF m = Operator THEN "stopped" ELSE "exited")

-----------------------------------------------------------------------------
(* docker-compose.yml                                                      *)

Start(c) ==
    /\ pc[c] = "waiting"
    /\ c \in Dependents => \E f \in First : pc[f] = "serving"
    /\ Goto(c, "inspect")
    /\ UNCHANGED <<db, tx, downgrades, faults>>

(* restart: on-failure, which waits for no other container.                *)
RestartNever(c) == FALSE

RestartOnFailure(c) == pc[c] = "exited"

Restart(c) ==
    /\ c \in Containers
    /\ RestartOnFailure(c)
    /\ Goto(c, "inspect")
    /\ UNCHANGED <<db, tx, downgrades, faults>>

Crash(m) ==
    /\ pc[m] \notin {"waiting", "exited", "stopped"}
    /\ Fault
    /\ Exit(m)
    /\ RollBack(m)
    /\ Discard(m)
    /\ UNCHANGED downgrades

(* `docker compose stop`: a stopped container is not restarted.            *)
Stop(c) ==
    /\ pc[c] = "serving"
    /\ Goto(c, "stopped")
    /\ UNCHANGED <<db, tx, downgrades, faults>>

-----------------------------------------------------------------------------
(* `alembic upgrade head` and, by hand, `alembic downgrade <revision>`.    *)

BeginAnyway(m, target) ==
    /\ at' = [at EXCEPT ![m] = db.version]
    /\ goal' = [goal EXCEPT ![m] = target]
    /\ step' = [step EXCEPT ![m] = 1]
    /\ Goto(m, "revise")
    /\ UNCHANGED <<db, draft, touched>>

Begin(m, target) ==
    /\ at' = [at EXCEPT ![m] = db.version]
    /\ goal' = [goal EXCEPT ![m] = target]
    /\ step' = [step EXCEPT ![m] = 1]
    /\ Goto(m, IF db.version = target THEN "commit" ELSE "revise")
    /\ UNCHANGED <<db, draft, touched>>

(* get_current_heads(): the version is read without a lock.                *)
Inspect(c) ==
    /\ pc[c] = "inspect"
    /\ Begin(c, HeadRevision)
    /\ UNCHANGED <<downgrades, faults>>

Downgrade(target) ==
    /\ pc[Operator] = "stopped"
    /\ downgrades < MaxDowngrades
    /\ downgrades' = downgrades + 1
    /\ target < db.version
    /\ Begin(Operator, target)
    /\ UNCHANGED faults

Works(m) ==
    Possible(NextOp(m), Seen(m).schema) /\ Fits(NextOp(m), Seen(m))

(* One statement of a revision; it waits for locks that others hold.       *)
Execute(m) ==
    /\ pc[m] = "revise"
    /\ step[m] <= Len(Script(m))
    /\ ~LockedByOther(m, NextOp(m).on)
    /\ Works(m)
    /\ step' = [step EXCEPT ![m] = @ + 1]
    /\ \E d \in Results(NextOp(m), Seen(m)) : Changed(m, d, NextOp(m).on)
    /\ UNCHANGED <<db, pc, at, goal, downgrades, faults>>

(* It raises: another migration has been here before, or there are too     *)
(* many alerts to number.  The exception leaves env.py; alembic exits with *)
(* a status other than 0.                                                  *)
ExecuteFails(m) ==
    /\ pc[m] = "revise"
    /\ step[m] <= Len(Script(m))
    /\ ~LockedByOther(m, NextOp(m).on)
    /\ ~Works(m)
    /\ Exit(m)
    /\ RollBack(m)
    /\ Discard(m)
    /\ UNCHANGED <<downgrades, faults>>

(* alembic_version is updated after each revision: one row must match.     *)
RowMatches(m) == at[m] = 0 \/ Seen(m).version = at[m]

NextVersion(m) == IF Up(m) THEN at[m] + 1 ELSE at[m] - 1

Stamp(m) ==
    /\ pc[m] = "revise"
    /\ step[m] > Len(Script(m))
    /\ ~LockedByOther(m, "alembic_version")
    /\ RowMatches(m)
    /\ at' = [at EXCEPT ![m] = NextVersion(m)]
    /\ step' = [step EXCEPT ![m] = 1]
    /\ Changed(m, [Seen(m) EXCEPT !.version = NextVersion(m)], "alembic_version")
    /\ Goto(m, IF NextVersion(m) = goal[m] THEN "commit" ELSE "revise")
    /\ UNCHANGED <<db, goal, downgrades, faults>>

StampFails(m) ==
    /\ pc[m] = "revise"
    /\ step[m] > Len(Script(m))
    /\ ~LockedByOther(m, "alembic_version")
    /\ ~RowMatches(m)
    /\ Exit(m)
    /\ RollBack(m)
    /\ Discard(m)
    /\ UNCHANGED <<downgrades, faults>>

(* Transactions that wait for each other in a circle: PostgreSQL ends one  *)
(* of them.  A statement needs one table, which one of them has locked.    *)
WaitsFor(m, n) == pc[m] = "revise" /\ m # n /\ Needs(m) \in touched[n]

Circle(C) ==
    \A n \in C : /\ \E k \in C : WaitsFor(n, k)
                 /\ \E k \in C : WaitsFor(k, n)

DeadlockDetected(m) ==
    /\ \E C \in SUBSET Migrators : m \in C /\ Circle(C)
    /\ Exit(m)
    /\ RollBack(m)
    /\ Discard(m)
    /\ UNCHANGED <<downgrades, faults>>

(* All revisions become visible at once: one begin_transaction in env.py.  *)
Commit(m) ==
    /\ pc[m] = "commit"
    /\ db' = Seen(m)
    /\ RollBack(m)
    /\ Goto(m, IF m = Operator THEN "stopped" ELSE "seed")
    /\ UNCHANGED <<downgrades, faults>>

(* The connection is lost under a statement or under COMMIT, which may     *)
(* have been carried out.                                                  *)
MigrationError(m) ==
    /\ pc[m] \in Migrating
    /\ Fault
    /\ \/ Discard(m)
       \/ pc[m] = "commit" /\ db' = Seen(m)
    /\ Exit(m)
    /\ RollBack(m)
    /\ UNCHANGED downgrades

-----------------------------------------------------------------------------
(* `python -m scripts.seed_rules`, and the service itself, in the image    *)
(* that compose builds: the one for production has no scripts/, and its    *)
(* entrypoint always ends here (Dockerfile:73-79).                         *)

Seed(c) ==
    /\ pc[c] = "seed"
    /\ ~LockedByOther(c, "fraud_rules")
    /\ Goto(c, IF Exists(db.schema, "fraud_rules") THEN "connect" ELSE "exited")
    /\ UNCHANGED <<db, tx, downgrades, faults>>

SeedError(c) ==
    /\ pc[c] = "seed"
    /\ Fault
    /\ Goto(c, "exited")
    /\ UNCHANGED <<db, tx, downgrades>>

(* The gRPC server and the consumer verify their connections before they   *)
(* serve; the HTTP service only creates its engine and client.             *)
Connect(c) ==
    /\ pc[c] = "connect"
    /\ Goto(c, "serving")
    /\ UNCHANGED <<db, tx, downgrades, faults>>

ConnectError(c) ==
    /\ pc[c] = "connect"
    /\ c \in Dependents
    /\ Fault
    /\ Goto(c, "exited")
    /\ UNCHANGED <<db, tx, downgrades>>

(* The row to insert: which name it has among those not in use does not    *)
(* matter to anybody.                                                      *)
NextRow == CHOOSE a \in Alerts : db.ref[a] = None

(* An evaluation that raises an alert: it needs every column of the model, *)
(* and the sequence; otherwise the statement fails and nothing is stored.  *)
Serviceable(s) ==
    /\ {"account_id", "account_number"} \subseteq s["transactions"]
    /\ {"reference_number", "reviewed_by_username", "decision_tier"}
          \subseteq s["fraud_alerts"]
    /\ s["alert_ref_seq"] # {}

Raise(c, a) ==
    /\ pc[c] = "serving"
    /\ db.ref[a] = None
    /\ a = NextRow
    /\ \A t \in {"transactions", "fraud_alerts"} : ~LockedByOther(c, t)
    /\ Serviceable(db.schema)
    /\ db' = [db EXCEPT !.ref[a] = db.seq + 1, !.seq = @ + 1]
    /\ UNCHANGED <<tx, pc, downgrades, faults>>

-----------------------------------------------------------------------------
(* What a program, compose or PostgreSQL does by itself.                   *)
Turn(m) ==
    \/ Start(m) \/ Restart(m) \/ Inspect(m)
    \/ Execute(m) \/ ExecuteFails(m) \/ Stamp(m) \/ StampFails(m)
    \/ DeadlockDetected(m) \/ Commit(m) \/ MigrationError(m)
    \/ Seed(m) \/ SeedError(m) \/ Connect(m) \/ ConnectError(m)

Next ==
    \/ \E m \in Migrators : Turn(m) \/ Crash(m)
    \/ \E c \in Containers : Stop(c) \/ \E a \in Alerts : Raise(c, a)
    \/ \E target \in Targets : Downgrade(target)

Spec == Init /\ [][Next]_vars

(* A started program goes on and is restarted after a failure, and compose *)
(* starts what no longer has to wait.  The fairness is strong because a    *)
(* statement that waits for a lock is enabled and disabled as others take  *)
(* it, and PostgreSQL queues those who wait.                               *)
Fairness == \A m \in Migrators : SF_vars(Turn(m))

FairSpec == Spec /\ Fairness

-----------------------------------------------------------------------------
TypeOK ==
    /\ db \in Database
    /\ draft \in [Migrators -> Database]
    /\ touched \in [Migrators -> SUBSET Lockable]
    /\ pc \in [Migrators -> Labels]
    /\ pc[Operator] \in Migrating \cup {"stopped"}
    /\ at \in [Migrators -> Versions]
    /\ goal \in [Migrators -> Versions]
    /\ step \in [Migrators -> Nat \ {0}]
    /\ \A m \in Migrators : pc[m] = "revise" => at[m] # goal[m]
    /\ downgrades \in 0 .. MaxDowngrades
    /\ faults \in 0 .. MaxFaults

(* The schema is always that of the version on record, however migrations  *)
(* race, fail half way or are taken back: no run of alembic is stopped by  *)
(* what another has left (alembic/env.py:46-52, the upgrade and downgrade  *)
(* of every revision).                                                     *)
SchemaOfVersion == db.schema = Replayed[db.version]

(* Once alerts have reference numbers every alert has one, and no two the  *)
(* same: those older than the column, and those raised between a downgrade *)
(* and the next upgrade (d4e5f6a7b8c9_add_human_readable_ids.py:57-61).    *)
AlertsNumbered ==
    "reference_number" \in db.schema["fraud_alerts"] =>
        \A a, b \in Alerts :
            /\ db.ref[a] # 0
            /\ a # b /\ db.ref[a] # None => db.ref[a] # db.ref[b]

Outlives(old, new) ==
    \A a \in Alerts : old[a] # None =>
        new[a] # None /\ (old[a] # 0 => new[a] = old[a])

(* An alert that is committed outlives every migration but a downgrade,    *)
(* also one without a number, and a number it has stays the same: whether  *)
(* it was raised before the migration or while that waited for its tables, *)
(* and whatever migrations race, fail or follow a downgrade                *)
(* (d4e5f6a7b8c9_add_human_readable_ids.py:27-68,                          *)
(* e5f6a7b8c9d0_add_account_id_to_transactions.py:25-30).                  *)
UpgradeKeepsAlerts ==
    [][db.version <= db'.version => Outlives(db.ref, db'.ref)]_vars

(* A container seeds and serves only on a schema at head, whoever has      *)
(* brought it there, unless an operator has taken it back                  *)
(* (entrypoint.sh:2, 5).                                                   *)
ServesAtHead ==
    downgrades = 0 =>
        \A c \in Containers :
            pc[c] \in {"seed", "connect", "serving"} => db.version = HeadRevision

TooMany == Cardinality(Unnumbered(db)) > MaxPadded

(* A container that has been started serves in the end, though it loses    *)
(* races for the migration, waits for locks or is restarted, unless there  *)
(* are more alerts without a number than the backfill can pad              *)
(* (docker-compose.yml:9; entrypoint.sh:5;                                 *)
(* d4e5f6a7b8c9_add_human_readable_ids.py:57-61).                          *)
EveryStartEnds ==
    \A c \in Containers :
        pc[c] \in Labels \ {"waiting"} ~>
            pc[c] \in {"serving", "stopped"} \/ TooMany

=============================================================================
