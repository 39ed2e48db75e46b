------------------------- MODULE Deployment_proofs -------------------------
(***************************************************************************)
(* Proofs about Deployment: its types, that the schema is always that of   *)
(* the version on record, that containers serve at head, that an upgrade   *)
(* keeps the alerts that are there, that each has a number of its own, and *)
(* that on an empty database the first migration runs alone.               *)
(***************************************************************************)
EXTENDS Deployment, FiniteSetTheorems, TLAPS

-----------------------------------------------------------------------------
(* What the scripts do to the numbers.                                     *)

(* Statements that leave the alerts and their numbers alone.               *)
KeepsNumbers(op) ==
    /\ ~(op.do = "remove" /\ op.what = "reference_number")
    /\ ~(op.do = "drop" /\ op.on = "fraud_alerts")

(* Scripts are careful with the numbers: they fill the column they add,    *)
(* from a sequence they have made, and give up the sequence only with the  *)
(* column; whoever is at work on the sequence has locked a table that an   *)
(* evaluation needs.                                                       *)
Careful(ops) ==
    \A i \in 1 .. Len(ops) :
        /\ ops[i].what = "reference_number" =>
              ops[i].on = "fraud_alerts" /\ ops[i].do \in {"add", "number", "remove"}
        /\ ops[i].do = "number" =>
              /\ ops[i].what = "reference_number"
              /\ \E j \in 1 .. i - 1 : ops[j].on = "alert_ref_seq"
        /\ ops[i] = Add("fraud_alerts", "reference_number") =>
              \E j \in i + 1 .. Len(ops) : ops[j].do = "number"
        /\ ops[i] = Cut("fraud_alerts", "reference_number") =>
              \A j \in 1 .. Len(ops) :
                  ops[j] # Add("fraud_alerts", "reference_number")
        /\ ops[i].do = "discard" =>
              /\ ops[i].on = "alert_ref_seq"
              /\ \E j \in 1 .. i - 1 :
                    ops[j] = Cut("fraud_alerts", "reference_number")
        /\ ops[i].on = "alert_ref_seq" =>
              \/ ops[i].do = "discard"
              \/ /\ ops[i].do = "ensure"
                 /\ \E j \in 1 .. i - 1 : ops[j].on = "transactions"

(* Statements that have nothing to do with them.                           *)
Unrelated(op) ==
    /\ op.what # "reference_number" /\ op.on # "alert_ref_seq"
    /\ op.do \notin {"number", "discard"}

LEMMA UnrelatedCareful ==
    ASSUME NEW ops, \A i \in 1 .. Len(ops) : Unrelated(ops[i])
    PROVE  Careful(ops)
  BY DEF Careful, Unrelated, Add, Cut

(* No upgrade takes a number away, the table or the column.                *)
LEMMA UpgradesKeepNumbers ==
    \A v \in Versions \ {0} :
        \A i \in 1 .. Len(Upgrades[v]) : KeepsNumbers(Upgrades[v][i])
  <1>1. \A i \in 1 .. Len(InitialSchemaUp) : KeepsNumbers(InitialSchemaUp[i])
    BY DEF InitialSchemaUp, KeepsNumbers, Create, Drop, Add, Cut, Write
  <1>2. \A i \in 1 .. Len(DecisionTierUp) : KeepsNumbers(DecisionTierUp[i])
    BY DEF DecisionTierUp, KeepsNumbers, Create, Drop, Add, Cut, Write
  <1>3. \A i \in 1 .. Len(UsersUp) : KeepsNumbers(UsersUp[i])
    BY DEF UsersUp, KeepsNumbers, Create, Drop, Add, Cut, Write
  <1>4. \A i \in 1 .. Len(DropUsersUp) : KeepsNumbers(DropUsersUp[i])
    BY DEF DropUsersUp, KeepsNumbers, Create, Drop, Add, Cut, Write
  <1>5. \A i \in 1 .. Len(SystemConfigUp) : KeepsNumbers(SystemConfigUp[i])
    BY DEF SystemConfigUp, KeepsNumbers, Create, Drop, Add, Cut, Write
  <1>6. \A i \in 1 .. Len(HumanIdsUp) : KeepsNumbers(HumanIdsUp[i])
    BY DEF HumanIdsUp, KeepsNumbers, Add, Write, EnsureSeq, Number
  <1>7. \A i \in 1 .. Len(AccountIdUp) : KeepsNumbers(AccountIdUp[i])
    BY DEF AccountIdUp, KeepsNumbers, Create, Drop, Add, Cut, Write
  <1> QED
    BY <1>1, <1>2, <1>3, <1>4, <1>5, <1>6, <1>7 DEF Upgrades, Versions, HeadRevision

(* Every upgrade is careful, and every downgrade.                          *)
LEMMA UpgradesCareful == \A v \in Versions \ {0} : Careful(Upgrades[v])
  <1>1. \A i \in 1 .. Len(InitialSchemaUp) : Unrelated(InitialSchemaUp[i])
    BY DEF InitialSchemaUp, Unrelated, Create, Drop, Add, Cut, Write
  <1>2. \A i \in 1 .. Len(DecisionTierUp) : Unrelated(DecisionTierUp[i])
    BY DEF DecisionTierUp, Unrelated, Create, Drop, Add, Cut, Write
  <1>3. \A i \in 1 .. Len(UsersUp) : Unrelated(UsersUp[i])
    BY DEF UsersUp, Unrelated, Create, Drop, Add, Cut, Write
  <1>4. \A i \in 1 .. Len(DropUsersUp) : Unrelated(DropUsersUp[i])
    BY DEF DropUsersUp, Unrelated, Create, Drop, Add, Cut, Write
  <1>5. \A i \in 1 .. Len(SystemConfigUp) : Unrelated(SystemConfigUp[i])
    BY DEF SystemConfigUp, Unrelated, Create, Drop, Add, Cut, Write
  <1>6. \A i \in 1 .. Len(AccountIdUp) : Unrelated(AccountIdUp[i])
    BY DEF AccountIdUp, Unrelated, Create, Drop, Add, Cut, Write
  <1>7. Careful(HumanIdsUp)
    BY DEF HumanIdsUp, Careful, Add, Cut, EnsureSeq, Number, Write
  <1> QED
    BY <1>1, <1>2, <1>3, <1>4, <1>5, <1>6, <1>7, UnrelatedCareful
       DEF Upgrades, Versions, HeadRevision

LEMMA DowngradesCareful == \A v \in Versions \ {0} : Careful(Downgrades[v])
  <1>1. \A i \in 1 .. Len(InitialSchemaDown) : Unrelated(InitialSchemaDown[i])
    BY DEF InitialSchemaDown, Unrelated, Create, Drop, Add, Cut, Write
  <1>2. \A i \in 1 .. Len(DecisionTierDown) : Unrelated(DecisionTierDown[i])
    BY DEF DecisionTierDown, Unrelated, Create, Drop, Add, Cut, Write
  <1>3. \A i \in 1 .. Len(UsersDown) : Unrelated(UsersDown[i])
    BY DEF UsersDown, Unrelated, Create, Drop, Add, Cut, Write
  <1>4. \A i \in 1 .. Len(DropUsersDown) : Unrelated(DropUsersDown[i])
    BY DEF DropUsersDown, Unrelated, Create, Drop, Add, Cut, Write
  <1>5. \A i \in 1 .. Len(SystemConfigDown) : Unrelated(SystemConfigDown[i])
    BY DEF SystemConfigDown, Unrelated, Create, Drop, Add, Cut, Write
  <1>6. \A i \in 1 .. Len(AccountIdDown) : Unrelated(AccountIdDown[i])
    BY DEF AccountIdDown, Unrelated, Create, Drop, Add, Cut, Write
  <1>7. Careful(HumanIdsDown)
    BY DEF HumanIdsDown, Careful, Add, Cut, DiscardSeq
  <1> QED
    BY <1>1, <1>2, <1>3, <1>4, <1>5, <1>6, <1>7, UnrelatedCareful
       DEF Downgrades, Versions, HeadRevision

-----------------------------------------------------------------------------
(* Statements and what they leave.                                         *)

(* A revision leads from its version to the next one on the way.           *)
LEMMA Leg ==
    ASSUME NEW v \in Versions, NEW g \in Versions, v # g
    PROVE  LET ops == IF v < g THEN Upgrades[v + 1] ELSE Downgrades[v]
               w   == IF v < g THEN v + 1 ELSE v - 1
           IN  /\ w \in Versions
               /\ Leads(ops, Replayed[v], Replayed[w])
               /\ v < g => \A i \in 1 .. Len(ops) : KeepsNumbers(ops[i])
               /\ Careful(ops)
  <1>1. v \in 0 .. 7 /\ g \in 0 .. 7 /\ Versions = 0 .. 7
    BY DEF Versions, HeadRevision
  <1>2. CASE v < g
    <2>1. v + 1 \in Versions \ {0} /\ (v + 1) - 1 = v
      BY <1>1, <1>2
    <2> QED
      BY <1>2, <2>1, RevisionsAssumption, UpgradesKeepNumbers, UpgradesCareful
  <1>3. CASE ~(v < g)
    <2>1. v \in Versions \ {0} /\ v - 1 \in Versions
      BY <1>1, <1>3
    <2> QED
      BY <1>3, <2>1, RevisionsAssumption, DowngradesCareful
  <1> QED
    BY <1>2, <1>3

LEMMA ScriptLeads ==
    ASSUME TypeOK, NEW m \in Migrators, pc[m] = "revise"
    PROVE  /\ NextVersion(m) \in Versions
           /\ Leads(Script(m), Replayed[at[m]], Replayed[NextVersion(m)])
           /\ Up(m) => \A i \in 1 .. Len(Script(m)) : KeepsNumbers(Script(m)[i])
           /\ Careful(Script(m))
  <1>1. at[m] \in Versions /\ goal[m] \in Versions /\ at[m] # goal[m]
    BY DEF TypeOK
  <1> QED
    BY <1>1, Leg DEF Script, NextVersion, Up

(* A statement is about one table and looks at nothing else to change it.  *)
LEMMA AlteredTyped ==
    ASSUME NEW op \in Statement, NEW s \in Schema
    PROVE  /\ Altered(op, s) \in Schema
           /\ \A t \in Tables \ {op.on} : Altered(op, s)[t] = s[t]
           /\ \A r \in Schema : r[op.on] = s[op.on] =>
                 Altered(op, r)[op.on] = Altered(op, s)[op.on]
  <1>1. op.on \in Tables /\ op.what \in STRING
    BY DEF Statement
  <1>2. CASE op.do \in {"create", "add", "ensure"}
    BY <1>1, <1>2 DEF Altered, Schema
  <1>3. CASE op.do \in {"remove", "discard"}
    BY <1>1, <1>3 DEF Altered, Schema
  <1>4. CASE op.do = "drop"
    BY <1>1, <1>4 DEF Altered, Schema
  <1>5. CASE op.do \in {"write", "number"}
    BY <1>1, <1>5 DEF Altered, Schema
  <1> QED
    BY <1>2, <1>3, <1>4, <1>5 DEF Statement

(* What it leaves of the database: the altered schema, the same version,   *)
(* and the numbers that are there unless it is about them.                 *)
LEMMA ResultsTyped ==
    ASSUME NEW op \in Statement, NEW d \in Database, NEW r \in Results(op, d)
    PROVE  /\ r \in Database
           /\ r.schema = Altered(op, d.schema)
           /\ r.version = d.version
           /\ KeepsNumbers(op) => Outlives(d.ref, r.ref)
           /\ \A a \in Alerts : d.ref[a] = None => r.ref[a] = None
  <1> DEFINE s == Altered(op, d.schema)
             bare == [a \in Alerts |-> None]
  <1>1. /\ d.version \in Versions /\ d.schema \in Schema
        /\ d.ref \in [Alerts -> Nat \cup {None}] /\ d.seq \in Nat
    BY DEF Database
  <1>2. s \in Schema
    BY <1>1, AlteredTyped
  <1>3. CASE op.do = "number"
    <2> DEFINE u == Unnumbered(d)
               k == Cardinality(u)
    <2>1. k \in Nat
      BY DeploymentAssumption, FS_Subset, FS_CardinalityType DEF Unnumbered
    <2>2. PICK f \in Numberings(d) :
              r = [d EXCEPT !.ref = [a \in Alerts |->
                                       IF a \in u THEN f[a] ELSE @[a]],
                            !.seq = @ + k]
      BY <1>3 DEF Results
    <2> DEFINE ref == [a \in Alerts |-> IF a \in u THEN f[a] ELSE d.ref[a]]
    <2>3. f \in [u -> (d.seq + 1) .. (d.seq + k)]
      BY DEF Numberings
    <2>4. \A a \in u : f[a] \in Nat
      BY <1>1, <2>1, <2>3
    <2>5. ref \in [Alerts -> Nat \cup {None}]
      BY <1>1, <2>4
    <2>6. r = [version |-> d.version, schema |-> d.schema, ref |-> ref,
               seq |-> d.seq + k]
      BY <2>2 DEF Database
    <2>7. d.seq + k \in Nat
      BY <1>1, <2>1
    <2>8. r \in Database
      BY <1>1, <2>5, <2>6, <2>7 DEF Database
    <2>9. s = d.schema
      BY <1>3 DEF Altered
    <2>10. \A a \in Alerts : d.ref[a] # 0 => ref[a] = d.ref[a]
      BY DEF Unnumbered
    <2>11. \A a \in Alerts : d.ref[a] = 0 => ref[a] \in Nat
      BY <2>4 DEF Unnumbered
    <2>12. None \notin Nat
      BY DeploymentAssumption
    <2> QED
      BY <2>6, <2>8, <2>9, <2>10, <2>11, <2>12 DEF Outlives
  <1>4. CASE op.do # "number"
    <2> DEFINE With(ref, seq) ==
                 [version |-> d.version, schema |-> s, ref |-> ref, seq |-> seq]
    <2>1. \/ ~KeepsNumbers(op) /\ r = With(Unfilled(d), d.seq)
          \/ ~KeepsNumbers(op) /\ r = With(bare, d.seq)
          \/ r = With(d.ref, 0)
          \/ r = With(d.ref, d.seq)
      BY <1>4 DEF Results, KeepsNumbers, Database
    <2>2. Unfilled(d) \in [Alerts -> Nat \cup {None}]
      BY DEF Unfilled
    <2>3. bare \in [Alerts -> Nat \cup {None}]
      OBVIOUS
    <2>4. \A ref \in [Alerts -> Nat \cup {None}], seq \in Nat :
              With(ref, seq) \in Database
      BY <1>1, <1>2 DEF Database
    <2>5. \A a \in Alerts : d.ref[a] = None => Unfilled(d)[a] = None
      BY DEF Unfilled
    <2> QED
      BY <1>1, <2>1, <2>2, <2>3, <2>4, <2>5 DEF Outlives
  <1> QED
    BY <1>3, <1>4

(* Merging databases, and what a migrator sees.                            *)
LEMMA MergedTyped ==
    ASSUME NEW d \in Database, NEW e \in Database, NEW T
    PROVE  Merged(d, e, T) \in Database
  BY DEF Merged, Database, Schema

LEMMA EmptyTyped == Empty \in Database
  BY DeploymentAssumption DEF Empty, Database, Schema, NoTable, Versions, HeadRevision

LEMMA SeenTyped ==
    ASSUME TypeOK, NEW m \in Migrators
    PROVE  Seen(m) \in Database
  BY MergedTyped DEF TypeOK, Seen

(* A step that ends a transaction, and one that adds to it.                *)
LEMMA RollBackTyped ==
    ASSUME TypeOK, NEW m \in Migrators, RollBack(m)
    PROVE  /\ draft' \in [Migrators -> Database]
           /\ touched' \in [Migrators -> SUBSET Lockable]
           /\ at' \in [Migrators -> Versions]
           /\ goal' \in [Migrators -> Versions]
           /\ step' \in [Migrators -> Nat \ {0}]
  <1>1. 0 \in Versions /\ HeadRevision \in Versions
    BY DEF Versions, HeadRevision
  <1> QED
    BY <1>1, EmptyTyped DEF TypeOK, RollBack

LEMMA ChangedTyped ==
    ASSUME TypeOK, NEW m \in Migrators, NEW d \in Database, NEW t \in Lockable,
           Changed(m, d, t)
    PROVE  /\ draft' \in [Migrators -> Database]
           /\ touched' \in [Migrators -> SUBSET Lockable]
  BY MergedTyped, EmptyTyped DEF TypeOK, Changed

(* The end of a migrator's program, and with it of its transaction.        *)
Ends(m) ==
    /\ RollBack(m)
    /\ IF m = Operator THEN pc' = [pc EXCEPT ![m] = "stopped"]
       ELSE \/ pc' = [pc EXCEPT ![m] = "exited"]
            \/ /\ pc[m] = "commit" /\ db' = Seen(m)
               /\ pc' = [pc EXCEPT ![m] = "seed"]
    /\ \/ db' = db
       \/ pc[m] = "commit" /\ db' = Seen(m)
    /\ downgrades' = downgrades
    /\ faults' \in 0 .. MaxFaults

LEMMA WhoEnds ==
    ASSUME TypeOK, NEW m \in Migrators,
           \/ Crash(m) \/ ExecuteFails(m) \/ StampFails(m)
           \/ DeadlockDetected(m) \/ Commit(m) \/ MigrationError(m)
    PROVE  Ends(m)
  <1>1. faults \in 0 .. MaxFaults /\ (Fault => faults' \in 0 .. MaxFaults)
    BY DeploymentAssumption DEF TypeOK, Fault
  <1> DEFINE Left == IF m = Operator THEN pc' = [pc EXCEPT ![m] = "stopped"]
                                     ELSE pc' = [pc EXCEPT ![m] = "exited"]
  <1>2. Exit(m) => Left
    BY Zenon DEF Exit, Goto
  <1>3. CASE Crash(m)
    BY <1>1, <1>2, <1>3 DEF Crash, Ends, Discard
  <1>4. CASE ExecuteFails(m) \/ StampFails(m) \/ DeadlockDetected(m)
    BY <1>1, <1>2, <1>4 DEF ExecuteFails, StampFails, DeadlockDetected, Ends,
       Discard
  <1>5. CASE Commit(m)
    BY <1>1, <1>5 DEF Commit, Ends, Goto
  <1>6. CASE MigrationError(m)
    BY <1>1, <1>2, <1>6 DEF MigrationError, Ends, Discard
  <1> QED
    BY <1>3, <1>4, <1>5, <1>6

(* The steps of a container outside its migration.                         *)
Outside(c) ==
    /\ c \in Containers
    /\ \/ pc[c] = "waiting" /\ pc' = [pc EXCEPT ![c] = "inspect"]
       \/ pc[c] = "exited" /\ pc' = [pc EXCEPT ![c] = "inspect"]
       \/ pc[c] = "serving" /\ pc' = [pc EXCEPT ![c] = "stopped"]
       \/ pc[c] = "seed" /\ pc' = [pc EXCEPT ![c] = "connect"]
       \/ pc[c] = "connect" /\ pc' = [pc EXCEPT ![c] = "serving"]
       \/ pc[c] \in {"seed", "connect"} /\ pc' = [pc EXCEPT ![c] = "exited"]
    /\ UNCHANGED <<db, tx, downgrades>>
    /\ faults' \in 0 .. MaxFaults

LEMMA WhoIsOutside ==
    ASSUME TypeOK, NEW c \in Migrators,
           \/ Start(c) \/ Restart(c) \/ Seed(c) \/ SeedError(c)
           \/ Connect(c) \/ ConnectError(c)
           \/ c \in Containers /\ Stop(c)
    PROVE  Outside(c)
  <1>1. pc[Operator] \notin {"waiting", "seed", "connect"}
    BY DEF TypeOK, Migrating
  <1>2. Operator \in Migrators /\ \A m \in Migrators : m # Operator => m \in Containers
    BY DEF Migrators
  <1>3. faults \in 0 .. MaxFaults /\ (Fault => faults' \in 0 .. MaxFaults)
    BY DeploymentAssumption DEF TypeOK, Fault
  <1> QED
    BY <1>1, <1>2, <1>3 DEF Start, Restart, RestartOnFailure, Seed, SeedError,
       Connect, ConnectError, Stop, Outside, Goto

(* Who begins to migrate.                                                  *)
Begins(m, target) ==
    /\ target \in Versions
    /\ Begin(m, target)
    /\ IF m = Operator THEN target < db.version ELSE target = HeadRevision
    /\ pc[m] = IF m = Operator THEN "stopped" ELSE "inspect"
    /\ downgrades' \in 0 .. MaxDowngrades
    /\ m = Operator => downgrades' > 0
    /\ m # Operator => downgrades' = downgrades
    /\ faults' = faults

LEMMA WhoBegins ==
    ASSUME TypeOK
    PROVE  /\ \A c \in Migrators : Inspect(c) => Begins(c, HeadRevision)
           /\ \A target \in Targets :
                 Downgrade(target) => Begins(Operator, target)
  <1>1. HeadRevision \in Versions /\ Targets \subseteq Versions
    BY DeploymentAssumption DEF Versions, HeadRevision
  <1>2. pc[Operator] # "inspect"
    BY DEF TypeOK, Migrating
  <1>3. downgrades \in 0 .. MaxDowngrades
    BY DEF TypeOK
  <1>4. ASSUME NEW c \in Migrators, Inspect(c) PROVE Begins(c, HeadRevision)
    BY <1>1, <1>2, <1>3, <1>4 DEF Inspect, Begins
  <1>5. ASSUME NEW target \in Targets, Downgrade(target)
        PROVE  Begins(Operator, target)
    BY <1>1, <1>3, <1>5, DeploymentAssumption DEF Downgrade, Begins
  <1> QED
    BY <1>4, <1>5

(* Every step is one of these.                                             *)
LEMMA Steps ==
    ASSUME TypeOK, Next
    PROVE  \/ \E m \in Migrators : Ends(m) \/ Outside(m) \/ Execute(m) \/ Stamp(m)
           \/ \E m \in Migrators, target \in Versions : Begins(m, target)
           \/ \E c \in Containers, a \in Alerts : Raise(c, a)
  <1>1. Containers \subseteq Migrators /\ Operator \in Migrators
    BY DEF Migrators
  <1>2. CASE \E m \in Migrators : Turn(m) \/ Crash(m)
    BY <1>2, WhoEnds, WhoIsOutside, WhoBegins DEF Turn, Begins
  <1>3. CASE \E c \in Containers : Stop(c) \/ \E a \in Alerts : Raise(c, a)
    BY <1>1, <1>3, WhoIsOutside
  <1>4. CASE \E target \in Targets : Downgrade(target)
    BY <1>1, <1>4, WhoBegins DEF Begins
  <1> QED
    BY <1>2, <1>3, <1>4 DEF Next

-----------------------------------------------------------------------------
LEMMA InitTypes == Init => TypeOK
  <1> SUFFICES ASSUME Init PROVE TypeOK
    OBVIOUS
  <1>1. 0 \in Versions /\ HeadRevision \in Versions
    BY DEF Versions, HeadRevision
  <1>2. Operator \in Migrators
    BY DEF Migrators
  <1> QED
    BY <1>1, <1>2, EmptyTyped, DeploymentAssumption DEF Init, TypeOK, Labels, Migrating

LEMMA EndsTypes ==
    ASSUME TypeOK, NEW m \in Migrators, Ends(m)
    PROVE  TypeOK'
  <1>1. db' \in Database
    BY SeenTyped DEF TypeOK, Ends
  <1>2. pc' \in [Migrators -> Labels] /\ pc'[m] \notin Migrating
    BY DEF TypeOK, Ends, Labels, Migrating
  <1>3. pc'[Operator] \in Migrating \cup {"stopped"}
    BY DEF TypeOK, Ends, Migrators
  <1>4. \A n \in Migrators : pc'[n] = "revise" => at'[n] # goal'[n]
    BY <1>2 DEF TypeOK, Ends, RollBack, Migrating
  <1> QED
    BY <1>1, <1>2, <1>3, <1>4, RollBackTyped DEF TypeOK, Ends

LEMMA OutsideTypes ==
    ASSUME TypeOK, NEW c \in Migrators, Outside(c)
    PROVE  TypeOK'
  <1>1. UNCHANGED <<db, draft, touched, at, goal, step, downgrades>>
    BY DEF Outside, tx
  <1>2. pc' \in [Migrators -> Labels] /\ pc'[c] # "revise"
    BY DEF TypeOK, Outside, Labels
  <1>3. pc'[Operator] = pc[Operator]
    <2>1. c # Operator /\ Operator \in Migrators
      BY DeploymentAssumption DEF Outside, Migrators
    <2> QED
      BY <2>1 DEF TypeOK, Outside
  <1>4. \A n \in Migrators : pc'[n] = "revise" => pc[n] = "revise"
    BY <1>2 DEF TypeOK, Outside
  <1> QED
    BY <1>1, <1>2, <1>3, <1>4 DEF TypeOK, Outside

LEMMA BeginsTypes ==
    ASSUME TypeOK, NEW m \in Migrators, NEW target \in Versions, Begins(m, target)
    PROVE  TypeOK'
  <1>1. UNCHANGED <<db, draft, touched, faults>>
    BY DEF Begins, Begin
  <1>2. /\ at' \in [Migrators -> Versions]
        /\ goal' \in [Migrators -> Versions]
        /\ step' \in [Migrators -> Nat \ {0}]
    BY DEF Begins, Begin, TypeOK, Database
  <1>3. pc' \in [Migrators -> Labels] /\ pc'[m] \in Migrating
    BY DEF Begins, Begin, Goto, TypeOK, Labels, Migrating
  <1>4. pc'[Operator] \in Migrating \cup {"stopped"}
    BY <1>3 DEF Begins, Begin, Goto, TypeOK
  <1>5. \A n \in Migrators : pc'[n] = "revise" => at'[n] # goal'[n]
    BY DEF Begins, Begin, Goto, TypeOK
  <1> QED
    BY <1>1, <1>2, <1>3, <1>4, <1>5 DEF TypeOK, Begins

(* The statement a migrator is at.                                         *)
LEMMA NextOpTyped ==
    ASSUME TypeOK, NEW m \in Migrators, pc[m] = "revise",
           step[m] <= Len(Script(m))
    PROVE  /\ NextOp(m) \in Statement
           /\ NextOp(m).on \in Tables
           /\ NextOp(m).on # "alembic_version"
           /\ step[m] \in 1 .. Len(Script(m))
           /\ Up(m) => KeepsNumbers(NextOp(m))
  <1>1. Script(m) \in Seq(Statement)
    BY ScriptLeads DEF Leads
  <1>2. Len(Script(m)) \in Nat /\ step[m] \in Nat \ {0}
    BY <1>1 DEF TypeOK
  <1>3. step[m] \in 1 .. Len(Script(m))
    BY <1>2
  <1>4. NextOp(m) \in Statement
    BY <1>1, <1>3 DEF NextOp
  <1>5. NextOp(m).on \in Tables /\ "alembic_version" \notin Tables
    BY <1>4 DEF Statement, Tables
  <1> QED
    BY <1>3, <1>4, <1>5, ScriptLeads DEF NextOp

LEMMA ExecuteTypes ==
    ASSUME TypeOK, NEW m \in Migrators, Execute(m)
    PROVE  TypeOK'
  <1>1. pc[m] = "revise" /\ step[m] <= Len(Script(m))
    BY DEF Execute
  <1>2. NextOp(m) \in Statement /\ NextOp(m).on \in Lockable
    BY <1>1, NextOpTyped DEF Lockable
  <1>3. PICK d \in Results(NextOp(m), Seen(m)) : Changed(m, d, NextOp(m).on)
    BY DEF Execute
  <1>4. d \in Database
    BY <1>2, SeenTyped, ResultsTyped
  <1>5. step' \in [Migrators -> Nat \ {0}]
    BY DEF Execute, TypeOK
  <1> QED
    BY <1>2, <1>3, <1>4, <1>5, ChangedTyped DEF TypeOK, Execute

LEMMA StampTypes ==
    ASSUME TypeOK, NEW m \in Migrators, Stamp(m)
    PROVE  TypeOK'
  <1> DEFINE d == [Seen(m) EXCEPT !.version = NextVersion(m)]
  <1>1. NextVersion(m) \in Versions
    BY ScriptLeads DEF Stamp
  <1>2. d \in Database
    BY <1>1, SeenTyped DEF Database
  <1>3. Changed(m, d, "alembic_version")
    BY DEF Stamp
  <1>4. /\ at' \in [Migrators -> Versions] /\ goal' = goal
        /\ step' \in [Migrators -> Nat \ {0}]
    BY <1>1 DEF Stamp, TypeOK
  <1>5. pc' \in [Migrators -> Labels] /\ pc'[m] \in Migrating
    BY DEF Stamp, Goto, TypeOK, Labels, Migrating
  <1>6. pc'[Operator] \in Migrating \cup {"stopped"}
    BY <1>5 DEF Stamp, Goto, TypeOK
  <1>7. \A n \in Migrators : pc'[n] = "revise" => at'[n] # goal'[n]
    BY DEF Stamp, Goto, TypeOK
  <1>8. UNCHANGED <<db, downgrades, faults>>
    BY DEF Stamp
  <1> QED
    BY <1>2, <1>3, <1>4, <1>5, <1>6, <1>7, <1>8, ChangedTyped DEF TypeOK, Lockable

LEMMA RaiseTypes ==
    ASSUME TypeOK, NEW c \in Containers, NEW a \in Alerts, Raise(c, a)
    PROVE  TypeOK'
  <1>1. db' \in Database
    <2>1. /\ db.version \in Versions /\ db.schema \in Schema
          /\ db.ref \in [Alerts -> Nat \cup {None}] /\ db.seq \in Nat
      BY DEF TypeOK, Database
    <2>2. db' = [version |-> db.version, schema |-> db.schema,
                 ref |-> [db.ref EXCEPT ![a] = db.seq + 1], seq |-> db.seq + 1]
      BY DEF Raise, TypeOK, Database
    <2> QED
      BY <2>1, <2>2 DEF Database
  <1>2. UNCHANGED <<draft, touched, pc, at, goal, step, downgrades, faults>>
    BY DEF Raise, tx
  <1> QED
    BY <1>1, <1>2 DEF TypeOK

LEMMA NextTypes == TypeOK /\ [Next]_vars => TypeOK'
  <1> SUFFICES ASSUME TypeOK, [Next]_vars PROVE TypeOK'
    OBVIOUS
  <1>1. CASE Next
    BY <1>1, Steps, EndsTypes, OutsideTypes, BeginsTypes, ExecuteTypes,
       StampTypes, RaiseTypes
  <1>2. CASE UNCHANGED vars
    BY <1>2 DEF vars, TypeOK
  <1> QED
    BY <1>1, <1>2

(* Whatever races and fails, the state is well-formed.                     *)
THEOREM TypeCorrect == Spec => []TypeOK
  BY InitTypes, NextTypes, PTL DEF Spec

-----------------------------------------------------------------------------
(* The schema and its version.                                             *)

Stamped(m) == "alembic_version" \in touched[m]

(* The schema the revision at hand starts from, and where it should be.    *)
Base(m)     == Replayed[at[m]]
Expected(m) == After(Script(m), Base(m))[step[m] - 1]

(* No two open transactions have locked the same table.                    *)
Apart == \A m, n \in Migrators : m # n => touched[m] \cap touched[n] = {}

(* A transaction that has not stamped a version yet may be at work on a    *)
(* schema that others change.  It knows what it has made of the tables     *)
(* that it found as its revision expects them; the first revision could    *)
(* only begin where there was nothing.                                     *)
Tentative(m) ==
    /\ \A t \in Tables \ touched[m] : Expected(m)[t] = Base(m)[t]
    /\ \A t \in Tables \cap touched[m] :
          db.schema[t] = Base(m)[t] => draft[m].schema[t] = Expected(m)[t]
    /\ step[m] = 1 => touched[m] = {}
    /\ at[m] = 0 /\ step[m] > 1 =>
          "fraud_rules" \in touched[m] /\ ~Exists(db.schema, "fraud_rules")

(* Once it has, it holds the version, which nobody else can change, and    *)
(* the schema it sees is the one it should be at.                          *)
Settled(m) ==
    /\ draft[m].version = at[m]
    /\ Seen(m).schema = IF pc[m] = "commit" THEN Base(m) ELSE Expected(m)

MigratorSound(m) ==
    /\ pc[m] \notin Migrating => touched[m] = {}
    /\ pc[m] = "revise" => step[m] \in 1 .. Len(Script(m)) + 1
    /\ pc[m] = "revise" /\ ~Stamped(m) => Tentative(m)
    /\ pc[m] = "commit" /\ ~Stamped(m) => touched[m] = {}
    /\ pc[m] \in Migrating /\ Stamped(m) => Settled(m)

SchemaInv ==
    /\ TypeOK
    /\ Apart
    /\ \A m \in Migrators : MigratorSound(m)
    /\ SchemaOfVersion

(* The schemas on the way, without the definition of After.                *)
LEMMA ExpectedTyped ==
    ASSUME TypeOK, NEW m \in Migrators, pc[m] = "revise"
    PROVE  /\ Base(m) \in Schema
           /\ step[m] = 1 => Expected(m) = Base(m)
           /\ step[m] \in 1 .. Len(Script(m)) + 1 => Expected(m) \in Schema
           /\ step[m] = Len(Script(m)) + 1 => Expected(m) = Replayed[NextVersion(m)]
           /\ step[m] \in 1 .. Len(Script(m)) =>
                 After(Script(m), Base(m))[step[m]] = Altered(NextOp(m), Expected(m))
           /\ Len(Script(m)) \in Nat \ {0}
  <1> DEFINE r == After(Script(m), Base(m))
             k == Len(Script(m))
  <1>1. /\ Script(m) \in Seq(Statement) /\ k > 0
        /\ r \in [0 .. k -> Schema]
        /\ r[0] = Base(m) /\ r[k] = Replayed[NextVersion(m)]
        /\ \A i \in 1 .. k : r[i] = Altered(Script(m)[i], r[i - 1])
    BY ScriptLeads DEF Leads, Base
  <1>2. k \in Nat /\ step[m] \in Nat \ {0}
    BY <1>1 DEF TypeOK
  <1>3. Expected(m) = r[step[m] - 1]
    BY DEF Expected
  <1> HIDE DEF r
  <1>4. Base(m) \in Schema
    BY <1>1, <1>2
  <1>5. step[m] = 1 => Expected(m) = Base(m)
    BY <1>1, <1>2, <1>3
  <1>6. step[m] \in 1 .. k + 1 => Expected(m) \in Schema
    BY <1>1, <1>2, <1>3
  <1>7. step[m] = k + 1 => Expected(m) = Replayed[NextVersion(m)]
    BY <1>1, <1>2, <1>3
  <1>8. step[m] \in 1 .. k => r[step[m]] = Altered(NextOp(m), Expected(m))
    BY <1>1, <1>2, <1>3 DEF NextOp
  <1> QED
    BY <1>1, <1>2, <1>4, <1>5, <1>6, <1>7, <1>8 DEF r

(* What a migrator sees is its draft where it has locked and the committed *)
(* state elsewhere.                                                        *)
LEMMA SeenIs ==
    ASSUME NEW m \in Migrators
    PROVE  /\ Seen(m).version =
                 IF Stamped(m) THEN draft[m].version ELSE db.version
           /\ Seen(m).schema =
                 [t \in Tables |-> IF t \in touched[m] THEN draft[m].schema[t]
                                                        ELSE db.schema[t]]
           /\ \A t \in Tables :
                 Seen(m).schema[t] = IF t \in touched[m] THEN draft[m].schema[t]
                                                          ELSE db.schema[t]
           /\ Seen(m).ref =
                 IF "fraud_alerts" \in touched[m] THEN draft[m].ref ELSE db.ref
  BY DEF Seen, Merged, Stamped

(* A statement changes the draft of its transaction alone.                 *)
LEMMA ChangedIs ==
    ASSUME TypeOK, NEW m \in Migrators, NEW d, NEW t \in Lockable, Changed(m, d, t)
    PROVE  /\ touched'[m] = touched[m] \cup {t}
           /\ "alembic_version" \in touched'[m] => draft'[m].version = d.version
           /\ \A u \in Tables \cap touched'[m] : draft'[m].schema[u] = d.schema[u]
           /\ "fraud_alerts" \in touched'[m] => draft'[m].ref = d.ref
           /\ "alert_ref_seq" \in touched'[m] => draft'[m].seq = d.seq
           /\ \A n \in Migrators \ {m} :
                 touched'[n] = touched[n] /\ draft'[n] = draft[n]
  BY DEF TypeOK, Changed, Merged

(* Who does nothing stays sound, as long as the others leave alone what it *)
(* has locked and, once it holds the version, everything.                  *)
LEMMA Bystander ==
    ASSUME SchemaInv, NEW n \in Migrators,
           pc'[n] = pc[n], touched'[n] = touched[n], draft'[n] = draft[n],
           at'[n] = at[n], goal'[n] = goal[n], step'[n] = step[n],
           \A t \in Tables \cap touched[n] : db'.schema[t] = db.schema[t],
           Stamped(n) => db'.schema = db.schema
    PROVE  MigratorSound(n)'
  <1>1. /\ Script(n)' = Script(n) /\ Base(n)' = Base(n)
        /\ Expected(n)' = Expected(n) /\ (Stamped(n)' <=> Stamped(n))
    BY DEF Script, Up, Base, Expected, Stamped
  <1>2. MigratorSound(n)
    BY DEF SchemaInv
  <1>3. Tentative(n) => Tentative(n)'
    BY <1>1, Zenon DEF Tentative, Exists, Tables
  <1>4. Stamped(n) /\ Settled(n) => Settled(n)'
    <2>1. db'.schema = db.schema => Seen(n)'.schema = Seen(n).schema
      BY DEF Seen, Merged
    <2> QED
      BY <1>1, <2>1 DEF Settled
  <1> QED
    BY <1>1, <1>2, <1>3, <1>4 DEF MigratorSound

(* A migrator whose transaction is over has nothing more to answer for.    *)
LEMMA Quiet ==
    ASSUME NEW m \in Migrators, pc'[m] \notin Migrating, touched'[m] = {}
    PROVE  MigratorSound(m)'
  BY DEF MigratorSound, Migrating, Stamped

LEMMA InitSchema == Init => SchemaInv
  <1> SUFFICES ASSUME Init PROVE SchemaInv
    OBVIOUS
  <1>1. SchemaOfVersion
    BY RevisionsAssumption DEF Init, SchemaOfVersion, Empty
  <1>2. ASSUME NEW m \in Migrators PROVE MigratorSound(m)
    BY DEF Init, MigratorSound, Migrating, Stamped
  <1>3. Apart
    BY DEF Init, Apart
  <1> QED
    BY <1>1, <1>2, <1>3, InitTypes DEF SchemaInv

(* The end of a transaction.  It changes the schema only by a COMMIT, of a *)
(* transaction that holds the version and is where it should be.           *)
LEMMA EndsSchema ==
    ASSUME SchemaInv, NEW m \in Migrators, Ends(m)
    PROVE  SchemaInv'
  <1>1. TypeOK'
    BY EndsTypes DEF SchemaInv
  <1>2. /\ touched'[m] = {} /\ pc'[m] \notin Migrating
        /\ \A n \in Migrators \ {m} :
              /\ pc'[n] = pc[n] /\ touched'[n] = touched[n]
              /\ draft'[n] = draft[n] /\ at'[n] = at[n]
              /\ goal'[n] = goal[n] /\ step'[n] = step[n]
    BY DEF Ends, RollBack, SchemaInv, TypeOK, Migrating
  <1>3. \/ db'.schema = db.schema /\ db'.version = db.version
        \/ Stamped(m)
    <2>1. ASSUME pc[m] = "commit", db' = Seen(m), ~Stamped(m)
          PROVE  db'.schema = db.schema /\ db'.version = db.version
      <3>1. touched[m] = {}
        BY <2>1 DEF SchemaInv, MigratorSound
      <3>2. db.schema \in Schema
        BY DEF SchemaInv, TypeOK, Database
      <3> QED
        BY <2>1, <3>1, <3>2, SeenIs DEF Schema
    <2> QED
      BY <2>1 DEF Ends
  <1>4. \A t \in Tables \ touched[m] : db'.schema[t] = db.schema[t]
    <2>1. db' = db \/ db' = Seen(m)
      BY DEF Ends
    <2>2. \A t \in Tables \ touched[m] : Seen(m).schema[t] = db.schema[t]
      BY SeenIs
    <2> QED
      BY <2>1, <2>2
  <1>5. SchemaOfVersion'
    <2>1. CASE db'.schema = db.schema /\ db'.version = db.version
      BY <2>1 DEF SchemaInv, SchemaOfVersion
    <2>2. CASE Stamped(m) /\ pc[m] = "commit" /\ db' = Seen(m)
      <3>1. Settled(m)
        BY <2>2 DEF SchemaInv, MigratorSound, Migrating
      <3> QED
        BY <2>2, <3>1, SeenIs DEF Settled, Base, SchemaOfVersion
    <2> QED
      BY <1>3, <2>1, <2>2 DEF Ends
  <1>6. Apart'
    BY <1>2 DEF SchemaInv, Apart
  <1>7. ASSUME NEW n \in Migrators, n # m PROVE MigratorSound(n)'
    <2>1. touched[n] \cap touched[m] = {}
      BY <1>7 DEF SchemaInv, Apart
    <2>2. \A t \in Tables \cap touched[n] : db'.schema[t] = db.schema[t]
      BY <1>4, <2>1
    <2>3. Stamped(n) => db'.schema = db.schema
      BY <1>3, <2>1 DEF Stamped
    <2> QED
      BY <1>2, <1>7, <2>2, <2>3, Bystander
  <1> QED
    BY <1>1, <1>2, <1>5, <1>6, <1>7, Quiet DEF SchemaInv

LEMMA OutsideSchema ==
    ASSUME SchemaInv, NEW c \in Migrators, Outside(c)
    PROVE  SchemaInv'
  <1>1. TypeOK'
    BY OutsideTypes DEF SchemaInv
  <1>2. UNCHANGED <<db, draft, touched, at, goal, step>>
    BY DEF Outside, tx
  <1>3. /\ pc[c] \notin Migrating /\ pc'[c] \notin Migrating
        /\ \A n \in Migrators \ {c} : pc'[n] = pc[n]
    BY DEF Outside, SchemaInv, TypeOK, Migrating
  <1>4. touched[c] = {}
    BY <1>3 DEF SchemaInv, MigratorSound
  <1>5. \A n \in Migrators : MigratorSound(n)'
    BY <1>2, <1>3, <1>4, Bystander, Quiet
  <1> QED
    BY <1>1, <1>2, <1>5 DEF SchemaInv, Apart, SchemaOfVersion

LEMMA RaiseSchema ==
    ASSUME SchemaInv, NEW c \in Containers, NEW a \in Alerts, Raise(c, a)
    PROVE  SchemaInv'
  <1>1. TypeOK'
    BY RaiseTypes DEF SchemaInv
  <1>2. UNCHANGED <<draft, touched, pc, at, goal, step>>
    BY DEF Raise, tx
  <1>3. db'.schema = db.schema /\ db'.version = db.version
    BY DEF Raise, SchemaInv, TypeOK, Database
  <1>4. \A n \in Migrators : MigratorSound(n)'
    BY <1>2, <1>3, Bystander
  <1> QED
    BY <1>1, <1>2, <1>3, <1>4 DEF SchemaInv, Apart, SchemaOfVersion

(* The beginning: nothing is locked, and nothing has been done.            *)
LEMMA BeginsSchema ==
    ASSUME SchemaInv, NEW m \in Migrators, NEW target \in Versions,
           Begins(m, target)
    PROVE  SchemaInv'
  <1>1. TypeOK'
    BY BeginsTypes DEF SchemaInv
  <1>2. UNCHANGED <<db, draft, touched>>
    BY DEF Begins, Begin
  <1>3. touched[m] = {}
    BY DEF Begins, SchemaInv, MigratorSound, Migrating
  <1>4. /\ at'[m] = db.version /\ goal'[m] = target /\ step'[m] = 1
        /\ pc'[m] = IF db.version = target THEN "commit" ELSE "revise"
        /\ \A n \in Migrators \ {m} :
              /\ pc'[n] = pc[n] /\ at'[n] = at[n]
              /\ goal'[n] = goal[n] /\ step'[n] = step[n]
    BY DEF Begins, Begin, Goto, SchemaInv, TypeOK
  <1>5. MigratorSound(m)'
    <2>1. ~Stamped(m)'
      BY <1>2, <1>3 DEF Stamped
    <2>2. ASSUME pc'[m] = "revise"
          PROVE  Tentative(m)' /\ step'[m] \in 1 .. Len(Script(m)') + 1
      <3>1. Leads(Script(m)', Base(m)', Replayed[NextVersion(m)'])
        BY <1>4, <2>2, Leg DEF SchemaInv, TypeOK, Database, Script, Base,
           NextVersion, Up
      <3>2. Expected(m)' = Base(m)' /\ Len(Script(m)') \in Nat
        BY <1>4, <3>1 DEF Leads, Expected
      <3> QED
        BY <1>2, <1>3, <1>4, <3>2 DEF Tentative
    <2> QED
      BY <1>2, <1>3, <1>4, <2>1, <2>2 DEF MigratorSound, Migrating
  <1>6. \A n \in Migrators \ {m} : MigratorSound(n)'
    BY <1>2, <1>4, Bystander
  <1> QED
    BY <1>1, <1>2, <1>5, <1>6 DEF SchemaInv, Apart, SchemaOfVersion

(* A statement takes what a migrator has made of a table to where the      *)
(* revision expects it next.                                               *)
LEMMA ExecuteSchema ==
    ASSUME SchemaInv, NEW m \in Migrators, Execute(m)
    PROVE  SchemaInv'
  <1> DEFINE op == NextOp(m)
             t  == op.on
  <1>1. TypeOK'
    BY ExecuteTypes DEF SchemaInv
  <1>2. TypeOK /\ pc[m] = "revise" /\ step[m] <= Len(Script(m))
    BY DEF Execute, SchemaInv
  <1>3. /\ op \in Statement /\ t \in Tables /\ t \in Lockable
        /\ t # "alembic_version" /\ step[m] \in 1 .. Len(Script(m))
    BY <1>2, NextOpTyped DEF Lockable
  <1>4. PICK d \in Results(op, Seen(m)) : Changed(m, d, t)
    BY DEF Execute
  <1>5. d.schema = Altered(op, Seen(m).schema) /\ d.version = Seen(m).version
    BY <1>2, <1>3, SeenTyped, ResultsTyped
  <1>6. /\ touched'[m] = touched[m] \cup {t}
        /\ Stamped(m) => draft'[m].version = d.version
        /\ \A u \in Tables \cap touched'[m] : draft'[m].schema[u] = d.schema[u]
        /\ \A n \in Migrators \ {m} : touched'[n] = touched[n] /\ draft'[n] = draft[n]
    BY <1>2, <1>3, <1>4, ChangedIs DEF Stamped
  <1>7. UNCHANGED <<db, pc, at, goal>> /\ step'[m] = step[m] + 1
        /\ \A n \in Migrators \ {m} : step'[n] = step[n]
    BY <1>2 DEF Execute, TypeOK
  <1>8. /\ Script(m)' = Script(m) /\ Base(m)' = Base(m)
        /\ (Stamped(m)' <=> Stamped(m))
    BY <1>3, <1>6, <1>7 DEF Script, Up, Base, Stamped
  <1>9. /\ Expected(m) \in Schema /\ Base(m) \in Schema
        /\ Expected(m)' = Altered(op, Expected(m))
    <2>1. /\ Expected(m) \in Schema /\ Base(m) \in Schema
          /\ After(Script(m), Base(m))[step[m]] = Altered(op, Expected(m))
      BY <1>2, <1>3, ExpectedTyped
    <2>2. step[m] \in Nat /\ step'[m] - 1 = step[m]
      BY <1>3, <1>7
    <2> QED
      BY <1>8, <2>1, <2>2 DEF Expected
  <1>10. Seen(m).schema \in Schema
    BY <1>2, SeenTyped DEF Database
  <1>11. /\ \A u \in Tables \ {t} : d.schema[u] = Seen(m).schema[u]
         /\ \A u \in Tables \ {t} : Expected(m)'[u] = Expected(m)[u]
         /\ Seen(m).schema[t] = Expected(m)[t] => d.schema[t] = Expected(m)'[t]
    BY <1>3, <1>5, <1>9, <1>10, AlteredTyped
  <1>12. ASSUME ~Stamped(m) PROVE Tentative(m)'
    <2>1. Tentative(m)
      BY <1>2, <1>12 DEF SchemaInv, MigratorSound
    <2>2. \A u \in Tables \ touched'[m] : Expected(m)'[u] = Base(m)'[u]
      BY <1>6, <1>8, <1>11, <2>1 DEF Tentative
    <2>3. ASSUME NEW u \in Tables \cap touched'[m], db.schema[u] = Base(m)[u]
          PROVE  draft'[m].schema[u] = Expected(m)'[u]
      <3>1. Seen(m).schema[u] = Expected(m)[u]
        BY <2>1, <2>3, SeenIs DEF Tentative
      <3> QED
        BY <1>6, <1>11, <2>3, <3>1
    <2>4. step'[m] # 1
      BY <1>3, <1>7
    <2>5. ASSUME at[m] = 0
          PROVE  "fraud_rules" \in touched'[m] /\ ~Exists(db.schema, "fraud_rules")
      <3>1. CASE step[m] > 1
        BY <1>6, <2>1, <2>5, <3>1 DEF Tentative
      <3>2. CASE step[m] = 1
        <4>1. goal[m] \in 0 .. 7 /\ goal[m] # 0
          BY <1>2, <2>5 DEF TypeOK, Versions, HeadRevision
        <4>2. Script(m) = Upgrades[0 + 1]
          BY <2>5, <4>1 DEF Script, Up
        <4>3. op = Create("fraud_rules")
          BY <3>2, <4>2, RevisionsAssumption DEF NextOp
        <4>4. ~Exists(Seen(m).schema, "fraud_rules")
          BY <4>3 DEF Execute, Works, Possible, Create
        <4>5. touched[m] = {}
          BY <2>1, <3>2 DEF Tentative
        <4>6. t = "fraud_rules"
          BY <4>3 DEF Create
        <4>7. Seen(m).schema[t] = db.schema[t]
          BY <1>3, <4>5, SeenIs
        <4> QED
          BY <1>6, <4>4, <4>6, <4>7 DEF Exists
      <3> QED
        BY <1>3, <3>1, <3>2
    <2> QED
      BY <1>7, <1>8, <2>2, <2>3, <2>4, <2>5 DEF Tentative, Base
  <1>13. ASSUME Stamped(m) PROVE Settled(m)'
    <2>1. draft[m].version = at[m] /\ Seen(m).schema = Expected(m)
      BY <1>2, <1>13 DEF SchemaInv, MigratorSound, Settled, Migrating
    <2>2. d.schema = Expected(m)' /\ Expected(m)' \in Schema
      BY <1>3, <1>5, <1>9, <2>1, AlteredTyped
    <2>3. \A u \in Tables \ touched'[m] : db.schema[u] = d.schema[u]
      <3>1. \A u \in Tables \ touched[m] : Seen(m).schema[u] = db.schema[u]
        BY SeenIs
      <3>2. \A u \in Tables \ touched'[m] : u \notin touched[m] /\ u # t
        BY <1>6
      <3> QED
        BY <1>11, <3>1, <3>2
    <2>4. Seen(m)'.schema =
             [u \in Tables |-> IF u \in touched'[m] THEN draft'[m].schema[u]
                                                    ELSE db'.schema[u]]
      BY DEF Seen, Merged
    <2>5. \A u \in Tables : Seen(m)'.schema[u] = Expected(m)'[u]
      BY <1>6, <1>7, <2>2, <2>3, <2>4
    <2>6. Seen(m)'.schema = Expected(m)'
      BY <2>2, <2>4, <2>5 DEF Schema
    <2>7. draft'[m].version = at'[m]
      BY <1>5, <1>6, <1>7, <1>13, <2>1, SeenIs
    <2> QED
      BY <1>2, <1>7, <2>6, <2>7 DEF Settled
  <1>14. MigratorSound(m)'
    <2>1. pc'[m] = "revise" /\ step'[m] \in 1 .. Len(Script(m)') + 1
      BY <1>2, <1>3, <1>7, <1>8
    <2> QED
      BY <1>8, <1>12, <1>13, <2>1 DEF MigratorSound, Migrating
  <1>15. \A n \in Migrators \ {m} : MigratorSound(n)'
    BY <1>6, <1>7, Bystander
  <1>16. Apart'
    <2>1. \A n \in Migrators \ {m} : t \notin touched[n]
      BY DEF Execute, LockedByOther
    <2> QED
      BY <1>6, <2>1 DEF SchemaInv, Apart
  <1> QED
    BY <1>1, <1>7, <1>14, <1>15, <1>16 DEF SchemaInv, SchemaOfVersion

(* A version is stamped: the row that matches is the committed one, so the *)
(* revision has found what it expects, and has led to the next version.    *)
LEMMA StampSchema ==
    ASSUME SchemaInv, NEW m \in Migrators, Stamp(m)
    PROVE  SchemaInv'
  <1> DEFINE d == [Seen(m) EXCEPT !.version = NextVersion(m)]
             v == NextVersion(m)
  <1>1. TypeOK'
    BY StampTypes DEF SchemaInv
  <1>2. TypeOK /\ pc[m] = "revise" /\ RowMatches(m) /\ MigratorSound(m)
    BY DEF Stamp, SchemaInv
  <1>3. /\ step[m] = Len(Script(m)) + 1 /\ step[m] > 1
        /\ Expected(m) = Replayed[v] /\ Expected(m) \in Schema
        /\ v \in Versions
    <2>1. step[m] \in 1 .. Len(Script(m)) + 1 /\ step[m] > Len(Script(m))
      BY <1>2 DEF Stamp, MigratorSound
    <2>2. Len(Script(m)) \in Nat \ {0}
      BY <1>2, ExpectedTyped
    <2>3. step[m] = Len(Script(m)) + 1 /\ step[m] > 1
      BY <2>1, <2>2
    <2> QED
      BY <1>2, <2>1, <2>3, ExpectedTyped, ScriptLeads
  <1>4. Seen(m).schema = Expected(m)
    <2>1. CASE Stamped(m)
      BY <1>2, <2>1 DEF MigratorSound, Migrating, Settled
    <2>2. CASE ~Stamped(m)
      <3>1. Tentative(m) /\ Seen(m).version = db.version
        BY <1>2, <2>2, SeenIs DEF MigratorSound
      <3>2. db.version = at[m]
        <4>1. CASE at[m] = 0
          <5>1. ~Exists(db.schema, "fraud_rules") /\ db.version \in Versions
            BY <1>2, <1>3, <3>1, <4>1 DEF Tentative, TypeOK, Database
          <5> QED
            BY <4>1, <5>1, RevisionsAssumption DEF SchemaInv, SchemaOfVersion
        <4>2. CASE at[m] # 0
          BY <1>2, <3>1, <4>2 DEF RowMatches
        <4> QED
          BY <4>1, <4>2
      <3>3. db.schema = Base(m)
        BY <3>2 DEF SchemaInv, SchemaOfVersion, Base
      <3>4. \A u \in Tables : Seen(m).schema[u] = IF u \in touched[m]
                                                   THEN draft[m].schema[u]
                                                   ELSE db.schema[u]
        BY SeenIs
      <3>5. \A u \in Tables : Seen(m).schema[u] = Expected(m)[u]
        BY <3>1, <3>3, <3>4 DEF Tentative
      <3>6. Seen(m).schema \in Schema
        BY <1>2, SeenTyped DEF Database
      <3> QED
        BY <1>3, <3>5, <3>6 DEF Schema
    <2> QED
      BY <2>1, <2>2
  <1>5. Changed(m, d, "alembic_version")
    BY DEF Stamp
  <1>6. d.schema = Seen(m).schema /\ d.version = v
    BY <1>2, SeenTyped DEF Database
  <1> HIDE DEF d
  <1>7. /\ touched'[m] = touched[m] \cup {"alembic_version"}
        /\ draft'[m].version = v
        /\ \A u \in Tables \cap touched'[m] : draft'[m].schema[u] = d.schema[u]
        /\ \A n \in Migrators \ {m} : touched'[n] = touched[n] /\ draft'[n] = draft[n]
    BY <1>2, <1>5, <1>6, ChangedIs DEF Lockable
  <1>8. /\ UNCHANGED <<db, goal>>
        /\ at'[m] = v /\ step'[m] = 1
        /\ pc'[m] = IF v = goal[m] THEN "commit" ELSE "revise"
        /\ \A n \in Migrators \ {m} :
              pc'[n] = pc[n] /\ at'[n] = at[n] /\ step'[n] = step[n]
    BY <1>2 DEF Stamp, Goto, TypeOK
  <1>9. Seen(m)'.schema = Replayed[v]
    <2>1. Seen(m)'.schema =
             [u \in Tables |-> IF u \in touched'[m] THEN draft'[m].schema[u]
                                                    ELSE db'.schema[u]]
      BY DEF Seen, Merged
    <2>2. \A u \in Tables \ touched'[m] : db'.schema[u] = Seen(m).schema[u]
      BY <1>7, <1>8, SeenIs
    <2>3. \A u \in Tables : Seen(m)'.schema[u] = Replayed[v][u]
      BY <1>3, <1>4, <1>6, <1>7, <2>1, <2>2
    <2> QED
      BY <1>3, <2>1, <2>3 DEF Schema
  <1>10. Base(m)' = Replayed[v]
    BY <1>8 DEF Base
  <1>11. ASSUME pc'[m] = "revise"
         PROVE  Expected(m)' = Replayed[v] /\ step'[m] \in 1 .. Len(Script(m)') + 1
    <2>1. Leads(Script(m)', Base(m)', Replayed[NextVersion(m)'])
      BY <1>2, <1>3, <1>8, <1>11, Leg DEF TypeOK, Script, Base, NextVersion, Up
    <2> QED
      BY <1>8, <1>10, <2>1 DEF Leads, Expected
  <1>12. Stamped(m)' /\ Settled(m)'
    BY <1>7, <1>8, <1>9, <1>10, <1>11 DEF Stamped, Settled
  <1>13. MigratorSound(m)'
    BY <1>8, <1>11, <1>12 DEF MigratorSound, Migrating
  <1>14. \A n \in Migrators \ {m} : MigratorSound(n)'
    BY <1>7, <1>8, Bystander
  <1>15. Apart'
    <2>1. \A n \in Migrators \ {m} : "alembic_version" \notin touched[n]
      BY DEF Stamp, LockedByOther
    <2> QED
      BY <1>7, <2>1 DEF SchemaInv, Apart
  <1> QED
    BY <1>1, <1>8, <1>13, <1>14, <1>15 DEF SchemaInv, SchemaOfVersion

LEMMA NextSchema == SchemaInv /\ [Next]_vars => SchemaInv'
  <1> SUFFICES ASSUME SchemaInv, [Next]_vars PROVE SchemaInv'
    OBVIOUS
  <1>1. CASE Next
    BY <1>1, Steps, EndsSchema, OutsideSchema, BeginsSchema, ExecuteSchema,
       StampSchema, RaiseSchema DEF SchemaInv
  <1>2. CASE UNCHANGED vars
    <2>1. UNCHANGED <<db, draft, touched, pc, at, goal, step>> /\ TypeOK'
      BY <1>2, NextTypes DEF vars, SchemaInv
    <2>2. \A n \in Migrators : MigratorSound(n)'
      BY <2>1, Bystander
    <2> QED
      BY <2>1, <2>2 DEF SchemaInv, Apart, SchemaOfVersion
  <1> QED
    BY <1>1, <1>2

LEMMA SchemaInvariant == Spec => []SchemaInv
  BY InitSchema, NextSchema, PTL DEF Spec

(* However many migrations race, up and down, and wherever they fail, the  *)
(* schema is that of the version on record.                                *)
THEOREM SchemaSound == Spec => []SchemaOfVersion
  BY SchemaInvariant, PTL DEF SchemaInv

-----------------------------------------------------------------------------
(* Containers at head, and the alerts that upgrades keep.                  *)

(* Containers go to head, and while no operator has taken it back the      *)
(* database is there as soon as one of them has finished, or has found     *)
(* nothing to do.                                                          *)
Finished(c) ==
    \/ pc[c] \in {"seed", "connect", "serving"}
    \/ pc[c] = "commit" /\ ~Stamped(c)

HeadSound ==
    /\ \A c \in Containers : goal[c] = HeadRevision
    /\ \A m \in Migrators : pc[m] = "commit" /\ Stamped(m) => at[m] = goal[m]
    /\ downgrades = 0 =>
          /\ pc[Operator] = "stopped"
          /\ \A c \in Containers : Finished(c) => db.version = HeadRevision

(* A container's draft has the alerts that are committed, with their       *)
(* numbers, and an operator goes down from the version on record.          *)
Keeps(c) ==
    "fraud_alerts" \in touched[c] => Outlives(db.ref, draft[c].ref)

NumbersSound ==
    /\ \A c \in Containers : Keeps(c)
    /\ pc[Operator] = "revise" => at[Operator] > goal[Operator]
    /\ Stamped(Operator) => at[Operator] < db.version

IInv == SchemaInv /\ HeadSound /\ NumbersSound

LEMMA WhoMigrates ==
    /\ Containers \subseteq Migrators /\ Operator \in Migrators
    /\ \A m \in Migrators : m # Operator <=> m \in Containers
  BY DeploymentAssumption DEF Migrators

(* What a COMMIT makes of the version and of the numbers.                  *)
LEMMA Committed ==
    ASSUME SchemaInv, NEW m \in Migrators, pc[m] = "commit"
    PROVE  /\ Stamped(m) => Seen(m).version = at[m]
           /\ ~Stamped(m) => Seen(m).version = db.version /\ touched[m] = {}
           /\ "fraud_alerts" \in touched[m] => Seen(m).ref = draft[m].ref
           /\ "fraud_alerts" \notin touched[m] => Seen(m).ref = db.ref
  <1>1. MigratorSound(m)
    BY DEF SchemaInv
  <1> QED
    BY <1>1, SeenIs DEF MigratorSound, Migrating, Settled

LEMMA InitNumbers == Init => IInv
  <1> SUFFICES ASSUME Init PROVE IInv
    OBVIOUS
  <1>1. HeadSound
    BY WhoMigrates DEF Init, HeadSound, Finished, Stamped
  <1>2. NumbersSound
    BY WhoMigrates DEF Init, NumbersSound, Keeps, Stamped
  <1> QED
    BY <1>1, <1>2, InitSchema DEF IInv

LEMMA EndsNumbers ==
    ASSUME IInv, NEW m \in Migrators, Ends(m)
    PROVE  HeadSound' /\ NumbersSound'
  <1>1. /\ touched'[m] = {} /\ goal'[m] = HeadRevision
        /\ pc'[m] \in {"stopped", "exited", "seed"}
        /\ pc'[m] = "seed" => pc[m] = "commit" /\ db' = Seen(m) /\ m # Operator
        /\ m = Operator => pc'[m] = "stopped"
        /\ \A n \in Migrators \ {m} :
              /\ pc'[n] = pc[n] /\ touched'[n] = touched[n]
              /\ draft'[n] = draft[n] /\ at'[n] = at[n] /\ goal'[n] = goal[n]
    BY DEF Ends, RollBack, IInv, SchemaInv, TypeOK
  <1>2. db' = db \/ (pc[m] = "commit" /\ db' = Seen(m))
    BY DEF Ends
  <1>3. downgrades' = downgrades /\ SchemaInv
    BY DEF Ends, IInv
  <1>4. db'.version = db.version \/ (Stamped(m) /\ pc[m] = "commit" /\ db'.version = at[m])
    BY <1>2, <1>3, Committed
  <1>5. HeadSound'
    <2>1. ASSUME downgrades = 0
          PROVE  db.version = HeadRevision => db'.version = HeadRevision
      <3>1. pc[m] = "commit" => m \in Containers
        BY <2>1, WhoMigrates DEF IInv, HeadSound
      <3> QED
        BY <1>4, <3>1 DEF IInv, HeadSound
    <2>2. ASSUME downgrades = 0, NEW c \in Containers, Finished(c)'
          PROVE  db'.version = HeadRevision
      <3>1. CASE c # m
        <4>1. Finished(c)
          BY <1>1, <2>2, <3>1, WhoMigrates DEF Finished, Stamped
        <4> QED
          BY <2>1, <2>2, <4>1 DEF IInv, HeadSound
      <3>2. CASE c = m
        <4>1. pc[m] = "commit" /\ db' = Seen(m)
          BY <1>1, <2>2, <3>2 DEF Finished
        <4>2. CASE Stamped(m)
          BY <1>3, <3>2, <4>1, <4>2, Committed DEF IInv, HeadSound
        <4>3. CASE ~Stamped(m)
          BY <1>3, <2>2, <3>2, <4>1, <4>3, Committed DEF IInv, HeadSound, Finished
        <4> QED
          BY <4>2, <4>3
      <3> QED
        BY <3>1, <3>2
    <2>3. \A n \in Migrators : pc'[n] = "commit" /\ Stamped(n)' => at'[n] = goal'[n]
      BY <1>1 DEF IInv, HeadSound, Stamped
    <2>4. \A c \in Containers : goal'[c] = HeadRevision
      BY <1>1, WhoMigrates DEF IInv, HeadSound
    <2>5. downgrades = 0 => pc'[Operator] = "stopped"
      BY <1>1, WhoMigrates DEF IInv, HeadSound
    <2> QED
      BY <1>3, <2>2, <2>3, <2>4, <2>5 DEF HeadSound
  <1>6. ASSUME NEW c \in Containers PROVE Keeps(c)'
    <2>1. CASE c = m
      BY <1>1, <2>1 DEF Keeps
    <2>2. CASE c # m /\ "fraud_alerts" \in touched[c]
      <3>1. "fraud_alerts" \notin touched[m]
        BY <1>3, <2>2, WhoMigrates DEF SchemaInv, Apart
      <3>2. db'.ref = db.ref
        BY <1>2, <1>3, <3>1, Committed
      <3>3. touched'[c] = touched[c] /\ draft'[c] = draft[c]
        BY <1>1, <2>2, WhoMigrates
      <3> QED
        BY <3>2, <3>3 DEF Keeps, IInv, NumbersSound
    <2>3. CASE c # m /\ "fraud_alerts" \notin touched[c]
      BY <1>1, <2>3, WhoMigrates DEF Keeps
    <2> QED
      BY <2>1, <2>2, <2>3
  <1>7. pc'[Operator] = "revise" => at'[Operator] > goal'[Operator]
    BY <1>1, WhoMigrates DEF IInv, NumbersSound
  <1>8. ASSUME Stamped(Operator)' PROVE at'[Operator] < db'.version
    <2>1. m # Operator /\ Stamped(Operator)
      BY <1>1, <1>8, WhoMigrates DEF Stamped
    <2>2. ~Stamped(m)
      BY <1>3, <2>1, WhoMigrates DEF SchemaInv, Apart, Stamped
    <2> QED
      BY <1>1, <1>4, <2>1, <2>2, WhoMigrates DEF IInv, NumbersSound
  <1> QED
    BY <1>5, <1>6, <1>7, <1>8 DEF NumbersSound

LEMMA OutsideNumbers ==
    ASSUME IInv, NEW c \in Migrators, Outside(c)
    PROVE  HeadSound' /\ NumbersSound'
  <1>1. UNCHANGED <<db, draft, touched, at, goal, step, downgrades>>
    BY DEF Outside, tx
  <1>2. /\ c # Operator /\ pc'[c] \notin Migrating
        /\ pc'[c] \in {"seed", "connect", "serving"} =>
              pc[c] \in {"seed", "connect", "serving"}
        /\ \A n \in Migrators \ {c} : pc'[n] = pc[n]
    BY WhoMigrates DEF Outside, IInv, SchemaInv, TypeOK, Migrating
  <1>3. \A n \in Containers : Finished(n)' => Finished(n)
    BY <1>1, <1>2, WhoMigrates DEF Finished, Stamped, Migrating
  <1>4. HeadSound'
    BY <1>1, <1>2, <1>3, WhoMigrates DEF IInv, HeadSound, Migrating, Stamped
  <1>5. NumbersSound'
    BY <1>1, <1>2, WhoMigrates DEF IInv, NumbersSound, Keeps, Stamped
  <1> QED
    BY <1>4, <1>5

LEMMA RaiseNumbers ==
    ASSUME IInv, NEW c \in Containers, NEW a \in Alerts, Raise(c, a)
    PROVE  HeadSound' /\ NumbersSound'
  <1>1. UNCHANGED <<draft, touched, pc, at, goal, step, downgrades>>
    BY DEF Raise, tx
  <1>2. db'.version = db.version
    BY DEF Raise, IInv, SchemaInv, TypeOK, Database
  <1>3. \A n \in Migrators : "fraud_alerts" \notin touched[n]
    <2>1. \A n \in Migrators \ {c} : "fraud_alerts" \notin touched[n]
      BY DEF Raise, LockedByOther
    <2>2. pc[c] \notin Migrating /\ MigratorSound(c)
      BY WhoMigrates DEF Raise, Migrating, IInv, SchemaInv
    <2> QED
      BY <2>1, <2>2 DEF MigratorSound
  <1>4. HeadSound'
    BY <1>1, <1>2 DEF IInv, HeadSound, Finished, Stamped
  <1>5. NumbersSound'
    BY <1>1, <1>2, <1>3, WhoMigrates DEF IInv, NumbersSound, Keeps, Stamped
  <1> QED
    BY <1>4, <1>5

LEMMA BeginsNumbers ==
    ASSUME IInv, NEW m \in Migrators, NEW target \in Versions, Begins(m, target)
    PROVE  HeadSound' /\ NumbersSound'
  <1>1. UNCHANGED <<db, draft, touched>>
    BY DEF Begins, Begin
  <1>2. /\ at'[m] = db.version /\ goal'[m] = target
        /\ pc'[m] = IF db.version = target THEN "commit" ELSE "revise"
        /\ \A n \in Migrators \ {m} :
              pc'[n] = pc[n] /\ at'[n] = at[n] /\ goal'[n] = goal[n]
    BY DEF Begins, Begin, Goto, IInv, SchemaInv, TypeOK
  <1>3. /\ m = Operator => downgrades' > 0 /\ target < db.version
        /\ m # Operator => downgrades' = downgrades /\ target = HeadRevision
    BY DEF Begins
  <1>4. touched[m] = {}
    BY DEF Begins, IInv, SchemaInv, MigratorSound, Migrating
  <1>5. HeadSound'
    <2>1. \A c \in Containers : goal'[c] = HeadRevision
      BY <1>2, <1>3, WhoMigrates DEF IInv, HeadSound
    <2>2. \A n \in Migrators : pc'[n] = "commit" /\ Stamped(n)' => at'[n] = goal'[n]
      BY <1>1, <1>2, <1>4 DEF IInv, HeadSound, Stamped
    <2>3. ASSUME downgrades' = 0
          PROVE  /\ pc'[Operator] = "stopped"
                 /\ \A c \in Containers : Finished(c)' => db'.version = HeadRevision
      <3>1. m # Operator /\ downgrades = 0
        BY <1>3, <2>3
      <3>2. \A c \in Containers \ {m} : Finished(c)' => Finished(c)
        BY <1>1, <1>2, WhoMigrates DEF Finished, Stamped
      <3>3. Finished(m)' => db.version = HeadRevision
        BY <1>2, <1>3, <3>1 DEF Finished
      <3> QED
        BY <1>1, <1>2, <3>1, <3>2, <3>3, WhoMigrates DEF IInv, HeadSound
    <2> QED
      BY <2>1, <2>2, <2>3 DEF HeadSound
  <1>6. NumbersSound'
    <2>1. \A c \in Containers : Keeps(c)'
      BY <1>1 DEF IInv, NumbersSound, Keeps
    <2>2. db.version \in 0 .. 7 /\ target \in 0 .. 7
      BY DEF IInv, SchemaInv, TypeOK, Database, Versions, HeadRevision
    <2>3. pc'[Operator] = "revise" => at'[Operator] > goal'[Operator]
      BY <1>2, <1>3, <2>2, WhoMigrates DEF IInv, NumbersSound
    <2>4. Stamped(Operator)' => at'[Operator] < db'.version
      BY <1>1, <1>2, <1>4, WhoMigrates DEF IInv, NumbersSound, Stamped
    <2> QED
      BY <2>1, <2>3, <2>4 DEF NumbersSound
  <1> QED
    BY <1>5, <1>6

LEMMA ExecuteNumbers ==
    ASSUME IInv, NEW m \in Migrators, Execute(m)
    PROVE  HeadSound' /\ NumbersSound'
  <1> DEFINE op == NextOp(m)
  <1>1. TypeOK /\ pc[m] = "revise" /\ step[m] <= Len(Script(m))
    BY DEF Execute, IInv, SchemaInv
  <1>2. /\ op \in Statement /\ op.on \in Lockable /\ op.on # "alembic_version"
        /\ Up(m) => KeepsNumbers(op)
    BY <1>1, NextOpTyped DEF Lockable
  <1>3. PICK d \in Results(op, Seen(m)) : Changed(m, d, op.on)
    BY DEF Execute
  <1>4. KeepsNumbers(op) => Outlives(Seen(m).ref, d.ref)
    BY <1>1, <1>2, SeenTyped, ResultsTyped
  <1>5. /\ touched'[m] = touched[m] \cup {op.on}
        /\ "fraud_alerts" \in touched'[m] => draft'[m].ref = d.ref
        /\ \A n \in Migrators \ {m} : touched'[n] = touched[n] /\ draft'[n] = draft[n]
    BY <1>1, <1>2, <1>3, ChangedIs
  <1>6. UNCHANGED <<db, pc, at, goal, downgrades>>
    BY DEF Execute
  <1>7. \A n \in Migrators : Stamped(n)' <=> Stamped(n)
    BY <1>2, <1>5 DEF Stamped
  <1>8. HeadSound'
    BY <1>6, <1>7, WhoMigrates DEF IInv, HeadSound, Finished
  <1>9. ASSUME m \in Containers PROVE Keeps(m)'
    <2>1. at[m] \in 0 .. 7 /\ at[m] # goal[m] /\ goal[m] = 7
      BY <1>1, <1>9 DEF IInv, HeadSound, TypeOK, Versions, HeadRevision
    <2>2. KeepsNumbers(op)
      BY <1>2, <2>1 DEF Up
    <2>3. Outlives(db.ref, Seen(m).ref)
      <3>1. Seen(m).ref = IF "fraud_alerts" \in touched[m] THEN draft[m].ref
                                                            ELSE db.ref
        BY SeenIs
      <3> QED
        BY <1>9, <3>1 DEF IInv, NumbersSound, Keeps, Outlives
    <2>4. Outlives(db.ref, d.ref)
      BY <1>4, <2>2, <2>3 DEF Outlives
    <2> QED
      BY <1>5, <1>6, <2>4 DEF Keeps
  <1>10. \A c \in Containers \ {m} : Keeps(c)'
    BY <1>5, <1>6, WhoMigrates DEF IInv, NumbersSound, Keeps
  <1> QED
    BY <1>6, <1>7, <1>8, <1>9, <1>10, WhoMigrates DEF IInv, NumbersSound

LEMMA StampNumbers ==
    ASSUME IInv, NEW m \in Migrators, Stamp(m)
    PROVE  HeadSound' /\ NumbersSound'
  <1> DEFINE v == NextVersion(m)
             d == [Seen(m) EXCEPT !.version = v]
  <1>1. TypeOK /\ pc[m] = "revise" /\ RowMatches(m)
    BY DEF Stamp, IInv, SchemaInv
  <1>2. Changed(m, d, "alembic_version")
    BY DEF Stamp
  <1>3. d.ref = Seen(m).ref
    BY <1>1, SeenTyped DEF Database
  <1> HIDE DEF d
  <1>4. /\ touched'[m] = touched[m] \cup {"alembic_version"}
        /\ "fraud_alerts" \in touched'[m] => draft'[m].ref = d.ref
        /\ \A n \in Migrators \ {m} : touched'[n] = touched[n] /\ draft'[n] = draft[n]
    BY <1>1, <1>2, ChangedIs DEF Lockable
  <1>5. /\ UNCHANGED <<db, goal, downgrades>> /\ at'[m] = v
        /\ pc'[m] = IF v = goal[m] THEN "commit" ELSE "revise"
        /\ \A n \in Migrators \ {m} : pc'[n] = pc[n] /\ at'[n] = at[n]
    BY <1>1 DEF Stamp, Goto, TypeOK
  <1>6. HeadSound'
    <2>1. \A c \in Containers : Finished(c)' => Finished(c)
      BY <1>4, <1>5, WhoMigrates DEF Finished, Stamped
    <2>2. downgrades = 0 => m # Operator
      BY <1>1 DEF IInv, HeadSound
    <2> QED
      BY <1>4, <1>5, <2>1, <2>2, WhoMigrates DEF IInv, HeadSound, Stamped
  <1>7. ASSUME NEW c \in Containers PROVE Keeps(c)'
    <2>1. CASE c = m
      <3>1. "fraud_alerts" \in touched[m] => Seen(m).ref = draft[m].ref
        BY SeenIs
      <3>2. "fraud_alerts" \in touched'[m] => "fraud_alerts" \in touched[m]
        BY <1>4
      <3> QED
        BY <1>3, <1>4, <1>5, <2>1, <3>1, <3>2 DEF IInv, NumbersSound, Keeps
    <2>2. CASE c # m
      BY <1>4, <1>5, <2>2, WhoMigrates DEF IInv, NumbersSound, Keeps
    <2> QED
      BY <2>1, <2>2
  <1>8. ASSUME m = Operator
        PROVE  /\ pc'[m] = "revise" => at'[m] > goal'[m]
               /\ at'[m] < db'.version
    <2>1. /\ at[m] \in 0 .. 7 /\ goal[m] \in 0 .. 7 /\ db.version \in 0 .. 7
          /\ at[m] > goal[m]
      BY <1>1, <1>8 DEF IInv, NumbersSound, TypeOK, Database, Versions, HeadRevision
    <2>2. v = at[m] - 1
      BY <2>1 DEF NextVersion, Up
    <2>3. at[m] <= db.version
      <3>1. CASE Stamped(m)
        BY <1>8, <2>1, <3>1 DEF IInv, NumbersSound
      <3>2. CASE ~Stamped(m)
        <4>1. Seen(m).version = db.version
          BY <3>2, SeenIs
        <4> QED
          BY <1>1, <2>1, <4>1 DEF RowMatches
      <3> QED
        BY <3>1, <3>2
    <2> QED
      BY <1>5, <2>1, <2>2, <2>3
  <1>9. ASSUME m # Operator
        PROVE  /\ pc'[Operator] = "revise" => at'[Operator] > goal'[Operator]
               /\ Stamped(Operator)' => at'[Operator] < db'.version
    BY <1>4, <1>5, <1>9, WhoMigrates DEF IInv, NumbersSound, Stamped
  <1> QED
    BY <1>6, <1>7, <1>8, <1>9 DEF NumbersSound

LEMMA NextIInv == IInv /\ [Next]_vars => IInv'
  <1> SUFFICES ASSUME IInv, [Next]_vars PROVE IInv'
    OBVIOUS
  <1>1. SchemaInv'
    BY NextSchema DEF IInv
  <1>2. CASE Next
    <2>1. HeadSound' /\ NumbersSound'
      BY <1>2, Steps, EndsNumbers, OutsideNumbers, BeginsNumbers, ExecuteNumbers,
         StampNumbers, RaiseNumbers DEF IInv, SchemaInv
    <2> QED
      BY <1>1, <2>1 DEF IInv
  <1>3. CASE UNCHANGED vars
    BY <1>1, <1>3 DEF vars, IInv, HeadSound, Finished, Stamped, NumbersSound, Keeps
  <1> QED
    BY <1>2, <1>3

LEMMA Invariant == Spec => []IInv
  BY InitNumbers, NextIInv, PTL DEF Spec

(* A container seeds and serves only on a schema at head, until an         *)
(* operator takes it back, for any number of containers that migrate at    *)
(* once.                                                                   *)
THEOREM HeadServed == Spec => []ServesAtHead
  <1>1. IInv => ServesAtHead
    BY DEF IInv, HeadSound, Finished, ServesAtHead
  <1> QED
    BY <1>1, Invariant, PTL

(* Whoever commits, no alert is lost, numbered or not, and each keeps the  *)
(* number it has, unless the version goes down; that no upgrade drops the  *)
(* table or the column is proved of the scripts.                           *)
THEOREM AlertsKept == Spec => UpgradeKeepsAlerts
  <1>1. ASSUME IInv, [Next]_vars PROVE UpgradeKeepsAlerts!1
    <2> SUFFICES ASSUME db.version <= db'.version
                 PROVE  Outlives(db.ref, db'.ref)
      OBVIOUS
    <2>1. CASE \E m \in Migrators : Outside(m) \/ Execute(m) \/ Stamp(m)
      BY <2>1 DEF Outside, Execute, Stamp, Outlives
    <2>2. CASE \E m \in Migrators, target \in Versions : Begins(m, target)
      BY <2>2 DEF Begins, Begin, Outlives
    <2>3. CASE \E c \in Containers, b \in Alerts : Raise(c, b)
      <3>1. PICK b \in Alerts : /\ db.ref[b] = None
                                /\ db'.ref = [db.ref EXCEPT ![b] = db.seq + 1]
        BY <1>1, <2>3 DEF Raise, IInv, SchemaInv, TypeOK, Database
      <3>2. db.ref \in [Alerts -> Nat \cup {None}]
        BY <1>1 DEF IInv, SchemaInv, TypeOK, Database
      <3> QED
        BY <3>1, <3>2 DEF Outlives
    <2>4. ASSUME NEW m \in Migrators, Ends(m), pc[m] = "commit", db' = Seen(m)
          PROVE  Outlives(db.ref, db'.ref)
      <3>1. SchemaInv
        BY <1>1 DEF IInv
      <3>2. CASE m = Operator
        <4>1. db.version \in 0 .. 7 /\ at[m] \in 0 .. 7
          BY <3>1 DEF SchemaInv, TypeOK, Database, Versions, HeadRevision
        <4>2. ~Stamped(m)
          BY <1>1, <2>4, <3>1, <3>2, <4>1, Committed DEF IInv, NumbersSound
        <4> QED
          BY <2>4, <3>1, <4>2, Committed DEF Outlives
      <3>3. CASE m # Operator
        <4>1. Keeps(m)
          BY <1>1, <3>3, WhoMigrates DEF IInv, NumbersSound
        <4> QED
          BY <2>4, <3>1, <4>1, Committed DEF Keeps, Outlives
      <3> QED
        BY <3>2, <3>3
    <2>5. CASE \E m \in Migrators : Ends(m)
      BY <2>4, <2>5 DEF Ends, Outlives
    <2>6. CASE UNCHANGED vars
      BY <2>6 DEF vars, Outlives
    <2> QED
      BY <1>1, <2>1, <2>2, <2>3, <2>5, <2>6, Steps DEF IInv, SchemaInv
  <1> QED
    BY <1>1, Invariant, PTL DEF Spec, UpgradeKeepsAlerts

-----------------------------------------------------------------------------
(* The first rollout, before any downgrade.                                *)

(* The database is empty or at head, and a container at work has created   *)
(* the first table, which nobody else can do meanwhile.                    *)
FirstSound ==
    downgrades = 0 =>
        /\ db.version \in {0, HeadRevision}
        /\ \A c \in Containers :
              /\ pc[c] = "revise" /\ ~Stamped(c) => at[c] = 0
              /\ Stamped(c) => "fraud_rules" \in touched[c] /\ db.version = 0

(* What is known of a container that revises: it has created the first     *)
(* table unless it has done nothing yet.                                   *)
LEMMA Revising ==
    ASSUME IInv, FirstSound, downgrades = 0, NEW m \in Migrators,
           pc[m] = "revise", step[m] > 1 \/ Stamped(m)
    PROVE  m \in Containers /\ "fraud_rules" \in touched[m] /\ db.version = 0
  <1>1. m \in Containers
    BY WhoMigrates DEF IInv, HeadSound
  <1>2. CASE Stamped(m)
    BY <1>1, <1>2 DEF FirstSound
  <1>3. CASE ~Stamped(m)
    <2>1. Tentative(m) /\ at[m] = 0
      BY <1>1, <1>3 DEF FirstSound, IInv, SchemaInv, MigratorSound
    <2>2. "fraud_rules" \in touched[m] /\ ~Exists(db.schema, "fraud_rules")
      BY <1>3, <2>1 DEF Tentative
    <2>3. db.version \in Versions /\ db.schema = Replayed[db.version]
      BY DEF IInv, SchemaInv, TypeOK, Database, SchemaOfVersion
    <2>4. db.version = 0
      BY <2>2, <2>3, RevisionsAssumption
    <2> QED
      BY <1>1, <2>2, <2>4
  <1> QED
    BY <1>2, <1>3

LEMMA AtWork ==
    ASSUME IInv, FirstSound, downgrades = 0, NEW m \in Migrators, touched[m] # {}
    PROVE  m \in Containers /\ "fraud_rules" \in touched[m] /\ db.version = 0
  <1>1. MigratorSound(m) /\ step[m] \in Nat \ {0}
    BY DEF IInv, SchemaInv, TypeOK
  <1>2. pc[m] = "revise" \/ (pc[m] = "commit" /\ Stamped(m))
    BY <1>1 DEF MigratorSound, Migrating
  <1>3. CASE pc[m] = "revise" /\ ~Stamped(m)
    <2>1. step[m] > 1
      BY <1>1, <1>3 DEF MigratorSound, Tentative
    <2> QED
      BY <1>3, <2>1, Revising
  <1>4. CASE pc[m] = "revise" /\ Stamped(m)
    BY <1>4, Revising
  <1>5. CASE pc[m] = "commit" /\ Stamped(m)
    <2>1. m \in Containers
      BY <1>5, WhoMigrates DEF IInv, HeadSound
    <2> QED
      BY <1>5, <2>1 DEF FirstSound
  <1> QED
    BY <1>2, <1>3, <1>4, <1>5

LEMMA Alone ==
    ASSUME IInv, FirstSound, downgrades = 0, NEW m \in Migrators, NEW n \in Migrators,
           touched[m] # {}, touched[n] # {}
    PROVE  m = n
  <1>1. "fraud_rules" \in touched[m] \cap touched[n]
    BY AtWork
  <1> QED
    BY <1>1 DEF IInv, SchemaInv, Apart

LEMMA FirstStep == IInv /\ FirstSound /\ [Next]_vars => FirstSound'
  <1> SUFFICES ASSUME IInv, FirstSound, [Next]_vars, downgrades' = 0
               PROVE  /\ db'.version \in {0, HeadRevision}
                      /\ \A c \in Containers :
                            /\ pc'[c] = "revise" /\ ~Stamped(c)' => at'[c] = 0
                            /\ Stamped(c)' =>
                                  "fraud_rules" \in touched'[c] /\ db'.version = 0
    BY DEF FirstSound
  <1>1. TypeOK /\ SchemaInv
    BY DEF IInv, SchemaInv
  <1>2. ASSUME NEW m \in Migrators, Ends(m)
        PROVE  /\ db'.version \in {0, HeadRevision}
               /\ \A c \in Containers :
                     /\ pc'[c] = "revise" /\ ~Stamped(c)' => at'[c] = 0
                     /\ Stamped(c)' =>
                           "fraud_rules" \in touched'[c] /\ db'.version = 0
    <2>1. downgrades = 0
      BY <1>2 DEF Ends
    <2>2. /\ touched'[m] = {} /\ pc'[m] \in {"stopped", "exited", "seed"}
          /\ \A n \in Migrators \ {m} :
                pc'[n] = pc[n] /\ touched'[n] = touched[n] /\ at'[n] = at[n]
      BY <1>1, <1>2 DEF Ends, RollBack, TypeOK
    <2>3. \/ db'.version = db.version
          \/ Stamped(m) /\ pc[m] = "commit" /\ db'.version = at[m]
      BY <1>1, <1>2, Committed DEF Ends
    <2>4. db'.version \in {0, HeadRevision}
      <3>1. Stamped(m) /\ pc[m] = "commit" => at[m] = HeadRevision
        BY <2>1, WhoMigrates DEF IInv, HeadSound
      <3> QED
        BY <2>1, <2>3, <3>1 DEF FirstSound
    <2>5. ASSUME NEW c \in Containers, Stamped(c)'
          PROVE  "fraud_rules" \in touched'[c] /\ db'.version = 0
      <3>1. c # m /\ Stamped(c) /\ touched'[c] = touched[c]
        BY <2>2, <2>5, WhoMigrates DEF Stamped
      <3>2. touched[m] = {}
        BY <2>1, <3>1, Alone, WhoMigrates DEF Stamped
      <3>3. db'.version = db.version
        BY <2>3, <3>2 DEF Stamped
      <3> QED
        BY <2>1, <3>1, <3>3 DEF FirstSound
    <2>6. ASSUME NEW c \in Containers, pc'[c] = "revise", ~Stamped(c)'
          PROVE  at'[c] = 0
      BY <2>1, <2>2, <2>6, WhoMigrates DEF FirstSound, Stamped
    <2> QED
      BY <2>4, <2>5, <2>6
  <1>3. ASSUME NEW m \in Migrators, Outside(m)
        PROVE  /\ UNCHANGED <<db, touched, at, downgrades>>
               /\ \A c \in Containers : pc'[c] = "revise" => pc[c] = "revise"
    BY <1>1, <1>3, WhoMigrates DEF Outside, tx, TypeOK
  <1>4. ASSUME NEW m \in Containers, NEW a \in Alerts, Raise(m, a)
        PROVE  UNCHANGED <<db.version, touched, at, downgrades, pc>>
    BY <1>1, <1>4 DEF Raise, tx, TypeOK, Database
  <1>5. ASSUME NEW m \in Migrators, NEW target \in Versions, Begins(m, target)
        PROVE  /\ UNCHANGED <<db, touched, downgrades>>
               /\ pc'[m] = "revise" => at'[m] = 0
               /\ \A n \in Migrators \ {m} : pc'[n] = pc[n] /\ at'[n] = at[n]
    <2>1. m # Operator /\ downgrades' = downgrades /\ target = HeadRevision
      BY <1>5 DEF Begins
    <2>2. db.version \in {0, HeadRevision}
      BY <2>1 DEF FirstSound
    <2> QED
      BY <1>1, <1>5, <2>1, <2>2 DEF Begins, Begin, Goto, TypeOK
  <1>6. ASSUME NEW m \in Migrators, Execute(m)
        PROVE  /\ UNCHANGED <<db, pc, at, downgrades>>
               /\ \A n \in Migrators : /\ Stamped(n)' <=> Stamped(n)
                                       /\ touched[n] \subseteq touched'[n]
    <2>1. pc[m] = "revise" /\ step[m] <= Len(Script(m))
      BY <1>6 DEF Execute
    <2>2. NextOp(m).on \in Lockable \ {"alembic_version"}
      BY <1>1, <2>1, NextOpTyped DEF Lockable
    <2>3. PICK d : Changed(m, d, NextOp(m).on)
      BY <1>6 DEF Execute
    <2> QED
      BY <1>1, <1>6, <2>2, <2>3, ChangedIs DEF Execute, Stamped
  <1>7. ASSUME NEW m \in Migrators, Stamp(m)
        PROVE  /\ UNCHANGED <<db, downgrades>>
               /\ "fraud_rules" \in touched'[m] /\ Stamped(m)' /\ db.version = 0
               /\ \A n \in Migrators \ {m} :
                     pc'[n] = pc[n] /\ at'[n] = at[n] /\ touched'[n] = touched[n]
    <2>1. downgrades = 0 /\ pc[m] = "revise" /\ step[m] > Len(Script(m))
      BY <1>7 DEF Stamp
    <2>2. step[m] > 1
      BY <1>1, <2>1, ExpectedTyped DEF TypeOK
    <2>3. "fraud_rules" \in touched[m] /\ db.version = 0
      BY <2>1, <2>2, Revising
    <2>4. PICK d : Changed(m, d, "alembic_version")
      BY <1>7 DEF Stamp
    <2>5. touched'[m] = touched[m] \cup {"alembic_version"}
          /\ \A n \in Migrators \ {m} : touched'[n] = touched[n]
      BY <1>1, <2>4, ChangedIs DEF Lockable
    <2> QED
      BY <1>1, <1>7, <2>3, <2>5 DEF Stamp, Goto, Stamped, TypeOK
  <1>8. CASE UNCHANGED vars
    BY <1>8 DEF vars, FirstSound, Stamped
  <1>9. CASE \E m \in Migrators : Outside(m)
    BY <1>3, <1>9 DEF FirstSound, Stamped
  <1>10. CASE \E m \in Containers, a \in Alerts : Raise(m, a)
    BY <1>4, <1>10 DEF FirstSound, Stamped
  <1>11. CASE \E m \in Migrators, target \in Versions : Begins(m, target)
    BY <1>5, <1>11, WhoMigrates DEF FirstSound, Stamped
  <1>12. CASE \E m \in Migrators : Execute(m)
    BY <1>6, <1>12, WhoMigrates DEF FirstSound
  <1>13. CASE \E m \in Migrators : Stamp(m)
    BY <1>7, <1>13, WhoMigrates DEF FirstSound, Stamped
  <1> QED
    BY <1>1, <1>2, <1>8, <1>9, <1>10, <1>11, <1>12, <1>13, Steps

(* No alert is there before the first migration is committed: nobody       *)
(* serves on an empty schema, and no script inserts one.                   *)
NoneRaised ==
    downgrades = 0 =>
        /\ db.version = 0 => \A a \in Alerts : db.ref[a] = None
        /\ \A m \in Migrators : "fraud_alerts" \in touched[m] =>
              \A a \in Alerts : draft[m].ref[a] = None

(* What a container sees that has a statement to execute.                  *)
LEMMA NoneSeen ==
    ASSUME IInv, FirstSound, NoneRaised, downgrades = 0, NEW m \in Migrators,
           touched[m] # {} \/ db.version = 0
    PROVE  \A a \in Alerts : Seen(m).ref[a] = None
  <1>1. Seen(m).ref = IF "fraud_alerts" \in touched[m] THEN draft[m].ref
                                                       ELSE db.ref
    BY SeenIs
  <1>2. db.version = 0
    BY AtWork
  <1> QED
    BY <1>1, <1>2 DEF NoneRaised

LEMMA ExecuteRaisesNone ==
    ASSUME IInv, FirstSound, NoneRaised, downgrades = 0,
           NEW m \in Migrators, Execute(m)
    PROVE  NoneRaised'
  <1> DEFINE op == NextOp(m)
  <1>1. TypeOK /\ pc[m] = "revise" /\ step[m] <= Len(Script(m)) /\ m \in Containers
    BY WhoMigrates DEF Execute, IInv, SchemaInv, HeadSound
  <1>2. op \in Statement /\ op.on \in Lockable \ {"alembic_version"}
    BY <1>1, NextOpTyped DEF Lockable
  <1>3. PICK d \in Results(op, Seen(m)) : Changed(m, d, op.on)
    BY DEF Execute
  <1>4. /\ touched'[m] = touched[m] \cup {op.on}
        /\ "fraud_alerts" \in touched'[m] => draft'[m].ref = d.ref
        /\ \A n \in Migrators \ {m} : touched'[n] = touched[n] /\ draft'[n] = draft[n]
    BY <1>1, <1>2, <1>3, ChangedIs
  <1>5. ASSUME "fraud_alerts" \in touched'[m]
        PROVE  touched[m] # {} \/ db.version = 0
    <2>1. CASE step[m] > 1 \/ Stamped(m)
      BY <1>1, <2>1, Revising
    <2>2. CASE ~(step[m] > 1) /\ ~Stamped(m)
      <3>1. step[m] = 1 /\ at[m] = 0 /\ goal[m] = 7
        BY <1>1, <2>2 DEF TypeOK, FirstSound, IInv, HeadSound, HeadRevision
      <3>2. op = Create("fraud_rules")
        BY <3>1, RevisionsAssumption DEF NextOp, Script, Up
      <3> QED
        BY <1>4, <1>5, <3>2 DEF Create
    <2> QED
      BY <2>1, <2>2
  <1>6. ASSUME "fraud_alerts" \in touched'[m], NEW a \in Alerts
        PROVE  draft'[m].ref[a] = None
    <2>1. Seen(m).ref[a] = None
      BY <1>5, <1>6, NoneSeen
    <2> QED
      BY <1>1, <1>2, <1>4, <1>6, <2>1, SeenTyped, ResultsTyped
  <1>7. UNCHANGED <<db, downgrades>>
    BY DEF Execute
  <1> QED
    BY <1>4, <1>6, <1>7 DEF NoneRaised

LEMMA RaisedStep == IInv /\ FirstSound /\ NoneRaised /\ [Next]_vars => NoneRaised'
  <1> SUFFICES ASSUME IInv, FirstSound, NoneRaised, [Next]_vars, downgrades' = 0
               PROVE  NoneRaised'
    BY DEF NoneRaised
  <1>1. TypeOK /\ SchemaInv /\ SchemaOfVersion
    BY DEF IInv, SchemaInv
  <1>2. ASSUME NEW m \in Migrators, Ends(m) PROVE NoneRaised'
    <2>1. downgrades = 0
      BY <1>2 DEF Ends
    <2>2. /\ touched'[m] = {}
          /\ \A n \in Migrators \ {m} : touched'[n] = touched[n] /\ draft'[n] = draft[n]
      BY <1>1, <1>2 DEF Ends, RollBack, TypeOK
    <2>3. ASSUME db'.version = 0 PROVE db'.ref = db.ref /\ db.version = 0
      <3>1. CASE db' = db
        BY <2>3, <3>1
      <3>2. CASE pc[m] = "commit" /\ db' = Seen(m)
        <4>1. Stamped(m) => at[m] = HeadRevision
          BY <2>1, <3>2, WhoMigrates DEF IInv, HeadSound
        <4>2. ~Stamped(m)
          BY <1>1, <2>3, <3>2, <4>1, Committed DEF HeadRevision
        <4> QED
          BY <1>1, <2>3, <3>2, <4>2, Committed
      <3> QED
        BY <1>2, <3>1, <3>2 DEF Ends
    <2> QED
      BY <2>1, <2>2, <2>3 DEF NoneRaised
  <1>3. CASE \E m \in Migrators : Outside(m)
    BY <1>3 DEF Outside, tx, NoneRaised
  <1>4. CASE \E c \in Containers, a \in Alerts : Raise(c, a)
    <2>1. db.version # 0
      <3>1. Serviceable(db.schema)
        BY <1>4 DEF Raise
      <3>2. ~Serviceable(NoTable)
        BY DEF Serviceable, NoTable, Tables
      <3> QED
        BY <1>1, <3>1, <3>2, RevisionsAssumption DEF SchemaOfVersion
    <2>2. UNCHANGED <<db.version, touched, draft, downgrades>>
      BY <1>1, <1>4 DEF Raise, tx, TypeOK, Database
    <2> QED
      BY <2>1, <2>2 DEF NoneRaised
  <1>5. CASE \E m \in Migrators, target \in Versions : Begins(m, target)
    BY <1>5 DEF Begins, Begin, NoneRaised
  <1>6. CASE \E m \in Migrators : Execute(m)
    <2>1. downgrades = 0
      BY <1>6 DEF Execute
    <2> QED
      BY <1>6, <2>1, ExecuteRaisesNone
  <1>7. ASSUME NEW m \in Migrators, Stamp(m) PROVE NoneRaised'
    <2> DEFINE d == [Seen(m) EXCEPT !.version = NextVersion(m)]
    <2>1. Changed(m, d, "alembic_version") /\ UNCHANGED <<db, downgrades>>
      BY <1>7 DEF Stamp
    <2>2. d.ref = Seen(m).ref
      BY <1>1, SeenTyped DEF Database
    <2> HIDE DEF d
    <2>3. /\ "fraud_alerts" \in touched'[m] =>
                "fraud_alerts" \in touched[m] /\ draft'[m].ref = d.ref
          /\ \A n \in Migrators \ {m} : touched'[n] = touched[n] /\ draft'[n] = draft[n]
      BY <1>1, <2>1, ChangedIs DEF Lockable
    <2>4. "fraud_alerts" \in touched[m] => Seen(m).ref = draft[m].ref
      BY SeenIs
    <2> QED
      BY <2>1, <2>2, <2>3, <2>4 DEF NoneRaised
  <1>8. CASE UNCHANGED vars
    BY <1>8 DEF vars, NoneRaised
  <1> QED
    BY <1>1, <1>2, <1>3, <1>4, <1>5, <1>6, <1>7, <1>8, Steps

LEMMA FirstInvariant == Spec => [](IInv /\ FirstSound /\ NoneRaised)
  <1>1. Init => FirstSound /\ NoneRaised
    BY WhoMigrates DEF Init, Empty, FirstSound, Stamped, NoneRaised
  <1> QED
    BY <1>1, InitNumbers, NextIInv, FirstStep, RaisedStep, PTL DEF Spec

(* At most one migration has done anything.                                *)
OneMigration ==
    downgrades = 0 =>
        \A m, n \in Migrators : touched[m] # {} /\ touched[n] # {} => m = n

(* On the first rollout at most one container's migration is at work,      *)
(* however many start at once: creating fraud_rules, the first statement   *)
(* of the first revision, works as a lock on the whole migration           *)
(* (29b8e9126b57_initial_schema.py:21-60, alembic/env.py:46-51).           *)
THEOREM FirstRolloutAlone == Spec => []OneMigration
  <1>1. IInv /\ FirstSound => OneMigration
    BY Alone DEF OneMigration
  <1> QED
    BY <1>1, FirstInvariant, PTL

(* The one failure there is: the first statement of a container that finds *)
(* the work done.                                                          *)
FailsOnlyWhenDone ==
    [][downgrades = 0 =>
         \A m \in Migrators :
             /\ ~DeadlockDetected(m) /\ ~StampFails(m)
             /\ ExecuteFails(m) => touched[m] = {} /\ db.version = HeadRevision]_vars

(* On the first rollout no race costs work: there is no deadlock, no       *)
(* version that does not match, and a container whose statement fails has  *)
(* done nothing and finds the database at head (alembic/env.py:46-51); the *)
(* backfill has no alert to number yet, so it cannot fail either.          *)
THEOREM FirstRolloutSmooth == Spec => FailsOnlyWhenDone
  <1>1. ASSUME IInv, FirstSound, NoneRaised, downgrades = 0, NEW m \in Migrators
        PROVE  /\ ~DeadlockDetected(m) /\ ~StampFails(m)
               /\ ExecuteFails(m) => touched[m] = {} /\ db.version = HeadRevision
    <2>1. TypeOK /\ SchemaInv /\ MigratorSound(m) /\ SchemaOfVersion
      BY <1>1 DEF IInv, SchemaInv
    <2>2. ASSUME DeadlockDetected(m) PROVE FALSE
      <3>1. PICK C \in SUBSET Migrators : m \in C /\ Circle(C)
        BY <2>2 DEF DeadlockDetected
      <3>2. PICK n \in C : WaitsFor(m, n)
        BY <3>1 DEF Circle
      <3>3. PICK k \in C : WaitsFor(k, m)
        BY <3>1 DEF Circle
      <3>4. touched[m] # {} /\ touched[n] # {} /\ m # n
        BY <3>2, <3>3 DEF WaitsFor
      <3> QED
        BY <1>1, <3>1, <3>4, Alone
    <2>3. ASSUME StampFails(m) PROVE FALSE
      <3>1. pc[m] = "revise" /\ at[m] # 0 /\ Seen(m).version # at[m]
        BY <2>3 DEF StampFails, RowMatches
      <3>2. m \in Containers
        BY <1>1, <3>1, WhoMigrates DEF IInv, HeadSound
      <3>3. Stamped(m)
        BY <1>1, <3>1, <3>2 DEF FirstSound
      <3> QED
        BY <2>1, <3>1, <3>3, SeenIs DEF MigratorSound, Settled, Migrating
    <2>4. ASSUME ExecuteFails(m) PROVE touched[m] = {} /\ db.version = HeadRevision
      <3> DEFINE op == NextOp(m)
      <3>1. /\ pc[m] = "revise" /\ step[m] <= Len(Script(m))
            /\ ~Possible(op, Seen(m).schema) \/ ~Fits(op, Seen(m))
        BY <2>4 DEF ExecuteFails, Works
      <3>2. step[m] \in 1 .. Len(Script(m))
        BY <2>1, <3>1, ExpectedTyped DEF TypeOK
      <3>3. CASE ~Fits(op, Seen(m))
        <4>1. PICK a \in Alerts : Seen(m).ref[a] = 0
          BY <3>3 DEF Fits, Unnumbered
        <4>2. None # 0
          BY DeploymentAssumption
        <4>3. touched[m] = {} /\ db.version # 0
          BY <1>1, <4>1, <4>2, NoneSeen
        <4> QED
          BY <1>1, <4>3 DEF FirstSound
      <3>4. CASE ~Possible(op, Seen(m).schema)
        <4>1. Possible(op, Expected(m))
          BY <2>1, <3>2, <3>1, ScriptLeads DEF Leads, NextOp, Expected, Base
        <4>2. /\ Seen(m).schema \in Schema /\ Expected(m) \in Schema
              /\ Expected(m) # Seen(m).schema
          BY <2>1, <3>1, <3>2, <3>4, <4>1, SeenTyped, ExpectedTyped DEF Database
        <4>3. ~Stamped(m)
          BY <2>1, <3>1, <4>2 DEF MigratorSound, Settled, Migrating
        <4>4. Tentative(m) /\ at[m] = 0 /\ m \in Containers
          BY <1>1, <2>1, <3>1, <4>3, WhoMigrates
             DEF MigratorSound, IInv, HeadSound, FirstSound
        <4>5. \A t \in Tables : Seen(m).schema[t] = IF t \in touched[m]
                                                     THEN draft[m].schema[t]
                                                     ELSE db.schema[t]
          BY SeenIs
        <4>6. ASSUME db.version = 0 PROVE FALSE
          <5>1. db.schema = Base(m)
            BY <2>1, <4>4, <4>6 DEF SchemaOfVersion, Base
          <5>2. \A t \in Tables : Seen(m).schema[t] = Expected(m)[t]
            BY <4>4, <4>5, <5>1 DEF Tentative
          <5> QED
            BY <4>2, <5>2 DEF Schema
        <4>7. touched[m] = {}
          BY <1>1, <4>6, AtWork
        <4> QED
          BY <1>1, <4>6, <4>7 DEF FirstSound
      <3> QED
        BY <3>1, <3>3, <3>4
    <2> QED
      BY <2>2, <2>3, <2>4
  <1>2. IInv /\ FirstSound /\ NoneRaised /\ [Next]_vars => FailsOnlyWhenDone!1
    BY <1>1
  <1> QED
    BY <1>2, FirstInvariant, PTL DEF Spec, FailsOnlyWhenDone

-----------------------------------------------------------------------------
(* The numbers of the alerts.                                              *)

Numbered(s) == "reference_number" \in s["fraud_alerts"]

(* Numbers are only where the column is, different, and behind the         *)
(* sequence; and where they are, no alert lacks one.                       *)
Counted(d) ==
    /\ ~Numbered(d.schema) => \A a \in Alerts : d.ref[a] \in {None, 0}
    /\ \A a \in Alerts : d.ref[a] # None => d.ref[a] <= d.seq
    /\ \A a, b \in Alerts :
          a # b /\ d.ref[a] \notin {None, 0} => d.ref[a] # d.ref[b]

Filled(d) == Numbered(d.schema) => \A a \in Alerts : d.ref[a] # 0

(* A statement that fills the column is still to come.                     *)
Pending(m) ==
    /\ pc[m] = "revise"
    /\ \E i \in step[m] .. Len(Script(m)) : Script(m)[i].do = "number"

(* The tables a migrator has been at are locked, and where it counts.      *)
NumberingSound(m) ==
    /\ pc[m] = "revise" =>
          \A j \in 1 .. step[m] - 1 : Script(m)[j].on \in touched[m]
    /\ "alert_ref_seq" \in touched[m] =>
          "transactions" \in touched[m] \/ "fraud_alerts" \in touched[m]
    /\ "alert_ref_seq" \in touched[m] /\ "fraud_alerts" \notin touched[m] =>
          draft[m].seq = db.seq
    /\ pc[m] = "revise" =>
          \A j \in 1 .. step[m] - 1 :
              Script(m)[j] = Cut("fraud_alerts", "reference_number") =>
                  ~Numbered(draft[m].schema)
    /\ Counted(Seen(m))
    /\ "fraud_alerts" \in touched[m] /\ ~Pending(m) => Filled(draft[m])

AlertsInv ==
    /\ SchemaInv
    /\ Counted(db) /\ Filled(db)
    /\ \A m \in Migrators : NumberingSound(m)

LEMMA MergedIs ==
    ASSUME NEW d, NEW e, NEW T
    PROVE  /\ Merged(d, e, T).seq =
                 IF "alert_ref_seq" \in T THEN e.seq ELSE d.seq
           /\ Merged(d, e, T).ref =
                 IF "fraud_alerts" \in T THEN e.ref ELSE d.ref
           /\ Merged(d, e, T).schema["fraud_alerts"] =
                 (IF "fraud_alerts" \in T THEN e ELSE d).schema["fraud_alerts"]
  BY DEF Merged, Tables

(* Being counted or filled is about the numbers and their column only.     *)
LEMMA CountedAlike ==
    ASSUME NEW d, NEW e,
           d.schema["fraud_alerts"] = e.schema["fraud_alerts"], d.ref = e.ref
    PROVE  /\ Counted(d) /\ d.seq = e.seq => Counted(e)
           /\ Filled(d) => Filled(e)
  BY DEF Counted, Filled, Numbered

(* What a statement does to the numbers.                                   *)
LEMMA ResultsCounted ==
    ASSUME NEW op \in Statement, NEW d \in Database, NEW r \in Results(op, d),
           Counted(d), Possible(op, d.schema),
           op.what = "reference_number" =>
              op.on = "fraud_alerts" /\ op.do \in {"add", "number", "remove"},
           op.do = "number" => op.what = "reference_number",
           op.do = "discard" => op.on = "alert_ref_seq" /\ ~Numbered(d.schema)
    PROVE  /\ Counted(r)
           /\ op.on # "fraud_alerts" =>
                 /\ r.ref = d.ref
                 /\ r.schema["fraud_alerts"] = d.schema["fraud_alerts"]
           /\ op.do \notin {"number", "discard"} => r.seq = d.seq
           /\ op.do = "number" => Filled(r)
           /\ op.do # "number" /\ op # Add("fraud_alerts", "reference_number") =>
                 (Filled(d) => Filled(r))
  <1> DEFINE F(s) == s["fraud_alerts"]
             bare == [a \in Alerts |-> None]
  <1>1. /\ d.schema \in Schema /\ d.ref \in [Alerts -> Nat \cup {None}]
        /\ d.seq \in Nat /\ None \notin Nat
    BY DeploymentAssumption DEF Database
  <1>2. /\ r \in Database /\ r.schema = Altered(op, d.schema)
        /\ op.on \in Tables /\ "fraud_alerts" \in Tables
    BY ResultsTyped DEF Statement, Tables
  <1>3. op.on # "fraud_alerts" => F(r.schema) = F(d.schema)
    BY <1>1, <1>2, AlteredTyped
  <1>4. CASE op.do = "number"
    <2> DEFINE u == Unnumbered(d)
               k == Cardinality(u)
    <2>1. k \in Nat
      BY DeploymentAssumption, FS_Subset, FS_CardinalityType DEF Unnumbered
    <2>2. PICK f \in Numberings(d) :
              r = [d EXCEPT !.ref = [a \in Alerts |->
                                       IF a \in u THEN f[a] ELSE @[a]],
                            !.seq = @ + k]
      BY <1>4 DEF Results
    <2>3. /\ f \in [u -> (d.seq + 1) .. (d.seq + k)]
          /\ \A a, b \in u : f[a] = f[b] => a = b
      BY DEF Numberings
    <2>4. /\ r.seq = d.seq + k /\ r.schema = d.schema
          /\ \A a \in Alerts : r.ref[a] = IF a \in u THEN f[a] ELSE d.ref[a]
      BY <2>2 DEF Database
    <2> HIDE DEF k
    <2>5. \A a \in u : /\ f[a] \in Nat /\ f[a] > d.seq /\ f[a] <= r.seq
                       /\ f[a] # 0 /\ f[a] # None
      BY <1>1, <2>1, <2>3, <2>4
    <2>6. \A a \in Alerts \ u : d.ref[a] = None \/ (d.ref[a] \in Nat /\ d.ref[a] # 0)
      BY <1>1 DEF Unnumbered
    <2>7. \A a \in Alerts : r.ref[a] # 0
      BY <1>1, <2>4, <2>5, <2>6 DEF Unnumbered
    <2>8. Numbered(r.schema)
      BY <1>4, <2>4 DEF Possible, Numbered
    <2>9. \A a \in Alerts : r.ref[a] # None => r.ref[a] <= r.seq
      <3> SUFFICES ASSUME NEW a \in Alerts, r.ref[a] # None
                   PROVE  r.ref[a] <= r.seq
        OBVIOUS
      <3>1. CASE a \in u
        BY <2>4, <2>5, <3>1
      <3>2. CASE a \notin u
        <4>1. d.ref[a] \in Nat /\ d.ref[a] <= d.seq
          BY <2>4, <2>6, <3>2 DEF Counted
        <4> QED
          BY <1>1, <2>1, <2>4, <3>2, <4>1
      <3> QED
        BY <3>1, <3>2
    <2>10. ASSUME NEW a \in Alerts, NEW b \in Alerts, a # b, r.ref[a] # None
           PROVE  r.ref[a] # r.ref[b]
      <3>1. CASE a \in u /\ b \in u
        BY <2>3, <2>4, <2>10, <3>1
      <3>2. CASE a \in u /\ b \notin u
        BY <1>1, <2>4, <2>5, <2>6, <3>2 DEF Counted
      <3>3. CASE a \notin u /\ b \in u
        BY <1>1, <2>4, <2>5, <2>6, <2>10, <3>3 DEF Counted
      <3>4. CASE a \notin u /\ b \notin u
        BY <2>4, <2>6, <2>10, <3>4 DEF Counted
      <3> QED
        BY <3>1, <3>2, <3>3, <3>4
    <2> QED
      BY <1>4, <2>4, <2>7, <2>8, <2>9, <2>10 DEF Counted, Filled
  <1>5. CASE op.do = "remove" /\ op.what = "reference_number"
    <2>1. r = [d EXCEPT !.schema = Altered(op, @), !.ref = Unfilled(d)]
      BY <1>5 DEF Results
    <2>2. /\ r.seq = d.seq
          /\ \A a \in Alerts : r.ref[a] \in {None, 0}
          /\ \A a \in Alerts : r.ref[a] # None => r.ref[a] = 0
      BY <2>1 DEF Database, Unfilled
    <2>3. ~Numbered(r.schema)
      BY <1>1, <1>2, <1>5 DEF Altered, Numbered, Schema
    <2> QED
      BY <1>1, <1>5, <2>2, <2>3 DEF Counted, Filled
  <1>6. CASE op.do = "drop" /\ op.on = "fraud_alerts"
    <2>1. r = [d EXCEPT !.schema = Altered(op, @), !.ref = bare]
      BY <1>6 DEF Results
    <2>2. r.seq = d.seq /\ \A a \in Alerts : r.ref[a] = None
      BY <2>1 DEF Database
    <2>3. ~Numbered(r.schema)
      BY <1>1, <1>2, <1>6 DEF Altered, Numbered, Schema
    <2> QED
      BY <1>6, <2>2, <2>3 DEF Counted, Filled
  <1>7. CASE op.do = "discard"
    <2>1. r = [d EXCEPT !.schema = Altered(op, @), !.seq = 0]
      BY <1>7 DEF Results
    <2>2. r.seq = 0 /\ r.ref = d.ref
      BY <2>1 DEF Database
    <2>3. ~Numbered(r.schema) /\ op.on # "fraud_alerts"
      BY <1>3, <1>7 DEF Numbered
    <2>4. \A a \in Alerts : d.ref[a] \in {None, 0}
      BY <1>7 DEF Counted
    <2> QED
      BY <1>3, <1>7, <2>2, <2>3, <2>4 DEF Counted, Filled
  <1>8. CASE /\ op.do \notin {"number", "discard"}
             /\ ~(op.do = "remove" /\ op.what = "reference_number")
             /\ ~(op.do = "drop" /\ op.on = "fraud_alerts")
    <2>1. r = [d EXCEPT !.schema = Altered(op, @)]
      BY <1>8 DEF Results
    <2>2. r.seq = d.seq /\ r.ref = d.ref
      BY <2>1 DEF Database
    <2>3. op.on = "fraud_alerts" => (Numbered(d.schema) => Numbered(r.schema))
      BY <1>1, <1>2, <1>8 DEF Altered, Numbered, Schema
    <2>4. /\ op.on = "fraud_alerts"
          /\ op # Add("fraud_alerts", "reference_number")
          /\ Numbered(r.schema)
          => Numbered(d.schema)
      <3>1. CASE op.do \in {"create", "add", "ensure"} /\ op.on = "fraud_alerts"
        <4>1. F(r.schema) = F(d.schema) \cup {op.what}
          BY <1>1, <1>2, <3>1 DEF Altered, Schema
        <4>2. op.what = "reference_number" =>
                 op = Add("fraud_alerts", "reference_number")
          BY <3>1 DEF Statement, Add
        <4> QED
          BY <4>1, <4>2 DEF Numbered
      <3>2. CASE op.do \notin {"create", "add", "ensure"}
        BY <1>1, <1>2, <1>8, <3>2 DEF Altered, Numbered, Schema, Statement
      <3> QED
        BY <3>1, <3>2
    <2> QED
      BY <1>3, <1>8, <2>2, <2>3, <2>4 DEF Counted, Filled, Numbered
  <1> QED
    BY <1>4, <1>5, <1>6, <1>7, <1>8

(* Who does nothing still counts, if what it sees does, and nobody changes *)
(* the sequence behind its back.                                           *)
LEMMA BystanderCounts ==
    ASSUME NEW n \in Migrators, NumberingSound(n),
           pc'[n] = pc[n], touched'[n] = touched[n], draft'[n] = draft[n],
           at'[n] = at[n], goal'[n] = goal[n], step'[n] = step[n],
           /\ "alert_ref_seq" \in touched[n] /\ "fraud_alerts" \notin touched[n]
           => db'.seq = db.seq,
           Counted(Seen(n)')
    PROVE  NumberingSound(n)'
  <1>1. Script(n)' = Script(n)
    BY DEF Script, Up
  <1>2. Pending(n)' <=> Pending(n)
    BY <1>1 DEF Pending
  <1>3. Filled(draft[n])' <=> Filled(draft[n])
    BY DEF Filled, Numbered
  <1>4. Numbered(draft[n].schema)' <=> Numbered(draft[n].schema)
    BY DEF Numbered
  <1>5. Counted(Seen(n))'
    BY DEF Counted, Numbered
  <1> QED
    BY <1>1, <1>2, <1>3, <1>4, <1>5 DEF NumberingSound

(* Who has locked nothing sees what is committed.                          *)
LEMMA OutsideCounts ==
    ASSUME NEW m \in Migrators, touched'[m] = {}, Counted(db)',
           pc'[m] # "revise" \/ step'[m] = 1
    PROVE  NumberingSound(m)'
  <1>1. /\ Seen(m)'.ref = db'.ref /\ Seen(m)'.seq = db'.seq
        /\ Seen(m)'.schema["fraud_alerts"] = db'.schema["fraud_alerts"]
    BY MergedIs DEF Seen
  <1>2. Counted(Seen(m))'
    BY <1>1 DEF Counted, Numbered
  <1>3. step'[m] = 1 => 1 .. step'[m] - 1 = {}
    OBVIOUS
  <1> QED
    BY <1>2, <1>3 DEF NumberingSound

LEMMA InitAlerts == Init => AlertsInv
  <1> SUFFICES ASSUME Init PROVE AlertsInv
    OBVIOUS
  <1>1. Counted(db) /\ Filled(db)
    BY DEF Init, Empty, NoTable, Counted, Filled, Numbered, Tables
  <1>2. ASSUME NEW m \in Migrators PROVE NumberingSound(m)
    <2>1. touched[m] = {} /\ pc[m] # "revise"
      BY DEF Init
    <2>2. /\ Seen(m).ref = db.ref /\ Seen(m).seq = db.seq
          /\ Seen(m).schema["fraud_alerts"] = db.schema["fraud_alerts"]
      BY <2>1, MergedIs DEF Seen
    <2>3. Counted(Seen(m))
      BY <1>1, <2>2, CountedAlike
    <2> QED
      BY <2>1, <2>3 DEF NumberingSound
  <1> QED
    BY <1>1, <1>2, InitSchema DEF AlertsInv

(* A COMMIT brings numbers that were counted where it made them.  Whoever  *)
(* has locked the alerts sees the same sequence as before, and whoever has *)
(* locked the sequence has it where the alerts are.                        *)
LEMMA EndsAlerts ==
    ASSUME AlertsInv, NEW m \in Migrators, Ends(m)
    PROVE  Counted(db)' /\ Filled(db)' /\ \A n \in Migrators : NumberingSound(n)'
  <1> DEFINE SQ == "alert_ref_seq"
             FA == "fraud_alerts"
             TX == "transactions"
  <1>1. /\ touched'[m] = {} /\ pc'[m] # "revise"
        /\ \A n \in Migrators \ {m} :
              /\ pc'[n] = pc[n] /\ touched'[n] = touched[n]
              /\ draft'[n] = draft[n] /\ at'[n] = at[n]
              /\ goal'[n] = goal[n] /\ step'[n] = step[n]
    BY DEF Ends, RollBack, AlertsInv, SchemaInv, TypeOK
  <1>2. db' = db \/ (pc[m] = "commit" /\ db' = Seen(m))
    BY DEF Ends
  <1>3. /\ NumberingSound(m)
        /\ Seen(m).seq = IF SQ \in touched[m] THEN draft[m].seq ELSE db.seq
        /\ Seen(m).ref = IF FA \in touched[m] THEN draft[m].ref ELSE db.ref
        /\ Seen(m).schema[FA] =
              (IF FA \in touched[m] THEN draft[m] ELSE db).schema[FA]
    BY MergedIs DEF Seen, AlertsInv
  <1>4. Counted(db')
    BY <1>2, <1>3 DEF AlertsInv, NumberingSound
  <1>5. Filled(db')
    <2>1. CASE db' = db
      BY <2>1 DEF AlertsInv
    <2>2. CASE pc[m] = "commit" /\ db' = Seen(m) /\ FA \in touched[m]
      <3>1. Filled(draft[m])
        BY <1>3, <2>2 DEF NumberingSound, Pending
      <3> QED
        BY <1>3, <2>2, <3>1, CountedAlike
    <2>3. CASE db' = Seen(m) /\ FA \notin touched[m]
      BY <1>3, <2>3, CountedAlike DEF AlertsInv
    <2> QED
      BY <1>2, <2>1, <2>2, <2>3
  <1>6. ASSUME NEW n \in Migrators, n # m PROVE NumberingSound(n)'
    <2>1. NumberingSound(n) /\ touched[n] \cap touched[m] = {}
      BY <1>6 DEF AlertsInv, SchemaInv, Apart
    <2>2. SQ \in touched[n] => db'.seq = db.seq
      BY <1>2, <1>3, <2>1
    <2>3. FA \in touched[n] => db'.seq = db.seq
      BY <1>2, <1>3, <2>1 DEF NumberingSound
    <2>4. Seen(n)' = Merged(db', draft[n], touched[n])
      BY <1>1, <1>6 DEF Seen
    <2>5. /\ Seen(n)'.seq = IF SQ \in touched[n] THEN draft[n].seq ELSE db'.seq
          /\ Seen(n)'.ref = IF FA \in touched[n] THEN draft[n].ref ELSE db'.ref
          /\ Seen(n)'.schema[FA] =
                IF FA \in touched[n] THEN draft[n].schema[FA] ELSE db'.schema[FA]
      BY <2>4, MergedIs
    <2>6. /\ Seen(n).seq = IF SQ \in touched[n] THEN draft[n].seq ELSE db.seq
          /\ Seen(n).ref = IF FA \in touched[n] THEN draft[n].ref ELSE db.ref
          /\ Seen(n).schema[FA] =
                IF FA \in touched[n] THEN draft[n].schema[FA] ELSE db.schema[FA]
      BY MergedIs DEF Seen
    <2>7. CASE FA \in touched[n]
      <3>1. Counted(Seen(n)')
        BY <2>1, <2>3, <2>5, <2>6, <2>7, CountedAlike DEF NumberingSound
      <3> QED
        BY <1>1, <1>6, <2>1, <2>2, <3>1, BystanderCounts
    <2>8. CASE FA \notin touched[n]
      <3>1. Seen(n)'.seq = db'.seq
        BY <2>1, <2>2, <2>5, <2>8 DEF NumberingSound
      <3>2. Counted(Seen(n)')
        BY <1>4, <2>5, <2>8, <3>1, CountedAlike
      <3> QED
        BY <1>1, <1>6, <2>1, <2>2, <3>2, BystanderCounts
    <2> QED
      BY <2>7, <2>8
  <1>7. Counted(db)' /\ Filled(db)'
    BY <1>4, <1>5 DEF Counted, Filled, Numbered
  <1> QED
    BY <1>1, <1>6, <1>7, OutsideCounts

(* An evaluation draws its number while no migration is at work on the     *)
(* alerts or on the sequence.                                              *)
LEMMA RaiseAlerts ==
    ASSUME AlertsInv, NEW c \in Containers, NEW a \in Alerts, Raise(c, a)
    PROVE  Counted(db)' /\ Filled(db)' /\ \A n \in Migrators : NumberingSound(n)'
  <1>1. UNCHANGED <<draft, touched, pc, at, goal, step>>
    BY DEF Raise, tx
  <1>2. /\ db.ref \in [Alerts -> Nat \cup {None}] /\ db.seq \in Nat
        /\ None \notin Nat /\ db.ref[a] = None
    BY DeploymentAssumption DEF Raise, AlertsInv, SchemaInv, TypeOK, Database
  <1>3. /\ db'.schema = db.schema /\ db'.seq = db.seq + 1
        /\ db'.ref = [db.ref EXCEPT ![a] = db.seq + 1]
    BY DEF Raise, AlertsInv, SchemaInv, TypeOK, Database
  <1>4. \A n \in Migrators : /\ "fraud_alerts" \notin touched[n]
                             /\ "alert_ref_seq" \notin touched[n]
    <2>1. \A n \in Migrators \ {c} : /\ "fraud_alerts" \notin touched[n]
                                      /\ "transactions" \notin touched[n]
      BY DEF Raise, LockedByOther
    <2>2. pc[c] \notin Migrating /\ MigratorSound(c)
      BY WhoMigrates DEF Raise, Migrating, AlertsInv, SchemaInv
    <2>3. touched[c] = {}
      BY <2>2 DEF MigratorSound
    <2>4. \A n \in Migrators : NumberingSound(n)
      BY DEF AlertsInv
    <2> QED
      BY <2>1, <2>3, <2>4 DEF NumberingSound
  <1>5. Numbered(db.schema)
    BY DEF Raise, Serviceable, Numbered
  <1>6. Counted(db)'
    <2>1. \A b \in Alerts : db'.ref[b] # None => db'.ref[b] <= db'.seq
      BY <1>2, <1>3 DEF AlertsInv, Counted
    <2>2. \A b \in Alerts \ {a} : db'.ref[b] # db.seq + 1
      BY <1>2, <1>3 DEF AlertsInv, Counted
    <2>3. \A b, e \in Alerts :
             b # e /\ db'.ref[b] \notin {None, 0} => db'.ref[b] # db'.ref[e]
      BY <1>2, <1>3, <2>2 DEF AlertsInv, Counted
    <2> QED
      BY <1>3, <1>5, <2>1, <2>3 DEF Counted, Numbered
  <1>7. Filled(db)'
    BY <1>2, <1>3, <1>5 DEF AlertsInv, Filled, Numbered
  <1>8. ASSUME NEW n \in Migrators PROVE NumberingSound(n)'
    <2>1. Seen(n)' = Merged(db', draft[n], touched[n])
      BY <1>1 DEF Seen
    <2>2. /\ Seen(n)'.ref = db'.ref /\ Seen(n)'.seq = db'.seq
          /\ Seen(n)'.schema["fraud_alerts"] = db'.schema["fraud_alerts"]
      BY <1>4, <2>1, MergedIs
    <2>3. Counted(db')
      BY <1>6 DEF Counted, Numbered
    <2>4. Counted(Seen(n)')
      BY <2>2, <2>3, CountedAlike
    <2> QED
      BY <1>1, <1>4, <2>4, BystanderCounts DEF AlertsInv
  <1> QED
    BY <1>6, <1>7, <1>8

LEMMA BeginsAlerts ==
    ASSUME AlertsInv, NEW m \in Migrators, NEW target \in Versions,
           Begins(m, target)
    PROVE  Counted(db)' /\ Filled(db)' /\ \A n \in Migrators : NumberingSound(n)'
  <1>1. UNCHANGED <<db, draft, touched>>
    BY DEF Begins, Begin
  <1>2. touched[m] = {}
    BY DEF Begins, AlertsInv, SchemaInv, MigratorSound, Migrating
  <1>3. /\ step'[m] = 1
        /\ \A n \in Migrators \ {m} :
              /\ pc'[n] = pc[n] /\ at'[n] = at[n]
              /\ goal'[n] = goal[n] /\ step'[n] = step[n]
    BY DEF Begins, Begin, Goto, AlertsInv, SchemaInv, TypeOK
  <1>4. Counted(db)' /\ Filled(db)'
    BY <1>1 DEF AlertsInv, Counted, Filled, Numbered
  <1>5. ASSUME NEW n \in Migrators, n # m PROVE NumberingSound(n)'
    <2>1. Seen(n)' = Seen(n) /\ NumberingSound(n)
      BY <1>1 DEF Seen, AlertsInv
    <2>2. Counted(Seen(n)')
      BY <2>1 DEF NumberingSound
    <2> QED
      BY <1>1, <1>3, <1>5, <2>1, <2>2, BystanderCounts
  <1> QED
    BY <1>1, <1>2, <1>3, <1>4, <1>5, OutsideCounts

LEMMA OutsideAlerts ==
    ASSUME AlertsInv, NEW c \in Migrators, Outside(c)
    PROVE  Counted(db)' /\ Filled(db)' /\ \A n \in Migrators : NumberingSound(n)'
  <1>1. UNCHANGED <<db, draft, touched, at, goal, step>>
    BY DEF Outside, tx
  <1>2. /\ pc[c] \notin Migrating /\ pc'[c] # "revise"
        /\ \A n \in Migrators \ {c} : pc'[n] = pc[n]
    BY DEF Outside, AlertsInv, SchemaInv, TypeOK, Migrating
  <1>3. touched'[c] = {}
    BY <1>1, <1>2 DEF AlertsInv, SchemaInv, MigratorSound
  <1>4. Counted(db)' /\ Filled(db)'
    BY <1>1 DEF AlertsInv, Counted, Filled, Numbered
  <1>5. ASSUME NEW n \in Migrators, n # c PROVE NumberingSound(n)'
    <2>1. Seen(n)' = Seen(n) /\ NumberingSound(n)
      BY <1>1 DEF Seen, AlertsInv
    <2>2. Counted(Seen(n)')
      BY <2>1 DEF NumberingSound
    <2> QED
      BY <1>1, <1>2, <1>5, <2>1, <2>2, BystanderCounts
  <1> QED
    BY <1>2, <1>3, <1>4, <1>5, OutsideCounts

(* A statement of a careful script, where the ones before it have locked   *)
(* their tables.                                                           *)
LEMMA NextOpCareful ==
    ASSUME AlertsInv, NEW m \in Migrators, pc[m] = "revise",
           step[m] <= Len(Script(m))
    PROVE  LET op == NextOp(m) IN
           /\ op.what = "reference_number" =>
                 op.on = "fraud_alerts" /\ op.do \in {"add", "number", "remove"}
           /\ op.do = "number" => /\ op.what = "reference_number"
                                  /\ "alert_ref_seq" \in touched[m]
           /\ op = Add("fraud_alerts", "reference_number") =>
                 /\ \E j \in step[m] + 1 .. Len(Script(m)) : Script(m)[j].do = "number"
                 /\ \A j \in 1 .. Len(Script(m)) :
                       Script(m)[j] # Cut("fraud_alerts", "reference_number")
           /\ op.do = "discard" =>
                 /\ op.on = "alert_ref_seq" /\ "fraud_alerts" \in touched[m]
                 /\ ~Numbered(draft[m].schema)
           /\ op.on = "alert_ref_seq" =>
                 op.do = "discard" \/ (op.do = "ensure" /\ "transactions" \in touched[m])
  <1> DEFINE ops == Script(m)
             k   == step[m]
  <1>1. Careful(ops) /\ k \in 1 .. Len(ops)
    BY ScriptLeads, NextOpTyped DEF AlertsInv, SchemaInv
  <1>2. /\ \A j \in 1 .. k - 1 : ops[j].on \in touched[m]
        /\ \A j \in 1 .. k - 1 :
              ops[j] = Cut("fraud_alerts", "reference_number") =>
                  ~Numbered(draft[m].schema)
    BY DEF AlertsInv, NumberingSound
  <1>3. Cut("fraud_alerts", "reference_number").on = "fraud_alerts"
    BY DEF Cut
  <1>4. ops[k].what = "reference_number" =>
           /\ ops[k].on = "fraud_alerts"
           /\ ops[k].do \in {"add", "number", "remove"}
    BY <1>1 DEF Careful
  <1>5. ASSUME ops[k].do = "number"
        PROVE  ops[k].what = "reference_number" /\ "alert_ref_seq" \in touched[m]
    <2>1. /\ ops[k].what = "reference_number"
          /\ \E j \in 1 .. k - 1 : ops[j].on = "alert_ref_seq"
      BY <1>1, <1>5 DEF Careful
    <2> QED
      BY <1>2, <2>1
  <1>6. ASSUME ops[k] = Add("fraud_alerts", "reference_number")
        PROVE  /\ \E j \in k + 1 .. Len(ops) : ops[j].do = "number"
               /\ \A j \in 1 .. Len(ops) :
                     ops[j] # Cut("fraud_alerts", "reference_number")
    <2>1. \E j \in k + 1 .. Len(ops) : ops[j].do = "number"
      BY <1>1, <1>6 DEF Careful
    <2>2. ASSUME NEW j \in 1 .. Len(ops),
                 ops[j] = Cut("fraud_alerts", "reference_number")
          PROVE  FALSE
      <3>1. \A l \in 1 .. Len(ops) :
               ops[l] # Add("fraud_alerts", "reference_number")
        BY <1>1, <2>2 DEF Careful
      <3> QED
        BY <1>1, <1>6, <3>1
    <2> QED
      BY <2>1, <2>2
  <1>7. ASSUME ops[k].do = "discard"
        PROVE  /\ ops[k].on = "alert_ref_seq" /\ "fraud_alerts" \in touched[m]
               /\ ~Numbered(draft[m].schema)
    <2>1. ops[k].on = "alert_ref_seq"
      BY <1>1, <1>7 DEF Careful
    <2>2. PICK j \in 1 .. k - 1 : ops[j] = Cut("fraud_alerts", "reference_number")
      BY <1>1, <1>7, Zenon DEF Careful
    <2> QED
      BY <1>2, <1>3, <2>1, <2>2
  <1>8. ASSUME ops[k].on = "alert_ref_seq"
        PROVE  \/ ops[k].do = "discard"
               \/ ops[k].do = "ensure" /\ "transactions" \in touched[m]
    <2>1. \/ ops[k].do = "discard"
          \/ /\ ops[k].do = "ensure"
             /\ \E j \in 1 .. k - 1 : ops[j].on = "transactions"
      BY <1>1, <1>8 DEF Careful
    <2> QED
      BY <1>2, <2>1
  <1> QED
    BY <1>4, <1>5, <1>6, <1>7, <1>8 DEF NextOp

LEMMA ExecuteAlerts ==
    ASSUME AlertsInv, NEW m \in Migrators, Execute(m)
    PROVE  Counted(db)' /\ Filled(db)' /\ \A n \in Migrators : NumberingSound(n)'
  <1> DEFINE op == NextOp(m)
             SQ == "alert_ref_seq"
             FA == "fraud_alerts"
             TX == "transactions"
  <1>1. /\ TypeOK /\ pc[m] = "revise" /\ step[m] <= Len(Script(m))
        /\ Possible(op, Seen(m).schema) /\ NumberingSound(m)
    BY DEF Execute, Works, AlertsInv, SchemaInv
  <1>2. /\ op \in Statement /\ op.on \in Lockable /\ op.on \in Tables
        /\ step[m] \in 1 .. Len(Script(m))
    BY <1>1, NextOpTyped DEF Lockable
  <1>3. PICK d \in Results(op, Seen(m)) : Changed(m, d, op.on)
    BY DEF Execute
  <1>4. /\ touched'[m] = touched[m] \cup {op.on}
        /\ FA \in touched'[m] =>
              draft'[m].ref = d.ref /\ draft'[m].schema[FA] = d.schema[FA]
        /\ SQ \in touched'[m] => draft'[m].seq = d.seq
        /\ \A n \in Migrators \ {m} : touched'[n] = touched[n] /\ draft'[n] = draft[n]
    <2>1. FA \in Tables
      BY DEF Tables
    <2> QED
      BY <1>1, <1>2, <1>3, <2>1, ChangedIs
  <1>5. UNCHANGED <<db, pc, at, goal>> /\ step'[m] = step[m] + 1
        /\ \A n \in Migrators \ {m} : step'[n] = step[n]
    BY <1>1 DEF Execute, TypeOK
  <1>6. /\ op.what = "reference_number" =>
              op.on = FA /\ op.do \in {"add", "number", "remove"}
        /\ op.do = "number" => op.what = "reference_number" /\ SQ \in touched[m]
        /\ op = Add(FA, "reference_number") =>
              /\ \E j \in step[m] + 1 .. Len(Script(m)) : Script(m)[j].do = "number"
              /\ \A j \in 1 .. Len(Script(m)) :
                    Script(m)[j] # Cut(FA, "reference_number")
        /\ op.do = "discard" =>
              op.on = SQ /\ FA \in touched[m] /\ ~Numbered(draft[m].schema)
        /\ op.on = SQ => op.do = "discard" \/ (op.do = "ensure" /\ TX \in touched[m])
    BY <1>1, NextOpCareful
  <1>7. /\ Seen(m).seq = IF SQ \in touched[m] THEN draft[m].seq ELSE db.seq
        /\ Seen(m).ref = IF FA \in touched[m] THEN draft[m].ref ELSE db.ref
        /\ Seen(m).schema[FA] =
              (IF FA \in touched[m] THEN draft[m] ELSE db).schema[FA]
        /\ Seen(m) \in Database
    BY <1>1, MergedIs, SeenTyped DEF Seen
  <1>8. /\ Counted(d)
        /\ op.on # FA => d.ref = Seen(m).ref /\ d.schema[FA] = Seen(m).schema[FA]
        /\ op.do \notin {"number", "discard"} => d.seq = Seen(m).seq
        /\ op.do = "number" => Filled(d)
        /\ op.do # "number" /\ op # Add(FA, "reference_number") =>
              (Filled(Seen(m)) => Filled(d))
    <2>1. op.do = "discard" => ~Numbered(Seen(m).schema)
      BY <1>6, <1>7 DEF Numbered
    <2>2. Counted(Seen(m))
      BY <1>1 DEF NumberingSound
    <2> QED
      BY <1>1, <1>2, <1>3, <1>6, <1>7, <2>1, <2>2, ResultsCounted
  <1>9. Script(m)' = Script(m)
    BY <1>5 DEF Script, Up
  <1>10. \A j \in 1 .. step'[m] - 1 : Script(m)'[j].on \in touched'[m]
    <2>1. \A j \in 1 .. step'[m] - 1 : j = step[m] \/ j \in 1 .. step[m] - 1
      BY <1>2, <1>5
    <2> QED
      BY <1>1, <1>4, <1>9, <2>1 DEF NumberingSound, NextOp
  <1>11. SQ \in touched'[m] => TX \in touched'[m] \/ FA \in touched'[m]
    BY <1>1, <1>4, <1>6 DEF NumberingSound
  <1>12. ASSUME SQ \in touched'[m], FA \notin touched'[m]
         PROVE  draft'[m].seq = db'.seq
    <2>1. op.do \notin {"number", "discard"}
      BY <1>4, <1>6, <1>12
    <2>2. FA \notin touched[m] /\ d.seq = Seen(m).seq
      BY <1>4, <1>8, <1>12, <2>1
    <2>3. Seen(m).seq = db.seq
      BY <1>1, <1>7, <2>2 DEF NumberingSound
    <2> QED
      BY <1>4, <1>5, <1>12, <2>2, <2>3
  <1>13. ASSUME NEW j \in 1 .. step'[m] - 1,
                Script(m)'[j] = Cut(FA, "reference_number")
         PROVE  ~Numbered(draft'[m].schema)
    <2>1. CASE j \in 1 .. step[m] - 1
      <3>1. ~Numbered(draft[m].schema) /\ FA \in touched[m]
        BY <1>1, <1>9, <1>13, <2>1 DEF NumberingSound, Cut
      <3>2. ~Numbered(Seen(m).schema)
        BY <1>7, <3>1 DEF Numbered
      <3>3. op # Add(FA, "reference_number")
        BY <1>2, <1>6, <1>9, <1>13, <2>1
      <3>4. draft'[m].schema[FA] = d.schema[FA]
        BY <1>4, <3>1
      <3>5. d.schema = Altered(op, Seen(m).schema) /\ Seen(m).schema \in Schema
        BY <1>2, <1>7, ResultsTyped DEF Database
      <3>6. op.do \in {"create", "ensure", "add"} /\ op.on = FA =>
               op.what # "reference_number"
        BY <1>2, <1>6, <3>3 DEF Add, Statement
      <3>7. "reference_number" \notin d.schema[FA]
        <4>1. CASE op.on # FA
          BY <1>8, <3>2, <4>1 DEF Numbered
        <4>2. CASE op.on = FA
          BY <1>2, <3>2, <3>5, <3>6, <4>2 DEF Altered, Numbered, Schema
        <4> QED
          BY <4>1, <4>2
      <3> QED
        BY <3>4, <3>7 DEF Numbered
    <2>2. CASE j = step[m]
      <3>1. op = Cut(FA, "reference_number")
        BY <1>9, <1>13, <2>2 DEF NextOp
      <3>2. d.schema = Altered(op, Seen(m).schema) /\ Seen(m).schema \in Schema
        BY <1>2, <1>7, ResultsTyped DEF Database
      <3>3. "reference_number" \notin d.schema[FA]
        BY <1>2, <3>1, <3>2 DEF Altered, Schema, Cut
      <3>4. FA \in touched'[m]
        BY <1>4, <3>1 DEF Cut
      <3> QED
        BY <1>4, <3>3, <3>4 DEF Numbered
    <2> QED
      BY <1>2, <1>5, <2>1, <2>2
  <1>14. Counted(Seen(m)')
    <2>1. Seen(m)' = Merged(db, draft'[m], touched'[m])
      BY <1>5 DEF Seen
    <2>2. /\ Seen(m)'.seq = IF SQ \in touched'[m] THEN draft'[m].seq ELSE db.seq
          /\ Seen(m)'.ref = IF FA \in touched'[m] THEN draft'[m].ref ELSE db.ref
          /\ Seen(m)'.schema[FA] =
                (IF FA \in touched'[m] THEN draft'[m] ELSE db).schema[FA]
      BY <2>1, MergedIs
    <2>3. Seen(m)'.seq = d.seq
      <3>1. CASE SQ \in touched'[m]
        BY <1>4, <2>2, <3>1
      <3>2. CASE SQ \notin touched'[m]
        BY <1>4, <1>6, <1>7, <1>8, <2>2, <3>2
      <3> QED
        BY <3>1, <3>2
    <2>4. Seen(m)'.ref = d.ref /\ Seen(m)'.schema[FA] = d.schema[FA]
      <3>1. CASE FA \in touched'[m]
        BY <1>4, <2>2, <3>1
      <3>2. CASE FA \notin touched'[m]
        BY <1>4, <1>7, <1>8, <2>2, <3>2
      <3> QED
        BY <3>1, <3>2
    <2> QED
      BY <1>8, <2>3, <2>4, CountedAlike
  <1>15. ASSUME FA \in touched'[m], ~Pending(m)' PROVE Filled(draft'[m])
    <2>1. \A i \in step[m] + 1 .. Len(Script(m)) : Script(m)[i].do # "number"
      BY <1>1, <1>5, <1>9, <1>15 DEF Pending
    <2>2. op # Add(FA, "reference_number")
      BY <1>6, <2>1
    <2>3. Filled(d)
      <3>1. CASE op.do = "number"
        BY <1>8, <3>1
      <3>2. CASE op.do # "number"
        <4>1. ~Pending(m)
          <5>1. \A i \in step[m] .. Len(Script(m)) :
                   i = step[m] \/ i \in step[m] + 1 .. Len(Script(m))
            BY <1>2
          <5> QED
            BY <2>1, <3>2, <5>1 DEF Pending, NextOp
        <4>2. Filled(Seen(m))
          <5>1. CASE FA \in touched[m]
            BY <1>1, <1>7, <4>1, <5>1, CountedAlike DEF NumberingSound
          <5>2. CASE FA \notin touched[m]
            BY <1>7, <5>2, CountedAlike DEF AlertsInv
          <5> QED
            BY <5>1, <5>2
        <4> QED
          BY <1>8, <2>2, <3>2, <4>2
      <3> QED
        BY <3>1, <3>2
    <2> QED
      BY <1>4, <1>15, <2>3, CountedAlike
  <1>16. NumberingSound(m)'
    <2>1. Counted(Seen(m))' /\ (Filled(draft'[m]) => Filled(draft[m])')
      BY <1>14 DEF Counted, Filled, Numbered
    <2>2. \A j \in 1 .. step'[m] - 1 :
             Script(m)'[j] = Cut(FA, "reference_number") =>
                 ~Numbered(draft[m].schema)'
      BY <1>13 DEF Numbered
    <2> QED
      BY <1>10, <1>11, <1>12, <1>15, <2>1, <2>2 DEF NumberingSound
  <1>17. ASSUME NEW n \in Migrators, n # m PROVE NumberingSound(n)'
    <2>1. Seen(n)' = Seen(n) /\ NumberingSound(n)
      BY <1>4, <1>5, <1>17 DEF Seen, AlertsInv
    <2>2. Counted(Seen(n)')
      BY <2>1 DEF NumberingSound
    <2> QED
      BY <1>4, <1>5, <1>17, <2>1, <2>2, BystanderCounts
  <1>18. Counted(db)' /\ Filled(db)'
    BY <1>5 DEF AlertsInv, Counted, Filled, Numbered
  <1> QED
    BY <1>16, <1>17, <1>18

LEMMA StampAlerts ==
    ASSUME AlertsInv, NEW m \in Migrators, Stamp(m)
    PROVE  Counted(db)' /\ Filled(db)' /\ \A n \in Migrators : NumberingSound(n)'
  <1> DEFINE SQ == "alert_ref_seq"
             FA == "fraud_alerts"
             d  == [Seen(m) EXCEPT !.version = NextVersion(m)]
  <1>1. /\ TypeOK /\ pc[m] = "revise" /\ step[m] > Len(Script(m))
        /\ NumberingSound(m)
    BY DEF Stamp, AlertsInv, SchemaInv
  <1>2. Changed(m, d, "alembic_version") /\ "alembic_version" \in Lockable
    BY DEF Stamp, Lockable
  <1>3. d.ref = Seen(m).ref /\ d.seq = Seen(m).seq /\ d.schema = Seen(m).schema
    BY <1>1, SeenTyped DEF Database
  <1> HIDE DEF d
  <1>4. /\ touched'[m] = touched[m] \cup {"alembic_version"}
        /\ FA \in touched'[m] =>
              draft'[m].ref = d.ref /\ draft'[m].schema[FA] = d.schema[FA]
        /\ SQ \in touched'[m] => draft'[m].seq = d.seq
        /\ \A n \in Migrators \ {m} : touched'[n] = touched[n] /\ draft'[n] = draft[n]
    <2>1. FA \in Tables
      BY DEF Tables
    <2> QED
      BY <1>1, <1>2, <2>1, ChangedIs
  <1>5. /\ UNCHANGED <<db, goal>> /\ step'[m] = 1
        /\ \A n \in Migrators \ {m} :
              pc'[n] = pc[n] /\ at'[n] = at[n] /\ step'[n] = step[n]
    BY <1>1 DEF Stamp, Goto, TypeOK
  <1>6. /\ Seen(m).seq = IF SQ \in touched[m] THEN draft[m].seq ELSE db.seq
        /\ Seen(m).ref = IF FA \in touched[m] THEN draft[m].ref ELSE db.ref
        /\ Seen(m).schema[FA] =
              (IF FA \in touched[m] THEN draft[m] ELSE db).schema[FA]
    BY MergedIs DEF Seen
  <1>7. Counted(Seen(m)')
    <2>1. Seen(m)' = Merged(db, draft'[m], touched'[m])
      BY <1>5 DEF Seen
    <2>2. /\ Seen(m)'.seq = IF SQ \in touched'[m] THEN draft'[m].seq ELSE db.seq
          /\ Seen(m)'.ref = IF FA \in touched'[m] THEN draft'[m].ref ELSE db.ref
          /\ Seen(m)'.schema[FA] =
                (IF FA \in touched'[m] THEN draft'[m] ELSE db).schema[FA]
      BY <2>1, MergedIs
    <2>3. Seen(m)'.seq = Seen(m).seq
      BY <1>3, <1>4, <1>6, <2>2
    <2>4. Seen(m)'.ref = Seen(m).ref
      BY <1>3, <1>4, <1>6, <2>2
    <2>5. Seen(m)'.schema[FA] = Seen(m).schema[FA]
      <3>1. CASE FA \in touched'[m]
        BY <1>3, <1>4, <2>2, <3>1
      <3>2. CASE FA \notin touched'[m]
        BY <1>4, <1>6, <2>2, <3>2
      <3> QED
        BY <3>1, <3>2
    <2>6. Counted(Seen(m))
      BY <1>1 DEF NumberingSound
    <2> QED
      BY <2>3, <2>4, <2>5, <2>6, CountedAlike
  <1>8. ASSUME FA \in touched'[m] PROVE Filled(draft'[m])
    <2>1. FA \in touched[m]
      BY <1>4, <1>8
    <2>2. ~Pending(m)
      <3>1. Len(Script(m)) \in Nat /\ step[m] \in Nat
        BY <1>1, ScriptLeads DEF Leads, TypeOK
      <3> QED
        BY <1>1, <3>1 DEF Pending
    <2>3. Filled(draft[m])
      BY <1>1, <2>1, <2>2 DEF NumberingSound
    <2>4. /\ draft'[m].ref = draft[m].ref
          /\ draft'[m].schema[FA] = draft[m].schema[FA]
      BY <1>3, <1>4, <1>6, <1>8, <2>1
    <2> QED
      BY <2>3, <2>4, CountedAlike
  <1>9. NumberingSound(m)'
    <2>1. Counted(Seen(m))' /\ (Filled(draft'[m]) => Filled(draft[m])')
      BY <1>7 DEF Counted, Filled, Numbered
    <2>2. 1 .. step'[m] - 1 = {}
      BY <1>5
    <2>3. SQ \in touched'[m] => draft'[m].seq = draft[m].seq
      BY <1>3, <1>4, <1>6
    <2> QED
      BY <1>1, <1>4, <1>5, <1>8, <2>1, <2>2, <2>3 DEF NumberingSound
  <1>10. ASSUME NEW n \in Migrators, n # m PROVE NumberingSound(n)'
    <2>1. Seen(n)' = Seen(n) /\ NumberingSound(n)
      BY <1>4, <1>5, <1>10 DEF Seen, AlertsInv
    <2>2. Counted(Seen(n)')
      BY <2>1 DEF NumberingSound
    <2> QED
      BY <1>4, <1>5, <1>10, <2>1, <2>2, BystanderCounts
  <1>11. Counted(db)' /\ Filled(db)'
    BY <1>5 DEF AlertsInv, Counted, Filled, Numbered
  <1> QED
    BY <1>9, <1>10, <1>11

LEMMA NextAlerts == AlertsInv /\ [Next]_vars => AlertsInv'
  <1> SUFFICES ASSUME AlertsInv, [Next]_vars PROVE AlertsInv'
    OBVIOUS
  <1>1. SchemaInv'
    BY NextSchema DEF AlertsInv
  <1>2. CASE Next
    <2>1. TypeOK
      BY DEF AlertsInv, SchemaInv
    <2> QED
      BY <1>1, <1>2, <2>1, Steps, EndsAlerts, OutsideAlerts, BeginsAlerts,
         ExecuteAlerts, StampAlerts, RaiseAlerts DEF AlertsInv
  <1>3. CASE UNCHANGED vars
    <2>1. Counted(db)' /\ Filled(db)'
      BY <1>3 DEF vars, AlertsInv, Counted, Filled, Numbered
    <2>2. ASSUME NEW n \in Migrators PROVE NumberingSound(n)'
      <3>1. Seen(n)' = Seen(n) /\ NumberingSound(n)
        BY <1>3 DEF vars, Seen, AlertsInv
      <3>2. Counted(Seen(n)')
        BY <3>1 DEF NumberingSound
      <3> QED
        BY <1>3, <3>1, <3>2, BystanderCounts DEF vars
    <2> QED
      BY <1>1, <2>1, <2>2 DEF AlertsInv
  <1> QED
    BY <1>2, <1>3

LEMMA AlertsInvariant == Spec => []AlertsInv
  BY InitAlerts, NextAlerts, PTL DEF Spec

(* No alert lacks its number and no two have the same, whoever migrates    *)
(* while they are raised.                                                  *)
THEOREM NumbersSafe == Spec => []AlertsNumbered
  <1>1. ASSUME AlertsInv PROVE AlertsNumbered
    <2> SUFFICES ASSUME Numbered(db.schema), NEW a \in Alerts, NEW b \in Alerts
                 PROVE  /\ db.ref[a] # 0
                        /\ a # b /\ db.ref[a] # None => db.ref[a] # db.ref[b]
      BY DEF AlertsNumbered, Numbered
    <2>1. db.ref[a] # 0
      BY <1>1 DEF AlertsInv, Filled
    <2> QED
      BY <1>1, <2>1 DEF AlertsInv, Counted
  <1> QED
    BY <1>1, AlertsInvariant, PTL

=============================================================================
