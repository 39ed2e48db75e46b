------------------------ MODULE RuleCatalog_proofs ------------------------
(* Proofs about RuleCatalog: its types, that a request changes only the    *)
(* fields it names and enables a rule only knowingly, what can put a       *)
(* window out of order, that a container that has come into service has    *)
(* its default rules, that requests and seeders implement Catalog, and     *)
(* that they never wait for each other in a circle.                        *)
EXTENDS RuleCatalog, WellFoundedInduction, TLAPS

(* What a request has at each point: past its read, a copy of a row that   *)
(* is still there.                                                         *)
RequestsSound ==
    \A s \in Sessions :
        /\ pc[s] = "insert" => req[s].op = "create"
        /\ pc[s] \in {"read", "update"} => req[s].op # "create"
        /\ pc[s] \in {"update"} \cup Writing /\ req[s].op # "create" =>
              seen[s] \in Rule /\ rule[req[s].code] # None

(* What the holder of a lock is about to do: a creation inserts a key that *)
(* nobody has, a seeder the key of a default rule that nobody has, another *)
(* request updates.                                                        *)

LocksSound ==
    \A c \in Codes :
        /\ \A s \in Sessions : lock[c] = s =>
              IF req[s].op = "create" THEN rule[c] = None ELSE ~Nulls(s)
        /\ \A p \in Seeders : lock[c] = p => rule[c] = None /\ c \in Seeded

(* What a seeder has done so far: the rules it has looked up exist, are    *)
(* inserted by it, or are about to be.                                     *)
Done(p, i) ==
    \/ rule[Defaults[i]] # None
    \/ lock[Defaults[i]] = p
    \/ pending[p] /\ i = at[p] - 1

SeedsSound ==
    \A p \in Seeders :
        /\ stage[p] = "seeding" => \A i \in 1..(at[p] - 1) : Done(p, i)
        /\ stage[p] = "down" => at[p] = 1

IInv == TypeOK /\ RequestsSound /\ LocksSound /\ SeedsSound /\ SeededComplete

-----------------------------------------------------------------------------
(* Who ends a transaction has no lock left, and the others keep theirs.    *)
LEMMA ReleasedTyped ==
    ASSUME TypeOK, NEW t \in Sessions \cup Seeders
    PROVE  /\ Released(t) \in [Codes -> Sessions \cup Seeders \cup {None}]
           /\ \A c \in Codes : Released(t)[c] # t
           /\ \A u \in Sessions \cup Seeders, c \in Codes :
                 u # t => (Released(t)[c] = u <=> lock[c] = u)
  BY NoneAssumption DEF TypeOK, Released

(* The three kinds of request, and what their inputs are.                  *)
LEMMA RequestTyped ==
    ASSUME NEW r \in Request
    PROVE  /\ r.code \in Codes
           /\ r.op \in {"create", "update", "delete", "toggle"}
           /\ r.op = "create" => r.rule \in Rule
           /\ r.op = "update" =>
                 /\ r.patch.fields \subseteq Fields
                 /\ r.patch.values.enabled \in BOOLEAN \cup {None}
                 /\ r.patch.values.from \in Times \cup {None}
                 /\ r.patch.values.to \in Times \cup {None}
  <1>1. CASE r \in [op : {"create"}, code : Codes, rule : NewRules]
    BY <1>1, InputsAssumption
  <1>2. CASE r \in [op : {"update"}, code : Codes, patch : Patches]
    <2>1. r.patch \in Patch
      BY <1>2, InputsAssumption
    <2>2. /\ r.patch.fields \subseteq Fields
          /\ r.patch.values.enabled \in BOOLEAN \cup {None}
          /\ r.patch.values.from \in Times \cup {None}
          /\ r.patch.values.to \in Times \cup {None}
      BY <2>1 DEF Patch
    <2> QED
      BY <1>2, <2>2
  <1>3. CASE r \in [op : {"delete", "toggle"}, code : Codes]
    BY <1>3
  <1> QED
    BY <1>1, <1>2, <1>3 DEF Request

(* What a request that has read a rule sets, unless PostgreSQL refuses it. *)
LEMMA ValueTyped ==
    ASSUME NEW s \in Sessions, req[s] \in Request, req[s].op # "create",
           seen[s] \in Rule
    PROVE  /\ Named(s) \subseteq Fields
           /\ ~Nulls(s) /\ "enabled" \in Named(s) => Value(s).enabled \in BOOLEAN
           /\ Value(s).from \in Times \cup {None}
           /\ Value(s).to \in Times \cup {None}
  <1>1. CASE req[s].op = "update"
    BY <1>1, RequestTyped DEF Named, Value, Nulls
  <1>2. CASE req[s].op = "delete"
    BY <1>2 DEF Named, Value, Nulls, Rule, Fields
  <1>3. CASE req[s].op = "toggle"
    BY <1>3 DEF Named, Value, Nulls, Rule, Fields
  <1> QED
    BY <1>1, <1>2, <1>3, RequestTyped

(* The row that the holder of its lock leaves.                             *)
LEMMA WrittenTyped ==
    ASSUME IInv, NEW s \in Sessions, pc[s] \in Writing, lock[req[s].code] = s
    PROVE  /\ Written(s) \in Rule
           /\ req[s].op # "create" =>
                 /\ Changed(s) \subseteq Named(s)
                 /\ \A f \in Fields \ Changed(s) : Written(s)[f] = rule[req[s].code][f]
                 /\ \A f \in Changed(s) : Written(s)[f] = Value(s)[f]
  <1> DEFINE c == req[s].code
  <1>1. req[s] \in Request /\ c \in Codes
    BY RequestTyped DEF IInv, TypeOK, Writing
  <1>2. CASE req[s].op = "create"
    BY <1>1, <1>2, RequestTyped DEF Written
  <1>3. CASE req[s].op # "create"
    <2>1. seen[s] \in Rule /\ rule[c] \in Rule /\ ~Nulls(s)
      BY <1>1, <1>3 DEF IInv, TypeOK, RequestsSound, LocksSound
    <2>2. Changed(s) \subseteq Named(s) /\ Named(s) \subseteq Fields
      BY <1>1, <1>3, <2>1, ValueTyped DEF Changed
    <2>3. Written(s) = [f \in Fields |-> IF f \in Changed(s) THEN Value(s)[f]
                                                             ELSE rule[c][f]]
      BY <1>3 DEF Written
    <2>4. \A f \in Fields \ Changed(s) : Written(s)[f] = rule[c][f]
      BY <2>3
    <2>5. \A f \in Changed(s) : Written(s)[f] = Value(s)[f]
      BY <2>2, <2>3
    <2>6. Written(s)["enabled"] \in BOOLEAN
      BY <1>1, <1>3, <2>1, <2>2, <2>4, <2>5, ValueTyped DEF Rule, Fields
    <2>7. /\ Written(s)["from"] \in Times \cup {None}
          /\ Written(s)["to"] \in Times \cup {None}
      BY <1>1, <1>3, <2>1, <2>2, <2>4, <2>5, ValueTyped DEF Rule, Fields
    <2>8. Written(s) \in Rule
      BY <2>3, <2>6, <2>7 DEF Rule, Fields
    <2> QED
      BY <2>2, <2>4, <2>5, <2>8
  <1> QED
    BY <1>2, <1>3

(* The end of a request's transaction, with or without its writes.         *)
LEMMA WriteTyped ==
    ASSUME IInv, NEW s \in Sessions, pc[s] = "commit", Write(s) \/ UNCHANGED rule
    PROVE  /\ rule' \in [Codes -> Rule \cup {None}]
           /\ \A c \in Codes : rule[c] # None => rule'[c] # None
           /\ \A c \in Codes : rule'[c] # rule[c] =>
                 lock[c] = s /\ c = req[s].code /\ rule'[c] = Written(s)
  <1>1. rule \in [Codes -> Rule \cup {None}] /\ req[s].code \in Codes
    BY RequestTyped DEF IInv, TypeOK
  <1>2. CASE lock[req[s].code] = s /\ Write(s)
    <2>1. Written(s) \in Rule
      BY <1>2, WrittenTyped DEF Writing
    <2>2. rule' = [rule EXCEPT ![req[s].code] = Written(s)]
      BY <1>2 DEF Write
    <2> QED
      BY <1>1, <1>2, <2>1, <2>2, NoneAssumption
  <1>3. CASE UNCHANGED rule \/ lock[req[s].code] # s
    BY <1>1, <1>3 DEF Write
  <1> QED
    BY <1>2, <1>3

(* The end of a seeder's transaction: it inserts only what nobody has.     *)
LEMMA SeedWriteTyped ==
    ASSUME IInv, NEW p \in Seeders, SeedWrite(p) \/ UNCHANGED rule
    PROVE  /\ rule' \in [Codes -> Rule \cup {None}]
           /\ \A c \in Codes : rule[c] # None => rule'[c] = rule[c]
           /\ \A c \in Codes : rule'[c] # rule[c] => lock[c] = p
           /\ SeedWrite(p) => \A c \in Codes : lock[c] = p => rule'[c] # None
  <1>1. rule \in [Codes -> Rule \cup {None}]
    BY DEF IInv, TypeOK
  <1>2. SeedRule \in Rule
    BY DEF SeedRule, Rule
  <1>3. \A c \in Codes : lock[c] = p => rule[c] = None
    BY DEF IInv, LocksSound
  <1> QED
    BY <1>1, <1>2, <1>3, NoneAssumption DEF SeedWrite

-----------------------------------------------------------------------------
(* What the requests know survives the seeders' steps, and what the        *)
(* seeders know survives the requests' steps: no rule goes away.           *)
LEMMA RequestsFrame ==
    ASSUME RequestsSound, UNCHANGED requests, TypeOK,
           \A c \in Codes : rule[c] # None => rule'[c] # None
    PROVE  RequestsSound'
  <1>1. \A s \in Sessions : pc[s] # "idle" => req[s].code \in Codes
    BY RequestTyped DEF TypeOK
  <1> QED
    BY <1>1 DEF RequestsSound, requests, Writing

LEMMA SeedsFrame ==
    ASSUME IInv, UNCHANGED seeding,
           \A c \in Codes : rule[c] # None => rule'[c] # None,
           \A p \in Seeders, c \in Codes : lock[c] = p => lock'[c] = p
    PROVE  SeedsSound' /\ SeededComplete'
  <1>1. \A p \in Seeders : \A i \in 1..(at[p] - 1) : Defaults[i] \in Codes
    BY DefaultsAssumption DEF IInv, TypeOK
  <1>2. \A i \in 1..Len(Defaults) : Defaults[i] \in Codes
    BY DefaultsAssumption
  <1>3. \A p \in Seeders : \A i \in 1..(at[p] - 1) : Done(p, i) => Done(p, i)'
    BY <1>1 DEF Done, seeding
  <1>4. SeedsSound'
    BY <1>3 DEF IInv, SeedsSound, seeding
  <1>5. SeededComplete'
    BY <1>2 DEF IInv, SeededComplete, seeding
  <1> QED
    BY <1>4, <1>5

-----------------------------------------------------------------------------
LEMMA InitIInv == Init => IInv
  <1> SUFFICES ASSUME Init PROVE IInv
    OBVIOUS
  <1>1. TypeOK
    BY NoneAssumption, DefaultsAssumption DEF Init, TypeOK, Writing
  <1>2. RequestsSound
    BY DEF Init, RequestsSound, Writing
  <1>3. LocksSound
    BY NoneAssumption DEF Init, LocksSound
  <1>4. SeedsSound /\ SeededComplete
    BY DEF Init, SeedsSound, SeededComplete
  <1> QED
    BY <1>1, <1>2, <1>3, <1>4 DEF IInv

(* A request ends, whichever way: refused, failed, or committed.           *)
LEMMA RequestEnds ==
    ASSUME IInv, NEW s \in Sessions, Finish(s), lock' = Released(s),
           rule' \in [Codes -> Rule \cup {None}],
           \A c \in Codes : rule[c] # None => rule'[c] # None,
           \A c \in Codes : rule'[c] # rule[c] => lock[c] = s,
           UNCHANGED seeding, faults' \in Nat
    PROVE  IInv'
  <1> USE DEF IInv
  <1>1. /\ \A t \in Sessions \ {s} :
              pc'[t] = pc[t] /\ req'[t] = req[t] /\ seen'[t] = seen[t]
        /\ pc'[s] = "idle"
        /\ pc' \in [Sessions -> {"idle", "insert", "read", "update"} \cup Writing]
        /\ req' \in [Sessions -> Request \cup {None}]
        /\ seen' \in [Sessions -> Rule \cup {None}]
    BY DEF TypeOK, Finish, Goto
  <1>2. /\ lock' \in [Codes -> Sessions \cup Seeders \cup {None}]
        /\ \A c \in Codes : lock'[c] # s
        /\ \A u \in Sessions \cup Seeders, c \in Codes :
              u # s => (lock'[c] = u <=> lock[c] = u)
    BY ReleasedTyped
  <1>3. TypeOK'
    BY <1>1, <1>2, ActorsAssumption DEF TypeOK, seeding
  <1>4. RequestsSound'
    <2>1. \A t \in Sessions : pc[t] # "idle" => req[t].code \in Codes
      BY RequestTyped DEF TypeOK
    <2> QED
      BY <1>1, <2>1 DEF RequestsSound, Writing
  <1>5. LocksSound'
    <2>1. ASSUME NEW c \in Codes, NEW t \in Sessions, lock'[c] = t
          PROVE  IF req'[t].op = "create" THEN rule'[c] = None ELSE ~Nulls(t)'
      <3>1. t # s /\ lock[c] = t /\ rule'[c] = rule[c]
        BY <1>2, <2>1
      <3>2. Nulls(t)' = Nulls(t)
        BY <1>1, <3>1 DEF Nulls, Named, Value
      <3> QED
        BY <1>1, <3>1, <3>2 DEF LocksSound
    <2>2. ASSUME NEW c \in Codes, NEW p \in Seeders, lock'[c] = p
          PROVE  rule'[c] = None /\ c \in Seeded
      BY <1>2, <2>2, ActorsAssumption DEF LocksSound
    <2> QED
      BY <2>1, <2>2 DEF LocksSound
  <1>6. SeedsSound' /\ SeededComplete'
    BY <1>2, SeedsFrame, ActorsAssumption
  <1> QED
    BY <1>3, <1>4, <1>5, <1>6

LEMMA HoldsNothing ==
    ASSUME TypeOK, NEW s \in Sessions, pc[s] \notin Writing
    PROVE  Released(s) = lock
  BY DEF TypeOK, Released

(* A request takes the lock of its rule: it inserts or updates.            *)
LEMMA RequestLocks ==
    ASSUME IInv, NEW s \in Sessions, Insert(s) \/ Update(s)
    PROVE  IInv'
  <1> USE DEF IInv
  <1> DEFINE c == req[s].code
  <1>1. /\ req[s] \in Request /\ c \in Codes /\ lock[c] = None
        /\ lock' = [lock EXCEPT ![c] = s]
        /\ pc' = [pc EXCEPT ![s] = "answer"]
        /\ UNCHANGED <<rule, req, seen, seeding, faults>>
        /\ pc[s] \in {"insert", "update"}
    BY RequestTyped DEF Insert, Update, Goto, TypeOK
  <1>2. IF req[s].op = "create" THEN rule[c] = None
        ELSE ~Nulls(s) /\ seen[s] \in Rule /\ rule[c] # None
    BY DEF Insert, Update, RequestsSound
  <1>3. /\ lock' \in [Codes -> Sessions \cup Seeders \cup {None}]
        /\ lock'[c] = s
        /\ \A d \in Codes : d # c => lock'[d] = lock[d]
    BY <1>1 DEF TypeOK
  <1>4. /\ pc' \in [Sessions -> {"idle", "insert", "read", "update"} \cup Writing]
        /\ pc'[s] = "answer"
        /\ \A t \in Sessions : t # s => pc'[t] = pc[t]
    BY <1>1 DEF TypeOK, Writing
  <1>5. TypeOK'
    <2>1. \A t \in Sessions, d \in Codes :
             lock'[d] = t => pc'[t] \in Writing /\ req'[t].code = d
      BY <1>1, <1>3, <1>4 DEF TypeOK, Writing
    <2>2. \A p \in Seeders, d \in Codes : lock'[d] = p => stage'[p] = "seeding"
      BY <1>1, <1>3, ActorsAssumption DEF TypeOK, seeding
    <2>3. \A t \in Sessions : pc'[t] # "idle" => req'[t] \in Request
      BY <1>1, <1>4 DEF TypeOK
    <2> QED
      BY <1>1, <1>3, <1>4, <2>1, <2>2, <2>3 DEF TypeOK, seeding
  <1>6. RequestsSound'
    BY <1>1, <1>2, <1>4 DEF RequestsSound, Writing
  <1>7. LocksSound'
    <2>1. \A t \in Sessions : Nulls(t)' = Nulls(t)
      BY <1>1 DEF Nulls, Named, Value
    <2> QED
      BY <1>1, <1>2, <1>3, <2>1, ActorsAssumption DEF LocksSound
  <1>8. SeedsSound' /\ SeededComplete'
    BY <1>1, <1>3, SeedsFrame, NoneAssumption
  <1> QED
    BY <1>5, <1>6, <1>7, <1>8

(* A request goes on without touching a lock or a row.                     *)
LEMMA RequestGoesOn ==
    ASSUME IInv, NEW s \in Sessions,
           \/ Receive(s) \/ Skip(s) \/ Answer(s)
           \/ Read(s) /\ rule[req[s].code] # None
    PROVE  IInv'
  <1> USE DEF IInv
  <1>1. UNCHANGED <<rule, lock, seeding, faults>>
    BY DEF Receive, Skip, Answer, Read
  <1>2. /\ pc' \in [Sessions -> {"idle", "insert", "read", "update"} \cup Writing]
        /\ req' \in [Sessions -> Request \cup {None}]
        /\ seen' \in [Sessions -> Rule \cup {None}]
        /\ \A t \in Sessions : t # s =>
              pc'[t] = pc[t] /\ req'[t] = req[t] /\ seen'[t] = seen[t]
        /\ pc'[s] # "idle" /\ req'[s] \in Request
        /\ pc[s] \in Writing => pc'[s] \in Writing
        /\ pc[s] \in Writing \cup {"update"} => req'[s] = req[s] /\ seen'[s] = seen[s]
    <2>1. CASE Receive(s)
      BY <2>1, RequestTyped DEF TypeOK, Receive, Goto, Writing
    <2>2. CASE Skip(s) \/ Answer(s)
      BY <2>2 DEF TypeOK, Skip, Answer, Goto, Writing
    <2>3. CASE Read(s) /\ rule[req[s].code] # None
      <3>1. req[s] \in Request /\ req[s].code \in Codes
        BY <2>3, RequestTyped DEF TypeOK, Read
      <3>2. rule[req[s].code] \in Rule
        BY <2>3, <3>1 DEF TypeOK
      <3>3. /\ pc' = [pc EXCEPT ![s] = "update"] /\ req' = req
            /\ seen' = [seen EXCEPT ![s] = rule[req[s].code]]
            /\ pc[s] = "read"
        BY <2>3 DEF Read, Goto
      <3>4. pc \in [Sessions -> {"idle", "insert", "read", "update"} \cup Writing]
            /\ seen \in [Sessions -> Rule \cup {None}]
        BY DEF TypeOK
      <3>5. /\ pc' \in [Sessions -> {"idle", "insert", "read", "update"} \cup Writing]
            /\ seen' \in [Sessions -> Rule \cup {None}]
            /\ pc'[s] = "update"
        BY <3>2, <3>3, <3>4
      <3>6. req' \in [Sessions -> Request \cup {None}]
        BY <3>3 DEF TypeOK
      <3> QED
        BY <3>1, <3>3, <3>4, <3>5, <3>6 DEF Writing
    <2> QED
      BY <2>1, <2>2, <2>3
  <1>3. TypeOK'
    BY <1>1, <1>2 DEF TypeOK, seeding
  <1>4. RequestsSound!(s)'
    <2>1. CASE Receive(s)
      BY <1>1, <2>1, RequestTyped DEF Receive, Goto, TypeOK, Writing
    <2>2. CASE Skip(s)
      BY <1>1, <2>2 DEF Skip, Goto, TypeOK, Writing, RequestsSound
    <2>3. CASE Answer(s)
      BY <1>1, <2>3 DEF Answer, Goto, TypeOK, Writing, RequestsSound
    <2>4. CASE Read(s) /\ rule[req[s].code] # None
      <3>1. req[s].code \in Codes
        BY <2>4, RequestTyped DEF Read, TypeOK
      <3> QED
        BY <1>1, <2>4, <3>1 DEF Read, Goto, TypeOK, Writing, RequestsSound
    <2> QED
      BY <2>1, <2>2, <2>3, <2>4
  <1>5. RequestsSound'
    BY <1>1, <1>2, <1>4 DEF RequestsSound
  <1>6. LocksSound'
    <2>1. ASSUME NEW t \in Sessions, pc[t] \in Writing
          PROVE  Nulls(t)' = Nulls(t) /\ req'[t] = req[t]
      BY <1>2, <2>1 DEF Nulls, Named, Value
    <2> QED
      BY <1>1, <2>1 DEF LocksSound, TypeOK
  <1>7. SeedsSound' /\ SeededComplete'
    BY <1>1, SeedsFrame
  <1> QED
    BY <1>3, <1>5, <1>6, <1>7

LEMMA RequestStep ==
    ASSUME IInv, NEW s \in Sessions,
           Receive(s) \/ Turn(s) \/ Update(s) \/ Abort(s) \/ CommitError(s)
    PROVE  IInv'
  <1>1. faults \in Nat /\ rule \in [Codes -> Rule \cup {None}] /\ TypeOK
    BY DEF IInv, TypeOK
  <1>2. CASE Insert(s) \/ Update(s)
    BY <1>2, RequestLocks
  <1>3. CASE Receive(s) \/ Skip(s) \/ Answer(s) \/ (Read(s) /\ rule[req[s].code] # None)
    BY <1>3, RequestGoesOn
  <1>4. CASE Duplicate(s) \/ Refuse(s) \/ (Read(s) /\ rule[req[s].code] = None)
    <2>1. lock' = Released(s)
      BY <1>1, <1>4, HoldsNothing DEF Duplicate, Refuse, Read, Writing
    <2>2. Finish(s) /\ UNCHANGED <<rule, seeding, faults>>
      BY <1>4 DEF Duplicate, Refuse, Read
    <2> QED
      BY <1>1, <2>1, <2>2, RequestEnds
  <1>5. CASE Abort(s)
    BY <1>1, <1>5, RequestEnds DEF Abort, Fault
  <1>6. CASE Commit(s)
    BY <1>1, <1>6, RequestEnds, WriteTyped DEF Commit
  <1>7. CASE CommitError(s)
    BY <1>1, <1>7, RequestEnds, WriteTyped DEF CommitError, Fault
  <1> QED
    BY <1>2, <1>3, <1>4, <1>5, <1>6, <1>7 DEF Turn

-----------------------------------------------------------------------------
(* A seeder's transaction ends without a commit, or after one whose answer *)
(* was lost.                                                               *)
LEMMA SeederFalls ==
    ASSUME IInv, NEW p \in Seeders, SeedDown(p), UNCHANGED requests,
           faults' \in Nat,
           rule' \in [Codes -> Rule \cup {None}],
           \A c \in Codes : rule[c] # None => rule'[c] = rule[c],
           \A c \in Codes : rule'[c] # rule[c] => lock[c] = p
    PROVE  IInv'
  <1> USE DEF IInv
  <1>1. /\ lock' \in [Codes -> Sessions \cup Seeders \cup {None}]
        /\ \A c \in Codes : lock'[c] # p
        /\ \A u \in Sessions \cup Seeders, c \in Codes :
              u # p => (lock'[c] = u <=> lock[c] = u)
    BY ReleasedTyped DEF SeedDown
  <1>2. /\ stage' = [stage EXCEPT ![p] = "down"]
        /\ at' = [at EXCEPT ![p] = 1]
        /\ pending' = [pending EXCEPT ![p] = FALSE]
    BY DEF SeedDown
  <1>3. TypeOK'
    <2>1. /\ stage' \in [Seeders -> {"seeding", "serving", "down"}]
          /\ at' \in [Seeders -> 1..(Len(Defaults) + 1)]
          /\ pending' \in [Seeders -> BOOLEAN]
          /\ \A q \in Seeders : pending'[q] => at'[q] > 1 /\ stage'[q] = "seeding"
          /\ \A q \in Seeders : q # p => stage'[q] = stage[q]
      BY <1>2, DefaultsAssumption DEF TypeOK
    <2>2. \A s \in Sessions, c \in Codes :
             lock'[c] = s => pc'[s] \in Writing /\ req'[s].code = c
      BY <1>1, ActorsAssumption DEF TypeOK, requests
    <2>3. \A q \in Seeders, c \in Codes : lock'[c] = q => stage'[q] = "seeding"
      BY <1>1, <2>1 DEF TypeOK
    <2>4. /\ pc' \in [Sessions -> {"idle", "insert", "read", "update"} \cup Writing]
          /\ req' \in [Sessions -> Request \cup {None}]
          /\ seen' \in [Sessions -> Rule \cup {None}]
          /\ \A s \in Sessions : pc'[s] # "idle" => req'[s] \in Request
      BY DEF TypeOK, requests
    <2> QED
      BY <1>1, <2>1, <2>2, <2>3, <2>4 DEF TypeOK
  <1>4. RequestsSound'
    BY RequestsFrame
  <1>5. LocksSound'
    <2>1. \A s \in Sessions : Nulls(s)' = Nulls(s)
      BY DEF Nulls, Named, Value, requests
    <2>2. \A c \in Codes : lock'[c] # None /\ lock'[c] \in Sessions \cup Seeders
             => lock'[c] = lock[c] /\ rule'[c] = rule[c]
      BY <1>1
    <2> QED
      BY <2>1, <2>2, NoneAssumption DEF LocksSound, requests
  <1>6. SeedsSound'
    <2>1. ASSUME NEW q \in Seeders, q # p, NEW i \in 1..(at[q] - 1), Done(q, i)
          PROVE  Done(q, i)'
      <3>1. Defaults[i] \in Codes
        BY DefaultsAssumption DEF TypeOK
      <3> QED
        BY <1>1, <1>2, <2>1, <3>1 DEF Done, TypeOK
    <2> QED
      BY <1>2, <2>1 DEF SeedsSound, TypeOK
  <1>7. SeededComplete'
    BY <1>2, DefaultsAssumption DEF SeededComplete, TypeOK
  <1> QED
    BY <1>3, <1>4, <1>5, <1>6, <1>7

LEMMA SeedSelects ==
    ASSUME IInv, NEW p \in Seeders, SeedSelect(p)
    PROVE  IInv'
  <1> USE DEF IInv
  <1>1. /\ UNCHANGED <<rule, lock, requests, stage, faults>>
        /\ stage[p] = "seeding" /\ ~pending[p] /\ at[p] <= Len(Defaults)
        /\ at' = [at EXCEPT ![p] = at[p] + 1]
        /\ pending' = [pending EXCEPT ![p] = ~SeedSkips(p)]
        /\ at[p] \in 1..(Len(Defaults) + 1)
    BY DEF SeedSelect, TypeOK
  <1>2. Len(Defaults) \in Nat
    BY DefaultsAssumption
  <1>3. at'[p] = at[p] + 1 /\ at'[p] \in 2..(Len(Defaults) + 1)
    BY <1>1, <1>2 DEF TypeOK
  <1>4. SeedSkips(p) \in BOOLEAN
    BY DEF SeedSkips
  <1>5. pending' \in [Seeders -> BOOLEAN] /\ pending'[p] = ~SeedSkips(p)
    BY <1>1, <1>4 DEF TypeOK
  <1>6. TypeOK'
    BY <1>1, <1>2, <1>3, <1>5 DEF TypeOK, requests
  <1>7. RequestsSound'
    BY <1>1, RequestsFrame
  <1>8. LocksSound'
    BY <1>1 DEF LocksSound, Nulls, Named, Value, requests
  <1>9. SeedsSound'
    <2>1. ASSUME NEW q \in Seeders, q # p PROVE SeedsSound!(q)'
      BY <1>1, <2>1 DEF SeedsSound, Done, TypeOK
    <2>2. ASSUME NEW i \in 1..(at'[p] - 1) PROVE Done(p, i)'
      <3>1. CASE i = at[p]
        <4>1. CASE SeedSkips(p)
          BY <1>1, <3>1, <4>1 DEF Done, SeedSkips
        <4>2. CASE ~SeedSkips(p)
          <5>1. pending'[p]
            BY <1>5, <4>2
          <5>2. i = at'[p] - 1
            BY <1>1, <1>3, <3>1
          <5> QED
            BY <5>1, <5>2 DEF Done
        <4> QED
          BY <4>1, <4>2
      <3>2. CASE i # at[p]
        <4>1. i \in 1..(at[p] - 1)
          BY <1>1, <1>2, <1>3, <3>2
        <4>2. Done(p, i)
          BY <1>1, <4>1 DEF SeedsSound
        <4> QED
          BY <1>1, <4>2 DEF Done
      <3> QED
        BY <3>1, <3>2
    <2>3. stage'[p] = "seeding"
      BY <1>1
    <2> QED
      BY <2>1, <2>2, <2>3 DEF SeedsSound
  <1>10. SeededComplete'
    BY <1>1 DEF SeededComplete
  <1> QED
    BY <1>6, <1>7, <1>8, <1>9, <1>10

LEMMA SeedFlushes ==
    ASSUME IInv, NEW p \in Seeders, SeedFlush(p)
    PROVE  IInv'
  <1> USE DEF IInv
  <1> DEFINE c == Added(p)
  <1>1. /\ UNCHANGED <<rule, requests, stage, at, faults>>
        /\ stage[p] = "seeding" /\ pending[p]
        /\ rule[c] = None /\ lock[c] = None
        /\ lock' = [lock EXCEPT ![c] = p]
        /\ pending' = [pending EXCEPT ![p] = FALSE]
    BY DEF SeedFlush
  <1>2. c \in Codes /\ c = Defaults[at[p] - 1] /\ c \in Seeded
    <2>1. at[p] \in 2..(Len(Defaults) + 1)
      BY <1>1, DefaultsAssumption DEF TypeOK
    <2>2. at[p] - 1 \in 1..Len(Defaults)
      BY <2>1, DefaultsAssumption
    <2> QED
      BY <2>2, DefaultsAssumption DEF Added, Seeded
  <1>3. /\ lock' \in [Codes -> Sessions \cup Seeders \cup {None}]
        /\ lock'[c] = p
        /\ \A d \in Codes : d # c => lock'[d] = lock[d]
    BY <1>1, <1>2 DEF TypeOK
  <1>4. TypeOK'
    <2>1. \A s \in Sessions, d \in Codes :
             lock'[d] = s => pc'[s] \in Writing /\ req'[s].code = d
      BY <1>1, <1>3, ActorsAssumption DEF TypeOK, requests
    <2>2. \A q \in Seeders, d \in Codes : lock'[d] = q => stage'[q] = "seeding"
      BY <1>1, <1>3 DEF TypeOK
    <2>3. /\ pending' \in [Seeders -> BOOLEAN]
          /\ \A q \in Seeders : pending'[q] => at'[q] > 1 /\ stage'[q] = "seeding"
      BY <1>1 DEF TypeOK
    <2> QED
      BY <1>1, <1>3, <2>1, <2>2, <2>3 DEF TypeOK, requests
  <1>5. RequestsSound'
    BY <1>1, RequestsFrame
  <1>6. LocksSound'
    <2>1. \A s \in Sessions : Nulls(s)' = Nulls(s)
      BY <1>1 DEF Nulls, Named, Value, requests
    <2> QED
      BY <1>1, <1>2, <1>3, <2>1, ActorsAssumption DEF LocksSound, requests
  <1>7. SeedsSound'
    <2>1. ASSUME NEW q \in Seeders, NEW i \in 1..(at[q] - 1), Done(q, i)
          PROVE  Done(q, i)'
      <3>1. Defaults[i] \in Codes
        BY DefaultsAssumption DEF TypeOK
      <3> QED
        BY <1>1, <1>2, <1>3, <2>1, <3>1, NoneAssumption DEF Done, TypeOK
    <2> QED
      BY <1>1, <2>1 DEF SeedsSound
  <1>8. SeededComplete'
    BY <1>1 DEF SeededComplete
  <1> QED
    BY <1>4, <1>5, <1>6, <1>7, <1>8

LEMMA SeedCommits ==
    ASSUME IInv, NEW p \in Seeders, SeedCommit(p)
    PROVE  IInv'
  <1> USE DEF IInv
  <1>1. /\ UNCHANGED <<requests, at, pending, faults>>
        /\ stage[p] = "seeding" /\ ~pending[p] /\ at[p] > Len(Defaults)
        /\ SeedWrite(p) /\ lock' = Released(p)
        /\ stage' = [stage EXCEPT ![p] = "serving"]
    BY DEF SeedCommit
  <1>2. /\ rule' \in [Codes -> Rule \cup {None}]
        /\ \A c \in Codes : rule[c] # None => rule'[c] # None
        /\ \A c \in Codes : rule'[c] # rule[c] => lock[c] = p
        /\ \A c \in Codes : lock[c] = p => rule'[c] # None
    BY <1>1, SeedWriteTyped
  <1>3. /\ lock' \in [Codes -> Sessions \cup Seeders \cup {None}]
        /\ \A c \in Codes : lock'[c] # p
        /\ \A u \in Sessions \cup Seeders, c \in Codes :
              u # p => (lock'[c] = u <=> lock[c] = u)
    BY <1>1, ReleasedTyped
  <1>4. /\ stage' \in [Seeders -> {"seeding", "serving", "down"}]
        /\ stage'[p] = "serving"
        /\ \A q \in Seeders : q # p => stage'[q] = stage[q]
    BY <1>1 DEF TypeOK
  <1>5. TypeOK'
    <2>1. \A s \in Sessions, c \in Codes :
             lock'[c] = s => pc'[s] \in Writing /\ req'[s].code = c
      BY <1>1, <1>3, ActorsAssumption DEF TypeOK, requests
    <2>2. \A q \in Seeders, c \in Codes : lock'[c] = q => stage'[q] = "seeding"
      BY <1>3, <1>4 DEF TypeOK
    <2>3. \A q \in Seeders : pending'[q] => at'[q] > 1 /\ stage'[q] = "seeding"
      BY <1>1, <1>4 DEF TypeOK
    <2> QED
      BY <1>1, <1>2, <1>3, <1>4, <2>1, <2>2, <2>3 DEF TypeOK, requests
  <1>6. RequestsSound'
    BY <1>1, <1>2, RequestsFrame
  <1>7. LocksSound'
    <2>1. \A s \in Sessions : Nulls(s)' = Nulls(s)
      BY <1>1 DEF Nulls, Named, Value, requests
    <2>2. \A c \in Codes : lock'[c] \in Sessions \cup Seeders
             => lock'[c] = lock[c] /\ rule'[c] = rule[c]
      BY <1>2, <1>3
    <2> QED
      BY <1>1, <2>1, <2>2 DEF LocksSound, requests
  <1>8. \A i \in 1..Len(Defaults) : rule'[Defaults[i]] # None
    <2> SUFFICES ASSUME NEW i \in 1..Len(Defaults) PROVE rule'[Defaults[i]] # None
      OBVIOUS
    <2>1. i \in 1..(at[p] - 1) /\ Defaults[i] \in Codes
      BY <1>1, DefaultsAssumption DEF TypeOK
    <2>2. Done(p, i)
      BY <1>1, <2>1 DEF SeedsSound
    <2> QED
      BY <1>1, <1>2, <2>1, <2>2 DEF Done
  <1>9. SeedsSound'
    <2>1. ASSUME NEW q \in Seeders, q # p, NEW i \in 1..(at[q] - 1), Done(q, i)
          PROVE  Done(q, i)'
      <3>1. Defaults[i] \in Codes
        BY DefaultsAssumption DEF TypeOK
      <3> QED
        BY <1>1, <1>2, <1>3, <2>1, <3>1 DEF Done
    <2> QED
      BY <1>1, <1>4, <2>1 DEF SeedsSound
  <1>10. SeededComplete'
    <2>1. \A i \in 1..Len(Defaults) : Defaults[i] \in Codes
      BY DefaultsAssumption
    <2> QED
      BY <1>2, <1>4, <1>8, <2>1 DEF SeededComplete
  <1> QED
    BY <1>5, <1>6, <1>7, <1>9, <1>10

LEMMA SeederRestarts ==
    ASSUME IInv, NEW p \in Seeders, Restart(p)
    PROVE  IInv'
  <1> USE DEF IInv
  <1>1. /\ UNCHANGED <<rule, lock, requests, at, pending, faults>>
        /\ stage[p] = "down"
        /\ stage' = [stage EXCEPT ![p] = "seeding"]
    BY DEF Restart
  <1>2. at[p] = 1
    BY <1>1 DEF SeedsSound
  <1>3. TypeOK'
    BY <1>1 DEF TypeOK, requests
  <1>4. RequestsSound' /\ LocksSound'
    BY <1>1, RequestsFrame DEF LocksSound, Nulls, Named, Value, requests
  <1>5. SeedsSound'
    <2>1. /\ \A q \in Seeders, i \in Int : Done(q, i) => Done(q, i)'
          /\ \A q \in Seeders : at'[q] = at[q]
          /\ \A q \in Seeders : q # p => stage'[q] = stage[q]
          /\ stage'[p] = "seeding"
      BY <1>1 DEF Done, TypeOK
    <2>2. \A i \in 1..(at'[p] - 1) : FALSE
      BY <1>2, <2>1
    <2> QED
      BY <2>1, <2>2 DEF SeedsSound
  <1>6. SeededComplete'
    BY <1>1 DEF SeededComplete, TypeOK
  <1> QED
    BY <1>3, <1>4, <1>5, <1>6

LEMMA SeedStep ==
    ASSUME IInv, NEW p \in Seeders, SeedTurn(p) \/ SeedError(p)
    PROVE  IInv'
  <1>1. faults \in Nat /\ rule \in [Codes -> Rule \cup {None}]
    BY DEF IInv, TypeOK
  <1>2. CASE SeedClash(p)
    BY <1>1, <1>2, SeederFalls DEF SeedClash
  <1>3. CASE SeedError(p)
    BY <1>1, <1>3, SeederFalls, SeedWriteTyped DEF SeedError, Fault
  <1> QED
    BY <1>2, <1>3, SeedSelects, SeedFlushes, SeedCommits, SeederRestarts DEF SeedTurn

-----------------------------------------------------------------------------
LEMMA NextIInv == IInv /\ [Next]_vars => IInv'
  <1> SUFFICES ASSUME IInv, [Next]_vars PROVE IInv'
    OBVIOUS
  <1>1. CASE UNCHANGED vars
    <2>1. UNCHANGED <<rule, lock, pc, req, seen, stage, at, pending, faults>>
      BY <1>1 DEF vars, requests, seeding
    <2>2. TypeOK'
      BY <2>1 DEF IInv, TypeOK
    <2>3. RequestsSound' /\ LocksSound'
      BY <2>1 DEF IInv, RequestsSound, LocksSound, Nulls, Named, Value
    <2>4. SeedsSound' /\ SeededComplete'
      BY <2>1, SeedsFrame DEF seeding
    <2> QED
      BY <2>2, <2>3, <2>4 DEF IInv
  <1>2. CASE Next
    BY <1>2, RequestStep, SeedStep DEF Next
  <1> QED
    BY <1>1, <1>2

LEMMA Invariant == Spec => []IInv
  BY InitIInv, NextIInv, PTL DEF Spec

(* Rows are well-formed, and a lock belongs to an open transaction that    *)
(* has written: nothing is left locked when a request or a seeder fails.   *)
THEOREM RuleTypes == Spec => []TypeOK
  BY Invariant, PTL DEF IInv

(* Whatever seeding races with and wherever it fails, a container that has *)
(* come into service has all default rules.                                *)
THEOREM SeedingComplete == Spec => []SeededComplete
  BY Invariant, PTL DEF IInv

(* Which steps change a rule that exists: the end of a request for it that *)
(* is not a creation.                                                      *)
LEMMA WhoChanges ==
    ASSUME IInv, [Next]_vars, NEW c \in Codes, rule[c] # None, rule'[c] # rule[c]
    PROVE  \E s \in Sessions :
              /\ pc[s] = "commit" /\ lock[c] = s /\ c = req[s].code
              /\ req[s].op # "create" /\ rule'[c] = Written(s)
  <1>1. ASSUME NEW p \in Seeders, SeedTurn(p) \/ SeedError(p) PROVE FALSE
    <2>1. SeedWrite(p) \/ UNCHANGED rule
      BY <1>1 DEF SeedTurn, SeedError, SeedSelect, SeedFlush, SeedClash,
         SeedCommit, Restart
    <2> QED
      BY <2>1, SeedWriteTyped
  <1>2. ASSUME NEW s \in Sessions,
               Receive(s) \/ Turn(s) \/ Update(s) \/ Abort(s) \/ CommitError(s)
        PROVE  pc[s] = "commit" /\ (Write(s) \/ UNCHANGED rule)
    BY <1>2 DEF Receive, Turn, Insert, Duplicate, Read, Skip, Refuse, Update,
       Abort, Answer, Commit, CommitError
  <1>3. PICK s \in Sessions : pc[s] = "commit" /\ (Write(s) \/ UNCHANGED rule)
    BY <1>1, <1>2 DEF Next, vars
  <1>4. lock[c] = s /\ c = req[s].code /\ rule'[c] = Written(s)
    BY <1>3, WriteTyped
  <1>5. req[s].op # "create"
    BY <1>4 DEF IInv, LocksSound
  <1> QED
    BY <1>3, <1>4, <1>5

(* A rule that exists is changed by updates, deletions and toggles of it   *)
(* only, and by each of them only in the fields it names, however old the  *)
(* copy is that it works on: concurrent changes of different fields both   *)
(* last, and neither a creation nor a seeding container undoes what an     *)
(* administrator has set (rule_repository.py:80-115, seed_rules.py:35-46). *)
OnlyNamedFields ==
    [][\A c \in Codes : rule[c] # None /\ rule'[c] # rule[c] =>
          \E s \in Sessions :
              /\ pc[s] = "commit" /\ req[s].code = c /\ req[s].op # "create"
              /\ rule'[c] # None
              /\ \A f \in Fields \ Named(s) : rule'[c][f] = rule[c][f]]_vars

(* However many requests race, and however old their copies are, each of   *)
(* them changes only the fields it names.                                  *)
THEOREM NamedFieldsOnly == Spec => OnlyNamedFields
  <1>1. ASSUME IInv, [Next]_vars PROVE OnlyNamedFields!1
    <2> SUFFICES ASSUME NEW c \in Codes, rule[c] # None, rule'[c] # rule[c]
                 PROVE  \E s \in Sessions :
                           /\ pc[s] = "commit" /\ req[s].code = c
                           /\ req[s].op # "create"
                           /\ rule'[c] # None
                           /\ \A f \in Fields \ Named(s) : rule'[c][f] = rule[c][f]
      OBVIOUS
    <2>1. PICK s \in Sessions :
              /\ pc[s] = "commit" /\ lock[c] = s /\ c = req[s].code
              /\ req[s].op # "create" /\ rule'[c] = Written(s)
      BY <1>1, WhoChanges
    <2>2. /\ Written(s) \in Rule
          /\ Changed(s) \subseteq Named(s)
          /\ \A f \in Fields \ Changed(s) : Written(s)[f] = rule[c][f]
      BY <1>1, <2>1, WrittenTyped DEF Writing
    <2> QED
      BY <2>1, <2>2, NoneAssumption
  <1> QED
    BY <1>1, Invariant, PTL DEF Spec, OnlyNamedFields

(* A rule is enabled only by a request that has read it disabled.          *)
THEOREM KnowinglyEnabled == Spec => EnabledKnowingly
  <1>1. ASSUME IInv, [Next]_vars PROVE EnabledKnowingly!1
    <2> SUFFICES ASSUME NEW c \in Codes,
                        rule[c] # None, ~rule[c].enabled, rule'[c].enabled
                 PROVE  \E s \in Sessions :
                           /\ pc[s] = "commit" /\ req[s].code = c
                           /\ ~seen[s].enabled
                           /\ req[s].op # "delete"
      OBVIOUS
    <2>1. PICK s \in Sessions :
              /\ pc[s] = "commit" /\ lock[c] = s /\ c = req[s].code
              /\ req[s].op # "create" /\ rule'[c] = Written(s)
      BY <1>1, WhoChanges
    <2>2. /\ Written(s) \in Rule
          /\ \A f \in Fields \ Changed(s) : Written(s)[f] = rule[c][f]
          /\ \A f \in Changed(s) : Written(s)[f] = Value(s)[f]
      BY <1>1, <2>1, WrittenTyped DEF Writing
    <2>3. rule[c] \in Rule /\ seen[s] \in Rule /\ req[s] \in Request
      BY <1>1, <2>1 DEF IInv, TypeOK, RequestsSound, Writing
    <2>4. "enabled" \in Changed(s)
      BY <2>1, <2>2, <2>3 DEF Fields, Rule
    <2>5. Value(s).enabled # seen[s].enabled /\ Value(s).enabled = rule'[c].enabled
      BY <2>1, <2>2, <2>4 DEF Changed
    <2>6. rule'[c].enabled = TRUE /\ seen[s].enabled \in BOOLEAN
      BY <2>1, <2>2, <2>3 DEF Rule
    <2>7. req[s].op # "delete"
      BY <2>3, <2>5, <2>6 DEF Value, Rule
    <2> QED
      BY <2>1, <2>5, <2>6, <2>7
  <1> QED
    BY <1>1, Invariant, PTL DEF Spec, EnabledKnowingly

(* What comes into the table: a default rule, or what a creation asks for, *)
(* each with its window in order.                                          *)
LEMMA CreatedInOrder ==
    ASSUME IInv, [Next]_vars, NEW c \in Codes, rule[c] = None, rule'[c] # None
    PROVE  Window(rule'[c])
  <1>1. Window(SeedRule)
    BY DEF Window, SeedRule
  <1>2. ASSUME NEW p \in Seeders, SeedTurn(p) \/ SeedError(p)
        PROVE  rule'[c] = SeedRule
    <2>1. SeedWrite(p) \/ UNCHANGED rule
      BY <1>2 DEF SeedTurn, SeedError, SeedSelect, SeedFlush, SeedClash,
         SeedCommit, Restart
    <2> QED
      BY <2>1 DEF SeedWrite
  <1>3. ASSUME NEW s \in Sessions,
               Receive(s) \/ Turn(s) \/ Update(s) \/ Abort(s) \/ CommitError(s)
        PROVE  Window(rule'[c])
    <2>1. pc[s] = "commit" /\ (Write(s) \/ UNCHANGED rule)
      BY <1>3 DEF Receive, Turn, Insert, Duplicate, Read, Skip, Refuse, Update,
         Abort, Answer, Commit, CommitError
    <2>2. c = req[s].code /\ rule'[c] = Written(s)
      BY <2>1, WriteTyped
    <2>3. req[s] \in Request /\ req[s].op = "create"
      BY <2>1, <2>2 DEF IInv, TypeOK, RequestsSound, Writing
    <2>4. req[s].rule \in NewRules
      BY <2>3 DEF Request
    <2> QED
      BY <2>2, <2>3, <2>4, InputsAssumption DEF Written
  <1> QED
    BY <1>1, <1>2, <1>3 DEF Next, vars

(* An update of both ends on a current copy leaves the window it was       *)
(* checked for; deletions and toggles do not touch it.                     *)
LEMMA KeptInOrder ==
    ASSUME IInv, NEW s \in Sessions, pc[s] = "commit", lock[req[s].code] = s,
           req[s].op # "create",
           Window(rule[req[s].code]),
           req[s].op = "update" =>
              /\ {"from", "to"} \subseteq req[s].patch.fields
              /\ \A f \in {"from", "to"} : seen[s][f] = rule[req[s].code][f]
    PROVE  Window(Written(s))
  <1> DEFINE c == req[s].code
  <1>1. req[s] \in Request /\ c \in Codes
    BY RequestTyped DEF IInv, TypeOK
  <1>2. /\ Changed(s) \subseteq Named(s)
        /\ \A f \in Fields \ Changed(s) : Written(s)[f] = rule[c][f]
        /\ \A f \in Changed(s) : Written(s)[f] = Value(s)[f]
    BY WrittenTyped DEF Writing
  <1>3. CASE req[s].op = "update"
    <2>1. req[s].patch \in Patch
      BY <1>1, <1>3, InputsAssumption DEF Request
    <2>2. Window(req[s].patch.values)
      BY <1>3, <2>1 DEF Patch
    <2>3. \A f \in {"from", "to"} : Written(s)[f] = req[s].patch.values[f]
      BY <1>2, <1>3 DEF Changed, Named, Value, Fields
    <2> QED
      BY <2>2, <2>3 DEF Window
  <1>4. CASE req[s].op # "update"
    <2>1. \A f \in {"from", "to"} : Written(s)[f] = rule[c][f]
      BY <1>2, <1>4 DEF Named, Fields
    <2> QED
      BY <2>1 DEF Window
  <1> QED
    BY <1>3, <1>4

(* A window is put out of order only by an update that names one of its    *)
(* ends, or that works on an old copy of one.                              *)
THEOREM WindowsKept == Spec => WindowsBrokenByHalves
  <1>1. ASSUME IInv, [Next]_vars PROVE WindowsBrokenByHalves!1
    <2> SUFFICES ASSUME NEW c \in Codes,
                        rule[c] = None \/ Window(rule[c]),
                        rule'[c] # None, ~Window(rule'[c])
                 PROVE  \E s \in Sessions :
                           /\ pc[s] = "commit" /\ req[s].code = c
                           /\ req[s].op = "update"
                           /\ \/ ~({"from", "to"} \subseteq req[s].patch.fields)
                              \/ \E f \in {"from", "to"} : seen[s][f] # rule[c][f]
      OBVIOUS
    <2>1. rule[c] # None /\ Window(rule[c]) /\ rule'[c] # rule[c]
      BY <1>1, CreatedInOrder
    <2>2. PICK s \in Sessions :
              /\ pc[s] = "commit" /\ lock[c] = s /\ c = req[s].code
              /\ req[s].op # "create" /\ rule'[c] = Written(s)
      BY <1>1, <2>1, WhoChanges
    <2> QED
      BY <1>1, <2>1, <2>2, KeptInOrder
  <1> QED
    BY <1>1, Invariant, PTL DEF Spec, WindowsBrokenByHalves
-----------------------------------------------------------------------------
(* Who is about to commit has written its row, or has nothing to write.    *)
WritersSound ==
    \A s \in Sessions : pc[s] \in Writing =>
        \/ lock[req[s].code] = s
        \/ req[s].op # "create" /\ Changed(s) = {}

LEMMA WritersStep == IInv /\ WritersSound /\ [Next]_vars => WritersSound'
  <1> SUFFICES ASSUME IInv, WritersSound, [Next]_vars,
                      NEW t \in Sessions, pc'[t] \in Writing
               PROVE  \/ lock'[req'[t].code] = t
                      \/ req'[t].op # "create" /\ Changed(t)' = {}
    BY DEF WritersSound
  <1>1. ASSUME pc[t] \in Writing, UNCHANGED <<req[t], seen[t]>>,
               \A c \in Codes : lock[c] = t => lock'[c] = t
        PROVE  \/ lock'[req'[t].code] = t
               \/ req'[t].op # "create" /\ Changed(t)' = {}
    <2>1. req[t] \in Request /\ req[t].code \in Codes
      BY <1>1, RequestTyped DEF IInv, TypeOK, Writing
    <2>2. Changed(t)' = Changed(t)
      BY <1>1 DEF Changed, Named, Value
    <2> QED
      BY <1>1, <2>1, <2>2 DEF WritersSound
  <1>2. /\ pc \in [Sessions -> {"idle", "insert", "read", "update"} \cup Writing]
        /\ req \in [Sessions -> Request \cup {None}]
        /\ seen \in [Sessions -> Rule \cup {None}]
        /\ lock \in [Codes -> Sessions \cup Seeders \cup {None}]
    BY DEF IInv, TypeOK
  <1>3. ASSUME NEW p \in Seeders, SeedTurn(p) \/ SeedError(p)
        PROVE  \A c \in Codes : lock[c] = t => lock'[c] = t
    <2>1. UNCHANGED lock \/ lock' = Released(p) \/ SeedFlush(p)
      BY <1>3 DEF SeedTurn, SeedError, SeedSelect, SeedClash, SeedCommit,
         Restart, SeedDown
    <2> QED
      BY <1>2, <2>1, ReleasedTyped, ActorsAssumption, NoneAssumption
         DEF SeedFlush, IInv
  <1>4. ASSUME NEW s \in Sessions, s # t,
               Receive(s) \/ Turn(s) \/ Update(s) \/ Abort(s) \/ CommitError(s)
        PROVE  /\ UNCHANGED <<pc[t], req[t], seen[t]>>
               /\ \A c \in Codes : lock[c] = t => lock'[c] = t
    <2>1. UNCHANGED <<pc[t], req[t], seen[t]>>
      BY <1>2, <1>4 DEF Turn, Receive, Insert, Duplicate, Read, Skip, Refuse,
         Update, Abort, Answer, Commit, CommitError, Goto, Finish
    <2>2. \/ UNCHANGED lock \/ lock' = Released(s)
          \/ \E c \in Codes : lock[c] = None /\ lock' = [lock EXCEPT ![c] = s]
      <3>1. CASE Insert(s) \/ Update(s)
        <4>1. req[s].code \in Codes
          BY <3>1, RequestTyped DEF IInv, TypeOK, Insert, Update
        <4> QED
          BY <3>1, <4>1 DEF Insert, Update
      <3> QED
        BY <1>4, <3>1 DEF Turn, Receive, Duplicate, Read, Skip, Refuse, Abort,
           Answer, Commit, CommitError
    <2>3. \A c \in Codes : lock[c] = t => lock'[c] = t
      BY <1>2, <1>4, <2>2, ReleasedTyped, NoneAssumption DEF IInv
    <2> QED
      BY <2>1, <2>3
  <1>5. ASSUME Receive(t) \/ Turn(t) \/ Update(t) \/ Abort(t) \/ CommitError(t)
        PROVE  \/ lock'[req'[t].code] = t
               \/ req'[t].op # "create" /\ Changed(t)' = {}
    <2>1. CASE Insert(t) \/ Update(t)
      <3>1. req[t].code \in Codes
        BY <2>1, RequestTyped DEF IInv, TypeOK, Insert, Update
      <3> QED
        BY <1>2, <2>1, <3>1 DEF Insert, Update
    <2>2. CASE Skip(t)
      <3>1. Changed(t) = {} /\ req[t].op # "create"
        BY <2>2 DEF Skip, IInv, RequestsSound
      <3> QED
        BY <2>2, <3>1 DEF Skip, Changed, Named, Value
    <2>3. CASE Answer(t)
      BY <1>1, <2>3 DEF Answer, Writing, vars
    <2>4. CASE \/ Receive(t) \/ Duplicate(t) \/ Read(t) \/ Refuse(t) \/ Abort(t)
               \/ Commit(t) \/ CommitError(t)
      BY <1>2, <2>4 DEF Receive, Duplicate, Read, Refuse, Abort, Commit,
         CommitError, Goto, Finish, Writing
    <2> QED
      BY <1>5, <2>1, <2>2, <2>3, <2>4 DEF Turn
  <1>6. CASE UNCHANGED vars
    BY <1>1, <1>6 DEF vars, requests
  <1>7. ASSUME NEW p \in Seeders, SeedTurn(p) \/ SeedError(p)
        PROVE  UNCHANGED requests
    BY <1>7 DEF SeedTurn, SeedError, SeedSelect, SeedFlush, SeedClash,
       SeedCommit, Restart
  <1> QED
    BY <1>1, <1>3, <1>4, <1>5, <1>6, <1>7 DEF Next, requests

(* A request that has not read anything has no copy.                       *)
FreshSound ==
    \A s \in Sessions :
        /\ pc[s] = "idle" => req[s] = None
        /\ pc[s] \in {"idle", "insert", "read"} => seen[s] = None

LEMMA FreshStep == IInv /\ FreshSound /\ [Next]_vars => FreshSound'
  <1> SUFFICES ASSUME IInv, FreshSound, [Next]_vars, NEW t \in Sessions
               PROVE  FreshSound!(t)'
    BY DEF FreshSound
  <1>1. /\ pc \in [Sessions -> {"idle", "insert", "read", "update"} \cup Writing]
        /\ req \in [Sessions -> Request \cup {None}]
        /\ seen \in [Sessions -> Rule \cup {None}]
    BY DEF IInv, TypeOK
  <1>2. CASE UNCHANGED <<pc[t], req[t], seen[t]>>
    BY <1>2 DEF FreshSound
  <1>3. ASSUME NEW s \in Sessions, s # t,
               Receive(s) \/ Turn(s) \/ Update(s) \/ Abort(s) \/ CommitError(s)
        PROVE  UNCHANGED <<pc[t], req[t], seen[t]>>
    BY <1>1, <1>3 DEF Turn, Receive, Insert, Duplicate, Read, Skip, Refuse,
       Update, Abort, Answer, Commit, CommitError, Goto, Finish
  <1>4. ASSUME Receive(t) \/ Turn(t) \/ Update(t) \/ Abort(t) \/ CommitError(t)
        PROVE  FreshSound!(t)'
    <2>1. CASE Receive(t)
      BY <1>1, <2>1 DEF Receive, Goto, FreshSound
    <2>2. CASE Insert(t) \/ Update(t) \/ Skip(t) \/ Answer(t)
      BY <1>1, <2>2 DEF Insert, Update, Skip, Answer, Goto
    <2>3. CASE \/ Duplicate(t) \/ Read(t) \/ Refuse(t) \/ Abort(t)
               \/ Commit(t) \/ CommitError(t)
      BY <1>1, <2>3 DEF Duplicate, Read, Refuse, Abort, Commit, CommitError,
         Goto, Finish
    <2> QED
      BY <1>4, <2>1, <2>2, <2>3 DEF Turn
  <1>5. CASE UNCHANGED requests
    BY <1>2, <1>5 DEF requests
  <1>6. ASSUME NEW p \in Seeders, SeedTurn(p) \/ SeedError(p)
        PROVE  UNCHANGED requests
    BY <1>6 DEF SeedTurn, SeedError, SeedSelect, SeedFlush, SeedClash,
       SeedCommit, Restart
  <1> QED
    BY <1>2, <1>3, <1>4, <1>5, <1>6 DEF Next, vars

LEMMA Writers == Spec => [](IInv /\ WritersSound /\ FreshSound)
  <1>1. Init => WritersSound /\ FreshSound
    BY DEF Init, WritersSound, FreshSound, Writing
  <1> QED
    BY <1>1, InitIInv, NextIInv, WritersStep, FreshStep, PTL DEF Spec

-----------------------------------------------------------------------------
(* What a request that has read a row asks for, in Catalog's words: the    *)
(* row with the named fields set.  The columns of its UPDATE are where it  *)
(* differs from the row read.                                              *)
LEMMA WishIs ==
    ASSUME NEW s \in Sessions, req[s] \in Request, req[s].op # "create",
           seen[s] \in Rule
    PROVE  LET wish == Promised!Wish(req[s], seen[s]) IN
           /\ \A f \in Fields : wish[f] = IF f \in Named(s) THEN Value(s)[f]
                                                            ELSE seen[s][f]
           /\ \A f \in Fields : f \in Changed(s) <=> wish[f] # seen[s][f]
           /\ wish \in Rule <=> ~Nulls(s)
  <1> DEFINE wish == Promised!Wish(req[s], seen[s])
             set  == [f \in Fields |-> IF f \in Named(s) THEN Value(s)[f]
                                                         ELSE seen[s][f]]
  <1>1. req[s].op \in {"update", "delete", "toggle"} /\ Named(s) \subseteq Fields
    BY RequestTyped, ValueTyped
  <1>2. wish = set
    <2>1. CASE req[s].op = "update"
      BY <2>1 DEF Promised!Wish, Named, Value
    <2>2. CASE req[s].op = "delete"
      <3>1. wish = [seen[s] EXCEPT !.enabled = FALSE] /\ Value(s) = wish
        BY <2>2 DEF Promised!Wish, Value
      <3>2. Named(s) = {"enabled"}
        BY <2>2 DEF Named
      <3> QED
        BY <3>1, <3>2 DEF Rule, Fields
    <2>3. CASE req[s].op = "toggle"
      <3>1. wish = [seen[s] EXCEPT !.enabled = ~@] /\ Value(s) = wish
        BY <2>3 DEF Promised!Wish, Value
      <3>2. Named(s) = {"enabled"}
        BY <2>3 DEF Named
      <3> QED
        BY <3>1, <3>2 DEF Rule, Fields
    <2> QED
      BY <1>1, <2>1, <2>2, <2>3
  <1>3. \A f \in Fields : wish[f] = IF f \in Named(s) THEN Value(s)[f] ELSE seen[s][f]
    BY <1>2
  <1>4. \A f \in Fields : f \in Changed(s) <=> wish[f] # seen[s][f]
    BY <1>1, <1>3 DEF Changed
  <1>5. ASSUME ~Nulls(s) PROVE wish \in Rule
    <2>1. wish["enabled"] \in BOOLEAN
      BY <1>3, <1>5, ValueTyped DEF Rule, Fields
    <2>2. wish["from"] \in Times \cup {None} /\ wish["to"] \in Times \cup {None}
      BY <1>3, ValueTyped DEF Rule, Fields
    <2> QED
      BY <1>2, <2>1, <2>2 DEF Rule, Fields
  <1>6. ASSUME Nulls(s) PROVE wish \notin Rule
    <2>1. wish["enabled"] = None
      BY <1>3, <1>6 DEF Nulls, Fields
    <2> QED
      BY <2>1, NoneAssumption DEF Rule
  <1> QED
    BY <1>3, <1>4, <1>5, <1>6

(* The commit of a request merges it into its rule.                        *)
LEMMA CommitApplies ==
    ASSUME IInv, WritersSound, NEW s \in Sessions, pc[s] = "commit",
           Write(s), Finish(s), UNCHANGED stage
    PROVE  Promised!Apply(s)
  <1> DEFINE c == req[s].code
  <1>1. req[s] \in Request /\ c \in Codes /\ req[s] # None
    BY RequestTyped, RequestAssumption DEF IInv, TypeOK, Writing
  <1>2. Promised!End(s)
    BY <1>1 DEF Finish, Promised!End
  <1>3. rule \in [Codes -> Rule \cup {None}]
    BY DEF IInv, TypeOK
  <1>4. CASE req[s].op = "create"
    <2>1. lock[c] = s
      BY <1>4 DEF WritersSound, Writing
    <2>2. rule[c] = None /\ rule' = [rule EXCEPT ![c] = req[s].rule]
      BY <1>1, <1>4, <2>1 DEF IInv, LocksSound, Write, Written
    <2> QED
      BY <1>2, <1>4, <2>2 DEF Promised!Apply
  <1>5. CASE req[s].op # "create"
    <2> DEFINE wish   == Promised!Wish(req[s], seen[s])
               merged == Promised!Merge(seen[s], wish, rule[c])
    <2>1. seen[s] \in Rule /\ rule[c] \in Rule
      BY <1>1, <1>3, <1>5 DEF IInv, RequestsSound, Writing
    <2>2. seen[s] # None /\ rule[c] # None
      BY <2>1, NoneAssumption
    <2>3. \A f \in Fields : f \in Changed(s) <=> wish[f] # seen[s][f]
      BY <1>1, <1>5, <2>1, WishIs
    <2>4. wish \in Rule <=> ~Nulls(s)
      BY <1>1, <1>5, <2>1, WishIs
    <2>5. \A f \in Fields \cap Changed(s) : wish[f] = Value(s)[f]
      BY <1>1, <1>5, <2>1, WishIs DEF Changed
    <2>6. merged = [f \in Fields |-> IF f \in Changed(s) THEN Value(s)[f]
                                                         ELSE rule[c][f]]
      BY <2>3, <2>5 DEF Promised!Merge
    <2>7. wish \in Rule /\ rule' = [rule EXCEPT ![c] = merged]
      <3>1. CASE lock[c] = s
        <4>1. ~Nulls(s) /\ rule' = [rule EXCEPT ![c] = Written(s)]
          BY <1>1, <1>5, <3>1 DEF IInv, LocksSound, Write
        <4>2. Written(s) = merged
          BY <1>5, <2>6 DEF Written
        <4> QED
          BY <2>4, <4>1, <4>2
      <3>2. CASE lock[c] # s
        <4>1. Changed(s) = {} /\ rule' = rule
          BY <3>2 DEF WritersSound, Writing, Write
        <4>2. ~Nulls(s)
          <5>1. "enabled" \in Fields /\ seen[s]["enabled"] # None
            BY <2>1, NoneAssumption DEF Fields, Rule
          <5> QED
            BY <4>1, <5>1 DEF Nulls, Changed
        <4>3. merged = rule[c]
          BY <2>1, <2>6, <4>1 DEF Rule, Fields
        <4> QED
          BY <1>1, <1>3, <2>4, <4>1, <4>2, <4>3
      <3> QED
        BY <3>1, <3>2
    <2> QED
      BY <1>2, <1>5, <2>2, <2>7 DEF Promised!Apply
  <1> QED
    BY <1>4, <1>5

(* The end of a seeder's transaction fills the catalog in one step.        *)
LEMMA SeedingFills ==
    ASSUME IInv, NEW p \in Seeders, SeedWrite(p), ~pending[p],
           at[p] > Len(Defaults), stage[p] \in {"seeding", "serving"}
    PROVE  Promised!Fill
  <1>1. ASSUME NEW c \in Codes, lock[c] = p
        PROVE  c \in Seeded /\ rule[c] = None
    BY <1>1 DEF IInv, LocksSound
  <1>2. ASSUME NEW c \in Codes, c \in Seeded, rule[c] = None
        PROVE  lock[c] = p
    <2>1. PICK i \in 1..Len(Defaults) : c = Defaults[i]
      BY <1>2 DEF Seeded
    <2>2. stage[p] = "seeding"
      BY <1>2, <2>1 DEF IInv, SeededComplete
    <2>3. i \in 1..(at[p] - 1)
      BY <2>1, DefaultsAssumption DEF IInv, TypeOK
    <2>4. Done(p, i)
      BY <2>2, <2>3 DEF IInv, SeedsSound
    <2> QED
      BY <1>2, <2>1, <2>4 DEF Done
  <1> QED
    BY <1>1, <1>2 DEF SeedWrite, Promised!Fill

(* A request comes, and reads its row.                                     *)
LEMMA FirstSteps ==
    ASSUME IInv, FreshSound, NEW s \in Sessions, UNCHANGED stage
    PROVE  /\ Receive(s) => Promised!Ask(s)
           /\ Read(s) => Promised!Read(s) \/ Promised!Refuse(s)
  <1>1. ASSUME Receive(s) PROVE Promised!Ask(s)
    <2>1. req[s] = None /\ \E r \in Request : req' = [req EXCEPT ![s] = r]
      BY <1>1 DEF Receive, FreshSound
    <2> QED
      BY <1>1, <2>1 DEF Receive, Promised!Ask
  <1>2. ASSUME Read(s) PROVE Promised!Read(s) \/ Promised!Refuse(s)
    <2>1. /\ req[s] \in Request /\ req[s] # None /\ seen[s] = None
          /\ req[s].op # "create"
      BY <1>2, RequestAssumption DEF Read, FreshSound, IInv, TypeOK, RequestsSound
    <2>2. CASE rule[req[s].code] = None
      <3>1. Promised!End(s)
        BY <1>2, <2>1, <2>2 DEF Read, Finish, Promised!End
      <3> QED
        BY <1>2, <2>1, <2>2, <3>1 DEF Read, Promised!Unfit, Promised!Refuse
    <2>3. CASE rule[req[s].code] # None
      BY <1>2, <2>1, <2>3 DEF Read, Promised!Read
    <2> QED
      BY <2>2, <2>3
  <1> QED
    BY <1>1, <1>2

(* A request's steps, as steps of Catalog.                                 *)
LEMMA RequestRefines ==
    ASSUME IInv, WritersSound, FreshSound, NEW s \in Sessions,
           Receive(s) \/ Turn(s) \/ Update(s) \/ Abort(s) \/ CommitError(s)
    PROVE  [Promised!Next]_(Promised!vars)
  <1>1. UNCHANGED stage
    BY DEF Receive, Turn, Insert, Duplicate, Read, Skip, Refuse, Update, Abort,
       Answer, Commit, CommitError, seeding
  <1>2. pc[s] # "idle" => req[s] \in Request /\ req[s] # None /\ req[s].code \in Codes
    BY RequestTyped, RequestAssumption DEF IInv, TypeOK
  <1>3. CASE Receive(s)
    BY <1>1, <1>3, FirstSteps DEF Promised!Next
  <1>4. CASE Read(s)
    BY <1>1, <1>4, FirstSteps DEF Promised!Next
  <1>5. CASE Insert(s) \/ Skip(s) \/ Update(s) \/ Answer(s)
    BY <1>1, <1>5 DEF Insert, Skip, Update, Answer, Promised!vars
  <1>6. CASE Duplicate(s) \/ Refuse(s)
    <2>1. Promised!End(s)
      BY <1>1, <1>2, <1>6 DEF Duplicate, Refuse, Finish, Promised!End
    <2>2. Promised!Unfit(s)
      <3>1. CASE Duplicate(s)
        BY <3>1 DEF Duplicate, Promised!Unfit, IInv, RequestsSound
      <3>2. CASE Refuse(s)
        <4>1. req[s] \in Request /\ req[s].op # "create" /\ seen[s] \in Rule /\ Nulls(s)
          BY <1>2, <3>2 DEF Refuse, IInv, RequestsSound
        <4>2. Promised!Wish(req[s], seen[s]) \notin Rule
          BY <4>1, WishIs
        <4> QED
          BY <4>1, <4>2, NoneAssumption DEF Promised!Unfit
      <3> QED
        BY <1>6, <3>1, <3>2
    <2> QED
      BY <1>6, <2>1, <2>2 DEF Duplicate, Refuse, Promised!Refuse, Promised!Next
  <1>7. CASE Abort(s)
    <2>1. Promised!End(s)
      BY <1>1, <1>2, <1>7 DEF Abort, Finish, Promised!End
    <2> QED
      BY <1>7, <2>1 DEF Abort, Fault, Promised!Fault, Promised!Fail, Promised!Next
  <1>8. CASE Commit(s)
    BY <1>1, <1>8, CommitApplies DEF Commit, Promised!Change, Promised!Next
  <1>9. CASE CommitError(s)
    <2>1. CASE Write(s)
      BY <1>1, <1>9, <2>1, CommitApplies
         DEF CommitError, Fault, Promised!Fault, Promised!Fail, Promised!Next
    <2>2. CASE UNCHANGED rule
      <3>1. Promised!End(s)
        BY <1>1, <1>2, <1>9 DEF CommitError, Finish, Promised!End
      <3> QED
        BY <1>9, <2>2, <3>1
           DEF CommitError, Fault, Promised!Fault, Promised!Fail, Promised!Next
    <2> QED
      BY <1>9, <2>1, <2>2 DEF CommitError
  <1> QED
    BY <1>3, <1>4, <1>5, <1>6, <1>7, <1>8, <1>9 DEF Turn

(* A seeder's steps: the lookups and inserts do not show.                  *)
LEMMA SeedRefines ==
    ASSUME IInv, NEW p \in Seeders, SeedTurn(p) \/ SeedError(p)
    PROVE  [Promised!Next]_(Promised!vars)
  <1> DEFINE serving == {q \in Seeders : stage[q] = "serving"}
  <1>1. stage \in [Seeders -> {"seeding", "serving", "down"}]
    BY DEF IInv, TypeOK
  <1>2. CASE SeedSelect(p) \/ SeedFlush(p)
    BY <1>2 DEF SeedSelect, SeedFlush, requests, Promised!vars
  <1>3. CASE SeedClash(p) \/ Restart(p)
    <2>1. serving' = serving
      BY <1>1, <1>3 DEF SeedClash, SeedDown, Restart
    <2> QED
      BY <1>3, <2>1 DEF SeedClash, Restart, requests, Promised!vars
  <1>4. CASE SeedCommit(p)
    <2>1. p \notin serving /\ serving' = serving \cup {p}
      BY <1>1, <1>4 DEF SeedCommit
    <2>2. Promised!Fill
      BY <1>4, SeedingFills DEF SeedCommit
    <2> QED
      BY <1>4, <2>1, <2>2 DEF SeedCommit, requests, Promised!Seed, Promised!Next
  <1>5. CASE SeedError(p)
    <2>1. serving' = serving \ {p} /\ UNCHANGED <<req, seen>> /\ Promised!Fault
      BY <1>1, <1>5 DEF SeedError, SeedDown, requests, Fault, Promised!Fault
    <2>2. UNCHANGED rule \/ (p \notin serving /\ Promised!Fill)
      <3>1. CASE SeedWrite(p) /\ ~pending[p] /\ at[p] > Len(Defaults) /\ stage[p] = "seeding"
        BY <3>1, SeedingFills
      <3>2. CASE SeedWrite(p) /\ stage[p] = "serving"
        BY <3>2 DEF SeedWrite, IInv, TypeOK
      <3> QED
        BY <1>5, <3>1, <3>2 DEF SeedError
    <2> QED
      BY <2>1, <2>2 DEF Promised!Stop, Promised!Next
  <1> QED
    BY <1>2, <1>3, <1>4, <1>5 DEF SeedTurn

(* RuleCatalog implements Catalog: a request is merged into its rule in    *)
(* one step, and seeding fills the catalog in one step, whatever races     *)
(* with them (rule_repository.py:56-115, seed_rules.py:30-63).             *)
THEOREM CatalogImplemented == Spec => ImplementsCatalog
  <1>1. Init => Promised!Init
    BY DEF Init, Promised!Init
  <1>2. ASSUME IInv, WritersSound, FreshSound, [Next]_vars
        PROVE  [Promised!Next]_(Promised!vars)
    <2>1. ASSUME NEW s \in Sessions,
                 Receive(s) \/ Turn(s) \/ Update(s) \/ Abort(s) \/ CommitError(s)
          PROVE  [Promised!Next]_(Promised!vars)
      BY <1>2, <2>1, RequestRefines
    <2>2. ASSUME NEW p \in Seeders, SeedTurn(p) \/ SeedError(p)
          PROVE  [Promised!Next]_(Promised!vars)
      BY <1>2, <2>2, SeedRefines
    <2>3. CASE UNCHANGED vars
      BY <2>3 DEF vars, requests, seeding, Promised!vars
    <2> QED
      BY <1>2, <2>1, <2>2, <2>3 DEF Next
  <1> QED
    BY <1>1, <1>2, Writers, PTL DEF Spec, ImplementsCatalog, Promised!Spec

-----------------------------------------------------------------------------
(* A set of numbers up to n has a greatest one.                            *)
LEMMA Least ==
    ASSUME NEW T, T \subseteq Nat, T # {}
    PROVE  \E x \in T : \A y \in T : x <= y
  <1> DEFINE R == OpToRel(<, Nat)
  <1>1. IsWellFoundedOn(R, Nat)
    BY NatLessThanWellFounded
  <1>2. \A x, y \in Nat : y < x => <<y, x>> \in R
    BY DEF OpToRel
  <1> HIDE DEF R
  <1>3. PICK x \in T : \A y \in T : <<y, x>> \notin R
    BY <1>1, WFMin
  <1>4. ASSUME NEW y \in T PROVE x <= y
    <2>1. x \in Nat /\ y \in Nat
      OBVIOUS
    <2>2. ~(y < x)
      BY <1>2, <1>3, <2>1, Zenon
    <2> QED
      BY <2>1, <2>2
  <1> QED
    BY <1>4

LEMMA Greatest ==
    ASSUME NEW n \in Nat, NEW T, T \subseteq 0 .. n, T # {}
    PROVE  \E x \in T : \A y \in T : y <= x
  <1> DEFINE D == {n - x : x \in T}
  <1>1. D \subseteq Nat /\ D # {}
    <2>1. \A x \in T : n - x \in Nat
      OBVIOUS
    <2>2. D \subseteq Nat
      BY <2>1
    <2>3. D # {}
      OBVIOUS
    <2> QED
      BY <2>2, <2>3
  <1>2. PICK d \in D : \A e \in D : d <= e
    BY <1>1, Least
  <1>3. PICK x \in T : d = n - x
    OBVIOUS
  <1>4. ASSUME NEW y \in T PROVE y <= x
    <2>1. n - x <= n - y
      BY <1>2, <1>3
    <2> QED
      BY <2>1
  <1> QED
    BY <1>4

(* A seeder has locked only default rules that it has looked up already,   *)
(* and not the one that it is about to insert.                             *)
OrderSound ==
    \A p \in Seeders, i \in 1..Len(Defaults) :
        lock[Defaults[i]] = p => i < at[p] /\ (pending[p] => i < at[p] - 1)

LEMMA OrderStep == IInv /\ OrderSound /\ [Next]_vars => OrderSound'
  <1> SUFFICES ASSUME IInv, OrderSound, [Next]_vars,
                      NEW q \in Seeders, NEW i \in 1..Len(Defaults),
                      lock'[Defaults[i]] = q
               PROVE  i < at'[q] /\ (pending'[q] => i < at'[q] - 1)
    BY DEF OrderSound
  <1>1. /\ lock \in [Codes -> Sessions \cup Seeders \cup {None}]
        /\ at \in [Seeders -> 1..(Len(Defaults) + 1)]
        /\ pending \in [Seeders -> BOOLEAN]
        /\ Len(Defaults) \in Nat /\ Defaults[i] \in Codes
    BY DefaultsAssumption DEF IInv, TypeOK
  <1>2. CASE lock[Defaults[i]] = q /\ at'[q] = at[q] /\ pending'[q] = pending[q]
    BY <1>2 DEF OrderSound
  <1>3. ASSUME NEW s \in Sessions,
               Receive(s) \/ Turn(s) \/ Update(s) \/ Abort(s) \/ CommitError(s)
        PROVE  lock[Defaults[i]] = q /\ at'[q] = at[q] /\ pending'[q] = pending[q]
    <2>1. UNCHANGED seeding
      BY <1>3 DEF Receive, Turn, Insert, Duplicate, Read, Skip, Refuse, Update,
         Abort, Answer, Commit, CommitError
    <2>2. \/ UNCHANGED lock \/ lock' = Released(s)
          \/ \E c : lock' = [lock EXCEPT ![c] = s]
      BY <1>3 DEF Receive, Turn, Insert, Duplicate, Read, Skip, Refuse, Update,
         Abort, Answer, Commit, CommitError
    <2>3. lock[Defaults[i]] = q
      BY <1>1, <2>2, ActorsAssumption, ReleasedTyped DEF IInv
    <2> QED
      BY <2>1, <2>3 DEF seeding
  <1>4. ASSUME NEW p \in Seeders, p # q, SeedTurn(p) \/ SeedError(p)
        PROVE  lock[Defaults[i]] = q /\ at'[q] = at[q] /\ pending'[q] = pending[q]
    <2>1. at'[q] = at[q] /\ pending'[q] = pending[q]
      BY <1>1, <1>4 DEF SeedTurn, SeedError, SeedSelect, SeedFlush, SeedClash,
         SeedCommit, Restart, SeedDown
    <2>2. \/ UNCHANGED lock \/ lock' = Released(p)
          \/ \E c : lock' = [lock EXCEPT ![c] = p]
      BY <1>4 DEF SeedTurn, SeedError, SeedSelect, SeedFlush, SeedClash,
         SeedCommit, Restart, SeedDown
    <2>3. lock[Defaults[i]] = q
      BY <1>1, <1>4, <2>2, ReleasedTyped DEF IInv
    <2> QED
      BY <2>1, <2>3
  <1>5. ASSUME SeedTurn(q) \/ SeedError(q)
        PROVE  i < at'[q] /\ (pending'[q] => i < at'[q] - 1)
    <2>1. CASE SeedSelect(q)
      <3>1. lock[Defaults[i]] = q /\ at'[q] = at[q] + 1
        BY <1>1, <2>1 DEF SeedSelect
      <3>2. i < at[q]
        BY <3>1 DEF OrderSound
      <3> QED
        BY <1>1, <3>1, <3>2
    <2>2. CASE SeedFlush(q)
      <3>1. /\ at' = at /\ ~pending'[q] /\ pending[q]
            /\ lock' = [lock EXCEPT ![Added(q)] = q]
        BY <1>1, <2>2 DEF SeedFlush
      <3>2. CASE lock[Defaults[i]] = q
        BY <3>1, <3>2 DEF OrderSound
      <3>3. CASE lock[Defaults[i]] # q
        <4>1. Defaults[i] = Defaults[at[q] - 1]
          BY <1>1, <3>1, <3>3 DEF Added
        <4>2. at[q] - 1 \in 1..Len(Defaults) /\ at[q] \in Int
          BY <1>1, <3>1 DEF IInv, TypeOK
        <4>3. i = at[q] - 1
          BY <4>1, <4>2, DefaultsAssumption
        <4> QED
          BY <3>1, <4>2, <4>3
      <3> QED
        BY <3>2, <3>3
    <2>3. CASE SeedClash(q) \/ SeedCommit(q) \/ SeedError(q)
      <3>1. lock' = Released(q)
        BY <2>3 DEF SeedClash, SeedCommit, SeedError, SeedDown
      <3> QED
        BY <1>1, <3>1, ReleasedTyped DEF IInv
    <2>4. CASE Restart(q)
      BY <1>2, <2>4 DEF Restart
    <2> QED
      BY <1>5, <2>1, <2>2, <2>3, <2>4 DEF SeedTurn
  <1>6. CASE UNCHANGED vars
    BY <1>2, <1>6 DEF vars, seeding
  <1> QED
    BY <1>2, <1>3, <1>4, <1>5, <1>6 DEF Next

(* Who waits for whom: a write that finds another open transaction at its  *)
(* row or key.                                                             *)
WaitsFor(a, b) ==
    /\ a # b
    /\ \/ /\ a \in Sessions /\ pc[a] \in {"insert", "update"}
          /\ lock[req[a].code] = b
       \/ /\ a \in Seeders /\ pending[a]
          /\ lock[Added(a)] = b

(* Requests and seeders never wait for each other in a circle: a request   *)
(* writes one row and waits for nothing after that, and seeders all insert *)
(* in the order of the file (rule_repository.py:56-115,                    *)
(* seed_rules.py:30-62).                                                   *)
NoCircularWait ==
    \A C \in SUBSET (Sessions \cup Seeders) :
        C # {} => \E a \in C : \A b \in C : ~WaitsFor(a, b)

(* For any number of requests, containers and default rules PostgreSQL     *)
(* never has to break a deadlock over the rules.                           *)
THEOREM NoDeadlock == Spec => []NoCircularWait
  <1>1. ASSUME IInv, OrderSound, NEW C \in SUBSET (Sessions \cup Seeders), C # {},
               \A a \in C : \E b \in C : WaitsFor(a, b)
        PROVE  FALSE
    <2> DEFINE n == Len(Defaults) + 1
               T == {at[p] : p \in C \cap Seeders}
    <2>1. /\ n \in Nat
          /\ \A p \in Seeders : at[p] \in 1..n
          /\ \A p \in Seeders : pending[p] => at[p] > 1
          /\ \A s \in Sessions : pc[s] # "idle" => req[s] \in Request
          /\ \A s \in Sessions, c \in Codes : lock[c] = s => pc[s] \in Writing
      BY <1>1, DefaultsAssumption DEF IInv, TypeOK
    <2>2. ASSUME NEW a \in C, NEW b \in C, WaitsFor(a, b)
          PROVE  b \in Seeders /\ pending[b]
      <3>1. PICK d \in C : WaitsFor(b, d)
        BY <1>1
      <3>2. \E c \in Codes : lock[c] = b
        <4>1. CASE a \in Sessions /\ pc[a] \in {"insert", "update"} /\ lock[req[a].code] = b
          BY <2>1, <4>1, RequestTyped
        <4>2. CASE a \in Seeders /\ pending[a] /\ lock[Added(a)] = b
          <5>1. at[a] - 1 \in 1..Len(Defaults)
            BY <2>1, <4>2, DefaultsAssumption
          <5> QED
            BY <4>2, <5>1, DefaultsAssumption DEF Added
        <4> QED
          BY <2>2, <4>1, <4>2 DEF WaitsFor
      <3>3. b \in Sessions => pc[b] \in Writing
        BY <2>1, <3>2
      <3> QED
        BY <3>1, <3>3 DEF WaitsFor, Writing
    <2>3. PICK p \in C \cap Seeders : TRUE
      BY <1>1, <2>2
    <2>4. T \subseteq 0..n /\ T # {}
      BY <2>1, <2>3
    <2>5. PICK k \in T : \A j \in T : j <= k
      BY <2>1, <2>4, Greatest
    <2>6. PICK q \in C \cap Seeders : at[q] = k
      OBVIOUS
    <2>7. PICK r \in C : WaitsFor(q, r)
      BY <1>1
    <2>8. r \in Seeders /\ pending[r]
      BY <2>2, <2>7
    <2>9. pending[q] /\ lock[Added(q)] = r
      BY <2>6, <2>7, ActorsAssumption DEF WaitsFor
    <2>10. at[q] - 1 \in 1..Len(Defaults)
      BY <2>1, <2>9, DefaultsAssumption
    <2>11. at[q] - 1 < at[r] - 1
      BY <1>1, <2>8, <2>9, <2>10 DEF Added, OrderSound
    <2>12. at[r] <= at[q]
      BY <2>5, <2>6, <2>8
    <2> QED
      BY <2>1, <2>8, <2>11, <2>12
  <1>2. IInv /\ OrderSound => NoCircularWait
    BY <1>1 DEF NoCircularWait
  <1>3. Init => OrderSound
    BY NoneAssumption, DefaultsAssumption DEF Init, OrderSound
  <1> QED
    BY <1>2, <1>3, InitIInv, NextIInv, OrderStep, PTL DEF Spec
=============================================================================
