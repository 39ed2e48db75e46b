------------------------ MODULE SystemConfig_proofs ------------------------
(* Proofs about SystemConfig: its types, what an answer shows, that every  *)
(* PUT is one step of Settings, and that requests never wait in a circle.  *)
EXTENDS SystemConfig, WellFoundedInduction, TLAPS

(* What a request knows of the keys it names: one it has passed is locked  *)
(* by it, has the value it asks for, or has been changed since it came;    *)
(* the value it has read is the one in force, unless that was changed; and *)
(* the same of its answer.                                                 *)
KeySound(s, k) ==
    /\ k < at[s] =>
          lock[k] = s \/ Effective(stored, k) = body[s][k] \/ k \in touched[s]
    /\ pc[s] = "flush" /\ k = at[s] /\ seen[s] # None =>
          Effective(stored, k) = seen[s] \/ k \in touched[s]
    /\ pc[s] = "answer" => view[s][k] = body[s][k] \/ k \in touched[s]

RequestSound(s) ==
    /\ pc[s] = "idle" => at[s] = 1
    /\ pc[s] = "answer" => at[s] = LastKey + 1
    /\ pc[s] # "idle" =>
          \A k \in Keys : body[s][k] # None => KeySound(s, k)

IInv == TypeOK /\ \A s \in Sessions : RequestSound(s)

-----------------------------------------------------------------------------
(* Values that requests name and settings in force are values.             *)
LEMMA Typed ==
    ASSUME TypeOK
    PROVE  /\ \A s \in Sessions, k \in Keys :
                 pc[s] # "idle" => body[s] \in Body /\ body[s][k] \in AllValues \cup {None}
           /\ \A k \in Keys : Effective(stored, k) \in AllValues
<1>1. ASSUME NEW s \in Sessions, NEW k \in Keys, pc[s] # "idle"
      PROVE  body[s] \in Body /\ body[s][k] \in AllValues \cup {None}
  <2>1. body[s] \in Body
    BY <1>1 DEF TypeOK
  <2>. QED  BY <2>1 DEF Body
<1>2. \A k \in Keys : Effective(stored, k) \in AllValues
  BY ValuesAssumption DEF TypeOK, Effective
<1>. QED  BY <1>1, <1>2

(* The end of a request, by whichever way.                                 *)
LEMMA CloseTyped ==
    ASSUME TypeOK, NEW s \in Sessions, Close(s),
           stored' \in [Keys -> AllValues \cup {None}],
           touched' \in [Sessions -> SUBSET Keys], faults' \in Nat
    PROVE  TypeOK'
<1>1. /\ pc' = [pc EXCEPT ![s] = "idle"] /\ body' = [body EXCEPT ![s] = None]
      /\ at' = [at EXCEPT ![s] = 1] /\ seen' = [seen EXCEPT ![s] = None]
      /\ view' = [view EXCEPT ![s] = None]
  BY DEF Close, Goto
<1>2. lock' = [k \in Keys |-> IF lock[k] = s THEN None ELSE lock[k]]
  BY DEF Close, Released
<1>3. 1 \in 1..(LastKey + 1)
  BY KeysAssumption
<1>4. /\ lock' \in [Keys -> Sessions \cup {None}]
      /\ \A t \in Sessions, k \in Keys : lock'[k] = t => lock[k] = t /\ t # s
  BY <1>2, NoneAssumption DEF TypeOK
<1>5. /\ pc' \in [Sessions -> {"idle", "select", "flush", "answer"}]
      /\ body' \in [Sessions -> Body \cup {None}]
      /\ at' \in [Sessions -> 1..(LastKey + 1)]
      /\ seen' \in [Sessions -> AllValues \cup {None}]
      /\ view' \in [Sessions -> [Keys -> AllValues] \cup {None}]
  BY <1>1, <1>3 DEF TypeOK
<1>6. ASSUME NEW t \in Sessions
      PROVE  /\ body'[t] = None <=> pc'[t] = "idle"
             /\ view'[t] # None <=> pc'[t] = "answer"
             /\ pc'[t] = "flush" => at'[t] \in Keys /\ body'[t][at'[t]] # None
             /\ \A k \in Keys : lock'[k] = t =>
                   pc'[t] # "idle" /\ k < at'[t] /\ body'[t][k] # None
  <2>1. CASE t = s
    BY <1>1, <1>4, <2>1 DEF TypeOK
  <2>2. CASE t # s
    <3>1. /\ pc'[t] = pc[t] /\ body'[t] = body[t] /\ at'[t] = at[t]
          /\ view'[t] = view[t]
      BY <1>1, <2>2 DEF TypeOK
    <3>. QED  BY <1>4, <3>1 DEF TypeOK
  <2>. QED  BY <2>1, <2>2
<1>. QED  BY <1>4, <1>5, <1>6 DEF TypeOK

LEMMA FailTyped ==
    ASSUME TypeOK, NEW s \in Sessions, Fail(s), faults' \in Nat
    PROVE  TypeOK'
  BY CloseTyped DEF Fail, TypeOK

LEMMA WriteTyped ==
    ASSUME TypeOK, NEW s \in Sessions, pc[s] = "answer", Write(s), Close(s),
           faults' \in Nat
    PROVE  TypeOK'
<1>1. \A k \in Keys : lock[k] = s => body[s][k] \in AllValues
  BY Typed DEF TypeOK
<1>2. stored' \in [Keys -> AllValues \cup {None}]
  BY <1>1 DEF Write, Written, TypeOK
<1>3. touched' \in [Sessions -> SUBSET Keys]
  BY DEF Write, TypeOK
<1>. QED  BY <1>2, <1>3, CloseTyped

(* A flush that has written takes the key's lock and goes on.              *)
LEMMA FlushedTyped ==
    ASSUME TypeOK, NEW s \in Sessions, pc[s] = "flush", Flushed(s),
           \/ UNCHANGED lock
           \/ lock[at[s]] = None /\ lock' = [lock EXCEPT ![at[s]] = s]
    PROVE  TypeOK'
<1>1. /\ at[s] \in Keys /\ body[s][at[s]] # None /\ body[s] # None /\ view[s] = None
  BY DEF TypeOK
<1>2. at[s] \in Nat /\ at[s] + 1 \in 1..(LastKey + 1)
  BY <1>1, KeysAssumption DEF Keys
<1>3. /\ pc' = [pc EXCEPT ![s] = "select"] /\ at' = [at EXCEPT ![s] = at[s] + 1]
      /\ seen' = [seen EXCEPT ![s] = None]
      /\ UNCHANGED <<stored, body, view, touched, faults>>
  BY DEF Flushed, Goto
<1>4. /\ lock' \in [Keys -> Sessions \cup {None}]
      /\ \A k \in Keys : lock'[k] = lock[k] \/ (lock'[k] = s /\ k = at[s])
  BY <1>1 DEF TypeOK
<1>5. /\ pc' \in [Sessions -> {"idle", "select", "flush", "answer"}]
      /\ at' \in [Sessions -> 1..(LastKey + 1)]
      /\ seen' \in [Sessions -> AllValues \cup {None}]
  BY <1>2, <1>3 DEF TypeOK
<1>6. ASSUME NEW t \in Sessions
      PROVE  /\ body'[t] = None <=> pc'[t] = "idle"
             /\ view'[t] # None <=> pc'[t] = "answer"
             /\ pc'[t] = "flush" => at'[t] \in Keys /\ body'[t][at'[t]] # None
             /\ \A k \in Keys : lock'[k] = t =>
                   pc'[t] # "idle" /\ k < at'[t] /\ body'[t][k] # None
  <2>1. CASE t = s
    <3>1. pc'[s] = "select" /\ at'[s] = at[s] + 1
      BY <1>3 DEF TypeOK
    <3>2. ASSUME NEW k \in Keys, lock'[k] = s
          PROVE  k < at'[s] /\ body[s][k] # None
      <4>1. k \in Nat
        BY DEF Keys
      <4>2. CASE k = at[s]
        BY <1>1, <1>2, <3>1, <4>1, <4>2
      <4>3. CASE lock[k] = s
        <5>1. k < at[s] /\ body[s][k] # None
          BY <4>3 DEF TypeOK
        <5>. QED  BY <1>2, <3>1, <4>1, <5>1
      <4>. QED  BY <1>4, <3>2, <4>2, <4>3
    <3>. QED  BY <1>1, <1>3, <2>1, <3>1, <3>2
  <2>2. CASE t # s
    <3>1. pc'[t] = pc[t] /\ at'[t] = at[t] /\ body' = body /\ view' = view
      BY <1>3, <2>2 DEF TypeOK
    <3>2. \A k \in Keys : lock'[k] = t => lock[k] = t
      BY <1>4, <2>2
    <3>. QED  BY <3>1, <3>2 DEF TypeOK
  <2>. QED  BY <2>1, <2>2
<1>. QED  BY <1>3, <1>4, <1>5, <1>6 DEF TypeOK

LEMMA InitTyped == Init => TypeOK
  BY KeysAssumption, NoneAssumption, ValuesAssumption DEF Init, TypeOK

LEMMA NextTyped == TypeOK /\ [Next]_vars => TypeOK'
<1> SUFFICES ASSUME TypeOK, [Next]_vars PROVE TypeOK'
  OBVIOUS
<1>1. CASE UNCHANGED vars
  BY <1>1 DEF TypeOK, vars
<1>2. ASSUME NEW s \in Sessions, Receive(s) PROVE TypeOK'
  <2>1. PICK b \in Body : body' = [body EXCEPT ![s] = b]
    BY <1>2 DEF Receive
  <2>2. /\ pc[s] = "idle" /\ pc' = [pc EXCEPT ![s] = "select"] /\ b # None
        /\ UNCHANGED <<stored, lock, at, seen, view, touched, faults>>
    BY <1>2, <2>1, NoneAssumption DEF Receive, Goto, Body
  <2>3. \A k \in Keys : lock[k] # s
    BY <2>2 DEF TypeOK
  <2>. QED  BY <2>1, <2>2, <2>3 DEF TypeOK
<1>3. ASSUME NEW s \in Sessions, Pass(s) PROVE TypeOK'
  <2>1. /\ at[s] \in Nat /\ at[s] + 1 \in 1..(LastKey + 1)
        /\ \A k \in Keys : k \in Nat /\ (k < at[s] => k < at[s] + 1)
    BY <1>3, KeysAssumption DEF Pass, Keys
  <2>2. /\ pc[s] = "select" /\ at' = [at EXCEPT ![s] = at[s] + 1]
        /\ UNCHANGED <<stored, lock, pc, body, seen, view, touched, faults>>
    BY <1>3 DEF Pass
  <2>. QED  BY <2>1, <2>2 DEF TypeOK
<1>4. ASSUME NEW s \in Sessions, Select(s) PROVE TypeOK'
  BY <1>4 DEF Select, Goto, TypeOK
<1>5. ASSUME NEW s \in Sessions, Insert(s) \/ Update(s) \/ Unchanged(s)
      PROVE  TypeOK'
  BY <1>5, FlushedTyped DEF Insert, Update, Unchanged
<1>6. ASSUME NEW s \in Sessions, Duplicate(s) PROVE TypeOK'
  BY <1>6, FailTyped DEF Duplicate, TypeOK
<1>7. ASSUME NEW s \in Sessions, GetAll(s) PROVE TypeOK'
  <2>1. \A k \in Keys : lock[k] = s => body[s][k] \in AllValues
    BY Typed DEF TypeOK
  <2> DEFINE v == [k \in Keys |-> IF lock[k] = s THEN body[s][k] ELSE Effective(stored, k)]
  <2>2. v \in [Keys -> AllValues]
    BY <2>1, Typed
  <2>3. v # None
    BY <2>2, NoneAssumption
  <2>4. /\ pc[s] = "select" /\ view' = [view EXCEPT ![s] = v]
        /\ pc' = [pc EXCEPT ![s] = "answer"]
        /\ UNCHANGED <<stored, lock, body, at, seen, touched, faults>>
    BY <1>7 DEF GetAll, Goto
  <2>. HIDE DEF v
  <2>. QED  BY <2>2, <2>3, <2>4 DEF TypeOK
<1>8. ASSUME NEW s \in Sessions, Commit(s) PROVE TypeOK'
  BY <1>8, WriteTyped DEF Commit, TypeOK
<1>9. ASSUME NEW s \in Sessions, CommitError(s) PROVE TypeOK'
  <2>1. pc[s] = "answer" /\ faults' \in Nat
    BY <1>9 DEF CommitError, Fault, TypeOK
  <2>. QED  BY <1>9, <2>1, FailTyped, WriteTyped DEF CommitError
<1>10. ASSUME NEW s \in Sessions, Abort(s) PROVE TypeOK'
  <2>1. faults' \in Nat /\ Fail(s)
    BY <1>10 DEF Abort, Fault, TypeOK
  <2>. QED  BY <2>1, FailTyped
<1>. QED
  BY <1>1, <1>2, <1>3, <1>4, <1>5, <1>6, <1>7, <1>8, <1>9, <1>10 DEF Next, Turn

-----------------------------------------------------------------------------
(* What others do keeps a request sound as long as it keeps its locks and  *)
(* is told of the settings that change.                                    *)
LEMMA OthersSound ==
    ASSUME NEW t \in Sessions, RequestSound(t),
           pc'[t] = pc[t], body'[t] = body[t], at'[t] = at[t],
           seen'[t] = seen[t], view'[t] = view[t],
           pc[t] # "idle" =>
             /\ touched[t] \subseteq touched'[t]
             /\ \A k \in Keys :
                   /\ lock[k] = t => lock'[k] = t
                   /\ Effective(stored', k) = Effective(stored, k) \/ k \in touched'[t]
    PROVE  RequestSound(t)'
<1>. SUFFICES ASSUME pc[t] # "idle", NEW k \in Keys, body[t][k] # None
              PROVE  KeySound(t, k)'
  BY DEF RequestSound
<1>1. KeySound(t, k)
  BY DEF RequestSound
<1>2. Effective(stored, k)' = Effective(stored', k)
  BY DEF Effective
<1>. QED  BY <1>1, <1>2 DEF KeySound

(* The end of a request, and what others see of a write.                   *)
LEMMA CloseSound ==
    ASSUME IInv, NEW s \in Sessions, Close(s), Write(s) \/ Fail(s)
    PROVE  \A t \in Sessions : RequestSound(t)'
<1>. USE DEF IInv
<1>1. /\ pc' = [pc EXCEPT ![s] = "idle"] /\ body' = [body EXCEPT ![s] = None]
      /\ at' = [at EXCEPT ![s] = 1] /\ seen' = [seen EXCEPT ![s] = None]
      /\ view' = [view EXCEPT ![s] = None]
      /\ \A t \in Sessions \ {s}, k \in Keys : lock[k] = t => lock'[k] = t
  BY DEF Close, Goto, Released
<1>2. RequestSound(s)'
  BY <1>1 DEF TypeOK, RequestSound
<1>3. ASSUME NEW t \in Sessions, t # s PROVE RequestSound(t)'
  <2>1. /\ pc'[t] = pc[t] /\ body'[t] = body[t] /\ at'[t] = at[t]
        /\ seen'[t] = seen[t] /\ view'[t] = view[t]
    BY <1>1, <1>3 DEF TypeOK
  <2>2. ASSUME pc[t] # "idle", Write(s), NEW k \in Keys
        PROVE  /\ touched[t] \subseteq touched'[t]
               /\ Effective(stored', k) = Effective(stored, k) \/ k \in touched'[t]
    <3>1. touched'[t] = touched[t] \cup
             {j \in Keys : lock[j] = s /\ body[s][j] # Effective(stored, j)}
      BY <1>3, <2>2 DEF Write
    <3>2. stored'[k] = IF lock[k] = s THEN body[s][k] ELSE stored[k]
      BY <2>2 DEF Write, Written
    <3>3. CASE lock[k] = s
      <4>1. body[s][k] # None
        BY <3>3 DEF TypeOK
      <4>2. Effective(stored', k) = body[s][k]
        BY <3>2, <3>3, <4>1 DEF Effective
      <4>. QED  BY <3>1, <3>3, <4>2
    <3>4. CASE lock[k] # s
      BY <3>1, <3>2, <3>4 DEF Effective
    <3>. QED  BY <3>3, <3>4
  <2>3. ASSUME pc[t] # "idle", Write(s)
        PROVE  touched[t] \subseteq touched'[t]
    BY <1>3, <2>3 DEF Write
  <2>4. CASE Write(s)
    BY <1>1, <1>3, <2>1, <2>2, <2>3, <2>4, OthersSound
  <2>5. CASE Fail(s)
    <3>1. touched'[t] = touched[t] /\ stored' = stored
      BY <1>3, <2>5 DEF Fail, TypeOK
    <3>. QED  BY <1>1, <1>3, <2>1, <3>1, OthersSound
  <2>. QED  BY <2>4, <2>5
<1>. QED  BY <1>2, <1>3

(* A step of s that only takes a lock, or none.                            *)
LEMMA StepSound ==
    ASSUME IInv, NEW s \in Sessions, RequestSound(s)',
           UNCHANGED <<stored, touched>>,
           \A t \in Sessions \ {s} :
              /\ pc'[t] = pc[t] /\ body'[t] = body[t] /\ at'[t] = at[t]
              /\ seen'[t] = seen[t] /\ view'[t] = view[t],
           \A k \in Keys, t \in Sessions \ {s} : lock[k] = t => lock'[k] = t
    PROVE  \A t \in Sessions : RequestSound(t)'
<1>. SUFFICES ASSUME NEW t \in Sessions, t # s PROVE RequestSound(t)'
  OBVIOUS
<1>1. RequestSound(t)
  BY DEF IInv
<1>. QED  BY <1>1, OthersSound

LEMMA InitSound == Init => IInv
<1>. SUFFICES ASSUME Init PROVE \A s \in Sessions : RequestSound(s)
  BY InitTyped DEF IInv
<1>. QED  BY DEF Init, RequestSound

(* A request that goes from one key to the next.                           *)
LEMMA PassedSound ==
    ASSUME IInv, NEW s \in Sessions, pc[s] # "idle", pc[s] # "answer",
           pc'[s] = "select", at[s] \in Keys, at'[s] = at[s] + 1,
           body'[s] = body[s], UNCHANGED <<stored, touched>>,
           \A k \in Keys : lock[k] = s => lock'[k] = s,
           body[s][at[s]] # None =>
              \/ lock'[at[s]] = s
              \/ Effective(stored, at[s]) = body[s][at[s]]
              \/ at[s] \in touched[s]
    PROVE  RequestSound(s)'
<1>. SUFFICES ASSUME NEW k \in Keys, body[s][k] # None, k < at[s] + 1
              PROVE  lock'[k] = s \/ Effective(stored, k) = body[s][k] \/ k \in touched[s]
  BY DEF RequestSound, KeySound, Effective
<1>1. k \in Nat /\ at[s] \in Nat
  BY DEF Keys
<1>2. CASE k = at[s]
  BY <1>2
<1>3. CASE k < at[s]
  BY <1>3 DEF IInv, RequestSound, KeySound
<1>. QED  BY <1>1, <1>2, <1>3

LEMMA FlushSound ==
    ASSUME IInv, NEW s \in Sessions, Insert(s) \/ Update(s) \/ Unchanged(s)
    PROVE  \A t \in Sessions : RequestSound(t)'
<1>. USE DEF IInv
<1>1. /\ pc[s] = "flush" /\ Flushed(s) /\ at[s] \in Keys /\ body[s][at[s]] # None
      /\ \/ lock[at[s]] = None /\ lock' = [lock EXCEPT ![at[s]] = s]
         \/ lock' = lock /\ seen[s] # None /\ body[s][at[s]] = seen[s]
  BY DEF Insert, Update, Unchanged, Changes, TypeOK
<1>2. /\ pc' = [pc EXCEPT ![s] = "select"] /\ at' = [at EXCEPT ![s] = at[s] + 1]
      /\ seen' = [seen EXCEPT ![s] = None]
      /\ UNCHANGED <<stored, body, view, touched, faults>>
  BY <1>1 DEF Flushed, Goto
<1>3. \A t \in Sessions, k \in Keys : lock[k] = t => lock'[k] = t
  BY <1>1, NoneAssumption DEF TypeOK
<1>4. \/ lock'[at[s]] = s
      \/ Effective(stored, at[s]) = body[s][at[s]]
      \/ at[s] \in touched[s]
  <2>1. CASE lock' = [lock EXCEPT ![at[s]] = s]
    BY <1>1, <2>1 DEF TypeOK
  <2>2. CASE seen[s] # None /\ body[s][at[s]] = seen[s]
    BY <1>1, <2>2 DEF RequestSound, KeySound
  <2>. QED  BY <1>1, <2>1, <2>2
<1>5. RequestSound(s)'
  <2>1. pc'[s] = "select" /\ at'[s] = at[s] + 1 /\ body'[s] = body[s]
    BY <1>2 DEF TypeOK
  <2>. QED  BY <1>1, <1>2, <1>3, <1>4, <2>1, PassedSound
<1>6. \A t \in Sessions \ {s} :
         /\ pc'[t] = pc[t] /\ body'[t] = body[t] /\ at'[t] = at[t]
         /\ seen'[t] = seen[t] /\ view'[t] = view[t]
  BY <1>2 DEF TypeOK
<1>. QED  BY <1>2, <1>3, <1>5, <1>6, StepSound

LEMMA NextSound == IInv /\ [Next]_vars => IInv'
<1>. SUFFICES ASSUME IInv, [Next]_vars PROVE \A t \in Sessions : RequestSound(t)'
  BY NextTyped DEF IInv
<1>. USE DEF IInv
<1>1. CASE UNCHANGED vars
  BY <1>1 DEF RequestSound, KeySound, Effective, vars
<1>2. ASSUME NEW s \in Sessions, Receive(s)
      PROVE  \A t \in Sessions : RequestSound(t)'
  <2>1. PICK b \in Body : body' = [body EXCEPT ![s] = b]
    BY <1>2 DEF Receive
  <2>2. /\ pc[s] = "idle" /\ pc' = [pc EXCEPT ![s] = "select"]
        /\ UNCHANGED <<stored, lock, at, seen, view, touched, faults>>
    BY <1>2 DEF Receive, Goto
  <2>3. pc'[s] = "select" /\ at'[s] = 1
    BY <2>2 DEF TypeOK, RequestSound
  <2>4. \A k \in Keys : ~(k < 1)
    BY DEF Keys
  <2>5. RequestSound(s)'
    BY <2>3, <2>4 DEF RequestSound, KeySound
  <2>6. \A t \in Sessions \ {s} : pc'[t] = pc[t] /\ body'[t] = body[t]
    BY <2>1, <2>2 DEF TypeOK
  <2>. QED  BY <2>2, <2>5, <2>6, StepSound
<1>3. ASSUME NEW s \in Sessions, Pass(s)
      PROVE  \A t \in Sessions : RequestSound(t)'
  <2>1. /\ pc[s] = "select" /\ at[s] \in Keys /\ body[s][at[s]] = None
        /\ at' = [at EXCEPT ![s] = at[s] + 1]
        /\ UNCHANGED <<stored, lock, pc, body, seen, view, touched, faults>>
    BY <1>3 DEF Pass
  <2>2. at'[s] = at[s] + 1 /\ \A t \in Sessions \ {s} : at'[t] = at[t]
    BY <2>1 DEF TypeOK
  <2>3. RequestSound(s)'
    BY <2>1, <2>2, PassedSound
  <2>. QED  BY <2>1, <2>2, <2>3, StepSound
<1>4. ASSUME NEW s \in Sessions, Select(s)
      PROVE  \A t \in Sessions : RequestSound(t)'
  <2>1. /\ pc[s] = "select" /\ at[s] \in Keys /\ pc' = [pc EXCEPT ![s] = "flush"]
        /\ seen' = [seen EXCEPT ![s] = stored[at[s]]]
        /\ UNCHANGED <<stored, lock, body, at, view, touched, faults>>
    BY <1>4 DEF Select, Goto
  <2>2. /\ pc'[s] = "flush" /\ seen'[s] = stored[at[s]]
        /\ \A t \in Sessions \ {s} : pc'[t] = pc[t] /\ seen'[t] = seen[t]
    BY <2>1 DEF TypeOK
  <2>3. RequestSound(s)'
    BY <2>1, <2>2 DEF RequestSound, KeySound, Effective
  <2>. QED  BY <2>1, <2>2, <2>3, StepSound
<1>5. ASSUME NEW s \in Sessions, GetAll(s)
      PROVE  \A t \in Sessions : RequestSound(t)'
  <2>1. /\ pc[s] = "select" /\ at[s] = LastKey + 1
        /\ pc' = [pc EXCEPT ![s] = "answer"]
        /\ view' = [view EXCEPT ![s] =
              [k \in Keys |-> IF lock[k] = s THEN body[s][k] ELSE Effective(stored, k)]]
        /\ UNCHANGED <<stored, lock, body, at, seen, touched, faults>>
    BY <1>5 DEF GetAll, Goto
  <2>2. /\ pc'[s] = "answer"
        /\ view'[s] = [k \in Keys |-> IF lock[k] = s THEN body[s][k]
                                                    ELSE Effective(stored, k)]
        /\ \A t \in Sessions \ {s} : pc'[t] = pc[t] /\ view'[t] = view[t]
    BY <2>1 DEF TypeOK
  <2>3. \A k \in Keys : k < at[s]
    BY <2>1, KeysAssumption DEF Keys
  <2>4. RequestSound(s)'
    <3>. SUFFICES ASSUME NEW k \in Keys, body[s][k] # None PROVE KeySound(s, k)'
      BY <2>1, <2>2 DEF RequestSound
    <3>1. KeySound(s, k)
      BY <2>1 DEF RequestSound
    <3>. QED  BY <2>1, <2>2, <2>3, <3>1 DEF KeySound, Effective
  <2>. QED  BY <2>1, <2>2, <2>4, StepSound
<1>6. ASSUME NEW s \in Sessions,
             Duplicate(s) \/ Commit(s) \/ CommitError(s) \/ Abort(s)
      PROVE  \A t \in Sessions : RequestSound(t)'
  <2>1. Close(s) /\ (Write(s) \/ Fail(s))
    BY <1>6 DEF Duplicate, Commit, CommitError, Abort, Fail
  <2>. QED  BY <2>1, CloseSound
<1>7. ASSUME NEW s \in Sessions, Insert(s) \/ Update(s) \/ Unchanged(s)
      PROVE  \A t \in Sessions : RequestSound(t)'
  BY <1>7, FlushSound
<1>. QED
  BY <1>1, <1>2, <1>3, <1>4, <1>5, <1>6, <1>7 DEF Next, Turn

LEMMA Inductive == Spec => []IInv
  BY InitSound, NextSound, PTL DEF Spec

-----------------------------------------------------------------------------
(* The types of SystemConfig; a key is locked only by a request that has   *)
(* passed it and names it.                                                 *)
THEOREM ConfigTypes == Spec => []TypeOK
  BY Inductive, PTL DEF IInv

(* An answer that does not show what the request asked for shows what      *)
(* another has set since it came (config_repository.py:56-66,              *)
(* config_service.py:46-47).                                               *)
THEOREM AnswersExplained == Spec => []AnswerExplained
<1>1. IInv => AnswerExplained
  BY DEF IInv, RequestSound, KeySound, AnswerExplained
<1>. QED  BY <1>1, Inductive, PTL

(* The commit of a request applies it.  The keys it leaves alone have the  *)
(* value it names already, or another has set them since it came.          *)
LEMMA WriteApplies ==
    ASSUME IInv, NEW s \in Sessions, pc[s] = "answer", Write(s), Close(s)
    PROVE  Whole!Apply(s)
<1>. DEFINE set == {k \in Keys : /\ body[s][k] # None
                                 /\ lock[k] = s \/ Effective(stored, k) = body[s][k]}
<1>1. body[s] # None /\ body' = [body EXCEPT ![s] = None]
  BY DEF Close, IInv, TypeOK
<1>2. set \in SUBSET Whole!NamedBy(body[s])
  BY DEF Whole!NamedBy
<1>3. Whole!NamedBy(body[s]) \ touched[s] \subseteq set
  <2>1. \A k \in Keys : k < at[s]
    BY KeysAssumption DEF Keys, IInv, RequestSound
  <2>. QED  BY <2>1 DEF IInv, RequestSound, KeySound, Whole!NamedBy
<1>4. \A k \in Keys : Effective(stored', k) =
         IF k \in set THEN body[s][k] ELSE Effective(stored, k)
  <2>. SUFFICES ASSUME NEW k \in Keys
                PROVE  Effective(stored', k) =
                          IF k \in set THEN body[s][k] ELSE Effective(stored, k)
    OBVIOUS
  <2>1. stored'[k] = IF lock[k] = s THEN body[s][k] ELSE stored[k]
    BY DEF Write, Written
  <2>2. lock[k] = s => body[s][k] # None
    BY DEF IInv, TypeOK
  <2>. QED  BY <2>1, <2>2 DEF Effective
<1>5. touched' = [t \in Sessions |->
         IF t = s \/ body[t] = None THEN {}
         ELSE touched[t] \cup {k \in set : body[s][k] # Effective(stored, k)}]
  <2>1. {k \in set : body[s][k] # Effective(stored, k)} =
           {k \in Keys : lock[k] = s /\ body[s][k] # Effective(stored, k)}
    BY DEF IInv, TypeOK
  <2>2. \A t \in Sessions : pc[t] = "idle" <=> body[t] = None
    BY DEF IInv, TypeOK
  <2>. QED  BY <2>1, <2>2 DEF Write
<1>6. \A k \in set : k \in Keys
  OBVIOUS
<1>. HIDE DEF set
<1>7. [k \in Keys |-> Effective(stored', k)] =
         [k \in Keys |-> IF k \in set THEN body[s][k]
                         ELSE [j \in Keys |-> Effective(stored, j)][k]]
  BY <1>4
<1>8. touched' = [t \in Sessions |->
         IF t = s \/ body[t] = None THEN {}
         ELSE touched[t] \cup
              {k \in set : body[s][k] # [j \in Keys |-> Effective(stored, j)][k]}]
  BY <1>5, <1>6
<1>. QED
  BY <1>1, <1>2, <1>3, <1>7, <1>8 DEF Whole!Apply, Whole!Forget, Effective

(* SystemConfig implements Settings: every PUT takes effect in one step,   *)
(* or not at all (config_service.py:31-47, config_repository.py:51-66).    *)
THEOREM PutsAreAtomic == Spec => ImplementsSettings
<1>1. Init => Whole!Init
  BY ValuesAssumption DEF Init, Whole!Init, Effective
<1>2. IInv /\ [Next]_vars => [Whole!Next]_(Whole!vars)
  <2>. SUFFICES ASSUME IInv, [Next]_vars
                PROVE  Whole!Next \/ UNCHANGED <<stored, body, touched>>
    BY DEF Whole!vars, Effective
  <2>1. ASSUME NEW s \in Sessions,
               \/ Pass(s) \/ Select(s) \/ Insert(s) \/ Update(s) \/ Unchanged(s)
               \/ GetAll(s)
        PROVE  UNCHANGED <<stored, body, touched>>
    BY <2>1 DEF Pass, Select, Insert, Update, Unchanged, GetAll, Flushed
  <2>2. ASSUME NEW s \in Sessions, Receive(s) PROVE Whole!Next
    <3>1. body[s] = None /\ UNCHANGED <<stored, touched>>
      BY <2>2 DEF Receive, IInv, TypeOK
    <3>2. Whole!Put(s)
      BY <2>2, <3>1 DEF Receive, Whole!Put, Effective
    <3>. QED  BY <3>2 DEF Whole!Next
  <2>3. ASSUME NEW s \in Sessions, pc[s] # "idle", Fail(s) PROVE Whole!Next
    <3>1. body[s] # None /\ body' = [body EXCEPT ![s] = None]
      BY <2>3 DEF Fail, Close, IInv, TypeOK
    <3>2. Whole!Refuse(s)
      BY <2>3, <3>1 DEF Fail, Whole!Refuse, Whole!Forget, Effective
    <3>. QED  BY <3>2 DEF Whole!Next
  <2>4. ASSUME NEW s \in Sessions, Commit(s) \/ CommitError(s) PROVE Whole!Next
    <3>1. pc[s] = "answer" /\ (Fail(s) \/ (Write(s) /\ Close(s)))
      BY <2>4 DEF Commit, CommitError
    <3>. QED  BY <2>3, <3>1, WriteApplies DEF Whole!Next
  <2>5. ASSUME NEW s \in Sessions, Duplicate(s) \/ Abort(s) PROVE Whole!Next
    BY <2>3, <2>5 DEF Duplicate, Abort
  <2>6. CASE UNCHANGED vars
    BY <2>6 DEF vars
  <2>. QED  BY <2>1, <2>2, <2>4, <2>5, <2>6 DEF Next, Turn
<1>. QED
  BY <1>1, <1>2, Inductive, PTL DEF Spec, ImplementsSettings, Whole!Spec

-----------------------------------------------------------------------------
(* A set of numbers up to n has a greatest one.                            *)
LEMMA Least ==
    ASSUME NEW T, T \subseteq Nat, T # {}
    PROVE  \E x \in T : \A y \in T : x <= y
<1>. DEFINE R == OpToRel(<, Nat)
<1>1. IsWellFoundedOn(R, Nat)
  BY NatLessThanWellFounded
<1>2. \A x, y \in Nat : y < x => <<y, x>> \in R
  BY DEF OpToRel
<1>. HIDE DEF R
<1>3. PICK x \in T : \A y \in T : <<y, x>> \notin R
  BY <1>1, WFMin
<1>4. ASSUME NEW y \in T PROVE x <= y
  <2>1. x \in Nat /\ y \in Nat
    OBVIOUS
  <2>2. ~(y < x)
    BY <1>2, <1>3, <2>1, Zenon
  <2>. QED  BY <2>1, <2>2
<1>. QED  BY <1>4

LEMMA Greatest ==
    ASSUME NEW n \in Nat, NEW T, T \subseteq 0 .. n, T # {}
    PROVE  \E x \in T : \A y \in T : y <= x
<1>. DEFINE D == {n - x : x \in T}
<1>1. D \subseteq Nat /\ D # {}
  <2>1. \A x \in T : n - x \in Nat
    OBVIOUS
  <2>2. D \subseteq Nat
    BY <2>1
  <2>3. D # {}
    OBVIOUS
  <2>. QED  BY <2>2, <2>3
<1>2. PICK d \in D : \A e \in D : d <= e
  BY <1>1, Least
<1>3. PICK x \in T : d = n - x
  OBVIOUS
<1>4. ASSUME NEW y \in T PROVE y <= x
  <2>1. n - x <= n - y
    BY <1>2, <1>3
  <2>. QED  BY <2>1
<1>. QED  BY <1>4

(* Who waits for whom: a flush that finds its key written by another open  *)
(* transaction.                                                            *)
WaitsFor(s, t) == s # t /\ pc[s] = "flush" /\ lock[at[s]] = t

(* Requests never wait for each other in a circle: among any of them there *)
(* is one that waits for none of them, because all take the keys in the    *)
(* order of update_config (config_service.py:32-44).                       *)
NoCircularWait ==
    \A C \in SUBSET Sessions :
        C # {} => \E s \in C : \A t \in C : ~WaitsFor(s, t)

(* For any number of requests and keys PostgreSQL never has to break a     *)
(* deadlock between updates of the settings: the one that is furthest      *)
(* waits for none of the others.                                           *)
THEOREM NoDeadlock == Spec => []NoCircularWait
<1>1. ASSUME IInv, NEW C \in SUBSET Sessions, C # {}
      PROVE  \E s \in C : \A t \in C : ~WaitsFor(s, t)
  <2>. DEFINE T == {at[s] : s \in C}
  <2>1. \A s \in C : at[s] \in 1 .. LastKey + 1
    BY <1>1 DEF IInv, TypeOK
  <2>2. T \subseteq 0 .. LastKey + 1 /\ T # {} /\ LastKey + 1 \in Nat
    BY <1>1, <2>1, KeysAssumption
  <2>3. PICK k \in T : \A j \in T : j <= k
    BY <2>2, Greatest
  <2>4. PICK s \in C : at[s] = k
    OBVIOUS
  <2>5. ASSUME NEW t \in C, WaitsFor(s, t) PROVE FALSE
    <3>1. at[s] \in Keys /\ lock[at[s]] = t
      BY <1>1, <2>5 DEF WaitsFor, IInv, TypeOK
    <3>2. at[s] < at[t]
      BY <1>1, <3>1 DEF IInv, TypeOK
    <3>3. at[t] <= at[s]
      BY <2>3, <2>4
    <3>. QED  BY <2>1, <3>2, <3>3
  <2>. QED  BY <2>5
<1>2. IInv => NoCircularWait
  BY <1>1 DEF NoCircularWait
<1>. QED  BY <1>2, Inductive, PTL
=============================================================================
