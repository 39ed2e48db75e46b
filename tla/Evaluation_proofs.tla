------------------------- MODULE Evaluation_proofs -------------------------
(* Proofs about Evaluation: its types, unique reference numbers, current   *)
(* thresholds, alerts with their transactions, that the pool and the row   *)
(* locks never block each other, and that it implements FraudRecord.       *)
EXTENDS Evaluation, FiniteSetTheorems, TLAPS

(* What auto-review makes of an alert.                                     *)
Reviewed(s) == IF s >= 100 THEN "confirmed" ELSE "escalated"

(* Where one call stands: its score and draft are those its label implies, *)
(* and the outcome it is heading for was right at some time since it       *)
(* began.                                                                  *)
CallSound(e) ==
    /\ pc[e] \in {"reference", "threshold", "review", "commit"} =>
          score[e] \in Scores
    /\ pc[e] \in {"reference", "threshold", "review"} => ~Approves(score[e])
    /\ pc[e] = "threshold" => ~(score[e] >= 100)
    /\ draft[e] # None <=>
          \/ pc[e] \in {"threshold", "review"}
          \/ pc[e] = "commit" /\ ~Approves(score[e])
    /\ draft[e] # None => draft[e].txn = id[e] /\ draft[e].score = score[e]
    /\ pc[e] = "review" =>
          \E t \in window[e] : Reviewed(score[e]) = Records!Status(score[e], t)
    /\ pc[e] = "threshold" => draft[e].status = "pending"
    /\ pc[e] = "commit" /\ draft[e] # None =>
          \E t \in window[e] : draft[e].status = Records!Status(score[e], t)
    /\ pc[e] # "idle" => threshold \in window[e]
    /\ window[e] \subseteq past

CallsSound == \A e \in Calls : CallSound(e)

(* Reference numbers have all been drawn from the sequence, each once.     *)
RefsSound ==
    /\ \A a \in alerts : a.ref <= sequence
    /\ \A a, b \in alerts : a.ref = b.ref => a = b
    /\ \A e \in Calls : draft[e] # None =>
          draft[e].ref <= sequence /\ \A a \in alerts : a.ref # draft[e].ref
    /\ \A e, f \in Calls : e # f /\ draft[e] # None /\ draft[f] # None =>
          draft[e].ref # draft[f].ref

Stored == \A a \in alerts : a.txn \in txns

IInv == TypeOK /\ CallsSound /\ RefsSound /\ Stored /\ threshold \in past

-----------------------------------------------------------------------------
(* Only call e moves: the others' state and the setting stay as they are.  *)
Alone(e) ==
    /\ \A f \in Calls : f # e =>
          /\ pc'[f] = pc[f] /\ id'[f] = id[f] /\ score'[f] = score[f]
          /\ draft'[f] = draft[f] /\ window'[f] = window[f]
    /\ UNCHANGED <<threshold, past>>

LEMMA OthersSound ==
    ASSUME IInv, NEW e \in Calls, Alone(e), CallSound(e)'
    PROVE  CallsSound'
  <1> SUFFICES ASSUME NEW f \in Calls, f # e PROVE CallSound(f)'
    BY DEF CallsSound
  <1>1. CallSound(f)
    BY DEF IInv, CallsSound
  <1>2. /\ pc'[f] = pc[f] /\ id'[f] = id[f] /\ score'[f] = score[f]
        /\ draft'[f] = draft[f] /\ window'[f] = window[f]
        /\ threshold' = threshold /\ past' = past
    BY DEF Alone
  <1> QED
    BY <1>1, <1>2 DEF CallSound

(* A call that ends without having stored anything, or after having stored *)
(* its work, gives back its row lock and forgets its draft.                *)
LEMMA FinishTyped ==
    ASSUME TypeOK, NEW e \in Calls, Finish(e), UNCHANGED <<threshold, past>>
    PROVE  /\ pc' \in [Calls -> Labels]
           /\ id' \in [Calls -> ExternalIds \cup {None}]
           /\ score' \in [Calls -> Scores \cup {None}]
           /\ draft' \in [Calls -> Alert \cup {None}]
           /\ window' \in [Calls -> SUBSET Thresholds]
           /\ txnLock' \in [ExternalIds -> Calls \cup {None}]
           /\ conns' \subseteq Calls
           /\ pc'[e] = "idle" /\ draft'[e] = None /\ window'[e] = {}
           /\ Alone(e)
  BY DEF TypeOK, Finish, Goto, Alone, Labels, Querying, Unlocked, Returned

LEMMA FinishLocks ==
    ASSUME TypeOK, NEW e \in Calls, Finish(e), UNCHANGED <<threshold, past>>
    PROVE  /\ \A f \in Calls : pc'[f] # "idle" => id'[f] \in ExternalIds
           /\ \A f \in Calls, i \in ExternalIds :
                 txnLock'[i] = f <=> pc'[f] \in Locking /\ id'[f] = i
  <1>1. /\ pc'[e] = "idle"
        /\ \A f \in Calls : f # e => pc'[f] = pc[f] /\ id'[f] = id[f]
    BY FinishTyped DEF Alone
  <1>2. \A i \in ExternalIds :
           txnLock'[i] = IF txnLock[i] = e THEN None ELSE txnLock[i]
    BY DEF Finish, Unlocked
  <1>3. /\ \A f \in Calls : pc[f] # "idle" => id[f] \in ExternalIds
        /\ \A f \in Calls, i \in ExternalIds :
              txnLock[i] = f <=> pc[f] \in Locking /\ id[f] = i
    BY DEF TypeOK
  <1>4. pc'[e] \notin Locking
    BY <1>1 DEF Locking
  <1>5. \A f \in Calls : f # None
    BY NoneAssumption
  <1>6. ASSUME NEW f \in Calls, NEW i \in ExternalIds
        PROVE  txnLock'[i] = f <=> pc'[f] \in Locking /\ id'[f] = i
    <2>1. CASE f = e
      BY <1>2, <1>4, <1>5, <2>1
    <2>2. CASE f # e
      BY <1>1, <1>2, <1>3, <1>5, <2>2
    <2> QED
      BY <2>1, <2>2
  <1> QED
    BY <1>1, <1>3, <1>6

LEMMA FinishSound ==
    ASSUME IInv, NEW e \in Calls, Finish(e), UNCHANGED <<threshold, past>>
    PROVE  CallsSound'
  <1>1. TypeOK
    BY DEF IInv
  <1>2. pc'[e] = "idle" /\ draft'[e] = None /\ window'[e] = {} /\ Alone(e)
    BY <1>1, FinishTyped
  <1>3. CallSound(e)'
    BY <1>2 DEF CallSound
  <1> QED
    BY <1>2, <1>3, OthersSound

(* A call that ends and leaves the tables alone.                           *)
LEMMA EndUnstored ==
    ASSUME IInv, NEW e \in Calls, Finish(e),
           UNCHANGED <<txns, alerts, threshold, migrated, answers, past, calls>>,
           sequence' \in {sequence, sequence + 1}, faults' \in Nat
    PROVE  IInv'
  <1>1. TypeOK
    BY DEF IInv
  <1>2. sequence' \in Nat /\ sequence <= sequence' /\ sequence \in Nat
    BY <1>1 DEF TypeOK
  <1>3. TypeOK'
    <2>1. /\ txns' \subseteq ExternalIds /\ alerts' \subseteq Alert
          /\ threshold' \in Thresholds /\ migrated' \in BOOLEAN
          /\ past' \subseteq Thresholds /\ calls' \in Nat
          /\ answers' \subseteq [txn : ExternalIds, score : Scores,
                                 ref : Nat \cup {None}]
      BY <1>1 DEF TypeOK
    <2> QED
      BY <1>1, <1>2, <2>1, FinishTyped, FinishLocks DEF TypeOK
  <1>4. draft'[e] = None /\ \A f \in Calls : f # e => draft'[f] = draft[f]
    BY <1>1, FinishTyped DEF Alone
  <1>5. RefsSound'
    <2>1. \A a \in alerts : a.ref \in Nat
      BY <1>1 DEF TypeOK, Alert
    <2>2. \A f \in Calls : draft[f] # None => draft[f].ref \in Nat
      BY <1>1 DEF TypeOK, Alert
    <2>3. alerts' = alerts
      OBVIOUS
    <2> QED
      BY <1>2, <1>4, <2>1, <2>2, <2>3 DEF IInv, RefsSound
  <1>6. Stored' /\ (threshold \in past)'
    BY DEF IInv, Stored
  <1> QED
    BY <1>3, <1>5, <1>6, FinishSound DEF IInv

(* A call that ends with its work committed.                               *)
LEMMA EndStored ==
    ASSUME IInv, NEW e \in Calls, pc[e] = "commit", Store(e), Finish(e),
           UNCHANGED <<threshold, sequence, migrated, past, calls>>,
           answers' \subseteq [txn : ExternalIds, score : Scores,
                               ref : Nat \cup {None}],
           faults' \in Nat
    PROVE  IInv'
  <1>1. TypeOK
    BY DEF IInv
  <1>2. id[e] \in ExternalIds /\ draft[e] \in Alert \cup {None}
    BY <1>1 DEF TypeOK
  <1>3. txns' = txns \cup {id[e]} /\ alerts' = alerts \cup ({draft[e]} \ {None})
    BY DEF Store
  <1>4. txns' \subseteq ExternalIds /\ alerts' \subseteq Alert
    BY <1>1, <1>2, <1>3 DEF TypeOK
  <1>5. TypeOK'
    <2>1. /\ threshold' \in Thresholds /\ migrated' \in BOOLEAN
          /\ past' \subseteq Thresholds /\ calls' \in Nat /\ sequence' \in Nat
      BY <1>1 DEF TypeOK
    <2> QED
      BY <1>1, <1>4, <2>1, FinishTyped, FinishLocks DEF TypeOK
  <1>6. draft'[e] = None /\ \A f \in Calls : f # e => draft'[f] = draft[f]
    BY <1>1, FinishTyped DEF Alone
  <1>7. RefsSound'
    <2>1. RefsSound /\ sequence' = sequence
      BY DEF IInv
    <2>2. \A a \in alerts' : a \in alerts \/ (draft[e] # None /\ a = draft[e])
      BY <1>3
    <2>3. \A a \in alerts' : a.ref <= sequence'
      BY <2>1, <2>2 DEF RefsSound
    <2>4. \A a, b \in alerts' : a.ref = b.ref => a = b
      BY <2>1, <2>2 DEF RefsSound
    <2>5. ASSUME NEW f \in Calls, draft'[f] # None
          PROVE  draft'[f].ref <= sequence' /\ \A a \in alerts' : a.ref # draft'[f].ref
      <3>1. f # e /\ draft'[f] = draft[f]
        BY <1>6, <2>5
      <3> QED
        BY <2>1, <2>2, <2>5, <3>1 DEF RefsSound
    <2>6. \A f, g \in Calls : f # g /\ draft'[f] # None /\ draft'[g] # None =>
             draft'[f].ref # draft'[g].ref
      BY <1>6, <2>1 DEF RefsSound
    <2> QED
      BY <2>3, <2>4, <2>5, <2>6 DEF RefsSound
  <1>8. Stored'
    <2>1. draft[e] # None => draft[e].txn = id[e]
      BY DEF IInv, CallsSound, CallSound
    <2> QED
      BY <1>3, <2>1 DEF IInv, Stored
  <1>9. (threshold \in past)'
    BY DEF IInv
  <1> QED
    BY <1>5, <1>7, <1>8, <1>9, FinishSound DEF IInv

-----------------------------------------------------------------------------
LEMMA InitInv == Init => IInv
  <1> SUFFICES ASSUME Init PROVE IInv
    OBVIOUS
  <1>1. TypeOK
    BY NoneAssumption, ThresholdsAssumption DEF Init, TypeOK, Labels, Querying, Locking
  <1>2. CallsSound
    BY DEF Init, CallsSound, CallSound
  <1>3. RefsSound /\ Stored /\ threshold \in past
    BY DEF Init, RefsSound, Stored
  <1> QED
    BY <1>1, <1>2, <1>3 DEF IInv

LEMMA BeginInv ==
    ASSUME IInv, NEW e \in Calls, Begin(e)
    PROVE  IInv'
  <1>1. TypeOK
    BY DEF IInv
  <1>2. /\ pc[e] = "idle" /\ pc' = [pc EXCEPT ![e] = "connect"]
        /\ window' = [window EXCEPT ![e] = {threshold}]
        /\ calls' = calls + 1
        /\ UNCHANGED <<txns, alerts, threshold, sequence, migrated, conns, txnLock,
                       score, draft, answers, past, faults>>
    BY DEF Begin, Goto, data, held
  <1>3. PICK i \in ExternalIds : id' = [id EXCEPT ![e] = i]
    BY DEF Begin
  <1>4. /\ pc' \in [Calls -> Labels] /\ id' \in [Calls -> ExternalIds \cup {None}]
        /\ window' \in [Calls -> SUBSET Thresholds]
        /\ pc'[e] = "connect" /\ id'[e] = i /\ window'[e] = {threshold}
        /\ \A f \in Calls : f # e =>
              pc'[f] = pc[f] /\ id'[f] = id[f] /\ window'[f] = window[f]
    BY <1>1, <1>2, <1>3 DEF TypeOK, Labels, Querying
  <1>5. TypeOK'
    <2>1. \A f \in Calls : pc'[f] # "idle" => id'[f] \in ExternalIds
      BY <1>1, <1>4 DEF TypeOK
    <2>2. \A f \in Calls, j \in ExternalIds :
             txnLock'[j] = f <=> pc'[f] \in Locking /\ id'[f] = j
      BY <1>1, <1>2, <1>4 DEF TypeOK, Locking
    <2>3. calls' \in Nat
      BY <1>1, <1>2 DEF TypeOK
    <2> QED
      BY <1>1, <1>2, <1>4, <2>1, <2>2, <2>3 DEF TypeOK
  <1>6. CallsSound'
    <2>1. Alone(e)
      BY <1>2, <1>4 DEF Alone
    <2>2. draft[e] = None
      BY <1>2 DEF IInv, CallsSound, CallSound
    <2>3. CallSound(e)'
      BY <1>2, <1>4, <2>2 DEF CallSound, IInv
    <2> QED
      BY <2>1, <2>3, OthersSound
  <1>7. RefsSound' /\ Stored' /\ (threshold \in past)'
    BY <1>2 DEF IInv, RefsSound, Stored
  <1> QED
    BY <1>5, <1>6, <1>7 DEF IInv

LEMMA ConnectInv ==
    ASSUME IInv, NEW e \in Calls, Connect(e)
    PROVE  IInv'
  <1>1. TypeOK
    BY DEF IInv
  <1>2. /\ pc[e] = "connect" /\ pc' = [pc EXCEPT ![e] = "upsert"]
        /\ conns' = conns \cup {e}
        /\ UNCHANGED <<txns, alerts, threshold, sequence, migrated, txnLock, id,
                       score, draft, answers, past, window, calls, faults>>
    BY DEF Connect, Goto, data
  <1>3. /\ pc' \in [Calls -> Labels] /\ pc'[e] = "upsert"
        /\ \A f \in Calls : f # e => pc'[f] = pc[f]
    BY <1>1, <1>2 DEF TypeOK, Labels, Querying
  <1>4. TypeOK'
    <2>1. \A f \in Calls : pc'[f] # "idle" => id'[f] \in ExternalIds
      BY <1>1, <1>2, <1>3 DEF TypeOK
    <2>2. \A f \in Calls, j \in ExternalIds :
             txnLock'[j] = f <=> pc'[f] \in Locking /\ id'[f] = j
      BY <1>1, <1>2, <1>3 DEF TypeOK, Locking
    <2>3. conns' \subseteq Calls
      BY <1>1, <1>2 DEF TypeOK
    <2> QED
      BY <1>1, <1>2, <1>3, <2>1, <2>2, <2>3 DEF TypeOK
  <1>5. CallsSound'
    <2>1. Alone(e)
      BY <1>2, <1>3 DEF Alone
    <2>2. CallSound(e)'
      BY <1>2, <1>3 DEF CallSound, IInv, CallsSound
    <2> QED
      BY <2>1, <2>2, OthersSound
  <1>6. RefsSound' /\ Stored' /\ (threshold \in past)'
    BY <1>2 DEF IInv, RefsSound, Stored
  <1> QED
    BY <1>4, <1>5, <1>6 DEF IInv

LEMMA UpsertInv ==
    ASSUME IInv, NEW e \in Calls, Upsert(e)
    PROVE  IInv'
  <1>1. TypeOK
    BY DEF IInv
  <1>2. /\ pc[e] = "upsert" /\ pc' = [pc EXCEPT ![e] = "assess"]
        /\ txnLock[id[e]] = None
        /\ txnLock' = [txnLock EXCEPT ![id[e]] = e]
        /\ UNCHANGED <<txns, alerts, threshold, sequence, migrated, conns, id,
                       score, draft, answers, past, window, calls, faults>>
    BY DEF Upsert, Goto, data
  <1>3. id[e] \in ExternalIds
    BY <1>1, <1>2 DEF TypeOK
  <1>4. /\ pc' \in [Calls -> Labels] /\ txnLock' \in [ExternalIds -> Calls \cup {None}]
        /\ pc'[e] = "assess" /\ txnLock'[id[e]] = e
        /\ \A f \in Calls : f # e => pc'[f] = pc[f]
        /\ \A j \in ExternalIds : j # id[e] => txnLock'[j] = txnLock[j]
    BY <1>1, <1>2, <1>3 DEF TypeOK, Labels, Querying, Locking
  <1>5. TypeOK'
    <2>1. ASSUME NEW f \in Calls, NEW j \in ExternalIds
          PROVE  txnLock'[j] = f <=> pc'[f] \in Locking /\ id'[f] = j
      <3>1. txnLock[j] = f <=> pc[f] \in Locking /\ id[f] = j
        BY <1>1 DEF TypeOK
      <3>2. pc[e] \notin Locking /\ pc'[e] \in Locking
        BY <1>2, <1>4 DEF Locking
      <3>3. CASE f = e
        <4>1. txnLock[j] # e
          BY <1>1, <3>2 DEF TypeOK
        <4> QED
          BY <1>2, <1>4, <3>2, <3>3, <4>1
      <3>4. CASE f # e /\ j = id[e]
        <4>1. txnLock[j] # f
          BY <1>2, <3>4, NoneAssumption
        <4> QED
          BY <1>2, <1>4, <3>1, <3>4, <4>1
      <3>5. CASE f # e /\ j # id[e]
        BY <1>2, <1>4, <3>1, <3>5
      <3> QED
        BY <3>3, <3>4, <3>5
    <2>2. \A f \in Calls : pc'[f] # "idle" => id'[f] \in ExternalIds
      BY <1>1, <1>2, <1>3, <1>4 DEF TypeOK
    <2> QED
      BY <1>1, <1>2, <1>4, <2>1, <2>2 DEF TypeOK
  <1>6. CallsSound'
    <2>1. Alone(e)
      BY <1>2, <1>4 DEF Alone
    <2>2. CallSound(e)'
      BY <1>2, <1>4 DEF CallSound, IInv, CallsSound
    <2> QED
      BY <2>1, <2>2, OthersSound
  <1>7. RefsSound' /\ Stored' /\ (threshold \in past)'
    BY <1>2 DEF IInv, RefsSound, Stored
  <1> QED
    BY <1>5, <1>6, <1>7 DEF IInv

(* A step from one statement of the unit of work to the next.              *)
LEMMA StepTyped ==
    ASSUME TypeOK, NEW e \in Calls, NEW label \in Locking, pc[e] \in Locking,
           pc' = [pc EXCEPT ![e] = label], UNCHANGED <<id, txnLock>>
    PROVE  /\ pc' \in [Calls -> Labels]
           /\ pc'[e] = label
           /\ \A f \in Calls : f # e => pc'[f] = pc[f]
           /\ \A f \in Calls : pc'[f] # "idle" => id'[f] \in ExternalIds
           /\ \A f \in Calls, i \in ExternalIds :
                 txnLock'[i] = f <=> pc'[f] \in Locking /\ id'[f] = i
  <1>1. /\ pc' \in [Calls -> Labels] /\ pc'[e] = label
        /\ \A f \in Calls : f # e => pc'[f] = pc[f]
    BY DEF TypeOK, Labels, Querying
  <1>2. pc[e] # "idle"
    BY DEF Locking
  <1> QED
    BY <1>1, <1>2 DEF TypeOK

LEMMA AssessInv ==
    ASSUME IInv, NEW e \in Calls, Assess(e)
    PROVE  IInv'
  <1>1. TypeOK
    BY DEF IInv
  <1>2. /\ pc[e] = "assess"
        /\ UNCHANGED <<txns, alerts, threshold, sequence, migrated, conns, txnLock, id,
                       draft, answers, past, window, calls, faults>>
    BY DEF Assess, data, held
  <1>3. PICK s \in Scores :
           /\ score' = [score EXCEPT ![e] = s]
           /\ pc' = [pc EXCEPT ![e] = IF Approves(s) THEN "commit" ELSE "reference"]
    BY DEF Assess, Goto
  <1>4. /\ score' \in [Calls -> Scores \cup {None}] /\ score'[e] = s
        /\ \A f \in Calls : f # e => score'[f] = score[f]
    BY <1>1, <1>3 DEF TypeOK
  <1>5. /\ pc' \in [Calls -> Labels]
        /\ pc'[e] = IF Approves(s) THEN "commit" ELSE "reference"
        /\ \A f \in Calls : f # e => pc'[f] = pc[f]
        /\ \A f \in Calls : pc'[f] # "idle" => id'[f] \in ExternalIds
        /\ \A f \in Calls, i \in ExternalIds :
              txnLock'[i] = f <=> pc'[f] \in Locking /\ id'[f] = i
    <2>1. (IF Approves(s) THEN "commit" ELSE "reference") \in Locking
      BY DEF Locking
    <2>2. pc[e] \in Locking
      BY <1>2 DEF Locking
    <2> QED
      BY <1>1, <1>2, <1>3, <2>1, <2>2, StepTyped
  <1>6. TypeOK'
    BY <1>1, <1>2, <1>4, <1>5 DEF TypeOK
  <1>7. CallsSound'
    <2>1. Alone(e)
      BY <1>2, <1>4, <1>5 DEF Alone
    <2>2. CallSound(e) /\ draft[e] = None
      BY <1>2 DEF IInv, CallsSound, CallSound
    <2>3. CallSound(e)'
      BY <1>2, <1>4, <1>5, <2>2 DEF CallSound, Approves
    <2> QED
      BY <2>1, <2>3, OthersSound
  <1>8. RefsSound' /\ Stored' /\ (threshold \in past)'
    BY <1>2 DEF IInv, RefsSound, Stored
  <1> QED
    BY <1>6, <1>7, <1>8 DEF IInv

LEMMA CreateAlertInv ==
    ASSUME IInv, NEW e \in Calls, CreateAlert(e)
    PROVE  IInv'
  <1> DEFINE new == [ref |-> sequence + 1, txn |-> id[e], score |-> score[e],
                     status |-> "pending"]
             label == IF score[e] >= 100 THEN "review" ELSE "threshold"
  <1>1. TypeOK
    BY DEF IInv
  <1>2. /\ pc[e] = "reference"
        /\ sequence' = sequence + 1
        /\ draft' = [draft EXCEPT ![e] = new]
        /\ pc' = [pc EXCEPT ![e] = label]
        /\ UNCHANGED <<txns, alerts, threshold, migrated, conns, txnLock, id, score,
                       answers, past, window, calls, faults>>
    BY DEF CreateAlert, Goto, NextReference, held
  <1>3. CallSound(e) /\ score[e] \in Scores /\ ~Approves(score[e])
        /\ threshold \in window[e]
    BY <1>2 DEF IInv, CallsSound, CallSound
  <1>4. sequence \in Nat /\ id[e] \in ExternalIds
    BY <1>1, <1>2 DEF TypeOK
  <1>5. new \in Alert
    BY <1>3, <1>4 DEF Alert, Statuses
  <1>6. new # None
    BY <1>5, NoneAssumption
  <1>7. /\ draft' \in [Calls -> Alert \cup {None}] /\ draft'[e] = new
        /\ \A f \in Calls : f # e => draft'[f] = draft[f]
    BY <1>1, <1>2, <1>5 DEF TypeOK
  <1>8. /\ pc' \in [Calls -> Labels] /\ pc'[e] = label
        /\ \A f \in Calls : f # e => pc'[f] = pc[f]
        /\ \A f \in Calls : pc'[f] # "idle" => id'[f] \in ExternalIds
        /\ \A f \in Calls, i \in ExternalIds :
              txnLock'[i] = f <=> pc'[f] \in Locking /\ id'[f] = i
    <2>1. label \in Locking /\ pc[e] \in Locking
      BY <1>2 DEF Locking
    <2>2. UNCHANGED <<id, txnLock>>
      BY <1>2
    <2> QED
      BY <1>1, <1>2, <2>1, <2>2, StepTyped
  <1>9. TypeOK'
    <2>1. sequence' \in Nat
      BY <1>2, <1>4
    <2> QED
      BY <1>1, <1>2, <1>7, <1>8, <2>1 DEF TypeOK
  <1>10. CallsSound'
    <2>1. Alone(e)
      BY <1>2, <1>7, <1>8 DEF Alone
    <2>2. CASE score[e] >= 100
      <3>1. pc'[e] = "review"
        BY <1>8, <2>2
      <3>2. Reviewed(score[e]) = Records!Status(score[e], threshold)
        BY <2>2 DEF Reviewed, Records!Status
      <3>3. CallSound(e)'
        BY <1>2, <1>3, <1>6, <1>7, <3>1, <3>2 DEF CallSound
      <3> QED
        BY <2>1, <3>3, OthersSound
    <2>3. CASE ~(score[e] >= 100)
      <3>1. pc'[e] = "threshold"
        BY <1>8, <2>3
      <3>2. CallSound(e)'
        BY <1>2, <1>3, <1>6, <1>7, <2>3, <3>1 DEF CallSound
      <3> QED
        BY <2>1, <3>2, OthersSound
    <2> QED
      BY <2>2, <2>3
  <1>11. RefsSound'
    <2>1. \A a \in alerts : a.ref \in Nat /\ a.ref <= sequence
      BY <1>1 DEF IInv, RefsSound, TypeOK, Alert
    <2>2. \A f \in Calls : draft[f] # None => draft[f].ref \in Nat /\ draft[f].ref <= sequence
      BY <1>1 DEF IInv, RefsSound, TypeOK, Alert
    <2>3. new.ref = sequence + 1
      OBVIOUS
    <2> HIDE DEF new
    <2>4. RefsSound /\ alerts' = alerts
      BY <1>2 DEF IInv
    <2>5. \A a \in alerts' : a.ref <= sequence'
      BY <1>2, <1>4, <2>1, <2>4
    <2>6. ASSUME NEW f \in Calls, draft'[f] # None
          PROVE  draft'[f].ref <= sequence' /\ \A a \in alerts' : a.ref # draft'[f].ref
      <3>1. CASE f = e
        BY <1>2, <1>4, <1>7, <2>1, <2>3, <2>4, <3>1
      <3>2. CASE f # e
        BY <1>2, <1>4, <1>7, <2>2, <2>4, <2>6, <3>2 DEF RefsSound
      <3> QED
        BY <3>1, <3>2
    <2>7. ASSUME NEW f \in Calls, NEW g \in Calls, f # g,
                 draft'[f] # None, draft'[g] # None
          PROVE  draft'[f].ref # draft'[g].ref
      <3>1. CASE f = e
        BY <1>4, <1>7, <2>2, <2>3, <2>7, <3>1
      <3>2. CASE g = e
        BY <1>4, <1>7, <2>2, <2>3, <2>7, <3>2
      <3>3. CASE f # e /\ g # e
        BY <1>7, <2>4, <2>7, <3>3 DEF RefsSound
      <3> QED
        BY <3>1, <3>2, <3>3
    <2>8. \A a, b \in alerts' : a.ref = b.ref => a = b
      BY <2>4 DEF RefsSound
    <2> QED
      BY <2>5, <2>6, <2>7, <2>8 DEF RefsSound
  <1>12. Stored' /\ (threshold \in past)'
    BY <1>2 DEF IInv, Stored
  <1> QED
    BY <1>9, <1>10, <1>11, <1>12 DEF IInv

LEMMA CheckThresholdInv ==
    ASSUME IInv, NEW e \in Calls, CheckThreshold(e)
    PROVE  IInv'
  <1> DEFINE label == IF score[e] >= threshold THEN "review" ELSE "commit"
  <1>1. TypeOK
    BY DEF IInv
  <1>2. /\ pc[e] = "threshold"
        /\ pc' = [pc EXCEPT ![e] = label]
        /\ UNCHANGED <<txns, alerts, threshold, sequence, migrated, conns, txnLock, id,
                       score, draft, answers, past, window, calls, faults>>
    BY DEF CheckThreshold, Goto, StoredThreshold, data, held
  <1>3. /\ CallSound(e) /\ score[e] \in Scores
        /\ ~Approves(score[e]) /\ ~(score[e] >= 100)
        /\ draft[e] # None /\ draft[e].status = "pending" /\ threshold \in window[e]
    BY <1>2 DEF IInv, CallsSound, CallSound
  <1>4. /\ pc' \in [Calls -> Labels] /\ pc'[e] = label
        /\ \A f \in Calls : f # e => pc'[f] = pc[f]
        /\ \A f \in Calls : pc'[f] # "idle" => id'[f] \in ExternalIds
        /\ \A f \in Calls, i \in ExternalIds :
              txnLock'[i] = f <=> pc'[f] \in Locking /\ id'[f] = i
    <2>1. label \in Locking /\ pc[e] \in Locking
      BY <1>2 DEF Locking
    <2>2. UNCHANGED <<id, txnLock>>
      BY <1>2
    <2> QED
      BY <1>1, <1>2, <2>1, <2>2, StepTyped
  <1>5. TypeOK'
    BY <1>1, <1>2, <1>4 DEF TypeOK
  <1>6. CallsSound'
    <2>1. Alone(e)
      BY <1>2, <1>4 DEF Alone
    <2>2. CASE score[e] >= threshold
      <3>1. pc'[e] = "review"
        BY <1>4, <2>2
      <3>2. Reviewed(score[e]) = Records!Status(score[e], threshold)
        BY <1>3, <2>2 DEF Reviewed, Records!Status
      <3>3. CallSound(e)'
        BY <1>2, <1>3, <3>1, <3>2 DEF CallSound
      <3> QED
        BY <2>1, <3>3, OthersSound
    <2>3. CASE ~(score[e] >= threshold)
      <3>1. pc'[e] = "commit"
        BY <1>4, <2>3
      <3>2. draft[e].status = Records!Status(score[e], threshold)
        BY <1>3, <2>3 DEF Records!Status
      <3>3. CallSound(e)'
        BY <1>2, <1>3, <3>1, <3>2 DEF CallSound
      <3> QED
        BY <2>1, <3>3, OthersSound
    <2> QED
      BY <2>2, <2>3
  <1>7. RefsSound' /\ Stored' /\ (threshold \in past)'
    BY <1>2 DEF IInv, RefsSound, Stored
  <1> QED
    BY <1>5, <1>6, <1>7 DEF IInv

LEMMA AutoReviewInv ==
    ASSUME IInv, NEW e \in Calls, AutoReview(e)
    PROVE  IInv'
  <1> DEFINE new == [draft[e] EXCEPT !.status = Reviewed(score[e])]
  <1>1. TypeOK
    BY DEF IInv
  <1>2. /\ pc[e] = "review"
        /\ pc' = [pc EXCEPT ![e] = "commit"]
        /\ UNCHANGED <<txns, alerts, threshold, sequence, migrated, conns, txnLock, id,
                       score, answers, past, window, calls, faults>>
    BY DEF AutoReview, Goto, data, held
  <1>3. /\ CallSound(e) /\ score[e] \in Scores /\ ~Approves(score[e])
        /\ draft[e] # None /\ draft[e].txn = id[e] /\ draft[e].score = score[e]
        /\ \E t \in window[e] : Reviewed(score[e]) = Records!Status(score[e], t)
        /\ threshold \in window[e]
    BY <1>2 DEF IInv, CallsSound, CallSound
  <1>4. draft[e] \in Alert
    BY <1>1, <1>3 DEF TypeOK
  <1>5. new \in Alert
    BY <1>4 DEF Alert, Statuses, Reviewed
  <1>6. /\ new.status = Reviewed(score[e]) /\ new.ref = draft[e].ref
        /\ new.txn = draft[e].txn /\ new.score = draft[e].score
        /\ new # None
    BY <1>4, <1>5, NoneAssumption DEF Alert
  <1>7. draft' = [draft EXCEPT ![e] = new]
    BY <1>1 DEF AutoReview, Reviewed, TypeOK
  <1>8. /\ draft' \in [Calls -> Alert \cup {None}] /\ draft'[e] = new
        /\ \A f \in Calls : f # e => draft'[f] = draft[f]
    BY <1>1, <1>5, <1>7 DEF TypeOK
  <1> HIDE DEF new
  <1>9. /\ pc' \in [Calls -> Labels] /\ pc'[e] = "commit"
        /\ \A f \in Calls : f # e => pc'[f] = pc[f]
        /\ \A f \in Calls : pc'[f] # "idle" => id'[f] \in ExternalIds
        /\ \A f \in Calls, i \in ExternalIds :
              txnLock'[i] = f <=> pc'[f] \in Locking /\ id'[f] = i
    <2>1. "commit" \in Locking /\ pc[e] \in Locking
      BY <1>2 DEF Locking
    <2>2. UNCHANGED <<id, txnLock>>
      BY <1>2
    <2> QED
      BY <1>1, <1>2, <2>1, <2>2, StepTyped
  <1>10. TypeOK'
    BY <1>1, <1>2, <1>8, <1>9 DEF TypeOK
  <1>11. CallsSound'
    <2>1. Alone(e)
      BY <1>2, <1>8, <1>9 DEF Alone
    <2>2. CallSound(e)'
      BY <1>2, <1>3, <1>6, <1>8, <1>9 DEF CallSound
    <2> QED
      BY <2>1, <2>2, OthersSound
  <1>12. RefsSound'
    <2>1. \A f \in Calls :
             /\ draft'[f] # None <=> draft[f] # None
             /\ draft'[f] # None => draft'[f].ref = draft[f].ref
      BY <1>3, <1>6, <1>8
    <2>2. RefsSound /\ alerts' = alerts /\ sequence' = sequence
      BY <1>2 DEF IInv
    <2> QED
      BY <2>1, <2>2 DEF RefsSound
  <1>13. Stored' /\ (threshold \in past)'
    BY <1>2 DEF IInv, Stored
  <1> QED
    BY <1>10, <1>11, <1>12, <1>13 DEF IInv

LEMMA SetThresholdInv ==
    ASSUME IInv, NEW t \in Thresholds, SetThreshold(t)
    PROVE  IInv'
  <1>1. TypeOK
    BY DEF IInv
  <1>2. /\ threshold' = t /\ past' = past \cup {t}
        /\ window' = [e \in Calls |->
                         IF pc[e] = "idle" THEN {} ELSE window[e] \cup {t}]
        /\ UNCHANGED <<txns, alerts, sequence, migrated, conns, txnLock, pc, id, score,
                       draft, answers, calls, faults>>
    BY DEF SetThreshold, held
  <1>3. TypeOK'
    BY <1>1, <1>2 DEF TypeOK
  <1>4. CallsSound'
    <2> SUFFICES ASSUME NEW e \in Calls PROVE CallSound(e)'
      BY DEF CallsSound
    <2>1. CallSound(e)
      BY DEF IInv, CallsSound
    <2>2. window'[e] = IF pc[e] = "idle" THEN {} ELSE window[e] \cup {t}
      BY <1>2
    <2>3. CASE pc[e] = "idle"
      BY <1>2, <2>1, <2>2, <2>3 DEF CallSound
    <2>4. CASE pc[e] # "idle"
      BY <1>2, <2>1, <2>2, <2>4 DEF CallSound
    <2> QED
      BY <2>3, <2>4
  <1>5. RefsSound' /\ Stored' /\ (threshold \in past)'
    BY <1>2 DEF IInv, RefsSound, Stored
  <1> QED
    BY <1>3, <1>4, <1>5 DEF IInv

(* A step that changes nothing but the sequence's existence, or nothing.   *)
LEMMA IdleInv ==
    ASSUME IInv, migrated' \in BOOLEAN,
           UNCHANGED <<txns, alerts, threshold, sequence, conns, txnLock, pc, id, score,
                       draft, answers, past, window, calls, faults>>
    PROVE  IInv'
  <1>1. TypeOK'
    BY DEF IInv, TypeOK
  <1>2. CallsSound'
    BY DEF IInv, CallsSound, CallSound
  <1>3. RefsSound' /\ Stored' /\ (threshold \in past)'
    BY DEF IInv, RefsSound, Stored
  <1> QED
    BY <1>1, <1>2, <1>3 DEF IInv

LEMMA CommitInv ==
    ASSUME IInv, NEW e \in Calls, Commit(e)
    PROVE  IInv'
  <1> DEFINE answer == [txn |-> id[e], score |-> score[e],
                        ref |-> IF draft[e] = None THEN None ELSE draft[e].ref]
             Answers == [txn : ExternalIds, score : Scores, ref : Nat \cup {None}]
  <1>1. TypeOK
    BY DEF IInv
  <1>2. pc[e] = "commit" /\ answers' = answers \cup {answer} /\ faults' = faults
    BY DEF Commit
  <1>3. score[e] \in Scores /\ id[e] \in ExternalIds
    BY <1>1, <1>2 DEF IInv, CallsSound, CallSound, TypeOK
  <1>4. draft[e] # None => draft[e].ref \in Nat
    BY <1>1 DEF TypeOK, Alert
  <1>5. answer \in Answers
    BY <1>3, <1>4
  <1>6. answers \subseteq Answers /\ faults \in Nat
    BY <1>1 DEF TypeOK
  <1>7. answers' \subseteq Answers
    BY <1>2, <1>5, <1>6
  <1> QED
    BY <1>2, <1>6, <1>7, EndStored DEF Commit

LEMMA CommitErrorInv ==
    ASSUME IInv, NEW e \in Calls, CommitError(e)
    PROVE  IInv'
  <1>1. TypeOK
    BY DEF IInv
  <1>2. faults' \in Nat
    BY <1>1 DEF TypeOK, CommitError, Fault
  <1>3. answers' \subseteq [txn : ExternalIds, score : Scores, ref : Nat \cup {None}]
    BY <1>1 DEF TypeOK, CommitError
  <1> QED
    BY <1>2, <1>3, EndStored, EndUnstored DEF CommitError

LEMMA NextInv == IInv /\ [Next]_vars => IInv'
  <1> SUFFICES ASSUME IInv, [Next]_vars PROVE IInv'
    OBVIOUS
  <1>0. TypeOK
    BY DEF IInv
  <1>1. ASSUME NEW e \in Calls, Begin(e) PROVE IInv'
    BY <1>1, BeginInv
  <1>2. ASSUME NEW e \in Calls, Upsert(e) PROVE IInv'
    BY <1>2, UpsertInv
  <1>3. ASSUME NEW e \in Calls, Assess(e) PROVE IInv'
    BY <1>3, AssessInv
  <1>4. ASSUME NEW e \in Calls, CreateAlert(e) PROVE IInv'
    BY <1>4, CreateAlertInv
  <1>5. ASSUME NEW e \in Calls, NoSequence(e) PROVE IInv'
    <2>1. faults' \in Nat
      BY <1>0, <1>5 DEF NoSequence, TypeOK
    <2> QED
      BY <1>5, <2>1, EndUnstored DEF NoSequence, data
  <1>6. ASSUME NEW e \in Calls, CheckThreshold(e) PROVE IInv'
    BY <1>6, CheckThresholdInv
  <1>7. ASSUME NEW e \in Calls, AutoReview(e) PROVE IInv'
    BY <1>7, AutoReviewInv
  <1>8. ASSUME NEW e \in Calls, Commit(e) PROVE IInv'
    BY <1>8, CommitInv
  <1>9. ASSUME NEW e \in Calls, CommitError(e) PROVE IInv'
    BY <1>9, CommitErrorInv
  <1>10. ASSUME NEW e \in Calls, Abort(e) PROVE IInv'
    <2>1. faults' \in Nat
      BY <1>0, <1>10 DEF Abort, Fault, TypeOK
    <2>2. sequence' \in {sequence, sequence + 1}
      BY <1>10 DEF Abort
    <2> QED
      BY <1>10, <2>1, <2>2, EndUnstored DEF Abort
  <1>11. ASSUME NEW t \in Thresholds, SetThreshold(t) PROVE IInv'
    BY <1>11, SetThresholdInv
  <1>12. CASE Migrate
    BY <1>12, IdleInv DEF Migrate, held
  <1>13. CASE UNCHANGED vars
    <2>1. migrated' \in BOOLEAN
      BY <1>0, <1>13 DEF TypeOK, vars, data, held
    <2> QED
      BY <1>13, <2>1, IdleInv DEF vars, data, held
  <1>14. ASSUME NEW e \in Calls, Connect(e) PROVE IInv'
    BY <1>14, ConnectInv
  <1>15. ASSUME NEW e \in Calls, PoolTimeout(e) PROVE IInv'
    <2>1. faults' \in Nat
      BY <1>0, <1>15 DEF PoolTimeout, TypeOK
    <2> QED
      BY <1>15, <2>1, EndUnstored DEF PoolTimeout, data
  <1> QED
    BY <1>1, <1>2, <1>3, <1>4, <1>5, <1>6, <1>7, <1>8, <1>9, <1>10, <1>11,
       <1>12, <1>13, <1>14, <1>15 DEF Next, Turn

LEMMA Inductive == Spec => []IInv
  BY InitInv, NextInv, PTL DEF Spec

-----------------------------------------------------------------------------
(* The types of Evaluation; a transaction's row is locked exactly by the   *)
(* call between its upsert and the end of its unit of work.                *)
THEOREM EvaluationTypes == Spec => []TypeOK
  BY Inductive, PTL DEF IInv

(* No two alerts, committed or being created, share a reference number     *)
(* (alert_repository.py:39-52).                                            *)
THEOREM UniqueReferences == Spec => []ReferencesUnique
  <1>1. IInv => ReferencesUnique
    <2> SUFFICES ASSUME IInv PROVE ReferencesUnique
      OBVIOUS
    <2>1. RefsSound /\ TypeOK
      BY DEF IInv
    <2>2. \A e \in Calls : draft[e] = None => draft[e] \notin alerts
      BY <2>1, NoneAssumption DEF TypeOK
    <2>3. \A e \in Calls : draft[e] \notin alerts
      BY <2>1, <2>2 DEF RefsSound
    <2> QED
      BY <2>1, <2>3 DEF RefsSound, ReferencesUnique
  <1> QED
    BY <1>1, Inductive, PTL

(* An alert about to be committed has the status of its score under a      *)
(* threshold in force while its evaluation ran                             *)
(* (evaluation_service.py:167-181).                                        *)
THEOREM CurrentEscalation == Spec => []EscalationCurrent
  <1>1. IInv => EscalationCurrent
    BY DEF IInv, CallsSound, CallSound, EscalationCurrent
  <1> QED
    BY <1>1, Inductive, PTL

(* Alerts belong to stored transactions, and calls for the same            *)
(* external_id never have alerts open together                             *)
(* (evaluation_service.py:86-94, 131-141).                                 *)
THEOREM AlertsStored == Spec => []AlertsOfStored
  <1>1. IInv => AlertsOfStored
    <2> SUFFICES ASSUME IInv PROVE AlertsOfStored
      OBVIOUS
    <2>1. \A a \in alerts : a.txn \in txns
      BY DEF IInv, Stored
    <2>2. ASSUME NEW e \in Calls, NEW f \in Calls, draft[e] # None,
                 draft[f] # None, e # f
          PROVE  draft[e].txn # draft[f].txn
      <3>1. pc[e] \in Locking /\ pc[f] \in Locking
        BY <2>2 DEF IInv, CallsSound, CallSound, Locking
      <3>2. draft[e].txn = id[e] /\ draft[f].txn = id[f]
        BY <2>2 DEF IInv, CallsSound, CallSound
      <3>3. id[e] \in ExternalIds
        BY <3>1 DEF IInv, TypeOK, Locking
      <3>4. id[e] = id[f] => txnLock[id[e]] = e /\ txnLock[id[e]] = f
        BY <3>1, <3>3 DEF IInv, TypeOK
      <3> QED
        BY <2>2, <3>2, <3>4
    <2> QED
      BY <2>1, <2>2 DEF AlertsOfStored
  <1> QED
    BY <1>1, Inductive, PTL

(* Whoever has a connection is in the middle of its work, and the other    *)
(* way round.                                                              *)
ConnsExact == conns = {e \in Calls : pc[e] \in Querying}

LEMMA ConnsStep == TypeOK /\ ConnsExact /\ [Next]_vars => ConnsExact'
  <1> SUFFICES ASSUME TypeOK, ConnsExact, [Next]_vars PROVE ConnsExact'
    OBVIOUS
  <1> USE DEF ConnsExact, TypeOK, Querying, Locking, Goto, held
  <1>1. ASSUME NEW e \in Calls, Finish(e) PROVE ConnsExact'
    BY <1>1 DEF Finish, Returned
  <1>2. ASSUME NEW e \in Calls, Turn(e) PROVE ConnsExact'
    <2>1. CASE Connect(e)
      BY <2>1 DEF Connect
    <2>2. CASE Upsert(e) \/ AutoReview(e)
      BY <2>2 DEF Upsert, AutoReview
    <2>3. CASE Assess(e) \/ CreateAlert(e) \/ CheckThreshold(e)
      BY <2>3 DEF Assess, CreateAlert, CheckThreshold
    <2>4. CASE PoolTimeout(e) \/ NoSequence(e) \/ Commit(e)
      BY <1>1, <2>4 DEF PoolTimeout, NoSequence, Commit
    <2> QED
      BY <1>2, <2>1, <2>2, <2>3, <2>4 DEF Turn
  <1>3. ASSUME NEW e \in Calls, Begin(e) PROVE ConnsExact'
    BY <1>3 DEF Begin
  <1>4. ASSUME NEW e \in Calls, CommitError(e) \/ Abort(e) PROVE ConnsExact'
    BY <1>1, <1>4 DEF CommitError, Abort
  <1>5. ASSUME NEW t \in Thresholds, SetThreshold(t) PROVE ConnsExact'
    BY <1>5 DEF SetThreshold
  <1>6. CASE Migrate \/ UNCHANGED vars
    BY <1>6 DEF Migrate, vars
  <1> QED
    BY <1>2, <1>3, <1>4, <1>5, <1>6 DEF Next

(* A call is refused a connection only while as many others as the pool    *)
(* has are at work: no way a call can end costs the pool a connection      *)
(* (grpc/server.py:38, infrastructure.py:48-54).                           *)
THEOREM PoolJustified == Spec => PoolOnlyBusy
  <1>1. Init => ConnsExact
    BY DEF Init, ConnsExact, Querying, Locking
  <1>2. ConnsExact /\ [Next]_vars =>
           [\A e \in Calls : PoolTimeout(e) =>
               Cardinality({f \in Calls \ {e} : pc[f] \in Querying}) = PoolSize]_vars
    <2> SUFFICES ASSUME ConnsExact, NEW e \in Calls, PoolTimeout(e)
                 PROVE  Cardinality({f \in Calls \ {e} : pc[f] \in Querying})
                           = PoolSize
      OBVIOUS
    <2>1. pc[e] \notin Querying
      BY DEF PoolTimeout, Querying, Locking
    <2>2. {f \in Calls \ {e} : pc[f] \in Querying} = conns
      BY <2>1 DEF ConnsExact
    <2> QED
      BY <2>2 DEF PoolTimeout, PoolFull
  <1> QED
    BY <1>1, <1>2, ConnsStep, EvaluationTypes, PTL DEF Spec, PoolOnlyBusy

(* A call that has to wait for others: for a connection, or for the row    *)
(* that an open transaction has written.                                   *)
HasToWait(e) ==
    \/ pc[e] = "connect" /\ PoolFull
    \/ pc[e] = "upsert" /\ txnLock[id[e]] # None

(* Not all calls that are under way wait.                                  *)
SomeoneWorks ==
    (\E e \in Calls : pc[e] # "idle") =>
        \E e \in Calls : pc[e] # "idle" /\ ~HasToWait(e)

(* The pool and the row locks never block each other, however small the    *)
(* pool and however many calls are for the same transaction: a call takes  *)
(* one connection, before it locks its row, and asks for nothing more      *)
(* (evaluation_service.py:82-152, transaction_repository.py:82-96).        *)
THEOREM WorkGoesOn == Spec => []SomeoneWorks
  <1>1. ASSUME TypeOK, ConnsExact, NEW e \in Calls, pc[e] # "idle"
        PROVE  \E f \in Calls : pc[f] # "idle" /\ ~HasToWait(f)
    <2>1. ASSUME NEW f \in Calls, pc[f] \in Querying
          PROVE  \E g \in Calls : pc[g] # "idle" /\ ~HasToWait(g)
      <3>1. CASE HasToWait(f)
        <4>1. pc[f] = "upsert" /\ id[f] \in ExternalIds /\ txnLock[id[f]] # None
          BY <1>1, <2>1, <3>1 DEF HasToWait, TypeOK, Querying, Locking
        <4>2. PICK g \in Calls : txnLock[id[f]] = g
          BY <1>1, <4>1 DEF TypeOK
        <4>3. pc[g] \in Locking
          BY <1>1, <4>1, <4>2 DEF TypeOK
        <4> QED
          BY <4>3 DEF HasToWait, Locking
      <3>2. CASE ~HasToWait(f)
        BY <2>1, <3>2 DEF Querying, Locking
      <3> QED
        BY <3>1, <3>2
    <2>2. CASE HasToWait(e) /\ pc[e] = "connect"
      <3>1. Cardinality(conns) # 0
        BY <2>2, BoundsAssumption DEF HasToWait, PoolFull
      <3>2. conns # {}
        BY <3>1, FS_EmptySet
      <3>3. PICK f \in Calls : pc[f] \in Querying
        BY <1>1, <3>2 DEF ConnsExact
      <3> QED
        BY <2>1, <3>3
    <2>3. CASE HasToWait(e) /\ pc[e] = "upsert"
      BY <2>1, <2>3 DEF Querying
    <2> QED
      BY <1>1, <2>2, <2>3 DEF HasToWait
  <1>2. TypeOK /\ ConnsExact => SomeoneWorks
    BY <1>1 DEF SomeoneWorks
  <1>3. Init => ConnsExact
    BY DEF Init, ConnsExact, Querying, Locking
  <1> QED
    BY <1>2, <1>3, ConnsStep, EvaluationTypes, PTL DEF Spec

(* The commit of a call is a step of the record.                           *)
LEMMA StoreRecords ==
    ASSUME IInv, NEW e \in Calls, pc[e] = "commit", Store(e), UNCHANGED past,
           answers' \in {answers, answers \cup
              {[txn |-> id[e], score |-> score[e],
                ref |-> IF draft[e] = None THEN None ELSE draft[e].ref]}}
    PROVE  Records!Next
  <1>1. /\ score[e] \in Scores
        /\ draft[e] # None <=> ~Approves(score[e])
        /\ draft[e] # None =>
              /\ draft[e].txn = id[e] /\ draft[e].score = score[e]
              /\ \E t \in window[e] : draft[e].status = Records!Status(score[e], t)
        /\ window[e] \subseteq past
    BY DEF IInv, CallsSound, CallSound
  <1>2. id[e] \in ExternalIds
    BY DEF IInv, TypeOK
  <1>3. Approves(score[e]) <=> Records!Approved(score[e])
    BY DEF Approves, Records!Approved
  <1>4. txns' = txns \cup {id[e]} /\ alerts' = alerts \cup ({draft[e]} \ {None})
    BY DEF Store
  <1>5. CASE Approves(score[e])
    <2>1. alerts' = alerts
      BY <1>1, <1>4, <1>5
    <2>2. Records!Approve(id[e], score[e])
      BY <1>1, <1>3, <1>5, <2>1 DEF Records!Approve, Records!MayAnswer
    <2> QED
      BY <1>1, <1>2, <1>4, <2>2 DEF Records!Next, Records!Record
  <1>6. CASE ~Approves(score[e])
    <2>1. draft[e] # None /\ \A b \in alerts : b.ref # draft[e].ref
      BY <1>1, <1>6 DEF IInv, RefsSound
    <2>2. alerts' = alerts \cup {draft[e]} /\ draft[e] \in alerts' \ alerts
      BY <1>4, <2>1
    <2>3. Records!MayAnswer(id[e], score[e], draft[e].ref)
      BY <2>1 DEF Records!MayAnswer
    <2>4. \E t \in past : draft[e].status = Records!Status(score[e], t)
      BY <1>1, <2>1
    <2>5. Records!Raise(id[e], score[e])
      BY <1>1, <1>3, <1>6, <2>1, <2>2, <2>3, <2>4 DEF Records!Raise
    <2> QED
      BY <1>1, <1>2, <1>4, <2>5 DEF Records!Next, Records!Record
  <1> QED
    BY <1>5, <1>6

(* Evaluation implements FraudRecord: to readers of the database and to    *)
(* callers each evaluation is one atomic step                              *)
(* (evaluation_service.py:67-71, 148-152).                                 *)
THEOREM Refinement == Spec => ImplementsRecord
  <1>1. Init => Records!Init
    BY DEF Init, Records!Init
  <1>2. IInv /\ [Next]_vars => [Records!Next]_(Records!vars)
    <2> SUFFICES ASSUME IInv, [Next]_vars
                 PROVE  Records!Next \/ UNCHANGED <<txns, alerts, answers, past>>
      BY DEF Records!vars
    <2>1. ASSUME NEW e \in Calls,
                 \/ Begin(e) \/ Connect(e) \/ PoolTimeout(e)
                 \/ Upsert(e) \/ Assess(e) \/ CreateAlert(e)
                 \/ NoSequence(e) \/ CheckThreshold(e) \/ AutoReview(e) \/ Abort(e)
          PROVE  UNCHANGED <<txns, alerts, answers, past>>
      BY <2>1 DEF Begin, Connect, PoolTimeout, Upsert, Assess, CreateAlert, NoSequence, CheckThreshold,
                  AutoReview, Abort, data
    <2>2. ASSUME NEW e \in Calls, Commit(e) PROVE Records!Next
      BY <2>2, StoreRecords DEF Commit
    <2>3. ASSUME NEW e \in Calls, CommitError(e)
          PROVE  Records!Next \/ UNCHANGED <<txns, alerts, answers, past>>
      <3>1. UNCHANGED <<past, answers>> /\ pc[e] = "commit"
        BY <2>3 DEF CommitError
      <3>2. CASE Store(e)
        BY <3>1, <3>2, StoreRecords
      <3>3. CASE UNCHANGED <<txns, alerts>>
        BY <3>1, <3>3
      <3> QED
        BY <2>3, <3>2, <3>3 DEF CommitError
    <2>4. ASSUME NEW t \in Thresholds, SetThreshold(t) PROVE Records!Next
      BY <2>4 DEF SetThreshold, Records!Next, Records!SetThreshold
    <2>5. CASE Migrate \/ UNCHANGED vars
      BY <2>5 DEF Migrate, vars, data
    <2> QED
      BY <2>1, <2>2, <2>3, <2>4, <2>5 DEF Next, Turn
  <1> QED
    BY <1>1, <1>2, Inductive, PTL DEF Spec, ImplementsRecord, Records!Spec

=============================================================================
