--------------------- MODULE TransactionConsumer_proofs ---------------------
(***************************************************************************)
(* Proofs, for every set of consumers, every log and every fault budget,   *)
(* of invariants of TransactionConsumer.                                   *)
(***************************************************************************)
EXTENDS TransactionConsumer, TLAPS

(* A slot names a message of the log.                                      *)
LEMMA SlotFacts ==
    /\ \A m \in Slots : /\ m[1] \in Partitions
                        /\ m[2] \in 1 .. Len(Log[m[1]])
                        /\ m = <<m[1], m[2]>>
                        /\ MsgAt(m) \in Message
    /\ \A p \in Partitions : \A i \in 1 .. Len(Log[p]) : <<p, i>> \in Slots
<1>1. ASSUME NEW m \in Slots
      PROVE  /\ m[1] \in Partitions
             /\ m[2] \in 1 .. Len(Log[m[1]])
             /\ m = <<m[1], m[2]>>
             /\ MsgAt(m) \in Message
  <2>1. PICK p \in Partitions : m \in {p} \X (1 .. Len(Log[p]))
    BY DEF Slots
  <2>2. Log[p] \in Seq(Message)
    BY LogAssumption
  <2>3. m[1] = p /\ m[2] \in 1 .. Len(Log[p]) /\ m = <<m[1], m[2]>>
    BY <2>1
  <2>. QED  BY <2>2, <2>3 DEF MsgAt
<1>2. ASSUME NEW p \in Partitions, NEW i \in 1 .. Len(Log[p])
      PROVE  <<p, i>> \in Slots
  <2>1. <<p, i>> \in {p} \X (1 .. Len(Log[p]))
    OBVIOUS
  <2>. QED  BY <2>1 DEF Slots
<1>. QED  BY <1>1, <1>2

(* Where the log ends is a natural number.                                 *)
LEMMA LogLength == \A p \in Partitions : Len(Log[p]) \in Nat
  BY LogAssumption

(* A busy consumer has a message, and the message an id and a kind.        *)
LEMMA BusyHasMessage ==
    ASSUME TypeOK, NEW c \in Consumers, pc[c] \in Busy
    PROVE  cur[c] \in Slots /\ Id(c) \in ExternalIds /\ Kind(c) \in Kinds
<1>1. cur[c] \in Slots
  BY DEF TypeOK
<1>2. MsgAt(cur[c]) \in Message
  BY <1>1, SlotFacts
<1>. QED  BY <1>1, <1>2 DEF Message, Id, Kind

(* Spending a fault changes its count, and only that.                      *)
LEMMA SpendTyped ==
    ASSUME spent \in [Faults -> Nat], NEW f \in Faults, Spend(f)
    PROVE  /\ spent' \in [Faults -> Nat]
           /\ spent'[f] = spent[f] + 1
           /\ \A g \in Faults \ {f} : spent'[g] = spent[g]
  BY DEF Spend

(* A failed attempt leads to the next one or to the dead letter queue.     *)
LEMMA FailSteps ==
    ASSUME TypeOK, NEW c \in Consumers, Fail(c)
    PROVE  /\ attempt' \in [Consumers -> 1 .. MaxRetries]
           /\ \/ pc' = [pc EXCEPT ![c] = "process"]
              \/ pc' = [pc EXCEPT ![c] = "dlq"] /\ attempt' = attempt
<1>1. CASE attempt[c] < MaxRetries
  <2>1. attempt' = [attempt EXCEPT ![c] = @ + 1]
    BY <1>1 DEF Fail
  <2>2. attempt \in [Consumers -> 1 .. MaxRetries] /\ MaxRetries \in Nat
    BY RetriesAssumption DEF TypeOK
  <2>3. attempt[c] + 1 \in 1 .. MaxRetries
    BY <1>1, <2>2
  <2>. QED  BY <1>1, <2>1, <2>2, <2>3 DEF Fail, Goto
<1>2. CASE ~(attempt[c] < MaxRetries)
  BY <1>2 DEF Fail, Goto, TypeOK
<1>. QED  BY <1>1, <1>2

(* After a failed attempt the process is as well-formed as before.         *)
LEMMA FailTyped ==
    ASSUME TypeOK, NEW c \in Consumers, pc[c] \in Busy, Fail(c), UNCHANGED cur
    PROVE  /\ attempt' \in [Consumers -> 1 .. MaxRetries]
           /\ pc' \in [Consumers -> Labels]
           /\ \A d \in Consumers : cur'[d] # None <=> pc'[d] \in Busy
<1>1. {"process", "dlq"} \subseteq Busy
  BY DEF Busy, Labels, Holding
<1>2. pc' = [pc EXCEPT ![c] = "process"] \/ pc' = [pc EXCEPT ![c] = "dlq"]
  BY FailSteps
<1>3. /\ pc \in [Consumers -> Labels] /\ Busy \subseteq Labels
      /\ \A d \in Consumers : cur[d] # None <=> pc[d] \in Busy
  BY DEF TypeOK, Busy
<1>4. pc' \in [Consumers -> Labels]
  BY <1>1, <1>2, <1>3
<1>5. ASSUME NEW d \in Consumers  PROVE cur'[d] # None <=> pc'[d] \in Busy
  <2>1. CASE d = c
    <3>1. pc'[c] \in Busy
      BY <1>1, <1>2, <1>3
    <3>. QED  BY <2>1, <3>1, <1>3
  <2>2. CASE d # c
    <3>1. pc'[d] = pc[d]
      BY <2>2, <1>2, <1>3
    <3>. QED  BY <3>1, <1>3
  <2>. QED  BY <2>1, <2>2
<1>. QED  BY FailSteps, <1>4, <1>5

(* A commit takes each partition up to what was delivered of it at most.   *)
LEMMA OffsetsTyped ==
    ASSUME TypeOK, NEW c \in Consumers
    PROVE  /\ Offsets(c) \in [Partitions -> Nat]
           /\ \A p \in Partitions : /\ committed[p] <= Offsets(c)[p]
                                   /\ Offsets(c)[p] <= position[p]
  BY DEF TypeOK, Offsets

-----------------------------------------------------------------------------
(* Type correctness: the variables keep their types, a consumer has a      *)
(* message exactly while it works on one, the attempts stay within the     *)
(* retry limit (base.py:158), and no partition is committed beyond what    *)
(* was delivered or delivered beyond its end.                              *)
THEOREM TypeCorrect == Spec => []TypeOK
<1>. USE DEF kafka, redis, db, proc, Labels, Busy, Holding, Running, Goto
<1>1. Init => TypeOK
  BY LogLength, RetriesAssumption, BudgetAssumption DEF Init, TypeOK
<1>2. TypeOK /\ [Next]_vars => TypeOK'
  <2> SUFFICES ASSUME TypeOK, [Next]_vars PROVE TypeOK'
    OBVIOUS
  <2>. USE LogLength, RetriesAssumption, NoneAssumption DEF TypeOK
  <2>0. /\ Spend("crash") \/ Spend("revoke") \/ Spend("signal") => spent' \in [Faults -> Nat]
        /\ Spend("redis") \/ Spend("db") \/ Spend("commit") => spent' \in [Faults -> Nat]
        /\ Spend("dlq") \/ Spend("lockTTL") \/ Spend("keyTTL") => spent' \in [Faults -> Nat]
    BY SpendTyped DEF Faults
  <2>1. ASSUME NEW c \in Consumers, Turn(c) PROVE TypeOK'
    <3>. pc[c] \in Busy => cur[c] \in Slots /\ Id(c) \in ExternalIds
      BY BusyHasMessage
    <3>1. CASE Start(c)
      BY <3>1 DEF Start
    <3>1a. CASE LoadRules(c)
      BY <3>1a DEF LoadRules
    <3>1b. CASE LoadRulesError(c)
      BY <2>0, <3>1b DEF LoadRulesError, LeaveGroup
    <3>2. CASE Poll(c)
      <4>1. PICK p \in Partitions :
               /\ position[p] < Len(Log[p])
               /\ position' = [position EXCEPT ![p] = @ + 1]
               /\ cur' = [cur EXCEPT ![c] = <<p, position[p] + 1>>]
        BY <3>2 DEF Poll, Deliverable
      <4>0. pc' = [pc EXCEPT ![c] = "process"] /\ UNCHANGED <<owner, committed, dlq, redis, db, attempt, stopEvent, spent>>
        BY <3>2 DEF Poll
      <4>2. position[p] + 1 \in 1 .. Len(Log[p])
        BY <4>1
      <4>3. <<p, position[p] + 1>> \in Slots /\ <<p, position[p] + 1>> # None
        BY <4>2, SlotFacts
      <4>4. /\ position' \in [Partitions -> Nat]
            /\ \A q \in Partitions :
                  committed[q] <= position'[q] /\ position'[q] <= Len(Log[q])
        BY <4>1, <4>2
      <4>5. /\ cur' \in [Consumers -> Slots \cup {None}]
            /\ \A d \in Consumers : cur'[d] # None <=> pc'[d] \in Busy
        BY <4>0, <4>1, <4>3
      <4>. QED  BY <4>0, <4>4, <4>5
    <3>3. CASE DecodeFailure(c)
      BY <3>3 DEF DecodeFailure, LeaveGroup
    <3>4. CASE Shutdown(c)
      BY <3>4 DEF Shutdown, LeaveGroup, Deliverable
    <3>5. CASE ParseFailure(c)
      BY FailTyped, <3>5 DEF ParseFailure
    <3>6. CASE SkipAnonymous(c)
      BY <3>6 DEF SkipAnonymous
    <3>7. CASE CheckProcessed(c)
      BY <3>7 DEF CheckProcessed
    <3>8. CASE CheckProcessedError(c)
      BY FailTyped, <2>0, <3>8 DEF CheckProcessedError
    <3>9. CASE AcquireLock(c)
      BY <3>9 DEF AcquireLock, LockedBy
    <3>10. CASE AcquireLockError(c)
      <4>1. LockedBy(c, Id(c)) \in [ExternalIds -> Consumers \cup {None}]
        BY <3>10 DEF AcquireLockError, LockedBy
      <4>. QED  BY FailTyped, <2>0, <3>10, <4>1 DEF AcquireLockError
    <3>11. CASE RejectData(c)
      BY <3>11 DEF RejectData, Unwind
    <3>12. CASE Evaluate(c)
      BY <3>12 DEF Evaluate, Store
    <3>13. CASE EvaluateError(c)
      <4>1. txns' \subseteq ExternalIds /\ alerts' \in [ExternalIds -> Nat]
        BY <3>13 DEF EvaluateError, Store
      <4>2. /\ pc' = [pc EXCEPT ![c] = "cleanup"] /\ pc[c] = "evaluate"
            /\ UNCHANGED <<owner, position, committed, dlq, processed, lock,
                           cur, attempt, stopEvent>>
        BY <3>13 DEF EvaluateError, Unwind
      <4>3. spent' \in [Faults -> Nat]
        BY <2>0, <3>13 DEF EvaluateError
      <4>. QED  BY <4>1, <4>2, <4>3
    <3>14. CASE MarkProcessed(c)
      BY <3>14 DEF MarkProcessed
    <3>15. CASE MarkProcessedError(c)
      BY <2>0, <3>15 DEF MarkProcessedError, Unwind
    <3>16. CASE ReleaseLock(c)
      <4>1. CASE pc[c] = "release"
        BY <3>16, <4>1 DEF ReleaseLock, Unlocked
      <4>2. CASE pc[c] = "cleanup"
        BY FailTyped, <3>16, <4>2 DEF ReleaseLock, Unlocked
      <4>. QED  BY <3>16, <4>1, <4>2 DEF ReleaseLock
    <3>17. CASE ReleaseLockError(c)
      <4>1. /\ lock' \in [ExternalIds -> Consumers \cup {None}]
            /\ pc[c] \in {"release", "cleanup"}
            /\ UNCHANGED <<owner, position, committed, dlq, processed, txns,
                           alerts, cur, stopEvent>>
        BY <3>17 DEF ReleaseLockError, Unlocked
      <4>2. spent' \in [Faults -> Nat]
        BY <2>0, <3>17 DEF ReleaseLockError
      <4>3. Fail(c) /\ pc[c] \in Busy
        BY <3>17 DEF ReleaseLockError
      <4>. QED  BY FailTyped, <4>1, <4>2, <4>3
    <3>18. CASE Commit(c)
      BY OffsetsTyped, <3>18 DEF Commit, Finish
    <3>19. CASE CommitError(c)
      <4>1. /\ committed' \in [Partitions -> Nat]
            /\ \A p \in Partitions : committed'[p] <= position[p]
        BY <3>19, OffsetsTyped DEF CommitError
      <4>2. UNCHANGED <<owner, position, dlq, redis, db, cur, stopEvent>>
        BY <3>19 DEF CommitError
      <4>. QED  BY FailTyped, <2>0, <3>19, <4>1, <4>2 DEF CommitError
    <3>20. CASE SendToDlq(c)
      BY <3>20 DEF SendToDlq, Lettered
    <3>21. CASE SendToDlqError(c)
      BY <2>0, <3>21 DEF SendToDlqError, Lettered
    <3>22. CASE FinalCommit(c)
      BY OffsetsTyped, <3>22 DEF FinalCommit, FinalOffsets, Finish
    <3>23. CASE FinalCommitError(c)
      <4>1. committed' \in {committed, Offsets(c)} /\ Spend("commit")
        BY <3>23 DEF FinalCommitError, FinalOffsets
      <4>2. /\ committed' \in [Partitions -> Nat]
            /\ \A p \in Partitions : committed'[p] <= position[p]
        BY <4>1, OffsetsTyped
      <4>3. /\ pc' = [pc EXCEPT ![c] = "down"]
            /\ cur' = [cur EXCEPT ![c] = None]
            /\ attempt' = [attempt EXCEPT ![c] = 1]
            /\ UNCHANGED <<position, dlq, redis, db, stopEvent>>
        BY <3>23 DEF FinalCommitError, Finish
      <4>4. owner' \in [Partitions -> Consumers \cup {None}]
        BY <3>23 DEF FinalCommitError, LeaveGroup
      <4>5. spent' \in [Faults -> Nat]
        BY <2>0, <4>1
      <4>. QED  BY <4>2, <4>3, <4>4, <4>5
    <3>. QED
      BY <2>1, <3>1, <3>1a, <3>1b, <3>2, <3>3, <3>4, <3>5, <3>6, <3>7, <3>8, <3>9, <3>10, <3>11, <3>12, <3>13, <3>14, <3>15, <3>16, <3>17, <3>18, <3>19, <3>20, <3>21, <3>22, <3>23 DEF Turn
  <2>2. ASSUME NEW c \in Consumers, Crash(c) \/ Signal(c) PROVE TypeOK'
    <3>1. CASE Crash(c)
      BY <2>0, <3>1 DEF Crash, Finish, LeaveGroup
    <3>2. CASE Signal(c)
      BY <2>0, <3>2 DEF Signal
    <3>. QED  BY <2>2, <3>1, <3>2
  <2>3. ASSUME NEW p \in Partitions, Revoke(p) \/ \E c \in Consumers : Assign(p, c)
        PROVE  TypeOK'
    <3>1. CASE Revoke(p)
      BY <2>0, <3>1 DEF Revoke
    <3>2. ASSUME NEW c \in Consumers, Assign(p, c)  PROVE TypeOK'
      BY <3>2 DEF Assign
    <3>. QED  BY <2>3, <3>1, <3>2
  <2>4. ASSUME NEW id \in ExternalIds, LockExpires(id) \/ KeyExpires(id)
        PROVE  TypeOK'
    <3>1. CASE LockExpires(id)
      BY <2>0, <3>1 DEF LockExpires, Unlocked
    <3>2. CASE KeyExpires(id)
      BY <2>0, <3>2 DEF KeyExpires
    <3>. QED  BY <2>4, <3>1, <3>2
  <2>5. CASE UNCHANGED vars
    BY <2>5 DEF vars
  <2>. QED  BY <2>1, <2>2, <2>3, <2>4, <2>5 DEF Next
<1>. QED  BY <1>1, <1>2, PTL DEF Spec

(* Faults are only ever added to the count.                                *)
LEMMA SpentGrows ==
    ASSUME TypeOK, [Next]_vars
    PROVE  /\ \A f \in Faults : spent'[f] >= spent[f]
           /\ spent' = spent \/ \E f \in Faults : Spend(f)
<1>1. spent' = spent \/ \E f \in Faults : Spend(f)
  <2>1. /\ {"crash", "revoke", "signal", "redis", "db"} \subseteq Faults
        /\ {"commit", "dlq", "lockTTL", "keyTTL"} \subseteq Faults
    BY DEF Faults
  <2>. QED
    BY <2>1
    DEF Next, Turn, Crash, Signal, Revoke, Assign, LockExpires, KeyExpires,
        Start, LoadRules, LoadRulesError, Poll, DecodeFailure, Shutdown,
        ParseFailure, SkipAnonymous,
        CheckProcessed, CheckProcessedError, AcquireLock, AcquireLockError,
        RejectData, Evaluate, EvaluateError, MarkProcessed,
        MarkProcessedError, ReleaseLock, ReleaseLockError, Commit,
        CommitError, SendToDlq, SendToDlqError, FinalCommit,
        FinalCommitError, vars
<1>2. ASSUME NEW f \in Faults, NEW g \in Faults, Spend(f)
      PROVE  spent'[g] >= spent[g]
  <2>1. /\ spent'[f] = spent[f] + 1
        /\ g # f => spent'[g] = spent[g]
    BY <1>2, SpendTyped DEF TypeOK
  <2>2. spent[f] \in Nat /\ spent[g] \in Nat
    BY DEF TypeOK
  <2>. QED  BY <2>1, <2>2
<1>. QED  BY <1>1, <1>2 DEF TypeOK

-----------------------------------------------------------------------------
(* ProcessedIsStored is not inductive: the step that writes the key must   *)
(* know that the transaction of the id it writes has been committed.       *)
StoredInv ==
    /\ ProcessedIsStored
    /\ \A c \in Consumers : pc[c] = "mark" => Id(c) \in txns

LEMMA StoredStep == TypeOK /\ StoredInv /\ [Next]_vars => StoredInv'
<1> SUFFICES ASSUME TypeOK, StoredInv, [Next]_vars PROVE StoredInv'
  OBVIOUS
<1>. USE DEF StoredInv, ProcessedIsStored, TypeOK, Id, Goto,
             kafka, redis, db, proc
<1>1. ASSUME NEW c \in Consumers, Turn(c) PROVE StoredInv'
  <2>1. CASE \/ Start(c) \/ LoadRules(c) \/ LoadRulesError(c)
             \/ DecodeFailure(c) \/ Shutdown(c)
    BY <2>1 DEF Start, LoadRules, LoadRulesError,
        DecodeFailure, Shutdown
  <2>2. CASE Poll(c)
    BY <2>2 DEF Poll
  <2>3. CASE ParseFailure(c) \/ CheckProcessedError(c)
    BY <2>3, FailSteps DEF ParseFailure, CheckProcessedError
  <2>4. CASE SkipAnonymous(c) \/ CheckProcessed(c) \/ AcquireLock(c)
    BY <2>4 DEF SkipAnonymous, CheckProcessed, AcquireLock
  <2>5. CASE AcquireLockError(c) \/ ReleaseLockError(c)
    BY <2>5, FailSteps DEF AcquireLockError, ReleaseLockError
  <2>6. CASE RejectData(c) \/ EvaluateError(c)
    BY <2>6 DEF RejectData, EvaluateError, Store, Unwind
  <2>7. CASE Evaluate(c)
    BY <2>7 DEF Evaluate, Store
  <2>8. CASE MarkProcessed(c) \/ MarkProcessedError(c)
    BY <2>8 DEF MarkProcessed, MarkProcessedError, Unwind
  <2>9. CASE ReleaseLock(c)
    BY <2>9, FailSteps DEF ReleaseLock
  <2>10. CASE Commit(c) \/ FinalCommit(c) \/ FinalCommitError(c)
    BY <2>10 DEF Commit, FinalCommit, FinalCommitError, Finish
  <2>11. CASE CommitError(c)
    BY <2>11, FailSteps DEF CommitError
  <2>12. CASE SendToDlq(c) \/ SendToDlqError(c)
    BY <2>12 DEF SendToDlq, SendToDlqError
  <2>. QED
    BY <1>1, <2>1, <2>2, <2>3, <2>4, <2>5, <2>6, <2>7, <2>8, <2>9, <2>10,
       <2>11, <2>12 DEF Turn
<1>2. ASSUME NEW c \in Consumers, Crash(c) \/ Signal(c) PROVE StoredInv'
  BY <1>2 DEF Crash, Signal, Finish
<1>3. ASSUME NEW p \in Partitions, Revoke(p) \/ \E c \in Consumers : Assign(p, c)
      PROVE  StoredInv'
  BY <1>3 DEF Revoke, Assign
<1>4. ASSUME NEW id \in ExternalIds, LockExpires(id) \/ KeyExpires(id)
      PROVE  StoredInv'
  BY <1>4 DEF LockExpires, KeyExpires
<1>5. CASE UNCHANGED vars
  BY <1>5 DEF vars
<1>. QED  BY <1>1, <1>2, <1>3, <1>4, <1>5 DEF Next

(* The idempotency key of an id is set only when its evaluation is stored, *)
(* whatever crashes, failures, expirations and rebalances happen           *)
(* (idempotency.py:153-161, evaluation_service.py:150).                    *)
THEOREM ProcessedStored == Spec => []ProcessedIsStored
<1>1. Init => StoredInv
  BY DEF Init, StoredInv, ProcessedIsStored
<1>2. StoredInv => ProcessedIsStored
  BY DEF StoredInv
<1>. QED  BY <1>1, <1>2, StoredStep, TypeCorrect, PTL DEF Spec

-----------------------------------------------------------------------------
(* While no lock expires, the key in Redis belongs to the consumer that    *)
(* works under it.                                                         *)
HolderInv ==
    spent["lockTTL"] = 0 =>
        \A c \in Consumers : pc[c] \in Holding => lock[Id(c)] = c

LEMMA HolderStep == TypeOK /\ HolderInv /\ [Next]_vars => HolderInv'
<1> SUFFICES ASSUME TypeOK, HolderInv, [Next]_vars PROVE HolderInv'
  OBVIOUS
<1>1. spent'["lockTTL"] = 0 => spent["lockTTL"] = 0
  <2>1. "lockTTL" \in Faults /\ spent \in [Faults -> Nat]
    BY DEF TypeOK, Faults
  <2>2. spent'["lockTTL"] >= spent["lockTTL"] /\ spent["lockTTL"] \in Nat
    BY <2>1, SpentGrows
  <2>. QED  BY <2>2
<1>2. SUFFICES ASSUME spent["lockTTL"] = 0, spent'["lockTTL"] = 0,
                      NEW d \in Consumers, pc'[d] \in Holding
               PROVE  lock'[Id(d)'] = d
  BY <1>1 DEF HolderInv
<1>4. \A c \in Consumers :
         pc[c] \in Holding \cup {"lock"} => Id(c) \in ExternalIds
  BY BusyHasMessage DEF Busy, Labels, Holding
<1>3. \A c \in Consumers : pc[c] \in Holding =>
         lock[Id(c)] = c /\ Id(c) \in ExternalIds
  BY <1>2, <1>4 DEF HolderInv
<1>5. \A c \in Consumers : c # None
  BY NoneAssumption
<1>. USE DEF TypeOK, Id, Goto, Holding, kafka, redis, db, proc
<1>6. ASSUME NEW c \in Consumers, Turn(c) PROVE lock'[Id(d)'] = d
  <2>1. CASE \/ Start(c) \/ LoadRules(c) \/ LoadRulesError(c)
             \/ DecodeFailure(c) \/ Shutdown(c)
    BY <1>2, <1>3, <2>1 DEF Start, LoadRules, LoadRulesError,
        DecodeFailure, Shutdown
  <2>2. CASE Poll(c)
    BY <1>2, <1>3, <2>2 DEF Poll
  <2>3. CASE ParseFailure(c) \/ CheckProcessedError(c)
    BY <1>2, <1>3, <2>3, FailSteps DEF ParseFailure, CheckProcessedError
  <2>4. CASE SkipAnonymous(c) \/ CheckProcessed(c)
    BY <1>2, <1>3, <2>4 DEF SkipAnonymous, CheckProcessed
  <2>5. CASE AcquireLock(c)
    <3>1. CASE LockFree(Id(c))
      <4>1. pc' = [pc EXCEPT ![c] = "evaluate"] /\ lock' = [lock EXCEPT ![Id(c)] = c]
        BY <2>5, <3>1 DEF AcquireLock, LockedBy
      <4>2. UNCHANGED cur /\ Id(c) \in ExternalIds /\ lock[Id(c)] = None
        BY <1>4, <2>5, <3>1 DEF AcquireLock, LockFree
      <4>. QED  BY <1>2, <1>3, <1>5, <4>1, <4>2
    <3>2. CASE ~LockFree(Id(c))
      BY <1>2, <1>3, <2>5, <3>2 DEF AcquireLock, LockedBy
    <3>. QED  BY <3>1, <3>2
  <2>6. CASE AcquireLockError(c)
    <3>1. pc[c] = "lock" /\ Id(c) \in ExternalIds /\ UNCHANGED cur
      BY <1>4, <2>6 DEF AcquireLockError
    <3>2. pc' = [pc EXCEPT ![c] = "process"] \/ pc' = [pc EXCEPT ![c] = "dlq"]
      BY <2>6, FailSteps DEF AcquireLockError
    <3>3. \/ lock' = lock
          \/ lock[Id(c)] = None /\ lock' = [lock EXCEPT ![Id(c)] = c]
      <4>1. lock' = lock \/ lock' = LockedBy(c, Id(c))
        BY <2>6 DEF AcquireLockError
      <4>2. CASE LockFree(Id(c))
        BY <4>1, <4>2 DEF LockedBy, LockFree
      <4>3. CASE ~LockFree(Id(c))
        BY <4>1, <4>3 DEF LockedBy
      <4>. QED  BY <4>2, <4>3
    <3>. QED  BY <1>2, <1>3, <1>5, <3>1, <3>2, <3>3
  <2>7. CASE RejectData(c) \/ Evaluate(c) \/ EvaluateError(c)
    BY <1>2, <1>3, <2>7 DEF RejectData, Evaluate, EvaluateError, Unwind
  <2>8. CASE MarkProcessed(c) \/ MarkProcessedError(c)
    BY <1>2, <1>3, <2>8 DEF MarkProcessed, MarkProcessedError, Unwind
  <2>9. CASE ReleaseLock(c)
    BY <1>2, <1>3, <2>9, FailSteps DEF ReleaseLock, Unlocked
  <2>10. CASE ReleaseLockError(c)
    <3>1. pc[c] \in Holding /\ UNCHANGED cur
      BY <2>10 DEF ReleaseLockError
    <3>2. pc' = [pc EXCEPT ![c] = "process"] \/ pc' = [pc EXCEPT ![c] = "dlq"]
      BY <2>10, FailSteps DEF ReleaseLockError
    <3>3. lock' = lock \/ lock' = [lock EXCEPT ![Id(c)] = None]
      BY <2>10 DEF ReleaseLockError, Unlocked
    <3>. QED  BY <1>2, <1>3, <3>1, <3>2, <3>3
  <2>11. CASE Commit(c) \/ FinalCommit(c) \/ FinalCommitError(c)
    BY <1>2, <1>3, <2>11 DEF Commit, FinalCommit, FinalCommitError, Finish
  <2>12. CASE CommitError(c)
    BY <1>2, <1>3, <2>12, FailSteps DEF CommitError
  <2>13. CASE SendToDlq(c) \/ SendToDlqError(c)
    BY <1>2, <1>3, <2>13 DEF SendToDlq, SendToDlqError
  <2>. QED
    BY <1>6, <2>1, <2>2, <2>3, <2>4, <2>5, <2>6, <2>7, <2>8, <2>9, <2>10,
       <2>11, <2>12, <2>13 DEF Turn
<1>7. ASSUME NEW c \in Consumers, Crash(c) \/ Signal(c)
      PROVE  lock'[Id(d)'] = d
  BY <1>2, <1>3, <1>7 DEF Crash, Signal, Finish
<1>8. ASSUME NEW p \in Partitions, Revoke(p) \/ \E c \in Consumers : Assign(p, c)
      PROVE  lock'[Id(d)'] = d
  BY <1>2, <1>3, <1>8 DEF Revoke, Assign
<1>9. ASSUME NEW id \in ExternalIds, LockExpires(id) \/ KeyExpires(id)
      PROVE  lock'[Id(d)'] = d
  <2>1. ~LockExpires(id)
    BY <1>2, SpendTyped DEF LockExpires, Faults
  <2>. QED  BY <1>2, <1>3, <1>9, <2>1 DEF KeyExpires
<1>10. CASE UNCHANGED vars
  BY <1>2, <1>3, <1>10 DEF vars
<1>. QED  BY <1>6, <1>7, <1>8, <1>9, <1>10 DEF Next

(* Mutual exclusion: unless a lock outlives its five minutes, no two       *)
(* consumers process the same external_id at the same time, and each of    *)
(* them still has its key when it comes to delete it (idempotency.py:77-   *)
(* 102, 137-161).                                                          *)
THEOREM LockSafe == Spec => []LockExcludes
<1>1. Init => HolderInv
  BY DEF Init, HolderInv, Holding
<1>2. HolderInv => LockExcludes
  BY DEF HolderInv, LockExcludes
<1>. QED  BY <1>1, <1>2, HolderStep, TypeCorrect, PTL DEF Spec
=============================================================================
