------------------- MODULE TransactionConsumer_loss_proofs -------------------
(***************************************************************************)
(* Proofs of the accounting invariants of TransactionConsumer: what is     *)
(* committed is accounted for unless a crash, a Redis failure or a failed  *)
(* dead letter is in the history, a lone consumer owes every extra alert   *)
(* to a fault, a commit is for the message at hand alone, and a message    *)
(* that is not at fault itself reaches the dead letters only after as many *)
(* failures as there are attempts.                                         *)
(***************************************************************************)
EXTENDS TransactionConsumer_proofs

IdKinds == {"rejected", "valid"}

(* What is stored or dead lettered stays so.                               *)
LEMMA Monotone ==
    ASSUME TypeOK, [Next]_vars
    PROVE  txns \subseteq txns' /\ dlq \subseteq dlq'
  BY DEF Next, Turn, Crash, Signal, Revoke, Assign, LockExpires, KeyExpires,
         Start, LoadRules, LoadRulesError, Poll, DecodeFailure, Shutdown,
         ParseFailure, SkipAnonymous,
         CheckProcessed, CheckProcessedError, AcquireLock, AcquireLockError,
         RejectData, Evaluate, EvaluateError, MarkProcessed,
         MarkProcessedError, ReleaseLock, ReleaseLockError, Commit,
         CommitError, SendToDlq, SendToDlqError, FinalCommit,
         FinalCommitError, Store, Lettered, vars, kafka, db

(* A turn of one consumer does not move another.                           *)
LEMMA TurnFrame ==
    ASSUME TypeOK, NEW c \in Consumers, NEW d \in Consumers, c # d, Turn(c)
    PROVE  pc'[d] = pc[d] /\ cur'[d] = cur[d] /\ attempt'[d] = attempt[d]
<1>. USE DEF TypeOK, Goto, Finish, Fail, Unwind, proc
<1>1. CASE \/ Start(c) \/ LoadRules(c) \/ LoadRulesError(c) \/ Poll(c)
           \/ DecodeFailure(c) \/ Shutdown(c)
  BY <1>1 DEF Start, LoadRules, LoadRulesError, Poll, DecodeFailure, Shutdown
<1>2. CASE \/ ParseFailure(c) \/ SkipAnonymous(c)
           \/ CheckProcessed(c) \/ CheckProcessedError(c)
  BY <1>2 DEF ParseFailure, SkipAnonymous, CheckProcessed, CheckProcessedError
<1>3. CASE AcquireLock(c) \/ AcquireLockError(c)
  BY <1>3 DEF AcquireLock, AcquireLockError
<1>4. CASE RejectData(c) \/ Evaluate(c) \/ EvaluateError(c)
  BY <1>4 DEF RejectData, Evaluate, EvaluateError
<1>5. CASE MarkProcessed(c) \/ MarkProcessedError(c)
  BY <1>5 DEF MarkProcessed, MarkProcessedError
<1>6. CASE ReleaseLock(c) \/ ReleaseLockError(c)
  BY <1>6 DEF ReleaseLock, ReleaseLockError
<1>7. CASE Commit(c) \/ CommitError(c)
  BY <1>7 DEF Commit, CommitError
<1>8. CASE SendToDlq(c) \/ SendToDlqError(c)
  BY <1>8 DEF SendToDlq, SendToDlqError
<1>9. CASE FinalCommit(c) \/ FinalCommitError(c)
  BY <1>9 DEF FinalCommit, FinalCommitError
<1>. QED
  BY <1>1, <1>2, <1>3, <1>4, <1>5, <1>6, <1>7, <1>8, <1>9 DEF Turn

-----------------------------------------------------------------------------
(* No outage of the kind that loses messages has happened.                 *)
Clean == spent["crash"] = 0 /\ spent["redis"] = 0 /\ spent["dlq"] = 0

(* The lock key of an id belongs to a consumer that is processing the id.  *)
LockAttended ==
    \A id \in ExternalIds : lock[id] # None =>
        pc[lock[id]] \in Holding /\ Id(lock[id]) = id

(* What each consumer knows of its message at the point it has reached.    *)
Knows(c) ==
    /\ pc[c] \in Holding \cup {"lock"} => Kind(c) \in IdKinds
    /\ pc[c] \in {"mark", "release"} => Id(c) \in txns
    /\ pc[c] \in {"commit", "finalCommit"} => Accounted(cur[c])

LossInv ==
    /\ OneUncommitted
    /\ Clean => LockAttended /\ (\A c \in Consumers : Knows(c)) /\ NothingLost

(* One turn of a consumer that is trying: it goes on trying, or its        *)
(* message is settled, or somebody else holds the lock of its id.          *)
LEMMA TryingTurn ==
    ASSUME TypeOK, ProcessedIsStored, NEW c \in Consumers, Turn(c),
           pc[c] \in Trying, Knows(c),
           ~Spend("redis"), ~Spend("dlq")
    PROVE  \/ pc'[c] \in Trying /\ cur'[c] = cur[c]
           \/ Kind(c) = "anonymous"
           \/ Kind(c) \in IdKinds /\ Id(c) \in txns'
           \/ cur[c] \in dlq'
           \/ pc[c] = "lock" /\ lock[Id(c)] # None /\ AcquireLock(c)
<1>1. pc[c] \in {"process", "lock", "evaluate", "cleanup", "dlq"}
  BY DEF Trying
<1>. USE DEF TypeOK, Goto, proc, Trying, IdKinds
<1>2. CASE pc[c] = "process"
  <2>1. CASE ParseFailure(c)
    BY <1>2, <2>1, FailSteps DEF ParseFailure
  <2>2. CASE SkipAnonymous(c)
    BY <2>2 DEF SkipAnonymous
  <2>3. CASE CheckProcessed(c)
    BY <1>2, <2>3 DEF CheckProcessed, IsProcessed, ProcessedIsStored, db
  <2>. QED
    BY <1>2, <2>1, <2>2, <2>3
    DEF Turn, Start, LoadRules, LoadRulesError, Poll, DecodeFailure,
        Shutdown, CheckProcessedError,
        AcquireLock, AcquireLockError, RejectData, Evaluate, EvaluateError,
        MarkProcessed, MarkProcessedError, ReleaseLock, ReleaseLockError,
        Commit, CommitError, SendToDlq, SendToDlqError, FinalCommit,
        FinalCommitError
<1>3. CASE pc[c] = "lock"
  <2>1. CASE AcquireLock(c)
    <3>1. CASE LockFree(Id(c))
      BY <1>3, <2>1, <3>1 DEF AcquireLock
    <3>2. CASE ~LockFree(Id(c))
      BY <1>3, <2>1, <3>2 DEF LockFree
    <3>. QED  BY <3>1, <3>2
  <2>. QED
    BY <1>3, <2>1
    DEF Turn, Start, LoadRules, LoadRulesError, Poll, DecodeFailure,
        Shutdown, ParseFailure,
        SkipAnonymous, CheckProcessed, CheckProcessedError,
        AcquireLockError, RejectData, Evaluate, EvaluateError,
        MarkProcessed, MarkProcessedError, ReleaseLock, ReleaseLockError,
        Commit, CommitError, SendToDlq, SendToDlqError, FinalCommit,
        FinalCommitError
<1>4. CASE pc[c] = "evaluate"
  <2>1. CASE RejectData(c) \/ EvaluateError(c)
    BY <1>4, <2>1 DEF RejectData, EvaluateError, Unwind
  <2>2. CASE Evaluate(c)
    BY <1>4, <2>2 DEF Evaluate, Store
  <2>. QED
    BY <1>4, <2>1, <2>2
    DEF Turn, Start, LoadRules, LoadRulesError, Poll, DecodeFailure,
        Shutdown, ParseFailure,
        SkipAnonymous, CheckProcessed, CheckProcessedError, AcquireLock,
        AcquireLockError, MarkProcessed, MarkProcessedError, ReleaseLock,
        ReleaseLockError, Commit, CommitError, SendToDlq, SendToDlqError,
        FinalCommit, FinalCommitError
<1>5. CASE pc[c] = "cleanup"
  <2>1. CASE ReleaseLock(c)
    BY <1>5, <2>1, FailSteps DEF ReleaseLock
  <2>. QED
    BY <1>5, <2>1
    DEF Turn, Start, LoadRules, LoadRulesError, Poll, DecodeFailure,
        Shutdown, ParseFailure,
        SkipAnonymous, CheckProcessed, CheckProcessedError, AcquireLock,
        AcquireLockError, RejectData, Evaluate, EvaluateError,
        MarkProcessed, MarkProcessedError, ReleaseLockError, Commit,
        CommitError, SendToDlq, SendToDlqError, FinalCommit,
        FinalCommitError
<1>6. CASE pc[c] = "dlq"
  <2>1. CASE SendToDlq(c)
    BY <2>1 DEF SendToDlq, Lettered
  <2>. QED
    BY <1>6, <2>1
    DEF Turn, Start, LoadRules, LoadRulesError, Poll, DecodeFailure,
        Shutdown, ParseFailure,
        SkipAnonymous, CheckProcessed, CheckProcessedError, AcquireLock,
        AcquireLockError, RejectData, Evaluate, EvaluateError,
        MarkProcessed, MarkProcessedError, ReleaseLock, ReleaseLockError,
        Commit, CommitError, SendToDlqError, FinalCommit, FinalCommitError
<1>. QED  BY <1>1, <1>2, <1>3, <1>4, <1>5, <1>6

(* A message settled by its id is settled for every message it covers.     *)
LEMMA CoversSettled ==
    ASSUME TypeOK, NEW n \in Slots, NEW m \in Slots, Covers(n, m)
    PROVE  /\ MsgAt(n).kind = "anonymous" => Accounted(m)'
           /\ MsgAt(n).kind \in IdKinds /\ MsgAt(n).id \in txns' => Accounted(m)'
           /\ n \in dlq' => Accounted(m)'
<1>1. CASE MsgAt(n).kind = "anonymous"
  <2>1. n = m
    BY <1>1 DEF Covers
  <2>. QED  BY <1>1, <2>1 DEF Accounted, IdKinds
<1>2. CASE MsgAt(n).kind \in IdKinds /\ MsgAt(n).id \in txns'
  <2>1. MsgAt(m).kind \in IdKinds /\ MsgAt(m).id = MsgAt(n).id
    BY <1>2 DEF Covers, IdKinds
  <2>. QED  BY <1>2, <2>1 DEF Accounted, IdKinds
<1>3. CASE n \in dlq'
  BY <1>3 DEF Accounted
<1>. QED  BY <1>1, <1>2, <1>3

(* Without an outage, what is accounted for stays accounted for.           *)
LEMMA AccountedStable ==
    ASSUME TypeOK, ProcessedIsStored, LockAttended,
           \A c \in Consumers : Knows(c),
           Clean, Clean', [Next]_vars,
           NEW m \in Slots, Accounted(m)
    PROVE  Accounted(m)'
<1>1. txns \subseteq txns' /\ dlq \subseteq dlq'
  BY Monotone
<1>2. CASE \/ MsgAt(m).kind = "anonymous"
           \/ MsgAt(m).kind \in IdKinds /\ MsgAt(m).id \in txns
           \/ \E n \in dlq : Covers(n, m)
  BY <1>1, <1>2 DEF Accounted, IdKinds
<1>3. ASSUME NEW d \in Consumers, pc[d] \in Trying, Covers(cur[d], m)
      PROVE  Accounted(m)'
  <2>1. cur[d] \in Slots
    BY <1>3, BusyHasMessage DEF Trying, Busy, Labels, Holding
  <2>2. CASE pc'[d] \in Trying /\ cur'[d] = cur[d]
    BY <1>3, <2>2 DEF Accounted
  <2>3. ASSUME NEW c \in Consumers, Turn(c)  PROVE Accounted(m)'
    <3>1. CASE c # d
      BY <1>3, <2>2, <2>3, <3>1, TurnFrame
    <3>2. CASE c = d
      <4>1. ~Spend("redis") /\ ~Spend("dlq")
        BY SpendTyped DEF Clean, TypeOK, Faults
      <4>2. \/ pc'[d] \in Trying /\ cur'[d] = cur[d]
            \/ Kind(d) = "anonymous"
            \/ Kind(d) \in IdKinds /\ Id(d) \in txns'
            \/ cur[d] \in dlq'
            \/ pc[d] = "lock" /\ lock[Id(d)] # None /\ AcquireLock(d)
        BY <1>3, <2>3, <3>2, <4>1, TryingTurn
      <4>3. CASE pc[d] = "lock" /\ lock[Id(d)] # None /\ AcquireLock(d)
        <5>1. Id(d) \in ExternalIds
          BY <4>3, BusyHasMessage DEF Busy, Labels, Holding
        <5>2. PICK h \in Consumers : /\ h # d
                                    /\ pc[h] \in Holding
                                    /\ Id(h) = Id(d)
          BY <4>3, <5>1 DEF LockAttended, TypeOK, Holding
        <5>3. cur[h] \in Slots /\ Kind(h) \in IdKinds /\ Kind(d) \in IdKinds
          BY <4>3, <5>2, BusyHasMessage DEF Busy, Labels, Holding, Knows
        <5>4. Covers(cur[h], m)
          BY <1>3, <5>2, <5>3 DEF Covers, Id, Kind, IdKinds
        <5>5. pc'[h] = pc[h] /\ cur'[h] = cur[h]
          BY <2>3, <3>2, <5>2, TurnFrame
        <5>6. CASE pc[h] \in Trying
          BY <5>4, <5>5, <5>6 DEF Accounted
        <5>7. CASE pc[h] \in {"mark", "release"}
          <6>1. Id(h) \in txns'
            BY <1>1, <5>7 DEF Knows
          <6>. QED  BY <5>3, <5>4, <6>1, CoversSettled DEF Id, Kind
        <5>. QED  BY <5>2, <5>6, <5>7 DEF Holding, Trying
      <4>. QED
        BY <1>3, <2>1, <2>2, <4>2, <4>3, CoversSettled DEF Id, Kind
    <3>. QED  BY <3>1, <3>2
  <2>4. ASSUME NEW c \in Consumers, Crash(c) \/ Signal(c)  PROVE Accounted(m)'
    <3>1. ~Crash(c)
      BY SpendTyped DEF Crash, Clean, TypeOK, Faults
    <3>. QED  BY <1>3, <2>2, <2>4, <3>1 DEF Signal
  <2>5. ASSUME NEW p \in Partitions, Revoke(p) \/ \E c \in Consumers : Assign(p, c)
        PROVE  Accounted(m)'
    BY <1>3, <2>2, <2>5 DEF Revoke, Assign, proc
  <2>6. ASSUME NEW id \in ExternalIds, LockExpires(id) \/ KeyExpires(id)
        PROVE  Accounted(m)'
    BY <1>3, <2>2, <2>6 DEF LockExpires, KeyExpires, proc
  <2>7. CASE UNCHANGED vars
    BY <1>3, <2>2, <2>7 DEF vars, proc
  <2>. QED  BY <2>3, <2>4, <2>5, <2>6, <2>7 DEF Next
<1>. QED  BY <1>2, <1>3 DEF Accounted, IdKinds

-----------------------------------------------------------------------------
(* At most one delivered message of a partition is uncommitted, and it is  *)
(* the one its owner works on.                                             *)
LEMMA OneUncommittedStep ==
    TypeOK /\ OneUncommitted /\ [Next]_vars => OneUncommitted'
<1> SUFFICES ASSUME TypeOK, OneUncommitted, [Next]_vars,
                    NEW p \in Partitions, owner'[p] # None
             PROVE  \/ position'[p] = committed'[p]
                    \/ /\ position'[p] = committed'[p] + 1
                       /\ cur'[owner'[p]] = <<p, position'[p]>>
  BY DEF OneUncommitted
<1>. USE DEF OneUncommitted, Goto, kafka, redis, db, proc
<1>0. /\ owner \in [Partitions -> Consumers \cup {None}]
      /\ position \in [Partitions -> Nat] /\ committed \in [Partitions -> Nat]
      /\ cur \in [Consumers -> Slots \cup {None}]
      /\ pc \in [Consumers -> Labels]
      /\ \A c \in Consumers : c # None
  BY NoneAssumption DEF TypeOK
<1>1. ASSUME NEW c \in Consumers, Turn(c)
      PROVE  \/ position'[p] = committed'[p]
             \/ /\ position'[p] = committed'[p] + 1
                /\ cur'[owner'[p]] = <<p, position'[p]>>
  <2>1. CASE Start(c) \/ LoadRules(c)
    BY <1>0, <2>1 DEF Start, LoadRules
  <2>1a. CASE LoadRulesError(c)
    BY <1>0, <2>1a DEF LoadRulesError, LeaveGroup
  <2>2. CASE Poll(c)
    <3>1. PICK q \in Partitions :
             /\ owner[q] = c
             /\ position' = [position EXCEPT ![q] = @ + 1]
             /\ cur' = [cur EXCEPT ![c] = <<q, position[q] + 1>>]
      BY <2>2 DEF Poll, Deliverable
    <3>2. cur[c] = None /\ UNCHANGED <<owner, committed>>
      BY <2>2 DEF Poll, TypeOK, Busy
    <3>3. \A i, k : <<i, k>> \in Slots => <<i, k>> # None
      BY NoneAssumption
    <3>4. owner[p] = c => position[p] = committed[p]
      <4>1. owner[p] = c /\ position[p] # committed[p] =>
               cur[c] = <<p, position[p]>> /\ position[p] = committed[p] + 1
        BY <1>0
      <4>2. position[p] = committed[p] + 1 => position[p] \in 1 .. Len(Log[p])
        BY <1>0, LogLength DEF TypeOK
      <4>. QED  BY <3>2, <3>3, <4>1, <4>2, SlotFacts
    <3>5. CASE p = q
      BY <1>0, <3>1, <3>2, <3>4, <3>5
    <3>6. CASE p # q
      BY <1>0, <3>1, <3>2, <3>4, <3>6
    <3>. QED  BY <3>5, <3>6
  <2>3. CASE DecodeFailure(c) \/ Shutdown(c)
    <3>1. owner[p] # c /\ owner'[p] = owner[p] /\ UNCHANGED <<cur, committed>>
      BY <1>0, <2>3 DEF DecodeFailure, Shutdown, LeaveGroup, TypeOK
    <3>2. position'[p] = position[p]
      <4>1. CASE DecodeFailure(c)
        BY <4>1 DEF DecodeFailure
      <4>2. CASE Shutdown(c)
        <5>1. PICK q \in Partitions :
                 owner[q] = c /\ position' = [position EXCEPT ![q] = position[q] + 1]
          BY <4>2 DEF Shutdown, Deliverable
        <5>. QED  BY <1>0, <3>1, <5>1 DEF TypeOK
      <4>. QED  BY <2>3, <4>1, <4>2
    <3>. QED  BY <1>0, <3>1, <3>2
  <2>4. CASE ParseFailure(c) \/ SkipAnonymous(c) \/ CheckProcessed(c)
    BY <1>0, <2>4 DEF ParseFailure, SkipAnonymous, CheckProcessed
  <2>5. CASE CheckProcessedError(c) \/ AcquireLock(c) \/ AcquireLockError(c)
    BY <1>0, <2>5 DEF CheckProcessedError, AcquireLock, AcquireLockError
  <2>6. CASE RejectData(c) \/ Evaluate(c) \/ EvaluateError(c)
    BY <1>0, <2>6 DEF RejectData, Evaluate, EvaluateError
  <2>7. CASE MarkProcessed(c) \/ MarkProcessedError(c)
    BY <1>0, <2>7 DEF MarkProcessed, MarkProcessedError
  <2>8. CASE ReleaseLock(c) \/ ReleaseLockError(c)
    BY <1>0, <2>8 DEF ReleaseLock, ReleaseLockError
  <2>9. CASE Commit(c) \/ FinalCommit(c)
    <3>1. /\ committed' = Offsets(c) /\ UNCHANGED <<owner, position>>
          /\ cur' = [cur EXCEPT ![c] = None]
      BY <2>9 DEF Commit, FinalCommit, FinalOffsets, Finish
    <3>. QED  BY <1>0, <3>1 DEF Offsets
  <2>10. CASE CommitError(c)
    <3>1. /\ committed' = committed \/ committed' = Offsets(c)
          /\ UNCHANGED <<owner, position, cur>>
      BY <2>10 DEF CommitError
    <3>. QED  BY <1>0, <3>1 DEF Offsets
  <2>11. CASE SendToDlq(c) \/ SendToDlqError(c)
    BY <1>0, <2>11 DEF SendToDlq, SendToDlqError
  <2>12. CASE FinalCommitError(c)
    <3>1. /\ committed' = committed \/ committed' = Offsets(c)
          /\ UNCHANGED position
          /\ cur' = [cur EXCEPT ![c] = None]
          /\ owner[p] # c /\ owner'[p] = owner[p]
      BY <1>0, <2>12 DEF FinalCommitError, FinalOffsets, Finish, LeaveGroup
    <3>. QED  BY <1>0, <3>1 DEF Offsets
  <2>. QED
    BY <1>1, <2>1, <2>1a, <2>2, <2>3, <2>4, <2>5, <2>6, <2>7, <2>8, <2>9, <2>10,
       <2>11, <2>12 DEF Turn
<1>2. ASSUME NEW c \in Consumers, Crash(c) \/ Signal(c)
      PROVE  \/ position'[p] = committed'[p]
             \/ /\ position'[p] = committed'[p] + 1
                /\ cur'[owner'[p]] = <<p, position'[p]>>
  BY <1>0, <1>2 DEF Crash, Signal, Finish, LeaveGroup
<1>3. ASSUME NEW q \in Partitions, Revoke(q) \/ \E c \in Consumers : Assign(q, c)
      PROVE  \/ position'[p] = committed'[p]
             \/ /\ position'[p] = committed'[p] + 1
                /\ cur'[owner'[p]] = <<p, position'[p]>>
  BY <1>0, <1>3 DEF Revoke, Assign
<1>4. ASSUME NEW id \in ExternalIds, LockExpires(id) \/ KeyExpires(id)
      PROVE  \/ position'[p] = committed'[p]
             \/ /\ position'[p] = committed'[p] + 1
                /\ cur'[owner'[p]] = <<p, position'[p]>>
  BY <1>4 DEF LockExpires, KeyExpires
<1>5. CASE UNCHANGED vars
  BY <1>5 DEF vars
<1>. QED  BY <1>1, <1>2, <1>3, <1>4, <1>5 DEF Next

(* Without an outage a lock key always has a consumer that will delete it. *)
LEMMA LockAttendedStep ==
    ASSUME TypeOK, LockAttended, Clean, Clean', [Next]_vars
    PROVE  LockAttended'
<1> SUFFICES ASSUME NEW id \in ExternalIds, lock'[id] # None
             PROVE  pc'[lock'[id]] \in Holding /\ MsgAt(cur'[lock'[id]]).id = id
  BY DEF LockAttended, Id
<1>0. ~Spend("redis") /\ ~Spend("crash")
  BY SpendTyped DEF Clean, TypeOK, Faults
<1>1. /\ lock \in [ExternalIds -> Consumers \cup {None}]
      /\ pc \in [Consumers -> Labels] /\ cur \in [Consumers -> Slots \cup {None}]
      /\ \A c \in Consumers : c # None
  BY NoneAssumption DEF TypeOK
<1>2. lock[id] # None =>
         lock[id] \in Consumers /\ pc[lock[id]] \in Holding /\ Id(lock[id]) = id
  BY <1>1 DEF LockAttended
<1>. USE DEF Goto, Holding, Id, kafka, redis, db, proc
<1>3. ASSUME lock'[id] = lock[id],
             pc'[lock[id]] \in Holding, cur'[lock[id]] = cur[lock[id]]
      PROVE  pc'[lock'[id]] \in Holding /\ MsgAt(cur'[lock'[id]]).id = id
  BY <1>2, <1>3
<1>4. ASSUME NEW c \in Consumers, Turn(c)
      PROVE  pc'[lock'[id]] \in Holding /\ MsgAt(cur'[lock'[id]]).id = id
  <2>1. CASE AcquireLock(c)
    <3>1. pc[c] = "lock" /\ UNCHANGED cur /\ lock' = LockedBy(c, Id(c))
      BY <2>1 DEF AcquireLock
    <3>2. CASE LockFree(Id(c))
      <4>1. lock' = [lock EXCEPT ![Id(c)] = c] /\ pc' = [pc EXCEPT ![c] = "evaluate"]
        BY <2>1, <3>2 DEF AcquireLock, LockedBy
      <4>2. CASE id = Id(c)
        BY <1>1, <3>1, <4>1, <4>2
      <4>3. CASE id # Id(c)
        BY <1>1, <1>2, <3>1, <4>1, <4>3
      <4>. QED  BY <4>2, <4>3
    <3>3. CASE ~LockFree(Id(c))
      <4>1. lock' = lock /\ pc' = [pc EXCEPT ![c] = "commit"]
        BY <2>1, <3>3 DEF AcquireLock, LockedBy
      <4>. QED  BY <1>1, <1>2, <3>1, <4>1
    <3>. QED  BY <3>2, <3>3
  <2>2. CASE ReleaseLock(c)
    <3>1. pc[c] \in Holding /\ UNCHANGED cur /\ lock' = [lock EXCEPT ![Id(c)] = None]
      BY <2>2 DEF ReleaseLock, Unlocked
    <3>2. lock'[id] = lock[id] /\ c # lock[id]
      BY <1>1, <1>2, <3>1
    <3>. QED  BY <1>2, <1>3, <1>4, <3>2, TurnFrame
  <2>3. CASE lock[id] # c /\ UNCHANGED lock
    BY <1>2, <1>3, <1>4, <2>3, TurnFrame
  <2>4. CASE lock[id] = c /\ UNCHANGED lock /\ ~ReleaseLock(c)
    <3>1. pc[c] \in Holding
      BY <1>2, <2>4
    <3>2. \/ RejectData(c) \/ Evaluate(c) \/ EvaluateError(c)
          \/ MarkProcessed(c) \/ MarkProcessedError(c)
      BY <1>0, <1>4, <2>4, <3>1
      DEF Turn, Start, LoadRules, LoadRulesError, Poll, DecodeFailure,
          Shutdown, ParseFailure,
          SkipAnonymous, CheckProcessed, CheckProcessedError, AcquireLock,
          AcquireLockError, ReleaseLockError, Commit, CommitError,
          SendToDlq, SendToDlqError, FinalCommit, FinalCommitError
    <3>3. pc'[c] \in Holding /\ cur'[c] = cur[c]
      BY <1>1, <3>2
      DEF RejectData, Evaluate, EvaluateError, MarkProcessed,
          MarkProcessedError, Unwind
    <3>. QED  BY <1>3, <2>4, <3>3
  <2>5. AcquireLock(c) \/ ReleaseLock(c) \/ UNCHANGED lock
    BY <1>0, <1>4
    DEF Turn, Start, LoadRules, LoadRulesError, Poll, DecodeFailure,
        Shutdown, ParseFailure,
        SkipAnonymous, CheckProcessed, CheckProcessedError, AcquireLockError,
        RejectData, Evaluate, EvaluateError, MarkProcessed,
        MarkProcessedError, ReleaseLockError, Commit, CommitError, SendToDlq,
        SendToDlqError, FinalCommit, FinalCommitError
  <2>. QED  BY <2>1, <2>2, <2>3, <2>4, <2>5
<1>5. ASSUME NEW c \in Consumers, Crash(c) \/ Signal(c)
      PROVE  pc'[lock'[id]] \in Holding /\ MsgAt(cur'[lock'[id]]).id = id
  BY <1>0, <1>2, <1>5 DEF Crash, Signal
<1>6. ASSUME NEW p \in Partitions, Revoke(p) \/ \E c \in Consumers : Assign(p, c)
      PROVE  pc'[lock'[id]] \in Holding /\ MsgAt(cur'[lock'[id]]).id = id
  BY <1>2, <1>6 DEF Revoke, Assign
<1>7. ASSUME NEW i \in ExternalIds, LockExpires(i) \/ KeyExpires(i)
      PROVE  pc'[lock'[id]] \in Holding /\ MsgAt(cur'[lock'[id]]).id = id
  BY <1>1, <1>2, <1>7 DEF LockExpires, KeyExpires, Unlocked
<1>8. CASE UNCHANGED vars
  BY <1>2, <1>8 DEF vars
<1>. QED  BY <1>4, <1>5, <1>6, <1>7, <1>8 DEF Next

(* Where a turn can take a consumer, and what it has learned on the way.   *)
LEMMA TurnMoves ==
    ASSUME TypeOK, NEW c \in Consumers, Turn(c)
    PROVE  /\ pc'[c] \in Holding \cup {"lock"} =>
                 /\ cur'[c] = cur[c]
                 /\ pc[c] \in Holding \cup {"lock"} \/ Kind(c) \in IdKinds
           /\ pc'[c] \in {"mark", "release"} =>
                 cur'[c] = cur[c] /\ (pc[c] = "mark" \/ Id(c) \in txns')
           /\ pc'[c] \in {"commit", "finalCommit"} =>
                 cur'[c] = cur[c] /\ pc[c] \in Trying \cup {"release"}
<1>. USE DEF TypeOK, Goto, Holding, Trying, IdKinds
<1>1. CASE \/ Start(c) \/ LoadRules(c) \/ LoadRulesError(c)
           \/ DecodeFailure(c) \/ Shutdown(c)
  BY <1>1 DEF Start, LoadRules, LoadRulesError, DecodeFailure, Shutdown
<1>2. CASE Poll(c)
  BY <1>2 DEF Poll
<1>3. CASE ParseFailure(c) \/ CheckProcessedError(c)
  BY <1>3, FailSteps DEF ParseFailure, CheckProcessedError
<1>4. CASE SkipAnonymous(c) \/ CheckProcessed(c) \/ AcquireLock(c)
  BY <1>4 DEF SkipAnonymous, CheckProcessed, AcquireLock
<1>5. CASE AcquireLockError(c) \/ ReleaseLockError(c) \/ CommitError(c)
  BY <1>5, FailSteps DEF AcquireLockError, ReleaseLockError, CommitError
<1>6. CASE RejectData(c) \/ Evaluate(c) \/ EvaluateError(c)
  BY <1>6 DEF RejectData, Evaluate, EvaluateError, Unwind, Store
<1>7. CASE MarkProcessed(c) \/ MarkProcessedError(c)
  BY <1>7 DEF MarkProcessed, MarkProcessedError, Unwind
<1>8. CASE ReleaseLock(c)
  BY <1>8, FailSteps DEF ReleaseLock
<1>9. CASE Commit(c) \/ FinalCommit(c) \/ FinalCommitError(c)
  BY <1>9 DEF Commit, FinalCommit, FinalCommitError, Finish
<1>10. CASE SendToDlq(c) \/ SendToDlqError(c)
  BY <1>10 DEF SendToDlq, SendToDlqError
<1>. QED
  BY <1>1, <1>2, <1>3, <1>4, <1>5, <1>6, <1>7, <1>8, <1>9, <1>10 DEF Turn

LEMMA KnowsStep ==
    ASSUME TypeOK, StoredInv, LockAttended, \A c \in Consumers : Knows(c),
           Clean, Clean', [Next]_vars, NEW d \in Consumers
    PROVE  Knows(d)'
<1>1. txns \subseteq txns'
  BY Monotone
<1>2. ASSUME pc[d] \in Busy
      PROVE  /\ cur[d] \in Slots
             /\ Accounted(cur[d]) /\ cur'[d] = cur[d] => Accounted(cur[d])'
  <2>1. PICK m \in Slots : m = cur[d]
    BY <1>2, BusyHasMessage
  <2>2. Accounted(m) => Accounted(m)'
    BY AccountedStable DEF StoredInv
  <2>. QED  BY <2>1, <2>2 DEF Accounted
<1>3. ASSUME pc[d] \in Trying \cup {"release"}
      PROVE  cur[d] \in Slots /\ Accounted(cur[d])
  <2>1. cur[d] \in Slots
    BY <1>3, BusyHasMessage DEF Busy, Labels, Holding, Trying
  <2>2. CASE pc[d] \in Trying
    BY <2>1, <2>2 DEF Accounted, Covers
  <2>3. CASE pc[d] = "release"
    <3>1. Kind(d) \in IdKinds /\ Id(d) \in txns
      BY <2>3 DEF Knows, Holding
    <3>. QED  BY <2>1, <3>1 DEF Accounted, Id, Kind, IdKinds
  <2>. QED  BY <1>3, <2>1, <2>2, <2>3
<1>4. ASSUME NEW c \in Consumers, Turn(c)  PROVE Knows(d)'
  <2>1. CASE c = d
    <3>1. pc'[d] \in Holding \cup {"lock"} => Kind(d)' \in IdKinds
      BY <1>4, <2>1, TurnMoves DEF Knows, Kind
    <3>2. pc'[d] \in {"mark", "release"} => Id(d)' \in txns'
      BY <1>1, <1>4, <2>1, TurnMoves DEF Knows, Id
    <3>3. pc'[d] \in {"commit", "finalCommit"} => Accounted(cur[d])'
      <4>1. ASSUME pc'[d] \in {"commit", "finalCommit"}
            PROVE  Accounted(cur[d])'
        <5>1. cur'[d] = cur[d] /\ pc[d] \in Trying \cup {"release"}
          BY <1>4, <2>1, <4>1, TurnMoves
        <5>. QED
          BY <1>2, <1>3, <5>1 DEF Busy, Labels, Holding, Trying
      <4>. QED  BY <4>1
    <3>. QED  BY <3>1, <3>2, <3>3 DEF Knows
  <2>2. CASE c # d
    <3>1. pc'[d] = pc[d] /\ cur'[d] = cur[d]
      BY <1>4, <2>2, TurnFrame
    <3>. QED
      BY <1>1, <1>2, <3>1
      DEF Knows, Kind, Id, Busy, Labels, Holding
  <2>. QED  BY <2>1, <2>2
<1>5. ASSUME UNCHANGED <<pc, cur>>  PROVE Knows(d)'
  BY <1>1, <1>2, <1>5 DEF Knows, Kind, Id, Busy, Labels, Holding
<1>6. ASSUME NEW c \in Consumers, Crash(c) \/ Signal(c)  PROVE Knows(d)'
  <2>1. ~Crash(c)
    BY SpendTyped DEF Crash, Clean, TypeOK, Faults
  <2>. QED  BY <1>5, <1>6, <2>1 DEF Signal
<1>7. ASSUME NEW p \in Partitions, Revoke(p) \/ \E c \in Consumers : Assign(p, c)
      PROVE  Knows(d)'
  BY <1>5, <1>7 DEF Revoke, Assign, proc
<1>8. ASSUME NEW id \in ExternalIds, LockExpires(id) \/ KeyExpires(id)
      PROVE  Knows(d)'
  BY <1>5, <1>8 DEF LockExpires, KeyExpires, proc
<1>9. CASE UNCHANGED vars
  BY <1>5, <1>9 DEF vars, proc
<1>. QED  BY <1>4, <1>6, <1>7, <1>8, <1>9 DEF Next

(* What a step adds to the committed messages was accounted for before.    *)
LEMMA NothingLostStep ==
    ASSUME TypeOK, StoredInv, LockAttended, \A c \in Consumers : Knows(c),
           OneUncommitted, NothingLost, Clean, Clean', [Next]_vars
    PROVE  NothingLost'
<1> SUFFICES ASSUME NEW m \in Slots, m[2] <= committed'[m[1]]
             PROVE  Accounted(m)'
  BY DEF NothingLost
<1>1. m[1] \in Partitions /\ m[2] \in Nat /\ m = <<m[1], m[2]>>
  BY SlotFacts
<1>2. SUFFICES Accounted(m)
  BY AccountedStable DEF StoredInv
<1>3. CASE committed' = committed
  BY <1>3 DEF NothingLost
<1>4. ASSUME NEW c \in Consumers, pc[c] \in {"commit", "finalCommit"},
             committed' = Offsets(c)
      PROVE  Accounted(m)
  <2>1. CASE m[2] <= committed[m[1]]
    BY <2>1 DEF NothingLost
  <2>2. CASE ~(m[2] <= committed[m[1]])
    <3>1. owner[m[1]] = c /\ m[2] <= position[m[1]]
      BY <1>1, <1>4, <2>2 DEF Offsets
    <3>2. c # None /\ position[m[1]] \in Nat /\ committed[m[1]] \in Nat
      BY <1>1, NoneAssumption DEF TypeOK
    <3>3. cur[c] = <<m[1], m[2]>>
      BY <1>1, <2>2, <3>1, <3>2 DEF OneUncommitted
    <3>. QED  BY <1>1, <1>4, <3>3 DEF Knows
  <2>. QED  BY <2>1, <2>2
<1>5. \/ committed' = committed
      \/ \E c \in Consumers : /\ pc[c] \in {"commit", "finalCommit"}
                             /\ committed' = Offsets(c)
  BY DEF Next, Turn, Crash, Signal, Revoke, Assign, LockExpires, KeyExpires,
         Start, LoadRules, LoadRulesError, Poll, DecodeFailure, Shutdown,
         ParseFailure, SkipAnonymous,
         CheckProcessed, CheckProcessedError, AcquireLock, AcquireLockError,
         RejectData, Evaluate, EvaluateError, MarkProcessed,
         MarkProcessedError, ReleaseLock, ReleaseLockError, Commit,
         CommitError, SendToDlq, SendToDlqError, FinalCommit,
         FinalCommitError, FinalOffsets, vars, kafka
<1>. QED  BY <1>3, <1>4, <1>5

LEMMA LossStep == TypeOK /\ StoredInv /\ LossInv /\ [Next]_vars => LossInv'
<1> SUFFICES ASSUME TypeOK, StoredInv, LossInv, [Next]_vars  PROVE LossInv'
  OBVIOUS
<1>1. Clean' => Clean
  <2>1. \A f \in {"crash", "redis", "dlq"} :
           spent[f] \in Nat /\ spent'[f] >= spent[f]
    BY SpentGrows DEF TypeOK, Faults
  <2>2. \A f \in {"crash", "redis", "dlq"} : spent'[f] = 0 => spent[f] = 0
    BY <2>1
  <2>. QED  BY <2>2 DEF Clean
<1>2. OneUncommitted'
  BY OneUncommittedStep DEF LossInv
<1>3. ASSUME Clean'
      PROVE  LockAttended' /\ (\A c \in Consumers : Knows(c)') /\ NothingLost'
  BY <1>1, <1>3, LockAttendedStep, KnowsStep, NothingLostStep DEF LossInv
<1>. QED  BY <1>2, <1>3 DEF LossInv

(* Losing a message takes an outage: as long as no consumer has crashed,   *)
(* no Redis call and no send to transactions.dlq has failed, every message *)
(* below a committed offset has its transaction stored, lies in the dead   *)
(* letter queue, or is still being tried (base.py:152-190,                 *)
(* idempotency.py:130-161).                                                *)
THEOREM NoSilentLoss == Spec => []LostOnlyByOutage
<1>1. Init => StoredInv /\ LossInv
  <2>1. ASSUME Init PROVE NothingLost
    <3> SUFFICES ASSUME NEW m \in Slots, m[2] <= committed[m[1]]  PROVE FALSE
      BY DEF NothingLost
    <3>. QED  BY <2>1, SlotFacts DEF Init
  <2>. QED
    BY <2>1
    DEF Init, StoredInv, ProcessedIsStored, LossInv, OneUncommitted,
        LockAttended, Knows, Holding
<1>2. LossInv => LostOnlyByOutage
  BY DEF LossInv, LostOnlyByOutage, Clean
<1>. QED  BY <1>1, <1>2, LossStep, StoredStep, TypeCorrect, PTL DEF Spec

(* A consumer is handed the next message of a partition only when the one  *)
(* before it is committed, through failed commits, rebalances, crashes and *)
(* restarts (base.py:108-113, 152-190).                                    *)
THEOREM OneAtATime == Spec => []OneUncommitted
<1>1. Init => OneUncommitted
  BY DEF Init, OneUncommitted
<1>. QED  BY <1>1, OneUncommittedStep, TypeCorrect, PTL DEF Spec

-----------------------------------------------------------------------------
(* AlertsOwedToFaults, for a lone consumer: an id whose alerts have used up*)
(* the allowance is either marked as processed or just about to be, so no  *)
(* delivery of it is evaluated again before the next fault.                *)
Lone == \A c, d \in Consumers : c = d

Debt == spent["crash"] + spent["redis"] + spent["db"] + spent["keyTTL"]

Unmarked(id) ==
    /\ id \notin processed
    /\ \A c \in Consumers : pc[c] = "mark" => Id(c) # id

DebtInv ==
    Lone =>
        /\ \A c \in Consumers :
              pc[c] \in {"lock", "evaluate"} => Id(c) \notin processed
        /\ \A id \in ExternalIds :
              /\ alerts[id] <= 1 + Debt
              /\ Unmarked(id) => alerts[id] <= Debt

(* The debt grows by one with a fault that can cost an alert.              *)
LEMMA DebtSteps ==
    ASSUME TypeOK, [Next]_vars
    PROVE  /\ Debt \in Nat /\ Debt' \in Nat /\ Debt' >= Debt
           /\ \A f \in {"crash", "redis", "db", "keyTTL"} :
                 Spend(f) => Debt' >= Debt + 1
<1>. DEFINE Paying == {"crash", "redis", "db", "keyTTL"}
<1>1. Paying \subseteq Faults
  BY DEF Faults
<1>2. \A f \in Paying : spent[f] \in Nat
  BY <1>1 DEF TypeOK
<1>3. \A f \in Paying : spent'[f] >= spent[f]
  BY <1>1, SpentGrows
<1>4. \A f \in Paying : spent'[f] \in Nat
  BY <1>1, SpentGrows, SpendTyped DEF TypeOK
<1>5. \A f \in Paying : Spend(f) => spent'[f] = spent[f] + 1
  BY <1>1, SpendTyped DEF TypeOK
<1>. QED  BY <1>2, <1>3, <1>4, <1>5 DEF Debt

LEMMA DebtStep == TypeOK /\ DebtInv /\ [Next]_vars => DebtInv'
<1> SUFFICES ASSUME TypeOK, DebtInv, [Next]_vars, Lone  PROVE DebtInv'
  BY DEF DebtInv, Lone
<1>1. /\ \A c \in Consumers :
            pc[c] \in {"lock", "evaluate"} => Id(c) \notin processed
      /\ \A id \in ExternalIds :
            /\ alerts[id] <= 1 + Debt
            /\ Unmarked(id) => alerts[id] <= Debt
  BY DEF DebtInv
<1>2. /\ Debt \in Nat /\ Debt' \in Nat /\ Debt' >= Debt
      /\ \A f \in {"crash", "redis", "db", "keyTTL"} :
            Spend(f) => Debt' >= Debt + 1
  BY DebtSteps
<1>3. \A id \in ExternalIds : alerts[id] \in Nat
  BY DEF TypeOK
<1>4. ASSUME NEW c \in Consumers
      PROVE  /\ \A d \in Consumers : d = c
             /\ pc[c] \in Busy => Id(c) \in ExternalIds
  BY BusyHasMessage DEF Lone
(* Nothing but the fault count changes, for the better, and the consumer   *)
(* is not about to mark its id, nor is it on its way to evaluate.          *)
<1>5. ASSUME processed' = processed, alerts' = alerts,
             \A c \in Consumers : /\ pc[c] # "mark"
                                 /\ pc'[c] \notin {"mark", "lock", "evaluate"}
      PROVE  DebtInv'
  <2>1. \A id \in ExternalIds : Unmarked(id)' => Unmarked(id)
    BY <1>5 DEF Unmarked
  <2>. QED  BY <1>1, <1>2, <1>3, <1>5, <2>1 DEF DebtInv
(* The consumer and the id it works on stay where they are.                *)
<1>6. ASSUME processed' = processed, alerts' = alerts, UNCHANGED <<pc, cur>>
      PROVE  DebtInv'
  <2>1. \A id \in ExternalIds : Unmarked(id)' => Unmarked(id)
    BY <1>6 DEF Unmarked, Id
  <2>. QED  BY <1>1, <1>2, <1>3, <1>6, <2>1 DEF DebtInv, Id
(* A fault that counts pays for what the consumer was about to mark.       *)
<1>7. ASSUME Debt' >= Debt + 1, alerts' = alerts,
             \A c \in Consumers :
                pc'[c] \in {"lock", "evaluate"} => Id(c)' \notin processed'
      PROVE  DebtInv'
  BY <1>1, <1>2, <1>3, <1>7 DEF DebtInv
<1>. USE DEF TypeOK, Goto, kafka, redis, db, proc
<1>8. ASSUME NEW c \in Consumers, Turn(c)  PROVE DebtInv'
  <2>1. CASE \/ Start(c) \/ LoadRules(c) \/ LoadRulesError(c)
             \/ DecodeFailure(c) \/ Shutdown(c) \/ Poll(c)
    BY <1>4, <1>5, <2>1 DEF Start, LoadRules, LoadRulesError, DecodeFailure,
        Shutdown, Poll
  <2>2. CASE ParseFailure(c) \/ CheckProcessedError(c) \/ CommitError(c)
    <3>1. pc[c] # "mark" /\ processed' = processed /\ alerts' = alerts
      BY <2>2 DEF ParseFailure, CheckProcessedError, CommitError
    <3>2. pc'[c] \in {"process", "dlq"}
      BY <2>2, FailSteps DEF ParseFailure, CheckProcessedError, CommitError
    <3>. QED  BY <1>4, <1>5, <3>1, <3>2
  <2>3. CASE SkipAnonymous(c) \/ RejectData(c) \/ SendToDlq(c) \/ SendToDlqError(c)
    BY <1>4, <1>5, <2>3
    DEF SkipAnonymous, RejectData, Unwind, SendToDlq, SendToDlqError
  <2>4. CASE AcquireLockError(c) \/ ReleaseLock(c) \/ ReleaseLockError(c)
    BY <1>4, <1>5, <2>4, FailSteps
    DEF AcquireLockError, ReleaseLock, ReleaseLockError
  <2>5. CASE Commit(c) \/ FinalCommit(c) \/ FinalCommitError(c)
    BY <1>4, <1>5, <2>5 DEF Commit, FinalCommit, FinalCommitError, Finish
  <2>6. CASE CheckProcessed(c) \/ AcquireLock(c)
    <3>1. processed' = processed /\ alerts' = alerts /\ cur' = cur
      BY <2>6 DEF CheckProcessed, AcquireLock
    <3>2. pc[c] # "mark" /\ pc'[c] # "mark"
      BY <2>6 DEF CheckProcessed, AcquireLock
    <3>3. pc'[c] \in {"lock", "evaluate"} => Id(c) \notin processed
      BY <1>1, <2>6 DEF CheckProcessed, IsProcessed, AcquireLock
    <3>4. \A id \in ExternalIds : Unmarked(id)' => Unmarked(id)
      BY <1>4, <3>1, <3>2 DEF Unmarked
    <3>. QED  BY <1>1, <1>2, <1>3, <1>4, <3>1, <3>3, <3>4 DEF DebtInv, Id
  <2>7. CASE Evaluate(c) \/ EvaluateError(c)
    <3>1. /\ pc[c] = "evaluate" /\ Id(c) \in ExternalIds
          /\ Unmarked(Id(c)) /\ alerts[Id(c)] <= Debt
      BY <1>1, <1>4, <2>7
      DEF Evaluate, EvaluateError, Unmarked, Busy, Labels, Holding
    <3>2. /\ processed' = processed /\ cur' = cur
          /\ alerts' \in {alerts, [alerts EXCEPT ![Id(c)] = @ + 1]}
      BY <2>7 DEF Evaluate, EvaluateError, Store
    <3>0. ASSUME NEW id \in ExternalIds
          PROVE  alerts'[id] <= 1 + Debt /\ alerts'[id] \in Nat
      <4>1. CASE id = Id(c)
        <5>1. alerts'[id] = alerts[id] \/ alerts'[id] = alerts[id] + 1
          BY <3>2, <4>1
        <5>2. alerts[id] <= Debt /\ alerts[id] \in Nat
          BY <1>3, <3>1, <4>1
        <5>. QED  BY <1>2, <5>1, <5>2
      <4>2. CASE id # Id(c)
        <5>1. alerts'[id] = alerts[id]
          BY <3>2, <4>2
        <5>. QED  BY <1>1, <1>3, <5>1
      <4>. QED  BY <4>1, <4>2
    <3>3. CASE Evaluate(c)
      <4>1. pc'[c] = "mark"
        BY <3>3 DEF Evaluate
      <4>2. \A id \in ExternalIds : Unmarked(id)' => id # Id(c) /\ Unmarked(id)
        BY <1>4, <3>1, <3>2, <4>1 DEF Unmarked, Id
      <4>3. \A id \in ExternalIds : alerts'[id] <= 1 + Debt
        BY <3>0
      <4>4. \A id \in ExternalIds : id # Id(c) => alerts'[id] = alerts[id]
        BY <3>2
      <4>5. \A id \in ExternalIds : alerts'[id] \in Nat
        BY <3>0
      <4>. QED  BY <1>1, <1>2, <1>3, <1>4, <4>1, <4>2, <4>3, <4>4, <4>5 DEF DebtInv
    <3>4. CASE EvaluateError(c)
      <4>1. pc'[c] = "cleanup" /\ Debt' >= Debt + 1
        BY <1>2, <3>4 DEF EvaluateError, Unwind
      <4>2. \A id \in ExternalIds : alerts'[id] <= 1 + Debt /\ alerts'[id] \in Nat
        BY <3>0
      <4>. QED  BY <1>2, <1>4, <4>1, <4>2 DEF DebtInv
    <3>. QED  BY <2>7, <3>3, <3>4
  <2>8. CASE MarkProcessed(c)
    <3>1. /\ pc[c] = "mark" /\ pc'[c] = "release" /\ cur' = cur
          /\ processed' = processed \cup {Id(c)} /\ alerts' = alerts
      BY <2>8 DEF MarkProcessed
    <3>2. \A id \in ExternalIds : Unmarked(id)' => Unmarked(id)
      BY <1>4, <3>1 DEF Unmarked
    <3>. QED  BY <1>1, <1>2, <1>3, <1>4, <3>1, <3>2 DEF DebtInv
  <2>9. CASE MarkProcessedError(c)
    <3>1. pc'[c] = "cleanup" /\ alerts' = alerts /\ Debt' >= Debt + 1
      BY <1>2, <2>9 DEF MarkProcessedError, Unwind
    <3>. QED  BY <1>4, <1>7, <3>1
  <2>. QED
    BY <1>8, <2>1, <2>2, <2>3, <2>4, <2>5, <2>6, <2>7, <2>8, <2>9 DEF Turn
<1>9. ASSUME NEW c \in Consumers, Crash(c) \/ Signal(c)  PROVE DebtInv'
  <2>1. CASE Crash(c)
    <3>1. pc'[c] = "down" /\ alerts' = alerts /\ Debt' >= Debt + 1
      BY <1>2, <2>1 DEF Crash, Finish
    <3>. QED  BY <1>4, <1>7, <3>1
  <2>2. CASE Signal(c)
    BY <1>6, <2>2 DEF Signal
  <2>. QED  BY <1>9, <2>1, <2>2
<1>10. ASSUME NEW p \in Partitions, Revoke(p) \/ \E c \in Consumers : Assign(p, c)
       PROVE  DebtInv'
  BY <1>6, <1>10 DEF Revoke, Assign
<1>11. ASSUME NEW id \in ExternalIds, LockExpires(id) \/ KeyExpires(id)
       PROVE  DebtInv'
  <2>1. CASE LockExpires(id)
    BY <1>6, <2>1 DEF LockExpires
  <2>2. CASE KeyExpires(id)
    <3>1. /\ Debt' >= Debt + 1 /\ alerts' = alerts /\ UNCHANGED <<pc, cur>>
          /\ processed' \subseteq processed
      BY <1>2, <2>2 DEF KeyExpires
    <3>. QED  BY <1>1, <1>7, <3>1 DEF Id
  <2>. QED  BY <1>11, <2>1, <2>2
<1>12. CASE UNCHANGED vars
  BY <1>6, <1>12 DEF vars
<1>. QED  BY <1>8, <1>9, <1>10, <1>11, <1>12 DEF Next

(* With one consumer, every alert of an id beyond the first is owed to a   *)
(* crash, a failed Redis or database call or an expired key, for any log,  *)
(* any number of redeliveries and any retry limit (base.py:152-190,        *)
(* idempotency.py:130-161, evaluation_service.py:130-150).                 *)
THEOREM AlertsAccounted == Spec => []AlertsOwedToFaults
<1>1. Init => DebtInv
  BY DEF Init, DebtInv, Debt, Faults
<1>2. TypeOK /\ DebtInv => AlertsOwedToFaults
  <2> SUFFICES ASSUME TypeOK, DebtInv, Lone, NEW id \in ExternalIds
               PROVE  alerts[id] <= 1 + Debt
                      /\ 1 + Debt = 1 + spent["crash"] + spent["redis"]
                                       + spent["db"] + spent["keyTTL"]
    BY DEF AlertsOwedToFaults, Lone
  <2>1. \A f \in {"crash", "redis", "db", "keyTTL"} : spent[f] \in Nat
    BY DEF TypeOK, Faults
  <2>. QED  BY <2>1 DEF DebtInv, Debt
<1>. QED  BY <1>1, <1>2, DebtStep, TypeCorrect, PTL DEF Spec

-----------------------------------------------------------------------------
(* Commits take no argument: they cover every position of every assigned   *)
(* partition.                                                              *)
CommitsOwnMessage ==
    [][\A p \in Partitions : committed'[p] # committed[p] =>
          /\ committed'[p] = committed[p] + 1
          /\ owner[p] # None
          /\ cur[owner[p]] = <<p, committed'[p]>>
          /\ pc[owner[p]] \in {"commit", "finalCommit"}]_vars

(* All the same an offset moves only with the very message that its owner  *)
(* has dealt with, one at a time and never back, though partitions are     *)
(* revoked in the middle, commits fail and processes restart               *)
(* (base.py:108-113, 161, 190).                                            *)
THEOREM OffsetsExact == Spec => CommitsOwnMessage
<1>1. ASSUME TypeOK, OneUncommitted, [Next]_vars, NEW p \in Partitions,
             committed'[p] # committed[p]
      PROVE  /\ committed'[p] = committed[p] + 1
             /\ owner[p] # None
             /\ cur[owner[p]] = <<p, committed'[p]>>
             /\ pc[owner[p]] \in {"commit", "finalCommit"}
  <2>1. PICK c \in Consumers : /\ committed' = Offsets(c)
                               /\ pc[c] \in {"commit", "finalCommit"}
    <3>1. \A c \in Consumers : Crash(c) \/ Signal(c) => committed' = committed
      BY DEF Crash, Signal, kafka
    <3>2. \A q \in Partitions :
             Revoke(q) \/ (\E c \in Consumers : Assign(q, c)) => committed' = committed
      BY DEF Revoke, Assign
    <3>3. \A id \in ExternalIds :
             LockExpires(id) \/ KeyExpires(id) => committed' = committed
      BY DEF LockExpires, KeyExpires, kafka
    <3>4. committed' # committed /\ ~UNCHANGED vars
      BY <1>1 DEF vars, kafka
    <3>5. PICK c \in Consumers : Turn(c)
      <4>1. Next
        BY <1>1, <3>4
      <4>2. CASE \E c \in Consumers : Turn(c) \/ Crash(c) \/ Signal(c)
        BY <3>1, <3>4, <4>2
      <4>3. CASE \E q \in Partitions : Revoke(q) \/ \E c \in Consumers : Assign(q, c)
        BY <3>2, <3>4, <4>3
      <4>4. CASE \E id \in ExternalIds : LockExpires(id) \/ KeyExpires(id)
        BY <3>3, <3>4, <4>4
      <4>. QED  BY <4>1, <4>2, <4>3, <4>4 DEF Next
    <3>6. Commit(c) \/ CommitError(c) \/ FinalCommit(c) \/ FinalCommitError(c)
      BY <1>1, <3>5
      DEF Turn, Start, LoadRules, LoadRulesError, Poll, DecodeFailure, Shutdown,
          ParseFailure, SkipAnonymous, CheckProcessed, CheckProcessedError,
          AcquireLock, AcquireLockError, RejectData, Evaluate, EvaluateError,
          MarkProcessed, MarkProcessedError, ReleaseLock, ReleaseLockError,
          SendToDlq, SendToDlqError, kafka
    <3>. QED
      BY <1>1, <3>6 DEF Commit, CommitError, FinalCommit, FinalCommitError, FinalOffsets
  <2>2. owner[p] = c /\ committed'[p] = position[p]
    BY <1>1, <2>1 DEF Offsets
  <2>3. c # None
    BY NoneAssumption
  <2>4. position[p] = committed[p] + 1 /\ cur[c] = <<p, position[p]>>
    BY <1>1, <2>2, <2>3 DEF OneUncommitted
  <2>. QED  BY <2>1, <2>2, <2>3, <2>4
<1>2. TypeOK /\ OneUncommitted /\ [Next]_vars => CommitsOwnMessage!1
  BY <1>1
<1>. QED  BY <1>2, OneAtATime, TypeCorrect, PTL DEF Spec, CommitsOwnMessage

-----------------------------------------------------------------------------
(* Calls that have failed under a message.                                 *)
Failures == spent["redis"] + spent["db"] + spent["commit"]

(* Messages that fail by themselves.                                       *)
Poor == {"malformed", "rejected"}

(* A message that is in order becomes a dead letter only after as many     *)
(* failing calls as there are attempts: no attempt is lost to anything     *)
(* else.                                                                   *)
DeadLettersEarned ==
    \A m \in dlq : MsgAt(m).kind \in Poor \/ MaxRetries <= Failures

(* Every attempt at such a message has cost a failing call, one that is    *)
(* being cleaned up included.                                              *)
Patient(c) ==
    /\ pc[c] \notin Busy => attempt[c] = 1
    /\ pc[c] \in Busy /\ Kind(c) \notin Poor =>
          /\ pc[c] \in {"dlq", "finalCommit"} => MaxRetries <= Failures
          /\ pc[c] = "cleanup" => attempt[c] <= Failures
          /\ attempt[c] - 1 <= Failures

LEMMA FailureSteps ==
    ASSUME TypeOK, [Next]_vars
    PROVE  /\ Failures \in Nat /\ Failures' \in Nat /\ Failures' >= Failures
           /\ \A f \in {"redis", "db", "commit"} : Spend(f) => Failures' >= Failures + 1
<1>. DEFINE Failing == {"redis", "db", "commit"}
<1>1. Failing \subseteq Faults
  BY DEF Faults
<1>2. \A f \in Failing : spent[f] \in Nat
  BY <1>1 DEF TypeOK
<1>3. \A f \in Failing : spent'[f] >= spent[f]
  BY <1>1, SpentGrows
<1>4. \A f \in Failing : spent'[f] \in Nat
  BY <1>1, SpentGrows, SpendTyped DEF TypeOK
<1>5. \A f \in Failing : Spend(f) => spent'[f] = spent[f] + 1
  BY <1>1, SpendTyped DEF TypeOK
<1>. QED  BY <1>2, <1>3, <1>4, <1>5 DEF Failures

(* A turn that fails: the attempt was paid for, before or just now.        *)
LEMMA FailPatient ==
    ASSUME TypeOK, [Next]_vars, NEW c \in Consumers, pc[c] \in Busy,
           Fail(c), UNCHANGED cur,
           Kind(c) \notin Poor => attempt[c] <= Failures'
    PROVE  Patient(c)'
<1>1. /\ attempt[c] \in 1 .. MaxRetries /\ MaxRetries \in Nat
      /\ Failures' \in Nat /\ Kind(c)' = Kind(c)
  BY FailureSteps, RetriesAssumption DEF TypeOK, Kind
<1>2. \/ pc'[c] = "process" /\ attempt'[c] = attempt[c] + 1
      \/ pc'[c] = "dlq" /\ attempt'[c] = attempt[c] /\ attempt[c] = MaxRetries
  <2>1. /\ pc \in [Consumers -> Labels]
        /\ attempt \in [Consumers -> 1 .. MaxRetries]
    BY DEF TypeOK
  <2>. QED  BY <1>1, <2>1 DEF Fail, Goto
<1>3. pc'[c] \in Busy
  BY <1>2 DEF Busy, Labels
<1>. QED  BY <1>1, <1>2, <1>3 DEF Patient

LEMMA PatientTurn ==
    ASSUME TypeOK, [Next]_vars, NEW c \in Consumers, Turn(c), Patient(c)
    PROVE  Patient(c)'
<1>1. /\ Failures \in Nat /\ Failures' \in Nat /\ Failures' >= Failures
      /\ \A f \in {"redis", "db", "commit"} : Spend(f) => Failures' >= Failures + 1
      /\ attempt[c] \in 1 .. MaxRetries /\ MaxRetries \in Nat
  BY FailureSteps, RetriesAssumption DEF TypeOK
<1>2. /\ {"process", "lock", "evaluate", "mark", "release", "cleanup", "commit",
          "dlq", "finalCommit"} \subseteq Busy
      /\ {"down", "load", "poll", "stopped"} \cap Busy = {}
  BY DEF Busy, Labels, Holding
<1>3. cur'[c] = cur[c] => Kind(c)' = Kind(c)
  BY DEF Kind
<1>4. /\ pc \in [Consumers -> Labels] /\ cur \in [Consumers -> Slots \cup {None}]
      /\ attempt \in [Consumers -> 1 .. MaxRetries]
  BY DEF TypeOK
<1>. USE DEF Goto, proc
<1>5. CASE \/ Start(c) \/ LoadRules(c) \/ LoadRulesError(c)
           \/ DecodeFailure(c) \/ Shutdown(c)
  <2>1. pc[c] \notin Busy /\ pc'[c] \notin Busy /\ attempt'[c] = attempt[c]
    BY <1>2, <1>4, <1>5 DEF Start, LoadRules, LoadRulesError, DecodeFailure, Shutdown
  <2>. QED  BY <2>1 DEF Patient
<1>6. CASE Poll(c)
  <2>1. pc[c] \notin Busy /\ pc'[c] = "process" /\ attempt'[c] = attempt[c]
    BY <1>2, <1>4, <1>6 DEF Poll
  <2>. QED  BY <1>1, <1>2, <2>1 DEF Patient
<1>7. CASE Commit(c) \/ FinalCommit(c) \/ FinalCommitError(c)
  <2>1. pc'[c] \notin Busy /\ attempt'[c] = 1
    BY <1>2, <1>4, <1>7 DEF Commit, FinalCommit, FinalCommitError, Finish
  <2>. QED  BY <2>1 DEF Patient
<1>8. CASE ParseFailure(c)
  <2>1. pc[c] \in Busy /\ Fail(c) /\ cur' = cur /\ Kind(c) \in Poor
    BY <1>2, <1>8 DEF ParseFailure, Poor
  <2>. QED  BY <2>1, FailPatient
<1>9. CASE CheckProcessedError(c) \/ AcquireLockError(c) \/ ReleaseLockError(c)
           \/ CommitError(c)
  <2>1. pc[c] \in Busy /\ Fail(c) /\ cur' = cur /\ Failures' >= Failures + 1
    BY <1>1, <1>2, <1>9
    DEF CheckProcessedError, AcquireLockError, ReleaseLockError, CommitError
  <2>2. Kind(c) \notin Poor => attempt[c] - 1 <= Failures
    BY <2>1 DEF Patient
  <2>. QED  BY <1>1, <2>1, <2>2, FailPatient
<1>10. CASE ReleaseLock(c) /\ pc[c] = "cleanup"
  <2>1. pc[c] \in Busy /\ Fail(c) /\ cur' = cur
    BY <1>2, <1>10 DEF ReleaseLock
  <2>2. Kind(c) \notin Poor => attempt[c] <= Failures
    BY <1>10, <2>1 DEF Patient
  <2>. QED  BY <1>1, <2>1, <2>2, FailPatient
<1>11. CASE EvaluateError(c) \/ MarkProcessedError(c)
  <2>1. /\ pc[c] \in Busy /\ pc'[c] = "cleanup" /\ cur'[c] = cur[c]
        /\ attempt'[c] = attempt[c] /\ Failures' >= Failures + 1
    BY <1>1, <1>2, <1>4, <1>11 DEF EvaluateError, MarkProcessedError, Unwind
  <2>. QED  BY <1>1, <1>2, <1>3, <2>1 DEF Patient
<1>12. CASE RejectData(c)
  <2>1. pc'[c] = "cleanup" /\ Kind(c)' \in Poor
    BY <1>3, <1>4, <1>12 DEF RejectData, Unwind, Poor
  <2>. QED  BY <1>2, <2>1 DEF Patient
<1>13. CASE \/ SkipAnonymous(c) \/ CheckProcessed(c) \/ AcquireLock(c)
            \/ Evaluate(c) \/ MarkProcessed(c)
            \/ (ReleaseLock(c) /\ pc[c] = "release")
  <2>1. /\ pc[c] \in Busy /\ cur'[c] = cur[c] /\ attempt'[c] = attempt[c]
        /\ pc'[c] \in {"commit", "lock", "evaluate", "mark", "release"}
    BY <1>2, <1>4, <1>13
    DEF SkipAnonymous, CheckProcessed, AcquireLock, Evaluate, MarkProcessed, ReleaseLock
  <2>. QED  BY <1>1, <1>2, <1>3, <2>1 DEF Patient
<1>14. CASE SendToDlq(c) \/ SendToDlqError(c)
  <2>1. /\ pc[c] = "dlq" /\ pc'[c] = "finalCommit" /\ cur'[c] = cur[c]
        /\ attempt'[c] = attempt[c]
    BY <1>4, <1>14 DEF SendToDlq, SendToDlqError
  <2>. QED  BY <1>1, <1>2, <1>3, <2>1 DEF Patient
<1>15. ReleaseLock(c) => pc[c] \in {"release", "cleanup"}
  BY DEF ReleaseLock
<1>. QED
  BY <1>5, <1>6, <1>7, <1>8, <1>9, <1>10, <1>11, <1>12, <1>13, <1>14, <1>15 DEF Turn

EarnedInv == DeadLettersEarned /\ \A c \in Consumers : Patient(c)

LEMMA EarnedStep == TypeOK /\ EarnedInv /\ [Next]_vars => EarnedInv'
<1> SUFFICES ASSUME TypeOK, EarnedInv, [Next]_vars  PROVE EarnedInv'
  OBVIOUS
<1>1. Failures \in Nat /\ Failures' \in Nat /\ Failures' >= Failures /\ MaxRetries \in Nat
  BY FailureSteps, RetriesAssumption
<1>2. ASSUME NEW d \in Consumers, Patient(d),
             pc'[d] = pc[d], cur'[d] = cur[d], attempt'[d] = attempt[d]
      PROVE  Patient(d)'
  <2>1. attempt[d] \in 1 .. MaxRetries /\ Kind(d)' = Kind(d)
    BY <1>2 DEF TypeOK, Kind
  <2>. QED  BY <1>1, <1>2, <2>1 DEF Patient
<1>3. ASSUME NEW d \in Consumers, pc'[d] = "down", attempt'[d] = 1
      PROVE  Patient(d)'
  BY <1>3 DEF Patient, Busy, Labels, Holding
<1>4. ASSUME NEW d \in Consumers PROVE Patient(d)'
  <2>0. Patient(d)
    BY DEF EarnedInv
  <2>1. ASSUME NEW c \in Consumers, Turn(c) PROVE Patient(d)'
    BY <1>2, <2>0, <2>1, TurnFrame, PatientTurn
  <2>2. ASSUME NEW c \in Consumers, Crash(c) PROVE Patient(d)'
    <3>1. CASE d = c
      BY <1>3, <2>2, <3>1 DEF Crash, Finish, Goto, TypeOK
    <3>2. CASE d # c
      BY <1>2, <2>0, <2>2, <3>2 DEF Crash, Finish, Goto, TypeOK
    <3>. QED  BY <3>1, <3>2
  <2>3. CASE UNCHANGED <<pc, cur, attempt>>
    BY <1>2, <2>0, <2>3
  <2>4. \A c \in Consumers : Signal(c) => UNCHANGED <<pc, cur, attempt>>
    BY DEF Signal
  <2>5. \A p \in Partitions, c \in Consumers :
           Revoke(p) \/ Assign(p, c) => UNCHANGED <<pc, cur, attempt>>
    BY DEF Revoke, Assign, proc
  <2>6. \A id \in ExternalIds :
           LockExpires(id) \/ KeyExpires(id) => UNCHANGED <<pc, cur, attempt>>
    BY DEF LockExpires, KeyExpires, proc
  <2>7. UNCHANGED vars => UNCHANGED <<pc, cur, attempt>>
    BY DEF vars, proc
  <2>. QED  BY <2>1, <2>2, <2>3, <2>4, <2>5, <2>6, <2>7 DEF Next
<1>5. DeadLettersEarned'
  <2> SUFFICES ASSUME NEW m \in dlq', MsgAt(m).kind \notin Poor
               PROVE  MaxRetries <= Failures'
    BY DEF DeadLettersEarned
  <2>1. CASE m \in dlq
    BY <1>1, <2>1 DEF EarnedInv, DeadLettersEarned
  <2>2. CASE m \notin dlq
    <3>1. PICK c \in Consumers : pc[c] = "dlq" /\ m = cur[c]
      BY <2>2
      DEF Next, Turn, Crash, Signal, Revoke, Assign, LockExpires, KeyExpires,
          Start, LoadRules, LoadRulesError, Poll, DecodeFailure, Shutdown,
          ParseFailure, SkipAnonymous, CheckProcessed, CheckProcessedError,
          AcquireLock, AcquireLockError, RejectData, Evaluate, EvaluateError,
          MarkProcessed, MarkProcessedError, ReleaseLock, ReleaseLockError,
          Commit, CommitError, SendToDlq, SendToDlqError, FinalCommit,
          FinalCommitError, Lettered, vars, kafka
    <3>2. Patient(c) /\ Kind(c) \notin Poor /\ pc[c] \in Busy
      BY <3>1 DEF EarnedInv, Kind, Busy, Labels
    <3>. QED  BY <1>1, <3>1, <3>2 DEF Patient
  <2>. QED  BY <2>1, <2>2
<1>. QED  BY <1>4, <1>5 DEF EarnedInv

(* No message in order goes to transactions.dlq before its attempts have   *)
(* been used up by failing calls to Redis, PostgreSQL or Kafka: duplicates,*)
(* locks held by others, rebalances and restarts cost none                 *)
(* (base.py:152-187).                                                      *)
THEOREM DeadLettersJustified == Spec => []DeadLettersEarned
<1>1. Init => EarnedInv
  BY DEF Init, EarnedInv, DeadLettersEarned, Patient, Busy, Labels, Holding
<1>2. EarnedInv => DeadLettersEarned
  BY DEF EarnedInv
<1>. QED  BY <1>1, <1>2, EarnedStep, TypeCorrect, PTL DEF Spec
=============================================================================
