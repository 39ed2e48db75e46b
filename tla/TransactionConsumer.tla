------------------------ MODULE TransactionConsumer ------------------------
(***************************************************************************)
(* The Kafka consumers of transactions.raw: the retry / dead letter /      *)
(* offset commit loop of app/consumers/base.py, the Redis idempotency key  *)
(* and processing lock of app/consumers/idempotency.py, and the way        *)
(* app/consumers/transaction_consumer.py puts them around the evaluation.  *)
(*                                                                         *)
(* A step of a consumer is what its event loop does up to and including    *)
(* one call to Redis, PostgreSQL or Kafka: the consumers interleave, and   *)
(* crash, only between two such calls.  A call may fail, and a failed      *)
(* write may have been applied all the same (its reply was lost).          *)
(*                                                                         *)
(* Left out: the content of the evaluation (the database transaction is    *)
(* one atomic step, the unit of work of evaluation_service.py), logging,   *)
(* tracing spans and the lag report, which only read.                      *)
(***************************************************************************)
EXTENDS Integers, Sequences

CONSTANTS
    Consumers,      \* processes that run app.consumers.main
    Partitions,     \* partitions of transactions.raw
    ExternalIds,    \* values of the external_id field
    Log,            \* Log[p]: the messages of partition p, in offset order
    Alerting,       \* the ids whose evaluation does not end in APPROVE
    MaxRetries,     \* BaseConsumer(max_retries=3)
    Budget,         \* how often each kind of fault may strike in a behaviour
    None            \* no owner, no message, no lock

(* What process() makes of a message: not UTF-8, not JSON (or no object),  *)
(* no external_id, refused by TransactionEvaluateRequest, or fine.         *)
Kinds == {"undecodable", "malformed", "anonymous", "rejected", "valid"}

Message == [kind : Kinds, id : ExternalIds]

Faults == {"crash", "revoke", "signal", "redis", "db", "commit", "dlq",
           "lockTTL", "keyTTL"}

(* A message is known by its partition and its offset, counted from 1.     *)
Slots == UNION {{p} \X (1 .. Len(Log[p])) : p \in Partitions}

ASSUME LogAssumption ==
    /\ Log \in [Partitions -> Seq(Message)]
    /\ Alerting \subseteq ExternalIds
ASSUME RetriesAssumption == MaxRetries \in Nat \ {0}
ASSUME BudgetAssumption == Budget \in [Faults -> Nat]
ASSUME NoneAssumption == None \notin Consumers \cup Slots

VARIABLES
    owner,      \* Kafka: the consumer each partition is assigned to
    position,   \* Kafka client: how many messages of p its owner was handed
    committed,  \* Kafka: how many messages of p the group has committed
    dlq,        \* Kafka: the messages copied to transactions.dlq
    processed,  \* Redis: ids with a key idempotency:transaction:<id>
    lock,       \* Redis: who set the key lock:idempotency:transaction:<id>.
                \*   The stored value is just "1": the code cannot see who.
    txns,       \* PostgreSQL: ids with a row in transactions
    alerts,     \* PostgreSQL: how many rows of fraud_alerts an id has
    pc,         \* where each consumer is, named for the call it makes next
    cur,        \* the message it works on
    attempt,    \* the loop variable of _process_with_retry_inner
    stopEvent,  \* _stop_event
    spent       \* history: the faults so far

kafka == <<owner, position, committed, dlq>>
redis == <<processed, lock>>
db    == <<txns, alerts>>
proc  == <<pc, cur, attempt, stopEvent>>
vars  == <<kafka, redis, db, proc, spent>>

(* Inside __aenter__ .. __aexit__ with should_process and _lock_acquired   *)
(* true; "cleanup" is __aexit__ with an exception under way.               *)
Holding == {"evaluate", "mark", "release", "cleanup"}

Labels == {"down", "load", "poll", "process", "lock", "commit", "dlq",
           "finalCommit", "stopped"} \cup Holding

Busy    == Labels \ {"down", "load", "poll", "stopped"}
Running == Labels \ {"down", "stopped"}

TypeOK ==
    /\ owner \in [Partitions -> Consumers \cup {None}]
    /\ position \in [Partitions -> Nat]
    /\ committed \in [Partitions -> Nat]
    /\ \A p \in Partitions :
          committed[p] <= position[p] /\ position[p] <= Len(Log[p])
    /\ dlq \subseteq Slots
    /\ processed \subseteq ExternalIds
    /\ lock \in [ExternalIds -> Consumers \cup {None}]
    /\ txns \subseteq ExternalIds
    /\ alerts \in [ExternalIds -> Nat]
    /\ pc \in [Consumers -> Labels]
    /\ cur \in [Consumers -> Slots \cup {None}]
    /\ \A c \in Consumers : cur[c] # None <=> pc[c] \in Busy
    /\ attempt \in [Consumers -> 1 .. MaxRetries]
    /\ stopEvent \in [Consumers -> BOOLEAN]
    /\ spent \in [Faults -> Nat]

Init ==
    /\ owner = [p \in Partitions |-> None]
    /\ position = [p \in Partitions |-> 0]
    /\ committed = [p \in Partitions |-> 0]
    /\ dlq = {}
    /\ processed = {}
    /\ lock = [i \in ExternalIds |-> None]
    /\ txns = {}
    /\ alerts = [i \in ExternalIds |-> 0]
    /\ pc = [c \in Consumers |-> "down"]
    /\ cur = [c \in Consumers |-> None]
    /\ attempt = [c \in Consumers |-> 1]
    /\ stopEvent = [c \in Consumers |-> FALSE]
    /\ spent = [f \in Faults |-> 0]

-----------------------------------------------------------------------------
(* The pieces the handlers are made of.                                    *)

MsgAt(m) == Log[m[1]][m[2]]
Id(c)    == MsgAt(cur[c]).id
Kind(c)  == MsgAt(cur[c]).kind

Goto(c, label) == pc' = [pc EXCEPT ![c] = label]

Spend(fault) ==
    /\ spent[fault] < Budget[fault]
    /\ spent' = [spent EXCEPT ![fault] = @ + 1]

(* The exception reaches the handler of the retry loop.  The backoff sleep *)
(* is the time that passes before the consumer's next step.                *)
RetryOnceMore(c) ==
    IF attempt[c] <= MaxRetries
    THEN Goto(c, "process") /\ attempt' = [attempt EXCEPT ![c] = @ + 1]
    ELSE Goto(c, "dlq") /\ UNCHANGED attempt

RetryForever(c) == Goto(c, "process") /\ UNCHANGED attempt

Fail(c) ==
    IF attempt[c] < MaxRetries
    THEN Goto(c, "process") /\ attempt' = [attempt EXCEPT ![c] = @ + 1]
    ELSE Goto(c, "dlq") /\ UNCHANGED attempt

(* The exception leaves the body of `async with IdempotentProcessor`.      *)
MarkDespiteException(c) == Goto(c, "mark") /\ UNCHANGED attempt
LeaveLockBehind(c)      == Fail(c)

Unwind(c) == Goto(c, "cleanup") /\ UNCHANGED attempt

(* SET key "1" NX: whether it succeeds, and what it leaves in the key.     *)
SetWithoutNX(id) == TRUE

LockFree(id) == lock[id] = None

LockedBy(c, id) ==
    IF LockFree(id) THEN [lock EXCEPT ![id] = c] ELSE lock

(* DELETE key: unconditional, whoever has set it.                          *)
Unlocked(id) == [lock EXCEPT ![id] = None]

(* EXISTS key.                                                             *)
NeverProcessed(id) == FALSE

IsProcessed(id) == id \in processed

(* commit() with no argument: the positions of every assigned partition.   *)
CommitNothing(c) == committed

Offsets(c) ==
    [p \in Partitions |-> IF owner[p] = c THEN position[p] ELSE committed[p]]

(* The attempt loop is over, with the message.                             *)
Finish(c, label) ==
    /\ Goto(c, label)
    /\ cur' = [cur EXCEPT ![c] = None]
    /\ attempt' = [attempt EXCEPT ![c] = 1]

LeaveGroup(c) ==
    owner' = [p \in Partitions |-> IF owner[p] = c THEN None ELSE owner[p]]

Deliverable(c, p) == owner[p] = c /\ position[p] < Len(Log[p])

NextKind(p) == Log[p][position[p] + 1].kind

(* The stop event is looked at when a message has arrived, only then.      *)
NeverStopping(c) == FALSE

Stopping(c) == stopEvent[c]

-----------------------------------------------------------------------------
(* The process and the main loop, BaseConsumer.start / run / stop.         *)

(* BaseConsumer.start(): the group is joined and the stop event cleared.   *)
Start(c) ==
    /\ pc[c] = "down"
    /\ Goto(c, "load")
    /\ stopEvent' = [stopEvent EXCEPT ![c] = FALSE]
    /\ UNCHANGED <<kafka, redis, db, cur, attempt, spent>>

(* The rules are loaded once, by a member that may own partitions already. *)
LoadRules(c) ==
    /\ pc[c] = "load"
    /\ Goto(c, "poll")
    /\ UNCHANGED <<kafka, redis, db, cur, attempt, stopEvent, spent>>

(* The query fails before the try of run(): nothing stops the client, and  *)
(* the group loses its member with the process, which exits with status 1. *)
(* A rule with a window in force would make every load fail (Scoring has   *)
(* it); here the rules are such that loads fail only with the database.    *)
LoadRulesError(c) ==
    /\ pc[c] = "load"
    /\ Spend("db")
    /\ Goto(c, "down")
    /\ LeaveGroup(c)
    /\ UNCHANGED <<position, committed, dlq, redis, db, cur, attempt, stopEvent>>

(* async for message in self._consumer: the next message of any partition. *)
Poll(c) ==
    /\ pc[c] = "poll"
    /\ ~Stopping(c)
    /\ \E p \in Partitions :
          /\ Deliverable(c, p)
          /\ NextKind(p) # "undecodable"
          /\ position' = [position EXCEPT ![p] = @ + 1]
          /\ cur' = [cur EXCEPT ![c] = <<p, position[p] + 1>>]
    /\ Goto(c, "process")
    /\ UNCHANGED <<owner, committed, dlq, redis, db, attempt, stopEvent, spent>>

(* The value_deserializer raises in the iterator, outside the retry loop:  *)
(* the exception leaves run(), main() exits with status 1.                 *)
DecodeFailure(c) ==
    /\ pc[c] = "poll"
    /\ \E p \in Partitions :
          /\ Deliverable(c, p)
          /\ NextKind(p) = "undecodable"
    /\ Goto(c, "down")
    /\ LeaveGroup(c)
    /\ UNCHANGED <<position, committed, dlq, redis, db, cur, attempt,
                   stopEvent, spent>>

(* break, and stop(): the message that has arrived is left for the next.   *)
Shutdown(c) ==
    /\ pc[c] = "poll"
    /\ Stopping(c)
    /\ \E p \in Partitions :
          /\ Deliverable(c, p)
          /\ NextKind(p) # "undecodable"
          /\ position' = [position EXCEPT ![p] = @ + 1]
    /\ Goto(c, "stopped")
    /\ LeaveGroup(c)
    /\ UNCHANGED <<committed, dlq, redis, db, cur, attempt, stopEvent, spent>>

-----------------------------------------------------------------------------
(* One attempt: process() with its IdempotentProcessor.                    *)

(* json.loads or data.get raises: no lock is taken.                        *)
ParseFailure(c) ==
    /\ pc[c] = "process"
    /\ Kind(c) = "malformed"
    /\ Fail(c)
    /\ UNCHANGED <<kafka, redis, db, cur, stopEvent, spent>>

(* "Message missing external_id, skipping".                                *)
SkipAnonymous(c) ==
    /\ pc[c] = "process"
    /\ Kind(c) = "anonymous"
    /\ Goto(c, "commit")
    /\ UNCHANGED <<kafka, redis, db, cur, attempt, stopEvent, spent>>

(* __aenter__, first half: EXISTS, and a GET of the cached result.         *)
CheckProcessed(c) ==
    /\ pc[c] = "process"
    /\ Kind(c) \in {"rejected", "valid"}
    /\ Goto(c, IF IsProcessed(Id(c)) THEN "commit" ELSE "lock")
    /\ UNCHANGED <<kafka, redis, db, cur, attempt, stopEvent, spent>>

CheckProcessedError(c) ==
    /\ pc[c] = "process"
    /\ Kind(c) \in {"rejected", "valid"}
    /\ Spend("redis")
    /\ Fail(c)
    /\ UNCHANGED <<kafka, redis, db, cur, stopEvent>>

(* __aenter__, second half: SET NX EX 300.  Without the lock the message   *)
(* counts as a duplicate: process() returns and the offset is committed.   *)
AcquireLock(c) ==
    /\ pc[c] = "lock"
    /\ lock' = LockedBy(c, Id(c))
    /\ Goto(c, IF LockFree(Id(c)) THEN "evaluate" ELSE "commit")
    /\ UNCHANGED <<kafka, processed, db, cur, attempt, stopEvent, spent>>

AcquireLockError(c) ==
    /\ pc[c] = "lock"
    /\ Spend("redis")
    /\ lock' \in {lock, LockedBy(c, Id(c))}
    /\ Fail(c)
    /\ UNCHANGED <<kafka, processed, db, cur, stopEvent>>

(* TransactionEvaluateRequest refuses the data.                              *)
RejectData(c) ==
    /\ pc[c] = "evaluate"
    /\ Kind(c) = "rejected"
    /\ Unwind(c)
    /\ UNCHANGED <<kafka, redis, db, cur, stopEvent, spent>>

(* The unit of work of FraudEvaluationService.evaluate: the transaction    *)
(* upserted, an alert inserted unless the decision is APPROVE.             *)
Store(id) ==
    /\ txns' = txns \cup {id}
    /\ alerts' = IF id \in Alerting THEN [alerts EXCEPT ![id] = @ + 1]
                                    ELSE alerts

Evaluate(c) ==
    /\ pc[c] = "evaluate"
    /\ Kind(c) = "valid"
    /\ Store(Id(c))
    /\ Goto(c, "mark")
    /\ UNCHANGED <<kafka, redis, cur, attempt, stopEvent, spent>>

(* A statement fails and the transaction is rolled back, or the connection *)
(* is lost under COMMIT and the transaction is there all the same.         *)
EvaluateError(c) ==
    /\ pc[c] = "evaluate"
    /\ Kind(c) = "valid"
    /\ Spend("db")
    /\ UNCHANGED db \/ Store(Id(c))
    /\ Unwind(c)
    /\ UNCHANGED <<kafka, redis, cur, stopEvent>>

(* __aexit__: SETEX of the result, then DELETE of the lock in any case.    *)
MarkProcessed(c) ==
    /\ pc[c] = "mark"
    /\ processed' = processed \cup {Id(c)}
    /\ Goto(c, "release")
    /\ UNCHANGED <<kafka, lock, db, cur, attempt, stopEvent, spent>>

MarkProcessedError(c) ==
    /\ pc[c] = "mark"
    /\ Spend("redis")
    /\ processed' \in {processed, processed \cup {Id(c)}}
    /\ Unwind(c)
    /\ UNCHANGED <<kafka, lock, db, cur, stopEvent>>

ReleaseLock(c) ==
    /\ pc[c] \in {"release", "cleanup"}
    /\ lock' = Unlocked(Id(c))
    /\ IF pc[c] = "release" THEN Goto(c, "commit") /\ UNCHANGED attempt
                            ELSE Fail(c)
    /\ UNCHANGED <<kafka, processed, db, cur, stopEvent, spent>>

ReleaseLockError(c) ==
    /\ pc[c] \in {"release", "cleanup"}
    /\ Spend("redis")
    /\ lock' \in {lock, Unlocked(Id(c))}
    /\ Fail(c)
    /\ UNCHANGED <<kafka, processed, db, cur, stopEvent>>

-----------------------------------------------------------------------------
(* Offsets and the dead letter queue, _process_with_retry_inner.           *)

(* await self._consumer.commit() inside the try.                           *)
Commit(c) ==
    /\ pc[c] = "commit"
    /\ committed' = Offsets(c)
    /\ Finish(c, "poll")
    /\ UNCHANGED <<owner, position, dlq, redis, db, stopEvent, spent>>

CommitError(c) ==
    /\ pc[c] = "commit"
    /\ Spend("commit")
    /\ committed' \in {committed, Offsets(c)}
    /\ Fail(c)
    /\ UNCHANGED <<owner, position, dlq, redis, db, cur, stopEvent>>

(* _send_to_dlq; it swallows the KafkaError of a send that failed.         *)
SkipDlq(c) == dlq

Lettered(c) == dlq \cup {cur[c]}

SendToDlq(c) ==
    /\ pc[c] = "dlq"
    /\ dlq' = Lettered(c)
    /\ Goto(c, "finalCommit")
    /\ UNCHANGED <<owner, position, committed, redis, db, cur, attempt,
                   stopEvent, spent>>

SendToDlqError(c) ==
    /\ pc[c] = "dlq"
    /\ Spend("dlq")
    /\ dlq' \in {dlq, Lettered(c)}
    /\ Goto(c, "finalCommit")
    /\ UNCHANGED <<owner, position, committed, redis, db, cur, attempt,
                   stopEvent>>

(* "Commit to avoid infinite retry loop", outside the try.                 *)
FinalOffsets(c) == Offsets(c)

FinalCommit(c) ==
    /\ pc[c] = "finalCommit"
    /\ committed' = FinalOffsets(c)
    /\ Finish(c, "poll")
    /\ UNCHANGED <<owner, position, dlq, redis, db, stopEvent, spent>>

(* The exception leaves run() by way of stop(); the process exits.         *)
FinalCommitError(c) ==
    /\ pc[c] = "finalCommit"
    /\ Spend("commit")
    /\ committed' \in {committed, FinalOffsets(c)}
    /\ Finish(c, "down")
    /\ LeaveGroup(c)
    /\ UNCHANGED <<position, dlq, redis, db, stopEvent>>

-----------------------------------------------------------------------------
(* The surroundings: the group coordinator, expiring keys, crashes and     *)
(* signals.                                                                *)

(* A partition without an owner goes to a live member, which resumes at    *)
(* the committed offset.                                                   *)
Assign(p, c) ==
    /\ owner[p] = None
    /\ pc[c] \in Running
    /\ owner' = [owner EXCEPT ![p] = c]
    /\ position' = [position EXCEPT ![p] = committed[p]]
    /\ UNCHANGED <<committed, dlq, redis, db, proc, spent>>

(* A rebalance takes a partition away while its owner may be at work.      *)
Revoke(p) ==
    /\ owner[p] # None
    /\ Spend("revoke")
    /\ owner' = [owner EXCEPT ![p] = None]
    /\ UNCHANGED <<position, committed, dlq, redis, db, proc>>

Crash(c) ==
    /\ pc[c] \in Running
    /\ Spend("crash")
    /\ Finish(c, "down")
    /\ LeaveGroup(c)
    /\ UNCHANGED <<position, committed, dlq, redis, db, stopEvent>>

(* SIGINT or SIGTERM: the handler sets the event.                          *)
Signal(c) ==
    /\ pc[c] \in Running
    /\ ~stopEvent[c]
    /\ Spend("signal")
    /\ stopEvent' = [stopEvent EXCEPT ![c] = TRUE]
    /\ UNCHANGED <<kafka, redis, db, pc, cur, attempt>>

(* Five minutes after SET NX EX, whatever the holder is doing.             *)
LockExpires(id) ==
    /\ ~LockFree(id)
    /\ Spend("lockTTL")
    /\ lock' = Unlocked(id)
    /\ UNCHANGED <<kafka, processed, db, proc>>

(* 24 hours after SETEX.                                                   *)
KeyExpires(id) ==
    /\ id \in processed
    /\ Spend("keyTTL")
    /\ processed' = processed \ {id}
    /\ UNCHANGED <<kafka, lock, db, proc>>

-----------------------------------------------------------------------------
(* What the process itself does; each of these is one turn of its loop.    *)
Turn(c) ==
    \/ Start(c) \/ LoadRules(c) \/ LoadRulesError(c)
    \/ Poll(c) \/ DecodeFailure(c) \/ Shutdown(c)
    \/ ParseFailure(c) \/ SkipAnonymous(c)
    \/ CheckProcessed(c) \/ CheckProcessedError(c)
    \/ AcquireLock(c) \/ AcquireLockError(c)
    \/ RejectData(c) \/ Evaluate(c) \/ EvaluateError(c)
    \/ MarkProcessed(c) \/ MarkProcessedError(c)
    \/ ReleaseLock(c) \/ ReleaseLockError(c)
    \/ Commit(c) \/ CommitError(c)
    \/ SendToDlq(c) \/ SendToDlqError(c)
    \/ FinalCommit(c) \/ FinalCommitError(c)

Next ==
    \/ \E c \in Consumers : Turn(c) \/ Crash(c) \/ Signal(c)
    \/ \E p \in Partitions : Revoke(p) \/ \E c \in Consumers : Assign(p, c)
    \/ \E id \in ExternalIds : LockExpires(id) \/ KeyExpires(id)

Spec == Init /\ [][Next]_vars

(* A running process goes on (every call returns or times out), a process  *)
(* that exited with an error is started again (restart: on-failure), and   *)
(* the coordinator hands out every partition while there is a member.      *)
Fairness ==
    /\ \A c \in Consumers : WF_vars(Turn(c))
    /\ \A p \in Partitions : WF_vars(\E c \in Consumers : Assign(p, c))

FairSpec == Spec /\ Fairness

-----------------------------------------------------------------------------
(* Safety.                                                                 *)

(* The idempotency key is written only after the evaluation is in the      *)
(* database: a later delivery that is skipped because of the key is one    *)
(* whose transaction is stored, whatever failed, expired or was restarted  *)
(* in between (idempotency.py:153-161).                                    *)
ProcessedIsStored == processed \subseteq txns

(* As long as no lock has expired, two consumers never work on the same id *)
(* between acquire_lock and release_lock: no crash, restart, rebalance or  *)
(* lost Redis reply lets a second one in, and no consumer deletes a lock   *)
(* it does not hold (idempotency.py:77-102, 137-161).                      *)
LockExcludes ==
    spent["lockTTL"] = 0 =>
        \A c, d \in Consumers :
            /\ pc[c] \in Holding => lock[Id(c)] = c
            /\ c # d /\ pc[c] \in Holding /\ pc[d] \in Holding => Id(c) # Id(d)

(* A consumer is handed a message only when the one before it, of the same *)
(* partition, has been committed: a commit of all positions never covers a *)
(* message whose retries are still going on (base.py:108-113, 152-190).    *)
OneUncommitted ==
    \A p \in Partitions : owner[p] # None =>
        \/ position[p] = committed[p]
        \/ position[p] = committed[p] + 1 /\ cur[owner[p]] = <<p, position[p]>>

(* n stands for m: it is m, or a delivery of the same external_id.         *)
Covers(n, m) ==
    \/ n = m
    \/ /\ MsgAt(n).kind \in {"rejected", "valid"}
       /\ MsgAt(m).kind \in {"rejected", "valid"}
       /\ MsgAt(n).id = MsgAt(m).id

Trying == {"process", "lock", "evaluate", "cleanup", "dlq"}

(* The message has no id to evaluate under, its transaction is stored, it  *)
(* is a dead letter, or a consumer is still at it.                         *)
Accounted(m) ==
    \/ MsgAt(m).kind = "anonymous"
    \/ MsgAt(m).kind \in {"rejected", "valid"} /\ MsgAt(m).id \in txns
    \/ \E n \in dlq : Covers(n, m)
    \/ \E c \in Consumers : pc[c] \in Trying /\ Covers(cur[c], m)

(* Every message below the committed offset is accounted for.  The comment *)
(* at base.py:60 gives "Manual commits for reliability" as the reason for  *)
(* committing by hand, and transaction_consumer.py:28 says that only what  *)
(* is "already processed" is skipped.                                      *)
NothingLost ==
    \A m \in Slots : m[2] <= committed[m[1]] => Accounted(m)

(* Database failures, failed offset commits, rebalances and expiring keys  *)
(* lose nothing: only a crash, a failing Redis call or a failing send to   *)
(* the dead letter queue can (base.py:152-190, idempotency.py:130-161).    *)
LostOnlyByOutage ==
    spent["crash"] = 0 /\ spent["redis"] = 0 /\ spent["dlq"] = 0 => NothingLost

(* With a single consumer each alert of an id beyond the first is owed to  *)
(* a fault of its own: a crash, a failed Redis or database call, or an     *)
(* idempotency key that expired.  Redeliveries after failed commits and    *)
(* rebalances, an expiring lock and retries add none.                      *)
AlertsOwedToFaults ==
    (\A c, d \in Consumers : c = d) =>
        \A id \in ExternalIds :
            alerts[id] <= 1 + spent["crash"] + spent["redis"] + spent["db"]
                            + spent["keyTTL"]

(* Without any fault an id has at most one alert.  acquire_lock promises   *)
(* that it "prevents race conditions when multiple consumers try to        *)
(* process the same message" (idempotency.py:87-88).                       *)
FaultlessOnce ==
    (\A f \in Faults : spent[f] = 0) =>
        \A id \in ExternalIds : alerts[id] <= 1

-----------------------------------------------------------------------------
(* Liveness.                                                               *)

(* Every partition is read to its end: a message that keeps failing goes   *)
(* to the dead letter queue and does not block those behind it ("Commit to *)
(* avoid infinite retry loop", base.py:189; "Error handling with DLQ       *)
(* support", base.py:27).                                                  *)
Drained == <>[](\A p \in Partitions : committed[p] = Len(Log[p]))

(* Unless the consumers are stopped every partition is drained, though     *)
(* start-up fails, calls fail at every point of the loop, partitions are   *)
(* revoked and the process is killed (base.py:109-122, 152-190;            *)
(* transaction_consumer.py:54-63).                                         *)
DrainedUnlessStopped ==
    Drained \/ <>(\E c \in Consumers : pc[c] = "stopped")

(* A consumer that has been signalled and has a message to come ends: it   *)
(* does not go on to work through the topic.  Without a message it waits,  *)
(* signalled, for as long as the topic is idle (base.py:109-111).          *)
StopHeeded ==
    \A c \in Consumers :
        /\ pc[c] = "poll"
        /\ stopEvent[c]
        /\ \E p \in Partitions : Deliverable(c, p)
        ~> pc[c] \in {"stopped", "down"}

=============================================================================
