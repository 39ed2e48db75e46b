---------------------------- MODULE Evaluation ----------------------------
(* The unit of work of app/core/evaluation_service.py: calls of evaluate() *)
(* by the gRPC handlers and the Kafka consumers, side by side, against one *)
(* PostgreSQL.  A step is one statement or a commit; nothing a call writes *)
(* is seen by another before its commit, but a row it has upserted is      *)
(* locked, and nextval is not undone by a rollback.                        *)
(*                                                                         *)
(* The score is any the rules may give (the engine is the library          *)
(* pylitmus, the rules and the features are not modelled here).            *)
(* Later reviews of the alert are in AlertReview; the alerts here are as   *)
(* the evaluation leaves them.                                             *)
EXTENDS Integers, FiniteSets

CONSTANTS
    Calls,              \* evaluations that can be under way at a time
    ExternalIds,
    Scores,             \* risk scores, of 0 .. 100
    Thresholds,         \* values auto_escalation_threshold can be set to
    DefaultThreshold,   \* CONFIG_DEFAULTS
    MaxCalls,           \* bound on the evaluations of a behaviour
    MaxFaults,          \* bound on the failures of PostgreSQL or the engine
    PoolSize,           \* db_pool_size + db_max_overflow of the one engine
    None

ASSUME ScoresAssumption == Scores \subseteq 0 .. 100
ASSUME ThresholdsAssumption ==
    Thresholds \subseteq 0 .. 100 /\ DefaultThreshold \in Thresholds
ASSUME BoundsAssumption ==
    MaxCalls \in Nat /\ MaxFaults \in Nat /\ PoolSize \in Nat \ {0}

Statuses == {"pending", "escalated", "confirmed"}
Alert == [ref : Nat, txn : ExternalIds, score : Scores, status : Statuses]

ASSUME NoneAssumption ==
    /\ None \notin Calls \cup ExternalIds \cup Scores
    /\ None \notin Alert

VARIABLES
    txns,       \* transactions: the external ids committed
    alerts,     \* fraud_alerts, committed
    threshold,  \* system_config or its default: auto_escalation_threshold
    sequence,   \* the last value of alert_ref_seq
    migrated,   \* does alert_ref_seq exist
    conns,      \* the calls whose session has checked out a connection
    txnLock,    \* the call whose open transaction has upserted the id
    pc,         \* where each call is, named for what it does next
    id,         \* request.external_id
    score,      \* assessment.total_score
    draft,      \* the alert the open transaction has inserted
    answers,    \* history: the EvaluationResults returned
    past,       \* history: the thresholds there have been
    window,     \* history: those since the call began
    calls,      \* history: calls begun
    faults      \* history: the failures so far

data == <<txns, alerts, threshold, sequence, migrated>>
held == <<conns, txnLock>>
vars == <<data, held, pc, id, score, draft, answers, past, window, calls,
          faults>>

Locking == {"assess", "reference", "threshold", "review", "commit"}
Querying == {"upsert"} \cup Locking
Labels   == {"idle", "connect"} \cup Querying

TypeOK ==
    /\ txns \subseteq ExternalIds
    /\ alerts \subseteq Alert
    /\ threshold \in Thresholds
    /\ sequence \in Nat
    /\ migrated \in BOOLEAN
    /\ conns \subseteq Calls
    /\ txnLock \in [ExternalIds -> Calls \cup {None}]
    /\ pc \in [Calls -> Labels]
    /\ id \in [Calls -> ExternalIds \cup {None}]
    /\ score \in [Calls -> Scores \cup {None}]
    /\ draft \in [Calls -> Alert \cup {None}]
    /\ \A e \in Calls : pc[e] # "idle" => id[e] \in ExternalIds
    /\ \A e \in Calls, i \in ExternalIds :
          txnLock[i] = e <=> pc[e] \in Locking /\ id[e] = i
    /\ answers \subseteq [txn : ExternalIds, score : Scores, ref : Nat \cup {None}]
    /\ past \subseteq Thresholds
    /\ window \in [Calls -> SUBSET Thresholds]
    /\ calls \in Nat
    /\ faults \in Nat

Init ==
    /\ txns = {}
    /\ alerts = {}
    /\ threshold = DefaultThreshold
    /\ sequence = 0
    /\ migrated \in BOOLEAN
    /\ conns = {}
    /\ txnLock = [i \in ExternalIds |-> None]
    /\ pc = [e \in Calls |-> "idle"]
    /\ id = [e \in Calls |-> None]
    /\ score = [e \in Calls |-> None]
    /\ draft = [e \in Calls |-> None]
    /\ answers = {}
    /\ past = {DefaultThreshold}
    /\ window = [e \in Calls |-> {}]
    /\ calls = 0
    /\ faults = 0

-----------------------------------------------------------------------------
Goto(e, label) == pc' = [pc EXCEPT ![e] = label]

Fault == faults < MaxFaults /\ faults' = faults + 1

(* `async with` leaves the session, whatever has happened: its transaction *)
(* is over and its connection goes back to the pool.                       *)
KeepsRowLocked(e) == txnLock

Unlocked(e) ==
    [i \in ExternalIds |-> IF txnLock[i] = e THEN None ELSE txnLock[i]]

KeepsConnection(e) == IF pc[e] = "commit" THEN conns \ {e} ELSE conns

Returned(e) == conns \ {e}

Finish(e) ==
    /\ Goto(e, "idle")
    /\ txnLock' = Unlocked(e)
    /\ conns' = Returned(e)
    /\ id' = [id EXCEPT ![e] = None]
    /\ score' = [score EXCEPT ![e] = None]
    /\ draft' = [draft EXCEPT ![e] = None]
    /\ window' = [window EXCEPT ![e] = {}]

(* get_decision: the tiers APPROVE [0, 40), REVIEW and FLAG.               *)
ApprovesUpTo40(s) == s <= 40

Approves(s) == s < 40

(* ConfigRepository.get_int("auto_escalation_threshold", 90).              *)
BuiltInThreshold == DefaultThreshold

StoredThreshold == threshold

(* AlertRepository._next_reference_number.                                 *)
CountedReference == Cardinality(alerts) + 1

NextReference == sequence + 1

(* COMMIT makes the transaction and its alert visible.                     *)
OnlyTheAlert(e) ==
    /\ txns' = txns
    /\ alerts' = alerts \cup ({draft[e]} \ {None})

Store(e) ==
    /\ txns' = txns \cup {id[e]}
    /\ alerts' = alerts \cup ({draft[e]} \ {None})

-----------------------------------------------------------------------------
(* A gRPC request or a Kafka message; a retry of one is a call of its own. *)
Begin(e) ==
    /\ pc[e] = "idle"
    /\ calls < MaxCalls
    /\ calls' = calls + 1
    /\ \E i \in ExternalIds : id' = [id EXCEPT ![e] = i]
    /\ window' = [window EXCEPT ![e] = {threshold}]
    /\ Goto(e, "connect")
    /\ UNCHANGED <<data, held, score, draft, answers, past, faults>>

(* The first statement checks a connection out, and the session keeps it   *)
(* until it is closed, also while features are read from Redis.            *)
PoolFull == Cardinality(conns) = PoolSize

Connect(e) ==
    /\ pc[e] = "connect"
    /\ ~PoolFull
    /\ conns' = conns \cup {e}
    /\ Goto(e, "upsert")
    /\ UNCHANGED <<data, txnLock, id, score, draft, answers, past, window, calls,
                   faults>>

(* After 30 seconds without a connection QueuePool raises; the servicer    *)
(* answers INTERNAL.                                                       *)
PoolTimeout(e) ==
    /\ pc[e] = "connect"
    /\ PoolFull
    /\ Finish(e)
    /\ UNCHANGED <<data, answers, past, calls, faults>>

(* INSERT ... ON CONFLICT DO UPDATE: waits for an open transaction that    *)
(* has written the same external_id, and locks the row in any case.        *)
Upsert(e) ==
    /\ pc[e] = "upsert"
    /\ txnLock[id[e]] = None
    /\ txnLock' = [txnLock EXCEPT ![id[e]] = e]
    /\ Goto(e, "assess")
    /\ UNCHANGED <<data, conns, id, score, draft, answers, past, window, calls,
                   faults>>

(* Rules, features, engine; then "create alert if not APPROVE".            *)
Assess(e) ==
    /\ pc[e] = "assess"
    /\ \E s \in Scores :
          /\ score' = [score EXCEPT ![e] = s]
          /\ Goto(e, IF Approves(s) THEN "commit" ELSE "reference")
    /\ UNCHANGED <<data, held, id, draft, answers, past, window, calls, faults>>

(* nextval and INSERT.  The number is taken whatever becomes of the        *)
(* transaction; between the two there is nothing another call could see.   *)
CreateAlert(e) ==
    /\ pc[e] = "reference"
    /\ migrated
    /\ sequence' = sequence + 1
    /\ draft' = [draft EXCEPT ![e] =
          [ref |-> NextReference, txn |-> id[e], score |-> score[e],
           status |-> "pending"]]
    /\ Goto(e, IF score[e] >= 100 THEN "review" ELSE "threshold")
    /\ UNCHANGED <<txns, alerts, threshold, migrated, held, id, score, answers,
                   past, window, calls, faults>>

(* Without the sequence nextval raises; the SELECT of the count that is to *)
(* replace it runs in a transaction PostgreSQL has already aborted, and    *)
(* raises too.                                                             *)
NoSequence(e) ==
    /\ pc[e] = "reference"
    /\ ~migrated
    /\ Finish(e)
    /\ UNCHANGED <<data, answers, past, calls, faults>>

(* _auto_escalate below 100.                                               *)
CheckThreshold(e) ==
    /\ pc[e] = "threshold"
    /\ Goto(e, IF score[e] >= StoredThreshold THEN "review" ELSE "commit")
    /\ UNCHANGED <<data, held, id, score, draft, answers, past, window, calls,
                   faults>>

(* AlertRepository.review by SYSTEM_REVIEWER; a pending alert may become   *)
(* either.                                                                 *)
AutoReview(e) ==
    /\ pc[e] = "review"
    /\ draft' = [draft EXCEPT ![e].status =
                    IF score[e] >= 100 THEN "confirmed" ELSE "escalated"]
    /\ Goto(e, "commit")
    /\ UNCHANGED <<data, held, id, score, answers, past, window, calls, faults>>

Commit(e) ==
    /\ pc[e] = "commit"
    /\ Store(e)
    /\ answers' = answers \cup
          {[txn |-> id[e], score |-> score[e],
            ref |-> IF draft[e] = None THEN None ELSE draft[e].ref]}
    /\ Finish(e)
    /\ UNCHANGED <<threshold, sequence, migrated, past, calls, faults>>

(* COMMIT raises, or the process ends before the result is returned;       *)
(* PostgreSQL may have carried it out.                                     *)
CommitError(e) ==
    /\ pc[e] = "commit"
    /\ Fault
    /\ Store(e) \/ UNCHANGED <<txns, alerts>>
    /\ Finish(e)
    /\ UNCHANGED <<threshold, sequence, migrated, answers, past, calls>>

(* A statement, the engine, or the process fails, or the client cancels    *)
(* the call or lets its deadline pass: the session rolls back.             *)
(* A nextval may have happened before.                                     *)
Abort(e) ==
    /\ pc[e] \notin {"idle", "commit"}
    /\ Fault
    /\ sequence' \in {sequence} \cup
          IF pc[e] = "reference" /\ migrated THEN {sequence + 1} ELSE {}
    /\ Finish(e)
    /\ UNCHANGED <<txns, alerts, threshold, migrated, answers, past, calls>>

(* PUT /config commits a new threshold.                                    *)
SetThreshold(t) ==
    /\ t # threshold
    /\ threshold' = t
    /\ past' = past \cup {t}
    /\ window' = [e \in Calls |-> IF pc[e] = "idle" THEN {} ELSE window[e] \cup {t}]
    /\ UNCHANGED <<txns, alerts, sequence, migrated, held, pc, id, score,
                   draft, answers, calls, faults>>

(* alembic upgrade creates the sequence.                                   *)
Migrate ==
    /\ ~migrated
    /\ migrated' = TRUE
    /\ UNCHANGED <<txns, alerts, threshold, sequence, held, pc, id, score,
                   draft, answers, past, window, calls, faults>>

Turn(e) ==
    \/ Connect(e) \/ PoolTimeout(e) \/ Upsert(e) \/ Assess(e) \/ CreateAlert(e)
    \/ NoSequence(e) \/ CheckThreshold(e) \/ AutoReview(e) \/ Commit(e)

Next ==
    \/ \E e \in Calls : Begin(e) \/ Turn(e) \/ CommitError(e) \/ Abort(e)
    \/ \E t \in Thresholds : SetThreshold(t)
    \/ Migrate

Spec == Init /\ [][Next]_vars

(* While any call can go on one of them does: every statement returns or   *)
(* fails, and a call that waits need not be let in before others.          *)
FairSpec == Spec /\ WF_vars(\E e \in Calls : Turn(e))

-----------------------------------------------------------------------------
Records == INSTANCE FraudRecord

(* To a reader of the database every evaluation is one step, a transaction *)
(* with its alert, however calls interleave, fail half way, or race with a *)
(* change of the threshold, and a result that was returned is stored       *)
(* (evaluation_service.py:67-71, 148-152).                                 *)
ImplementsRecord == Records!Spec

(* No two alerts have the same reference number, those being created       *)
(* included (alert_repository.py:39-52).                                   *)
ReferencesUnique ==
    LET all == alerts \cup ({draft[e] : e \in Calls} \ {None}) IN
    /\ \A a, b \in all : a.ref = b.ref => a = b
    /\ \A e, f \in Calls : e # f /\ draft[e] # None => draft[e] # draft[f]
    /\ \A e \in Calls : draft[e] \notin alerts

(* An alert about to be committed has the status of its score under a      *)
(* threshold that was in force while its evaluation ran: the setting is    *)
(* never an older one (evaluation_service.py:167-181).                     *)
EscalationCurrent ==
    \A e \in Calls : pc[e] = "commit" /\ draft[e] # None =>
        \E t \in window[e] : draft[e].status = Records!Status(score[e], t)

(* Every alert belongs to a stored transaction, and calls for the same     *)
(* external_id never have their alerts open at the same time               *)
(* (evaluation_service.py:86-94, 131-141).                                 *)
AlertsOfStored ==
    /\ \A a \in alerts : a.txn \in txns
    /\ \A e, f \in Calls : draft[e] # None /\ draft[f] # None /\ e # f =>
          draft[e].txn # draft[f].txn

(* A call is refused for want of a connection only while as many others as *)
(* the pool has are in the middle of their work: what has failed, has been *)
(* cancelled or has ended early costs the pool nothing (grpc/server.py:38, *)
(* infrastructure.py:48-54).                                               *)
PoolOnlyBusy ==
    [][\A e \in Calls : PoolTimeout(e) =>
          Cardinality({f \in Calls \ {e} : pc[f] \in Querying}) = PoolSize]_vars

(* Every call comes to an end, however many of them wait for the same      *)
(* transaction's row (transaction_repository.py:82-96).                    *)
EveryCallEnds == \A e \in Calls : pc[e] = "connect" ~> pc[e] = "idle"

=============================================================================
