---------------------------- MODULE FraudRecord ----------------------------
(* What FraudEvaluationService.evaluate promises to those who read the     *)
(* database: an evaluation shows as one step, a transaction together with  *)
(* at most one alert, under a reference number of its own, with the status *)
(* that its score has under a threshold the administrators have set.  A    *)
(* caller that gets a result finds the alert it names.                     *)
EXTENDS Integers

CONSTANTS ExternalIds, Scores, Thresholds, DefaultThreshold, None

VARIABLES
    txns,       \* external ids with a row in transactions
    alerts,     \* rows of fraud_alerts
    answers,    \* the results returned to callers
    past        \* the thresholds there have been

vars == <<txns, alerts, answers, past>>

(* Below the REVIEW tier the decision is APPROVE, which raises no alert.   *)
Approved(score) == score < 40

Status(score, threshold) ==
    IF score >= 100 THEN "confirmed"
    ELSE IF score >= threshold THEN "escalated" ELSE "pending"

Init == txns = {} /\ alerts = {} /\ answers = {} /\ past = {DefaultThreshold}

(* The caller gets the result, or an error although all is stored.         *)
MayAnswer(id, score, ref) ==
    answers' \in {answers, answers \cup {[txn |-> id, score |-> score, ref |-> ref]}}

Approve(id, score) ==
    /\ Approved(score)
    /\ MayAnswer(id, score, None)
    /\ UNCHANGED alerts

Raise(id, score) ==
    /\ ~Approved(score)
    /\ \E a \in alerts' \ alerts :
          /\ alerts' = alerts \cup {a}
          /\ a.txn = id /\ a.score = score
          /\ \E t \in past : a.status = Status(score, t)
          /\ \A b \in alerts : b.ref # a.ref
          /\ MayAnswer(id, score, a.ref)

Record(id, score) ==
    /\ txns' = txns \cup {id}
    /\ Approve(id, score) \/ Raise(id, score)
    /\ UNCHANGED past

SetThreshold(t) ==
    /\ past' = past \cup {t}
    /\ UNCHANGED <<txns, alerts, answers>>

Next ==
    \/ \E id \in ExternalIds, score \in Scores : Record(id, score)
    \/ \E t \in Thresholds : SetThreshold(t)

Spec == Init /\ [][Next]_vars
=============================================================================
