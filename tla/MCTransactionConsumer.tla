----------------------- MODULE MCTransactionConsumer -----------------------
(* Small instances of TransactionConsumer: logs and fault budgets.         *)
EXTENDS TransactionConsumer, TLC

CONSTANTS c1, c2, p1, p2, a, b

Msg(kind, id) == [kind |-> kind, id |-> id]

(* The same transaction sent twice, to two partitions, and behind it what  *)
(* is not UTF-8.                                                           *)
ResentLog == (p1 :> <<Msg("valid", a), Msg("undecodable", b)>>)
          @@ (p2 :> <<Msg("valid", a)>>)

(* Good data with an id that was refused before, sent twice, and what has  *)
(* no id.                                                                  *)
MixedLog == p1 :> <<Msg("rejected", a), Msg("valid", a), Msg("anonymous", a),
                    Msg("malformed", b), Msg("valid", a)>>

OneLog == p1 :> <<Msg("valid", a)>>

PoisonLog == p1 :> <<Msg("undecodable", a), Msg("valid", b)>>

(* Fault budgets.                                                          *)
Quiet   == [f \in Faults |-> 0]
Storm   == [Quiet EXCEPT !["crash"] = 1, !["redis"] = 1, !["revoke"] = 1,
                         !["lockTTL"] = 1, !["db"] = 1, !["commit"] = 1]
Shaky   == [[f \in Faults |-> 1] EXCEPT !["lockTTL"] = 0]
OneCrash   == [Quiet EXCEPT !["crash"] = 1]

BothWorkers == Permutations({c1, c2})
=============================================================================
