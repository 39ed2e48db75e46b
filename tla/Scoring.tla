------------------------------ MODULE Scoring ------------------------------
(* How a transaction is judged (app/core/evaluation_service.py, steps 2 to *)
(* 6): a gRPC call loads the rules in force and enriches the transaction   *)
(* with features cached in Redis; the Kafka consumer keeps the rules it    *)
(* has loaded when it started and does not enrich.  Meanwhile rules are    *)
(* edited (RuleCatalog has the details), time passes over their windows,   *)
(* the cache changes, and calls to PostgreSQL and Redis fail.              *)
(*                                                                         *)
(* A step is one call, or the work between two.  A rule is what the engine *)
(* makes of it: a window, and a condition on the features (or on none).    *)
(* The engine is the library pylitmus.  It compares a window with a naive  *)
(* time while the columns have a time zone, which raises a TypeError       *)
(* (tests/unit/test_fraud_detector.py:608).                                *)
EXTENDS Integers

CONSTANTS
    Codes,          \* fraud_rules.code
    Conditions,     \* what rules ask of the features
    Fires(_, _),    \* the engine: does a condition hold of the features
    NewRules,       \* the rows that edits leave behind
    Values,         \* features as they should be cached
    NewEntries,     \* what the service that fills the cache puts there
    Default,        \* CustomerFeatures(), and a risk of 0
    Calls,          \* gRPC calls that can be under way at a time
    Consumers,
    MaxTime,        \* bound on the clock
    MaxChanges,     \* bound on edits of rules and of the cache, and ticks
    MaxFaults,      \* bound on the failures of PostgreSQL, Redis and engine
    None            \* no row, no end of a window, nothing cached, no feature

Handlers == Calls \cup Consumers

Times == 1 .. MaxTime

Rule == [enabled : BOOLEAN, from : Times \cup {None}, to : Times \cup {None},
         condition : Conditions]

(* The keys of the cache: of a customer, and of a merchant.                *)
Features == {"customer", "merchant"}

(* What is under a key: "garbled" is no JSON, or a risk that is no number; *)
(* "odd" is what reading raises on: JSON of another shape than is read     *)
(* from it, say a list, bytes that are not UTF-8, an infinite risk.        *)
Cached == Values \cup {None, "garbled", "odd"}

(* A feature that is not there at all is None.                             *)
Enrichment == [Features -> Values \cup {None}]

ASSUME RulesAssumption == NewRules \subseteq Rule
ASSUME ValuesAssumption ==
    /\ Default \in Values /\ {"garbled", "odd"} \cap Values = {}
    /\ NewEntries \subseteq Cached
ASSUME HandlersAssumption == Calls \cap Consumers = {}
ASSUME BoundsAssumption ==
    MaxTime \in Nat \ {0} /\ MaxChanges \in Nat /\ MaxFaults \in Nat
ASSUME NoneAssumption ==
    None \notin Times /\ None \notin Rule /\ None \notin Conditions
    /\ None \notin Values \cup {"garbled", "odd"}

VARIABLES
    catalog,    \* fraud_rules as committed
    cache,      \* features:customer:... and merchant:risk:...
    now,
    pc,         \* where each handler is, named for what it does next
    asked,      \* the time in the WHERE of its SELECT of the rules
    rows,       \* what its SELECT has returned
    engine,     \* the rules of its detector
    features,   \* what it has added to the transaction
    triggered,  \* assessment.triggered_rules
    moments,    \* history: the rules in force at that time, by the catalog at
                \*   each moment since the call came or the consumer started
    held,       \* history: what was cached at each moment since its call came
    faulted,    \* history: what has failed since
    changes,    \* history: the changes around the handlers so far
    faults      \* history: the failures so far

world == <<catalog, cache, now, changes>>
vars  == <<world, pc, asked, rows, engine, features, triggered, moments, held,
           faulted, faults>>

-----------------------------------------------------------------------------
(* get_enabled_rules: "all currently enabled and effective rules".         *)
InForce(row, time) ==
    /\ row # None
    /\ row.enabled
    /\ row.from = None \/ row.from <= time
    /\ row.to = None \/ row.to >= time

Effective(rules, time) ==
    [r \in Codes |-> IF InForce(rules[r], time) THEN rules[r] ELSE None]

Snapshot == [Codes -> Rule \cup {None}]
Ruleset  == [Codes -> Conditions \cup {None}]

Dated(snapshot) ==
    \E r \in Codes : snapshot[r] # None /\ (snapshot[r].from # None \/ snapshot[r].to # None)

(* to_pylitmus_rule, for each row.                                         *)
Compiled(snapshot) ==
    [r \in Codes |-> IF snapshot[r] = None THEN None ELSE snapshot[r].condition]

Empty == [r \in Codes |-> None]

(* load_rules makes a new engine.  A gRPC call has a detector of its own;  *)
(* fraud_detector.py:3-8 says why it has to.                               *)
SharesDetector(h) ==
    [g \in Handlers |->
        IF g = h \/ {g, h} \subseteq Calls THEN Compiled(rows[h]) ELSE engine[g]]

Loaded(h) == [engine EXCEPT ![h] = Compiled(rows[h])]

Triggered(rules, f) == {r \in Codes : rules[r] # None /\ Fires(rules[r], f)}

(* to_eval_data: no features yet.                                          *)
Plain == [k \in Features |-> None]

(* The key a feature is read from.                                         *)
OtherKey(k) == IF k = "customer" THEN "merchant" ELSE "customer"

CacheKey(k) == k

(* The features that a cached value stands for, unless reading it raises.  *)
Unparsed(value) == value

Parsed(value) == IF value \in Values THEN value ELSE Default

WantsJson(value) == value \in {"garbled", "odd"}

Raises(value) == value = "odd"

-----------------------------------------------------------------------------
TypeOK ==
    /\ catalog \in Snapshot
    /\ cache \in [Features -> Cached]
    /\ now \in Times
    /\ pc \in [Handlers -> {"down", "idle", "query", "load", "assess",
                            "answer", "failed"} \cup Features]
    /\ asked \in [Handlers -> Times]
    /\ rows \in [Handlers -> Snapshot]
    /\ engine \in [Handlers -> Ruleset]
    /\ features \in [Handlers -> Enrichment]
    /\ triggered \in [Handlers -> SUBSET Codes]
    /\ moments \in [Handlers -> SUBSET Snapshot]
    /\ held \in [Handlers -> [Features -> SUBSET Cached]]
    /\ faulted \in [Handlers -> SUBSET {"postgres", "redis", "engine"}]
    /\ changes \in Nat /\ faults \in Nat

Init ==
    /\ catalog = [r \in Codes |-> None]
    /\ cache = [k \in Features |-> None]
    /\ now = 1
    /\ pc = [h \in Handlers |-> IF h \in Consumers THEN "down" ELSE "idle"]
    /\ asked = [h \in Handlers |-> 1]
    /\ rows = [h \in Handlers |-> Empty]
    /\ engine = [h \in Handlers |-> Empty]
    /\ features = [h \in Handlers |-> Plain]
    /\ triggered = [h \in Handlers |-> {}]
    /\ moments = [h \in Handlers |-> {}]
    /\ held = [h \in Handlers |-> [k \in Features |-> {}]]
    /\ faulted = [h \in Handlers |-> {}]
    /\ changes = 0
    /\ faults = 0

Goto(h, label) == pc' = [pc EXCEPT ![h] = label]

Fault(h, kind) ==
    /\ faults < MaxFaults
    /\ faults' = faults + 1
    /\ faulted' = [faulted EXCEPT ![h] = @ \cup {kind}]

(* An exception ends the call with INTERNAL or the attempt of the          *)
(* consumer, but the whole process while it starts.                        *)
Fail(h) ==
    /\ Goto(h, IF h \in Consumers /\ pc[h] \in {"query", "load"} THEN "down" ELSE "failed")
    /\ UNCHANGED <<world, asked, rows, engine, features, triggered, moments, held>>

-----------------------------------------------------------------------------
(* The consumer process starts, and sends its SELECT.                      *)
Start(h) ==
    /\ h \in Consumers /\ pc[h] = "down"
    /\ engine' = [engine EXCEPT ![h] = Empty]
    /\ rows' = [rows EXCEPT ![h] = Empty]
    /\ triggered' = [triggered EXCEPT ![h] = {}]
    /\ asked' = [asked EXCEPT ![h] = now]
    /\ moments' = [moments EXCEPT ![h] = {Effective(catalog, now)}]
    /\ faulted' = [faulted EXCEPT ![h] = {}]
    /\ Goto(h, "query")
    /\ UNCHANGED <<world, features, held, faults>>

(* A message comes in, or a call, whose SELECT is sent.                    *)
Begin(h) ==
    /\ pc[h] = "idle"
    /\ Goto(h, IF h \in Consumers THEN "assess" ELSE "query")
    /\ asked' = [asked EXCEPT ![h] = IF h \in Consumers THEN @ ELSE now]
    /\ moments' = [moments EXCEPT
          ![h] = IF h \in Consumers THEN @ ELSE {Effective(catalog, now)}]
    /\ held' = [held EXCEPT ![h] = [k \in Features |-> {cache[k]}]]
    /\ UNCHANGED <<world, rows, engine, features, triggered, faulted, faults>>

(* PostgreSQL carries out the SELECT.                                      *)
Query(h) ==
    /\ pc[h] = "query"
    /\ rows' = [rows EXCEPT ![h] = Effective(catalog, asked[h])]
    /\ Goto(h, "load")
    /\ UNCHANGED <<world, asked, engine, features, triggered, moments, held,
                   faulted, faults>>

QueryError(h) ==
    /\ pc[h] = "query"
    /\ Fault(h, "postgres")
    /\ Fail(h)

(* The rows have arrived.                                                  *)
Load(h) ==
    /\ pc[h] = "load" /\ ~Dated(rows[h])
    /\ engine' = Loaded(h)
    /\ rows' = [rows EXCEPT ![h] = Empty]
    /\ Goto(h, IF h \in Consumers THEN "idle" ELSE "customer")
    /\ UNCHANGED <<world, asked, features, triggered, moments, held, faulted,
                   faults>>

LoadRaises(h) ==
    /\ pc[h] = "load" /\ Dated(rows[h])
    /\ Fail(h)
    /\ UNCHANGED <<faulted, faults>>

(* enrich_transaction: the customer's features, then the merchant's risk.  *)
Enriched(h, k, value) ==
    /\ features' = [features EXCEPT ![h][k] = value]
    /\ Goto(h, IF k = "customer" THEN "merchant" ELSE "assess")
    /\ UNCHANGED <<world, asked, rows, engine, triggered, moments, held>>

Read(h, k) ==
    /\ pc[h] = k /\ ~Raises(cache[CacheKey(k)])
    /\ Enriched(h, k, Parsed(cache[CacheKey(k)]))
    /\ UNCHANGED <<faulted, faults>>

ReadError(h, k) ==
    /\ pc[h] = k
    /\ Fault(h, "redis")
    /\ Enriched(h, k, Default)

ReadRaises(h, k) ==
    /\ pc[h] = k /\ Raises(cache[CacheKey(k)])
    /\ Fail(h)
    /\ UNCHANGED <<faulted, faults>>

(* A transaction without a merchant.                                       *)
NoMerchant(h) ==
    /\ pc[h] = "merchant"
    /\ Goto(h, "assess")
    /\ UNCHANGED <<world, asked, rows, engine, features, triggered, moments, held,
                   faulted, faults>>

Assess(h) ==
    /\ pc[h] = "assess"
    /\ triggered' = [triggered EXCEPT ![h] = Triggered(engine[h], features[h])]
    /\ Goto(h, "answer")
    /\ UNCHANGED <<world, asked, rows, engine, features, moments, held, faulted, faults>>

EngineError(h) ==
    /\ pc[h] = "assess"
    /\ Fault(h, "engine")
    /\ Fail(h)

(* The call is over; a gRPC call's detector goes with it.                  *)
Answer(h) ==
    /\ pc[h] \in {"answer", "failed"}
    /\ Goto(h, "idle")
    /\ engine' = IF h \in Consumers THEN engine ELSE [engine EXCEPT ![h] = Empty]
    /\ asked' = IF h \in Consumers THEN asked ELSE [asked EXCEPT ![h] = 1]
    /\ rows' = [rows EXCEPT ![h] = Empty]
    /\ features' = [features EXCEPT ![h] = Plain]
    /\ triggered' = [triggered EXCEPT ![h] = {}]
    /\ moments' = IF h \in Consumers THEN moments ELSE [moments EXCEPT ![h] = {}]
    /\ held' = [held EXCEPT ![h] = [k \in Features |-> {}]]
    /\ faulted' = [faulted EXCEPT ![h] = {}]
    /\ UNCHANGED <<world, faults>>

Turn(h) ==
    \/ Start(h) \/ Begin(h) \/ Query(h) \/ QueryError(h) \/ Load(h) \/ LoadRaises(h)
    \/ \E k \in Features : Read(h, k) \/ ReadError(h, k) \/ ReadRaises(h, k)
    \/ NoMerchant(h) \/ Assess(h) \/ EngineError(h) \/ Answer(h)


Change == changes < MaxChanges /\ changes' = changes + 1

(* A request for a rule commits while handlers are at work.                *)
Edit(r) ==
    /\ Change
    /\ \E row \in (NewRules \cup {None}) \ {catalog[r]} :
          catalog' = [catalog EXCEPT ![r] = row]
    /\ moments' = [h \in Handlers |->
          IF pc[h] = "down" \/ (h \in Calls /\ pc[h] = "idle") THEN moments[h]
          ELSE moments[h] \cup {Effective(catalog', asked[h])}]
    /\ UNCHANGED <<cache, now, pc, asked, rows, engine, features, triggered,
                   held, faulted, faults>>

Tick ==
    /\ Change
    /\ now < MaxTime /\ now' = now + 1
    /\ UNCHANGED <<catalog, cache, pc, asked, rows, engine, features, triggered,
                   moments, held, faulted, faults>>

(* The cache is filled, or an entry expires.                               *)
Refill(k) ==
    /\ Change
    /\ \E value \in (NewEntries \cup {None}) \ {cache[k]} :
          cache' = [cache EXCEPT ![k] = value]
    /\ held' = [h \in Handlers |->
          IF pc[h] \in {"down", "idle"} THEN held[h]
          ELSE [held[h] EXCEPT ![k] = @ \cup {cache'[k]}]]
    /\ UNCHANGED <<catalog, now, pc, asked, rows, engine, features, triggered,
                   moments, faulted, faults>>

(* The consumer dies, and what it had in memory with it.                   *)
Crash(h) ==
    /\ h \in Consumers /\ pc[h] # "down"
    /\ faults < MaxFaults /\ faults' = faults + 1
    /\ Goto(h, "down")
    /\ asked' = [asked EXCEPT ![h] = 1]
    /\ rows' = [rows EXCEPT ![h] = Empty]
    /\ engine' = [engine EXCEPT ![h] = Empty]
    /\ triggered' = [triggered EXCEPT ![h] = {}]
    /\ moments' = [moments EXCEPT ![h] = {}]
    /\ held' = [held EXCEPT ![h] = [k \in Features |-> {}]]
    /\ UNCHANGED <<world, features, faulted>>

Next ==
    \/ \E h \in Handlers : Turn(h) \/ Crash(h)
    \/ \E r \in Codes : Edit(r)
    \/ \E k \in Features : Refill(k)
    \/ Tick

Spec == Init /\ [][Next]_vars

-----------------------------------------------------------------------------
(* What triggers is what the rules of one catalog, in force when they were *)
(* asked for, make of the features: with gRPC a catalog since the call     *)
(* came in, so that a rule that was disabled or changed before it does not *)
(* fire any more, however many calls load rules side by side; with the     *)
(* consumer one since the process was started (evaluation_service.py:96-109,                  *)
(* fraud_detector.py:57-63, transaction_consumer.py:52-63).                *)
JudgedByOneCatalog ==
    \A h \in Handlers : pc[h] = "answer" =>
        \E s \in moments[h] : triggered[h] = Triggered(Compiled(s), features[h])

(* The features a gRPC call is judged by were cached while it ran, or are  *)
(* the default because nothing usable was, or because Redis has failed     *)
(* (feature_service.py:39-102).                                            *)
FeaturesJustified ==
    \A h \in Calls, k \in Features : pc[h] \in {"assess", "answer"} =>
        \/ k = "merchant" /\ features[h][k] = None
        \/ features[h][k] \in held[h][k]
        \/ /\ features[h][k] = Default
           /\ held[h][k] \cap {None, "garbled"} # {} \/ "redis" \in faulted[h]

(* An outage of Redis or a garbled entry fails no evaluation: one fails    *)
(* only for PostgreSQL or the engine, for a rule with a window that was in *)
(* force meanwhile, or for a cached value of another shape                 *)
(* (feature_service.py:67-74, 97-102, fraud_detector.py:78-85).            *)
FailuresExcused ==
    \A h \in Handlers : pc[h] = "failed" =>
        \/ faulted[h] \cap {"postgres", "engine"} # {}
        \/ \E s \in moments[h] : Dated(s)
        \/ \E k \in Features : "odd" \in held[h][k]
=============================================================================
