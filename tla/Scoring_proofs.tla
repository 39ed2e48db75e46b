--------------------------- MODULE Scoring_proofs ---------------------------
(* Proofs about Scoring: its types, and what evaluations are judged by.    *)
EXTENDS Scoring, TLAPS

(* Whom the rules in force concern: `moments` follows them.                *)
Attentive(h) == pc[h] # "down" /\ (h \in Calls => pc[h] # "idle")

(* Who has loaded rules.                                                   *)
Armed(h) ==
    IF h \in Calls THEN pc[h] \in Features \cup {"assess", "answer"}
    ELSE pc[h] \in {"idle", "assess", "answer", "failed"} \cup Features

(* The rules of a detector were in force at one moment.                    *)
RulesSound(h) ==
    /\ Attentive(h) => Effective(catalog, asked[h]) \in moments[h]
    /\ pc[h] = "load" => rows[h] \in moments[h]
    /\ Armed(h) => \E s \in moments[h] : engine[h] = Compiled(s)
    /\ pc[h] = "answer" => triggered[h] = Triggered(engine[h], features[h])

Justified(h, k) ==
    \/ features[h][k] \in held[h][k]
    \/ /\ features[h][k] = Default
       /\ held[h][k] \cap {None, "garbled"} # {} \/ "redis" \in faulted[h]

(* Who may yet read the cache.                                             *)
Reading(h) ==
    pc[h] \in Features \/ (h \in Calls /\ pc[h] \in {"query", "load"})

(* Features are read while `held` follows the cache.                       *)
FeaturesSound(h) ==
    /\ Reading(h) => \A k \in Features : cache[k] \in held[h][k]
    /\ h \in Calls =>
          /\ pc[h] \in {"idle", "query", "load"} => features[h] = Plain
          /\ pc[h] = "customer" => features[h]["merchant"] = None
          /\ pc[h] = "merchant" => features[h]["merchant"] = None /\ Justified(h, "customer")
          /\ pc[h] \in {"assess", "answer"} =>
                /\ Justified(h, "customer")
                /\ features[h]["merchant"] = None \/ Justified(h, "merchant")

Excused(h) ==
    \/ faulted[h] \cap {"postgres", "engine"} # {}
    \/ \E s \in moments[h] : Dated(s)
    \/ \E k \in Features : "odd" \in held[h][k]

Sound(h) == RulesSound(h) /\ FeaturesSound(h) /\ (pc[h] = "failed" => Excused(h))

IInv == TypeOK /\ \A h \in Handlers : Sound(h)

-----------------------------------------------------------------------------
LEMMA EffectiveTyped ==
    ASSUME NEW rules \in Snapshot, NEW time
    PROVE  Effective(rules, time) \in Snapshot
  BY DEF Snapshot, Effective

LEMMA CompiledTyped ==
    ASSUME NEW s \in Snapshot
    PROVE  Compiled(s) \in Ruleset
  BY NoneAssumption DEF Snapshot, Compiled, Ruleset, Rule

LEMMA EmptyTyped == Empty \in Snapshot /\ Empty \in Ruleset /\ Plain \in Enrichment
  BY DEF Empty, Snapshot, Ruleset, Plain, Enrichment

LEMMA InitTyped == Init => TypeOK
  BY EmptyTyped, BoundsAssumption DEF Init, TypeOK, Snapshot, Cached, Times, Features

(* The pieces of state that only a handler's own steps change.             *)
LEMMA FailTyped ==
    ASSUME TypeOK, NEW h \in Handlers, Fail(h),
           faulted' \in [Handlers -> SUBSET {"postgres", "redis", "engine"}],
           faults' \in Nat
    PROVE  TypeOK'
  BY DEF Fail, Goto, TypeOK, world

LEMMA FaultTyped ==
    ASSUME TypeOK, NEW h \in Handlers, NEW kind \in {"postgres", "redis", "engine"},
           Fault(h, kind)
    PROVE  /\ faulted' \in [Handlers -> SUBSET {"postgres", "redis", "engine"}]
           /\ faults' \in Nat
           /\ kind \in faulted'[h]
           /\ \A g \in Handlers : faulted[g] \subseteq faulted'[g]
           /\ \A g \in Handlers : g # h => faulted'[g] = faulted[g]
  BY DEF Fault, TypeOK

LEMMA NextTyped == TypeOK /\ [Next]_vars => TypeOK'
<1>. SUFFICES ASSUME TypeOK, [Next]_vars PROVE TypeOK'
  OBVIOUS
<1>1. CASE UNCHANGED vars
  BY <1>1 DEF TypeOK, vars, world
<1>2. ASSUME NEW h \in Handlers, Start(h) PROVE TypeOK'
  <2>1. Effective(catalog, now) \in Snapshot
    BY EffectiveTyped DEF TypeOK
  <2>. QED  BY <1>2, <2>1, EmptyTyped DEF Start, Goto, TypeOK, world
<1>3. ASSUME NEW h \in Handlers, Begin(h) PROVE TypeOK'
  <2>1. Effective(catalog, now) \in Snapshot
    BY EffectiveTyped DEF TypeOK
  <2>2. [k \in Features |-> {cache[k]}] \in [Features -> SUBSET Cached]
    BY DEF TypeOK
  <2>3. moments' \in [Handlers -> SUBSET Snapshot]
    BY <1>3, <2>1 DEF Begin, TypeOK
  <2>4. held' \in [Handlers -> [Features -> SUBSET Cached]]
    BY <1>3, <2>2 DEF Begin, TypeOK
  <2>. QED  BY <1>3, <2>3, <2>4 DEF Begin, Goto, TypeOK, world
<1>4. ASSUME NEW h \in Handlers, Query(h) PROVE TypeOK'
  <2>1. Effective(catalog, asked[h]) \in Snapshot
    BY EffectiveTyped DEF TypeOK
  <2>. QED  BY <1>4, <2>1 DEF Query, Goto, TypeOK, world
<1>5. ASSUME NEW h \in Handlers, QueryError(h) PROVE TypeOK'
  BY <1>5, FaultTyped, FailTyped DEF QueryError
<1>6. ASSUME NEW h \in Handlers, Load(h) PROVE TypeOK'
  <2>1. Compiled(rows[h]) \in Ruleset
    BY CompiledTyped DEF TypeOK
  <2>. QED  BY <1>6, <2>1, EmptyTyped DEF Load, Loaded, Goto, TypeOK, world, Features
<1>7. ASSUME NEW h \in Handlers, LoadRaises(h) PROVE TypeOK'
  BY <1>7, FailTyped DEF LoadRaises, TypeOK
<1>8. ASSUME NEW h \in Handlers, NEW k \in Features, NEW value \in Values,
             Enriched(h, k, value),
             faulted' \in [Handlers -> SUBSET {"postgres", "redis", "engine"}],
             faults' \in Nat
      PROVE  TypeOK'
  <2>1. features' = [features EXCEPT ![h] = [features[h] EXCEPT ![k] = value]]
    BY <1>8 DEF Enriched
  <2>2. [features[h] EXCEPT ![k] = value] \in Enrichment
    BY <1>8 DEF TypeOK, Enrichment
  <2>3. features' \in [Handlers -> Enrichment]
    BY <2>1, <2>2 DEF TypeOK
  <2>. QED  BY <1>8, <2>3 DEF Enriched, Goto, TypeOK, world, Features
<1>9. ASSUME NEW h \in Handlers, NEW k \in Features, Read(h, k) PROVE TypeOK'
  <2>1. Parsed(cache[CacheKey(k)]) \in Values
    BY ValuesAssumption DEF Parsed
  <2>. QED  BY <1>8, <1>9, <2>1 DEF Read, TypeOK
<1>10. ASSUME NEW h \in Handlers, NEW k \in Features, ReadError(h, k) PROVE TypeOK'
  BY <1>8, <1>10, FaultTyped, ValuesAssumption DEF ReadError
<1>11. ASSUME NEW h \in Handlers, NEW k \in Features, ReadRaises(h, k) PROVE TypeOK'
  BY <1>11, FailTyped DEF ReadRaises, TypeOK
<1>12. ASSUME NEW h \in Handlers, NoMerchant(h) PROVE TypeOK'
  BY <1>12 DEF NoMerchant, Goto, TypeOK, world
<1>13. ASSUME NEW h \in Handlers, Assess(h) PROVE TypeOK'
  <2>1. Triggered(engine[h], features[h]) \in SUBSET Codes
    BY DEF Triggered
  <2>. QED  BY <1>13, <2>1 DEF Assess, Goto, TypeOK, world
<1>14. ASSUME NEW h \in Handlers, EngineError(h) PROVE TypeOK'
  BY <1>14, FaultTyped, FailTyped DEF EngineError
<1>15. ASSUME NEW h \in Handlers, Answer(h) PROVE TypeOK'
  <2>1. [k \in Features |-> {}] \in [Features -> SUBSET Cached]
    OBVIOUS
  <2>. QED  BY <1>15, <2>1, EmptyTyped, BoundsAssumption DEF Times, Answer, Goto, TypeOK, world
<1>16. ASSUME NEW h \in Handlers, Crash(h) PROVE TypeOK'
  <2>1. [k \in Features |-> {}] \in [Features -> SUBSET Cached]
    OBVIOUS
  <2>. QED  BY <1>16, <2>1, EmptyTyped, BoundsAssumption DEF Crash, Goto, TypeOK, world, Times
<1>17. ASSUME NEW r \in Codes, Edit(r) PROVE TypeOK'
  <2>1. catalog' \in Snapshot /\ changes' \in Nat
    BY <1>17, RulesAssumption DEF Edit, Change, TypeOK, Snapshot
  <2>2. \A h \in Handlers : Effective(catalog', asked[h]) \in Snapshot
    BY <2>1, EffectiveTyped
  <2>3. moments' \in [Handlers -> SUBSET Snapshot]
    BY <1>17, <2>2 DEF Edit, TypeOK
  <2>. QED  BY <1>17, <2>1, <2>3 DEF Edit, TypeOK
<1>18. ASSUME Tick PROVE TypeOK'
  BY <1>18, BoundsAssumption DEF Tick, Change, TypeOK, Times
<1>19. ASSUME NEW k \in Features, Refill(k) PROVE TypeOK'
  <2>1. PICK value \in NewEntries \cup {None} : cache' = [cache EXCEPT ![k] = value]
    BY <1>19 DEF Refill
  <2>2. value \in Cached
    BY ValuesAssumption DEF Cached
  <2>3. cache' \in [Features -> Cached] /\ changes' \in Nat
    BY <1>19, <2>1, <2>2 DEF TypeOK, Refill, Change
  <2>4. \A h \in Handlers :
           [held[h] EXCEPT ![k] = held[h][k] \cup {cache'[k]}] \in [Features -> SUBSET Cached]
    BY <2>3 DEF TypeOK
  <2>5. held' \in [Handlers -> [Features -> SUBSET Cached]]
    BY <1>19, <2>4 DEF Refill, TypeOK
  <2>. QED  BY <1>19, <2>3, <2>5 DEF Refill, TypeOK
<1>. QED
  BY <1>1, <1>2, <1>3, <1>4, <1>5, <1>6, <1>7, <1>9, <1>10, <1>11, <1>12,
     <1>13, <1>14, <1>15, <1>16, <1>17, <1>18, <1>19 DEF Next, Turn

-----------------------------------------------------------------------------
LEMMA InitSound == Init => IInv
<1>. SUFFICES ASSUME Init, NEW h \in Handlers PROVE Sound(h)
  BY InitTyped DEF IInv
<1>1. \/ h \in Consumers /\ h \notin Calls /\ pc[h] = "down"
      \/ h \in Calls /\ pc[h] = "idle" /\ features[h] = Plain
  BY HandlersAssumption DEF Init, Handlers
<1>. QED
  BY <1>1 DEF Sound, RulesSound, FeaturesSound, Reading, Attentive, Armed, Features

(* A handler is not disturbed by the steps of the others.                  *)
LEMMA OthersSound ==
    ASSUME NEW g \in Handlers, Sound(g), UNCHANGED <<catalog, cache, now>>,
           pc'[g] = pc[g], asked'[g] = asked[g], rows'[g] = rows[g], engine'[g] = engine[g],
           features'[g] = features[g], triggered'[g] = triggered[g],
           moments'[g] = moments[g], held'[g] = held[g], faulted'[g] = faulted[g]
    PROVE  Sound(g)'
<1>1. RulesSound(g)'
  BY DEF Sound, RulesSound, Attentive, Armed
<1>2. FeaturesSound(g)'
  BY DEF Sound, FeaturesSound, Reading, Justified
<1>3. pc'[g] = "failed" => Excused(g)'
  BY DEF Sound, Excused
<1>. QED  BY <1>1, <1>2, <1>3 DEF Sound

LEMMA StepSound ==
    ASSUME IInv, NEW h \in Handlers, UNCHANGED <<catalog, cache, now>>, Sound(h)',
           \A g \in Handlers \ {h} :
              /\ pc'[g] = pc[g] /\ asked'[g] = asked[g] /\ rows'[g] = rows[g]
              /\ engine'[g] = engine[g]
              /\ features'[g] = features[g] /\ triggered'[g] = triggered[g]
              /\ moments'[g] = moments[g] /\ held'[g] = held[g]
              /\ faulted'[g] = faulted[g]
    PROVE  \A g \in Handlers : Sound(g)'
<1>. SUFFICES ASSUME NEW g \in Handlers, g # h PROVE Sound(g)'
  OBVIOUS
<1>1. Sound(g)
  BY DEF IInv
<1>. QED  BY <1>1, OthersSound

(* An evaluation fails with a reason; a start that fails needs none.       *)
LEMMA FailSound ==
    ASSUME IInv, NEW h \in Handlers, Fail(h), pc[h] \notin {"down", "idle"},
           \A g \in Handlers \ {h} : faulted'[g] = faulted[g],
           \/ faulted'[h] \cap {"postgres", "engine"} # {}
           \/ \E s \in moments[h] : Dated(s)
           \/ \E k \in Features : "odd" \in held[h][k],
           h \in Consumers => pc[h] \in Features \cup {"query", "load", "assess"}
    PROVE  \A g \in Handlers : Sound(g)'
<1>. DEFINE next == IF h \in Consumers /\ pc[h] \in {"query", "load"} THEN "down" ELSE "failed"
<1>1. /\ pc' = [pc EXCEPT ![h] = next]
      /\ UNCHANGED <<catalog, cache, now, asked, rows, engine, features, triggered, moments, held>>
  BY DEF Fail, Goto, world
<1>2. pc'[h] = next /\ \A g \in Handlers \ {h} : pc'[g] = pc[g]
  BY <1>1 DEF IInv, TypeOK
<1>3. next \in {"down", "failed"} /\ (h \in Calls => next = "failed")
  BY HandlersAssumption
<1>4. h \in Calls \/ h \in Consumers
  BY DEF Handlers
<1>5. next = "failed" => RulesSound(h)'
  <2>. SUFFICES ASSUME next = "failed" PROVE RulesSound(h)'
    OBVIOUS
  <2>1. Attentive(h) /\ RulesSound(h)
    BY DEF Attentive, IInv, Sound
  <2>2. Effective(catalog, asked[h]) \in moments[h]
    BY <2>1 DEF RulesSound
  <2>3. h \notin Calls => Armed(h)
    BY <1>4 DEF Armed
  <2>4. pc'[h] = "failed"
    BY <1>2
  <2>. HIDE DEF next
  <2>5. Armed(h)' => h \notin Calls
    BY <2>4 DEF Armed, Features
  <2>6. (\E s \in moments[h] : engine[h] = Compiled(s)) \/ h \in Calls
    BY <2>1, <2>3 DEF RulesSound
  <2>7. (Effective(catalog, asked[h]) \in moments[h])'
    BY <1>1, <2>2
  <2>. QED  BY <1>1, <2>4, <2>5, <2>6, <2>7 DEF RulesSound
<1>. HIDE DEF next
<1>6. Sound(h)'
  <2>1. CASE next = "failed"
    <3>1. FeaturesSound(h)'
      BY <1>2, <2>1 DEF FeaturesSound, Reading, Features
    <3>2. Excused(h)'
      BY <1>1 DEF Excused
    <3>. QED  BY <1>5, <2>1, <3>1, <3>2 DEF Sound
  <2>2. CASE next = "down"
    <3>1. pc'[h] = "down" /\ h \notin Calls
      BY <1>2, <1>3, <2>2
    <3>. QED  BY <3>1 DEF Sound, RulesSound, FeaturesSound, Reading, Attentive, Armed, Features
  <2>. QED  BY <1>3, <2>1, <2>2
<1>. QED  BY <1>1, <1>2, <1>6, StepSound

(* The rules change.                                                       *)
LEMMA EditSound ==
    ASSUME IInv, NEW r \in Codes, Edit(r)
    PROVE  \A h \in Handlers : Sound(h)'
<1>. SUFFICES ASSUME NEW h \in Handlers PROVE Sound(h)'
  OBVIOUS
<1>1. Sound(h)
  BY DEF IInv
<1>2. moments[h] \subseteq moments'[h]
  BY DEF Edit
<1>3. Attentive(h) => Effective(catalog', asked[h]) \in moments'[h]
  BY DEF Edit, Attentive
<1>. UNCHANGED <<cache, now, pc, asked, rows, engine, features, triggered, held, faulted>>
  BY DEF Edit
<1>4. RulesSound(h)'
  <2>1. Effective(catalog, asked[h])' = Effective(catalog', asked[h])
    BY DEF Effective
  <2>2. Attentive(h)' => Attentive(h)
    BY DEF Attentive
  <2>3. Armed(h)' => Armed(h)
    BY DEF Armed
  <2>. QED  BY <1>1, <1>2, <1>3, <2>1, <2>2, <2>3 DEF Sound, RulesSound
<1>5. FeaturesSound(h)'
  BY <1>1 DEF Sound, FeaturesSound, Reading, Justified
<1>6. pc'[h] = "failed" => Excused(h)'
  BY <1>1, <1>2 DEF Sound, Excused
<1>. QED  BY <1>4, <1>5, <1>6 DEF Sound

(* Time passes.                                                            *)
LEMMA TickSound ==
    ASSUME IInv, Tick
    PROVE  \A h \in Handlers : Sound(h)'
<1>. SUFFICES ASSUME NEW h \in Handlers PROVE Sound(h)'
  OBVIOUS
<1>1. Sound(h)
  BY DEF IInv
<1>. UNCHANGED <<catalog, cache, pc, asked, rows, engine, features, triggered,
                 moments, held, faulted>>
  BY DEF Tick
<1>. QED
  BY <1>1 DEF Sound, RulesSound, FeaturesSound, Excused, Attentive, Armed, Reading, Justified

(* The cache changes.                                                      *)
LEMMA RefillSound ==
    ASSUME IInv, NEW j \in Features, Refill(j)
    PROVE  \A h \in Handlers : Sound(h)'
<1>. SUFFICES ASSUME NEW h \in Handlers PROVE Sound(h)'
  OBVIOUS
<1>1. Sound(h)
  BY DEF IInv
<1>2. PICK value : cache' = [cache EXCEPT ![j] = value]
  BY DEF Refill
<1>3. UNCHANGED <<catalog, now, pc, asked, rows, engine, features, triggered, moments, faulted>>
  BY DEF Refill
<1>4. held'[h] = IF pc[h] \in {"down", "idle"} THEN held[h]
                 ELSE [held[h] EXCEPT ![j] = held[h][j] \cup {cache'[j]}]
  BY DEF Refill
<1>5. \A k \in Features : held[h][k] \subseteq held'[h][k]
  BY <1>4 DEF IInv, TypeOK
<1>6. Reading(h) =>
         \A k \in Features : cache[k] \in held[h][k] => cache'[k] \in held'[h][k]
  <2>. SUFFICES ASSUME Reading(h), NEW k \in Features, cache[k] \in held[h][k]
                PROVE  cache'[k] \in held'[h][k]
    OBVIOUS
  <2>1. held'[h] = [held[h] EXCEPT ![j] = held[h][j] \cup {cache'[j]}]
    BY <1>4 DEF Reading, Features
  <2>2. CASE k = j
    BY <2>1, <2>2 DEF IInv, TypeOK
  <2>3. CASE k # j
    BY <1>2, <2>1, <2>3 DEF IInv, TypeOK
  <2>. QED  BY <2>2, <2>3
<1>7. RulesSound(h)'
  BY <1>1, <1>3 DEF Sound, RulesSound, Attentive, Armed
<1>8. \A k \in Features : Justified(h, k) => Justified(h, k)'
  BY <1>3, <1>5 DEF Justified
<1>9. FeaturesSound(h)'
  BY <1>1, <1>3, <1>6, <1>8 DEF Sound, FeaturesSound, Reading, Features
<1>10. pc'[h] = "failed" => Excused(h)'
  BY <1>1, <1>3, <1>5 DEF Sound, Excused
<1>. QED  BY <1>7, <1>9, <1>10 DEF Sound

(* A feature has been read.                                                *)
LEMMA EnrichedSound ==
    ASSUME IInv, NEW h \in Handlers, NEW k \in Features, NEW value, pc[h] = k,
           Enriched(h, k, value),
           \A g \in Handlers \ {h} : faulted'[g] = faulted[g],
           faulted[h] \subseteq faulted'[h],
           \/ value \in held[h][k]
           \/ /\ value = Default
              /\ held[h][k] \cap {None, "garbled"} # {} \/ "redis" \in faulted'[h]
    PROVE  \A g \in Handlers : Sound(g)'
<1>. DEFINE next == IF k = "customer" THEN "merchant" ELSE "assess"
<1>1. /\ pc' = [pc EXCEPT ![h] = next]
      /\ features' = [features EXCEPT ![h] = [features[h] EXCEPT ![k] = value]]
      /\ UNCHANGED <<catalog, cache, now, asked, rows, engine, triggered, moments, held>>
  BY DEF Enriched, Goto, world
<1>2. /\ pc'[h] = next /\ \A g \in Handlers \ {h} : pc'[g] = pc[g] /\ features'[g] = features[g]
      /\ features'[h] = [features[h] EXCEPT ![k] = value]
      /\ features[h] \in Enrichment
  BY <1>1 DEF IInv, TypeOK
<1>3. /\ features'[h][k] = value
      /\ \A j \in Features \ {k} : features'[h][j] = features[h][j]
  BY <1>2 DEF Enrichment
<1>4. Sound(h)
  BY DEF IInv
<1>5. RulesSound(h)'
  <2>1. Attentive(h) /\ Armed(h)
    BY DEF Attentive, Armed, Features
  <2>. QED
    BY <1>1, <1>2, <1>4, <2>1 DEF Sound, RulesSound, Features
<1>6. Justified(h, k)'
  BY <1>1, <1>3 DEF Justified
<1>7. FeaturesSound(h)'
  <2>1. CASE k = "customer"
    <3>1. \/ pc'[h] = "merchant" /\ features'[h]["merchant"] = None
          \/ h \notin Calls
      BY <1>2, <1>3, <1>4, <2>1 DEF Sound, FeaturesSound, Reading, Features
    <3>. QED
      BY <1>1, <1>2, <1>4, <1>6, <2>1, <3>1 DEF Sound, FeaturesSound, Reading, Features
  <2>2. CASE k = "merchant"
    <3>1. pc'[h] = "assess"
      BY <1>2, <2>2
    <3>2. h \in Calls => Justified(h, "customer")'
      BY <1>1, <1>3, <1>4, <2>2 DEF Sound, FeaturesSound, Reading, Features, Justified
    <3>. QED
      BY <1>6, <2>2, <3>1, <3>2 DEF FeaturesSound, Reading, Features
  <2>. QED  BY <2>1, <2>2 DEF Features
<1>8. Sound(h)'
  BY <1>2, <1>5, <1>7 DEF Sound
<1>. QED  BY <1>1, <1>2, <1>8, StepSound

LEMMA NextSound == IInv /\ [Next]_vars => IInv'
<1>. SUFFICES ASSUME IInv, [Next]_vars PROVE \A g \in Handlers : Sound(g)'
  BY NextTyped DEF IInv
<1>0. \A g \in Handlers : Sound(g)
  BY DEF IInv
<1>1. CASE UNCHANGED vars
  BY <1>0, <1>1, OthersSound DEF vars, world
<1>2. ASSUME NEW h \in Handlers, Start(h) PROVE \A g \in Handlers : Sound(g)'
  <2>1. /\ h \in Consumers /\ h \notin Calls
        /\ pc'[h] = "query" /\ asked'[h] = now
        /\ moments'[h] = {Effective(catalog, now)}
    BY <1>2, HandlersAssumption DEF Start, Goto, IInv, TypeOK
  <2>2. UNCHANGED <<catalog, cache, now>>
    BY <1>2 DEF Start, world
  <2>3. Sound(h)'
    BY <2>1, <2>2 DEF Sound, RulesSound, FeaturesSound, Reading, Armed, Effective, InForce, Features
  <2>. QED
    BY <1>2, <2>2, <2>3, StepSound DEF Start, Goto, IInv, TypeOK
<1>3. ASSUME NEW h \in Handlers, Begin(h) PROVE \A g \in Handlers : Sound(g)'
  <2>1. /\ pc[h] = "idle" /\ Sound(h)
        /\ pc'[h] = IF h \in Consumers THEN "assess" ELSE "query"
        /\ moments'[h] = IF h \in Consumers THEN moments[h] ELSE {Effective(catalog, now)}
        /\ asked'[h] = IF h \in Consumers THEN asked[h] ELSE now
        /\ held'[h] = [k \in Features |-> {cache[k]}]
        /\ UNCHANGED <<catalog, cache, now, engine, features>>
    BY <1>0, <1>3 DEF Begin, Goto, world, IInv, TypeOK
  <2>2. CASE h \in Consumers
    <3>1. h \notin Calls /\ Attentive(h) /\ Armed(h)
      BY <2>1, <2>2, HandlersAssumption DEF Attentive, Armed
    <3>2. pc'[h] = "assess"
      BY <2>1, <2>2
    <3>3. Effective(catalog, asked[h])' = Effective(catalog, asked[h])
      BY <2>1, <2>2
    <3>4. RulesSound(h)'
      BY <2>1, <2>2, <3>1, <3>2, <3>3 DEF Sound, RulesSound
    <3>5. FeaturesSound(h)'
      BY <3>1, <3>2 DEF FeaturesSound, Reading, Features
    <3>. QED  BY <1>3, <2>1, <3>2, <3>4, <3>5, StepSound DEF Sound, Begin, Goto, IInv, TypeOK
  <2>3. CASE h \notin Consumers
    <3>1. h \in Calls /\ pc'[h] = "query"
      BY <2>1, <2>3 DEF Handlers
    <3>2. Effective(catalog, asked[h])' \in moments'[h]
      BY <2>1, <2>3
    <3>3. RulesSound(h)'
      BY <3>1, <3>2 DEF RulesSound, Armed, Features
    <3>4. FeaturesSound(h)'
      BY <2>1, <3>1 DEF Sound, FeaturesSound, Reading, Features, Plain
    <3>. QED  BY <1>3, <2>1, <3>1, <3>3, <3>4, StepSound DEF Sound, Begin, Goto, IInv, TypeOK
  <2>. QED  BY <2>2, <2>3
<1>4. ASSUME NEW h \in Handlers, Query(h) PROVE \A g \in Handlers : Sound(g)'
  <2>1. /\ pc[h] = "query" /\ pc'[h] = "load" /\ rows'[h] = Effective(catalog, asked[h])
        /\ UNCHANGED <<catalog, cache, now, asked, engine, features, moments, held>>
    BY <1>4 DEF Query, Goto, world, IInv, TypeOK
  <2>2. Effective(catalog, asked[h]) \in moments[h]
    BY <1>0, <2>1 DEF Sound, RulesSound, Attentive
  <2>3. Effective(catalog, asked[h])' = Effective(catalog, asked[h])
    BY <2>1
  <2>4. RulesSound(h)'
    BY <2>1, <2>2, <2>3 DEF RulesSound, Armed, Features
  <2>5. FeaturesSound(h)'
    BY <1>0, <2>1 DEF Sound, FeaturesSound, Reading, Features, Plain
  <2>. QED  BY <1>4, <2>1, <2>4, <2>5, StepSound DEF Sound, Query, Goto, world, IInv, TypeOK
<1>5. ASSUME NEW h \in Handlers, QueryError(h) PROVE \A g \in Handlers : Sound(g)'
  <2>1. "postgres" \in faulted'[h] /\ \A g \in Handlers \ {h} : faulted'[g] = faulted[g]
    BY <1>5, FaultTyped DEF QueryError, IInv
  <2>. QED  BY <1>5, <2>1, FailSound DEF QueryError
<1>6. ASSUME NEW h \in Handlers, Load(h) PROVE \A g \in Handlers : Sound(g)'
  <2>1. /\ pc[h] = "load" /\ engine'[h] = Compiled(rows[h])
        /\ pc'[h] = IF h \in Consumers THEN "idle" ELSE "customer"
        /\ UNCHANGED <<catalog, cache, now, asked, features, moments, held>>
    BY <1>6 DEF Load, Loaded, Goto, world, IInv, TypeOK
  <2>2. rows[h] \in moments[h] /\ Effective(catalog, asked[h]) \in moments[h]
    BY <1>0, <2>1 DEF Sound, RulesSound, Attentive
  <2>3. Effective(catalog, asked[h])' \in moments'[h] /\ \E s \in moments'[h] : engine'[h] = Compiled(s)
    BY <2>1, <2>2
  <2>4. RulesSound(h)'
    BY <2>1, <2>3 DEF RulesSound
  <2>5. FeaturesSound(h)'
    <3>1. CASE h \in Calls
      <4>1. pc'[h] = "customer"
        BY <2>1, <3>1, HandlersAssumption
      <4>2. features[h] = Plain /\ \A k \in Features : cache[k] \in held[h][k]
        BY <1>0, <2>1, <3>1 DEF Sound, FeaturesSound, Reading
      <4>. QED  BY <2>1, <4>1, <4>2 DEF FeaturesSound, Features, Plain
    <3>2. CASE h \notin Calls
      <4>1. pc'[h] = "idle"
        BY <2>1, <3>2 DEF Handlers
      <4>. QED  BY <3>2, <4>1 DEF FeaturesSound, Reading, Features
    <3>. QED  BY <3>1, <3>2
  <2>. QED  BY <1>6, <2>1, <2>4, <2>5, StepSound DEF Sound, Load, Loaded, Goto, world, IInv, TypeOK
<1>7. ASSUME NEW h \in Handlers, LoadRaises(h) PROVE \A g \in Handlers : Sound(g)'
  <2>1. rows[h] \in moments[h] /\ Dated(rows[h]) /\ pc[h] = "load"
    BY <1>0, <1>7 DEF LoadRaises, Sound, RulesSound
  <2>. QED  BY <1>7, <2>1, FailSound DEF LoadRaises
<1>8. ASSUME NEW h \in Handlers, NEW k \in Features, Read(h, k)
      PROVE  \A g \in Handlers : Sound(g)'
  <2>1. pc[h] = k /\ cache[k] # "odd" /\ Enriched(h, k, Parsed(cache[k])) /\ faulted' = faulted
    BY <1>8 DEF Read, CacheKey, Raises
  <2>2. cache[k] \in held[h][k] /\ cache[k] \in Cached
    BY <1>0, <2>1 DEF Sound, FeaturesSound, Reading, IInv, TypeOK
  <2>3. \/ Parsed(cache[k]) = cache[k]
        \/ Parsed(cache[k]) = Default /\ cache[k] \in {None, "garbled"}
    BY <2>1, <2>2 DEF Parsed, Cached
  <2>. QED  BY <2>1, <2>2, <2>3, EnrichedSound
<1>9. ASSUME NEW h \in Handlers, NEW k \in Features, ReadError(h, k)
      PROVE  \A g \in Handlers : Sound(g)'
  <2>1. /\ "redis" \in faulted'[h] /\ faulted[h] \subseteq faulted'[h]
        /\ \A g \in Handlers \ {h} : faulted'[g] = faulted[g]
    BY <1>9, FaultTyped DEF ReadError, IInv
  <2>. QED  BY <1>9, <2>1, EnrichedSound DEF ReadError
<1>10. ASSUME NEW h \in Handlers, NEW k \in Features, ReadRaises(h, k)
       PROVE  \A g \in Handlers : Sound(g)'
  <2>1. pc[h] = k /\ cache[k] = "odd" /\ Fail(h) /\ faulted' = faulted
    BY <1>10 DEF ReadRaises, CacheKey, Raises
  <2>2. "odd" \in held[h][k]
    BY <1>0, <2>1 DEF Sound, FeaturesSound, Reading
  <2>. QED  BY <2>1, <2>2, FailSound DEF Features
<1>11. ASSUME NEW h \in Handlers, NoMerchant(h) PROVE \A g \in Handlers : Sound(g)'
  <2>1. /\ pc[h] = "merchant" /\ pc'[h] = "assess"
        /\ UNCHANGED <<catalog, cache, now, asked, engine, features, moments, held, faulted>>
    BY <1>11 DEF NoMerchant, Goto, world, IInv, TypeOK
  <2>2. Attentive(h) /\ Armed(h) /\ Sound(h)
    BY <1>0, <2>1 DEF Attentive, Armed, Features
  <2>3. RulesSound(h)'
    BY <2>1, <2>2 DEF Sound, RulesSound
  <2>4. FeaturesSound(h)'
    BY <2>1, <2>2 DEF Sound, FeaturesSound, Reading, Features, Justified
  <2>. QED  BY <1>11, <2>1, <2>3, <2>4, StepSound DEF Sound, NoMerchant, Goto, world, IInv, TypeOK
<1>12. ASSUME NEW h \in Handlers, Assess(h) PROVE \A g \in Handlers : Sound(g)'
  <2>1. /\ pc[h] = "assess" /\ pc'[h] = "answer"
        /\ triggered'[h] = Triggered(engine[h], features[h])
        /\ UNCHANGED <<catalog, cache, now, asked, engine, features, moments, held, faulted>>
    BY <1>12 DEF Assess, Goto, world, IInv, TypeOK
  <2>2. Attentive(h) /\ Armed(h) /\ Sound(h)
    BY <1>0, <2>1 DEF Attentive, Armed, Features
  <2>3. Triggered(engine[h], features[h])' = Triggered(engine[h], features[h])
    BY <2>1
  <2>4. RulesSound(h)'
    BY <2>1, <2>2, <2>3 DEF Sound, RulesSound
  <2>5. FeaturesSound(h)'
    BY <2>1, <2>2 DEF Sound, FeaturesSound, Reading, Features, Justified
  <2>. QED  BY <1>12, <2>1, <2>4, <2>5, StepSound DEF Sound, Assess, Goto, world, IInv, TypeOK
<1>13. ASSUME NEW h \in Handlers, EngineError(h) PROVE \A g \in Handlers : Sound(g)'
  <2>1. "engine" \in faulted'[h] /\ \A g \in Handlers \ {h} : faulted'[g] = faulted[g]
    BY <1>13, FaultTyped DEF EngineError, IInv
  <2>. QED  BY <1>13, <2>1, FailSound DEF EngineError
<1>14. ASSUME NEW h \in Handlers, Answer(h) PROVE \A g \in Handlers : Sound(g)'
  <2>1. /\ pc[h] \in {"answer", "failed"} /\ pc'[h] = "idle" /\ features'[h] = Plain
        /\ UNCHANGED <<catalog, cache, now>>
        /\ h \in Consumers => engine' = engine /\ moments' = moments /\ asked' = asked
    BY <1>14 DEF Answer, Goto, world, IInv, TypeOK
  <2>2. RulesSound(h)'
    <3>1. CASE h \in Calls
      BY <2>1, <3>1 DEF RulesSound, Attentive, Armed, Features
    <3>2. CASE h \notin Calls
      <4>1. h \in Consumers /\ Attentive(h) /\ Armed(h) /\ Sound(h)
        BY <1>0, <2>1, <3>2 DEF Handlers, Attentive, Armed
      <4>. QED  BY <2>1, <4>1 DEF Sound, RulesSound
    <3>. QED  BY <3>1, <3>2
  <2>3. FeaturesSound(h)'
    BY <2>1 DEF FeaturesSound, Reading, Features
  <2>. QED  BY <1>14, <2>1, <2>2, <2>3, StepSound DEF Sound, Answer, Goto, world, IInv, TypeOK
<1>15. ASSUME NEW h \in Handlers, Crash(h) PROVE \A g \in Handlers : Sound(g)'
  <2>1. h \notin Calls /\ pc'[h] = "down" /\ UNCHANGED <<catalog, cache, now>>
    BY <1>15, HandlersAssumption DEF Crash, Goto, world, IInv, TypeOK
  <2>2. Sound(h)'
    BY <2>1 DEF Sound, RulesSound, FeaturesSound, Reading, Attentive, Armed, Features
  <2>. QED  BY <1>15, <2>1, <2>2, StepSound DEF Crash, Goto, world, IInv, TypeOK
<1>16. ASSUME NEW r \in Codes, Edit(r) PROVE \A g \in Handlers : Sound(g)'
  BY <1>16, EditSound
<1>17. CASE Tick
  BY <1>17, TickSound
<1>18. ASSUME NEW k \in Features, Refill(k) PROVE \A g \in Handlers : Sound(g)'
  BY <1>18, RefillSound
<1>. QED
  BY <1>1, <1>2, <1>3, <1>4, <1>5, <1>6, <1>7, <1>8, <1>9, <1>10, <1>11,
     <1>12, <1>13, <1>14, <1>15, <1>16, <1>17, <1>18 DEF Next, Turn

LEMMA Inductive == Spec => []IInv
  BY InitSound, NextSound, PTL DEF Spec

-----------------------------------------------------------------------------
(* The types of Scoring.                                                   *)
THEOREM ScoringTypes == Spec => []TypeOK
  BY Inductive, PTL DEF IInv

(* Every evaluation is judged by the rules in force at one moment: of its  *)
(* call, or since its consumer was started (evaluation_service.py:96-109,  *)
(* transaction_consumer.py:52-63).                                         *)
THEOREM OneCatalog == Spec => []JudgedByOneCatalog
<1>1. IInv => JudgedByOneCatalog
  <2>. SUFFICES ASSUME IInv, NEW h \in Handlers, pc[h] = "answer"
                PROVE  \E s \in moments[h] :
                          triggered[h] = Triggered(Compiled(s), features[h])
    BY DEF JudgedByOneCatalog
  <2>1. Armed(h) /\ Sound(h)
    BY DEF Armed, IInv, Handlers
  <2>. QED  BY <2>1 DEF Sound, RulesSound
<1>. QED  BY <1>1, Inductive, PTL

(* The features of an evaluation were cached while it ran, or are the      *)
(* default for a reason (feature_service.py:39-102).                       *)
THEOREM FeaturesOfTheCall == Spec => []FeaturesJustified
<1>1. IInv => FeaturesJustified
  BY DEF IInv, Sound, FeaturesSound, Justified, FeaturesJustified, Features, Handlers
<1>. QED  BY <1>1, Inductive, PTL

(* No evaluation fails for Redis or for a garbled entry                    *)
(* (feature_service.py:67-74, 97-102).                                     *)
THEOREM RedisIsOptional == Spec => []FailuresExcused
<1>1. IInv => FailuresExcused
  BY DEF IInv, Sound, Excused, FailuresExcused
<1>. QED  BY <1>1, Inductive, PTL
=============================================================================
