# Sentinel core fraud detection: verification project

TLA+ models of the fraud detection service in this repository, the TLC runs
that check them on small instances, and TLAPS proofs that hold for every value
of the constants. Paths below are relative to the repository; `base.py` and the
like are named where the directory is clear.

## 1. The system

A transaction arrives over gRPC or on the Kafka topic `transactions.raw`. It is
upserted in PostgreSQL, scored by rules, and raises an alert unless the decision
is APPROVE. Alerts are confirmed or escalated automatically by score, and
otherwise reviewed by analysts over HTTP. Administrators change rules and
settings over HTTP. Redis holds idempotency keys, processing locks, cached
features and revoked tokens. Several processes of each kind run side by side;
all are asyncio programs, so that inside one process code interleaves at every
`await`.

| Part | State | Operations | Talks to | Hard behaviour |
|---|---|---|---|---|
| Kafka consumer (`app/consumers/base.py`, `transaction_consumer.py`, `main.py`) | position, committed offset, the message at hand and its attempt, stop event | start with a load of the rules, iterate, process with retries, send to the dead letter topic, commit, stop | Kafka, Redis, the evaluation | crash, rebalance, redelivery, retries, commits without arguments, poison messages, a start that fails, stopping when idle |
| Idempotency (`app/consumers/idempotency.py`) | keys (24 h) and locks (300 s) in Redis | check, lock, mark, release, as one context manager | Redis | check before lock, a lock without owner, expiry, lost replies, crash inside |
| Evaluation (`app/core/evaluation_service.py`, `transaction_repository.py`) | rows of `transactions` and `fraud_alerts` | evaluate: upsert, assess, alert, automatic review, commit | PostgreSQL, engine, features, settings | concurrent calls for one id, failure half way, a threshold that changes meanwhile |
| gRPC server (`app/grpc/server.py`, `infrastructure.py`) | connections checked out of the pool | Evaluate, shutdown | the evaluation | client retries, more calls than connections |
| Alerts (`alert_repository.py`, `alert_state.py`, `alert_service.py`, `endpoints/alerts.py`) | status, reviewer, reference number | create, review; lists and statistics | PostgreSQL | stale reads, lost updates, an answer before its commit |
| Rules (`rule_repository.py`, `rule_service.py`, `endpoints/rules.py`, `schemas/rule.py`) | `fraud_rules` | create, update, delete (disable), toggle | PostgreSQL | stale copies, partial updates, duplicates |
| Seeding (`scripts/seed_rules.py`, `entrypoint.sh`) | what it has added and not flushed | look up and insert each default, commit once | PostgreSQL | containers that start together, failures, restarts |
| Settings (`config_repository.py`, `config_service.py`) | `system_config` | get, update | PostgreSQL | UPDATEs left out of a stale copy, two keys in one request |
| Detector (`fraud_detector.py`, `pylitmus_adapter.py`) | the rules loaded into an engine | load, assess | library `pylitmus` | stale rules in a warm consumer, calls side by side, windows that the engine cannot compare |
| Features (`feature_service.py`) | none | cached features, defaults when Redis fails | Redis | an outage or a garbled entry half way, an entry that changes meanwhile |
| Authentication (`app/auth`) | revoked tokens in Redis | verify, revoke | Redis | expiry, an unavailable Redis |
| Migrations (`alembic/`) | the version and the schema in PostgreSQL | upgrade, downgrade, statement by statement in one transaction | PostgreSQL | several at once, deadlocks, failure half way, numbering alerts while more are raised |
| Deployment (`entrypoint.sh`, `docker-compose.yml`, `app/main.py`, `serve`, `main`) | where each container is | migrate, seed, connect, serve; restart on failure | all of them | start order, restarts, a database that is taken back |
| HTTP headers and limits, telemetry, logging, Celery, load generators | none | | | |

What makes each part correct:

- **Consumer and idempotency.** A committed message was evaluated, dead-lettered
  or is a duplicate of one that was; an idempotency key implies a stored
  transaction; the lock excludes; a poison message does not block a partition;
  an id is evaluated again only for a reason.
- **Evaluation.** To its readers and callers it is one step; reference numbers
  are unique; the threshold used is one that was in force.
- **Detector and features.** A transaction is judged by the rules of one catalog
  and by features that were really cached; Redis is optional.
- **Alerts.** The state machine is respected by the stored row, and the row names
  the person who gave it its status.
- **Rules.** Concurrent changes do not undo each other; a disabled rule does not
  come back by accident; a window stays in order unless half of it is changed;
  seeding ends with all defaults and overwrites nothing.
- **Pool.** A call is refused only while all connections are really at work.
- **Migrations and deployment.** The schema is that of the version on record;
  no upgrade loses an alert or its number; what serves, serves on the latest
  schema; every container gets there.

`PROJECT.json` lists every part, and under "hazards" each place in the code where
one of these could go wrong, with the property that watches it.

## 2. The modules

| Module | Models | Extends / composes |
|---|---|---|
| `TransactionConsumer` | consumers, idempotency, Kafka's group and offsets, keys in Redis | |
| `TransactionConsumer_proofs`, `TransactionConsumer_loss_proofs` | theorems | the second extends the first |
| `AlertReview`, `AlertReview_proofs` | an alert from its creation through concurrent reviews | |
| `FraudRecord` | abstract: what an evaluation promises | |
| `Evaluation`, `Evaluation_proofs` | the unit of work, statement by statement | implements `FraudRecord` |
| `Catalog` | abstract: what the rules API and seeding promise | |
| `RuleCatalog`, `RuleCatalog_proofs` | requests that change rules, and containers that seed them, statement by statement | implements `Catalog` |
| `Scoring`, `Scoring_proofs` | what judges a transaction: the rules of detectors, the cached features | fills in what `Evaluation` leaves to chance |
| `Settings` | abstract: what `PUT /config` promises | |
| `SystemConfig`, `SystemConfig_proofs` | concurrent updates of the settings, statement by statement | implements `Settings` |
| `Deployment`, `Deployment_proofs` | the start of containers and the migrations they run side by side | names the place of `RuleCatalog` (seeding) and `Evaluation` (raising alerts) in it |
| `MC...` | model values, logs, fault budgets and inputs for TLC | one per component |

In each module a step is what one actor does up to and including one call to
PostgreSQL, Redis or Kafka, because asyncio switches only at an `await`, a process
can die at any of them, and what happens between two calls is seen by no one
else. A call that writes may fail and have been applied all the same. Operators
placed in front of the one they resemble (`SetWithoutNX` before `LockFree`) are
the plausible mistakes that `PROJECT.json` names as mutants; no action uses them.

### TransactionConsumer

`owner`, `position`, `committed`, `dlq` are Kafka's; `processed` and `lock` are
Redis's; `txns` and `alerts` PostgreSQL's; `pc`, `cur`, `attempt`, `stopEvent`
are a process's. `spent` counts faults. The value of `pc` names the call made
next:

| Action | Code |
|---|---|
| `Start`, `LoadRules`, `LoadRulesError` | `BaseConsumer.start` joins the group; then `TransactionConsumer.start` queries the rules, outside the `try` of `run`: after a failure the process exits without `stop()` |
| `Poll`, `Shutdown`, `DecodeFailure` | `run`; the deserializer runs in the iterator, outside the retries; the stop event (`Stopping`) is looked at when a message has come |
| `ParseFailure`, `SkipAnonymous`, `RejectData` | `process`: bad JSON, no `external_id`, refused by the schema (inside the lock) |
| `CheckProcessed`, `AcquireLock` and their errors | `IdempotentProcessor.__aenter__` |
| `Evaluate`, `EvaluateError` | `FraudEvaluationService.evaluate` as one transaction |
| `MarkProcessed`, `ReleaseLock` and their errors | `__aexit__`; after an exception only the release |
| `Commit`, `CommitError`, `SendToDlq`, `SendToDlqError`, `FinalCommit`, `FinalCommitError` | `_process_with_retry_inner`, `_send_to_dlq`; `Offsets` is what `commit()` without arguments commits |
| `Assign`, `Revoke`, `Crash`, `Signal`, `LockExpires`, `KeyExpires` | the coordinator, the operating system, Redis's clock |

The lock's value in Redis is `"1"` for everybody; the model records who set it,
and no action reads that, only properties do.

### AlertReview

`row` is the committed row, `seen` the session's copy, `rowLock` PostgreSQL's row
lock. A review reads (`ReadAlert`), is refused (`Refuse`) or sends its UPDATE
(`Update`), answers (`Answer`) and only then commits (`Commit`, `CommitError`):
FastAPI leaves `get_db_session` after the response. `Updated` is the row after the
UPDATE: SQLAlchemy writes only the columns that differ from its copy, and under
READ COMMITTED the others keep what is in the row by then. `author` and `stale`
are history variables.

### Evaluation and FraudRecord

A call begins, checks a connection out with its first statement (`Connect`; after 30
seconds without one it is refused, `PoolTimeout`) and keeps it until its session is
closed, on whatever path (`Returned`). It upserts (waiting for an open transaction
that holds the same id), assesses (any score of `Scores`), draws a reference number, reads the threshold,
reviews and commits; each statement may fail. `migrated` is whether `alert_ref_seq`
exists: without it `nextval` fails, and the fallback that counts rows fails
too, in the transaction that PostgreSQL has aborted (`NoSequence`).
`FraudRecord` knows only what is visible: transactions, alerts, answers and the
thresholds there have been; one step records a transaction with its alert. The
refinement maps every variable to the one of the same name; all steps but
`Commit`, a `CommitError` that was carried out, and `SetThreshold` are stutters.

### RuleCatalog and Catalog

`rule` and `lock` are PostgreSQL's, `pc`, `req`, `seen` a request's, `stage`, `at`,
`pending` a container's. `Changed` is the set of columns of an UPDATE, `Written` the
row it leaves. A seeder looks defaults up in the file's order (`SeedSelect`),
its INSERT is sent by autoflush before the next lookup (`SeedFlush`), waits for
the key if another open transaction has inserted it, and ends the container if
one that commits (`SeedClash`, then `Restart`). A request checks the window its own
body gives (`Patch`), not the one the row will have; `WindowsBrokenByHalves` says in
which cases that matters.

`Catalog` knows the rules as everybody sees them, the requests with the rows they have
read, and which containers serve. A request is refused for a stated reason (`Unfit`),
or merged in one step into the row as it is by then: of its wish (`Wish`) the fields
that differ from what it has read (`Merge`). A container seeds in one step (`Fill`)
and serves afterwards. Only a fault may end a request or a container otherwise, and
then the step has been taken or has not. The refinement maps `serving` to the
containers whose stage that is and everything else to itself: locks, flushes and
`pending` disappear, and with them every wait and every clash.

### Scoring

What `Evaluation` leaves to chance: steps 2 to 5 of `evaluate`, for gRPC calls side
by side and for consumers that keep the detector of their start. `asked` is the time
in the WHERE of the SELECT, `rows` its result, `engine` the rules of a detector,
`features` what enrichment has added. Around the handlers rules are edited (`Edit`;
any row may replace any other, which includes what `RuleCatalog` commits), time
passes and the cache changes. A rule is a window and a condition; which conditions
hold is `Fires`, a parameter. `Load` compiles all rows at once or raises, as
`pylitmus` does for a row with a window: it compares it with a naive time
(`tests/unit/test_fraud_detector.py:608`) and the columns have a time zone. A cached
value is good, missing, `"garbled"` (no JSON, or a risk that is no number: the default
is taken) or `"odd"` (JSON of another shape, such as a list, an average that is no
number, an infinite risk, or bytes that are not UTF-8: reading it raises). `moments`, `held` and `faulted` are history.

### SystemConfig and Settings

A request goes through the keys in the order of `update_config`: `at` is the key,
`seen` the value its SELECT has found (the migration inserts a row for each key, and
a database made by `create_all` alone, as in `tests/integration`, has none: both are
initial states), `lock` the requests whose open transactions have
inserted or updated a key. A key that is not named is passed (`Pass`); one with
the value asked for needs no UPDATE (`Unchanged`); an INSERT of a key another has
committed meanwhile fails the request (`Duplicate`). `view` is what `get_all` makes
of the committed rows, the request's own and `CONFIG_DEFAULTS`. `touched` is history:
the keys that others have changed since the request came. `Settings` knows the
settings in force, the requests and `touched`; one step applies a request. The
refinement fills missing rows with the defaults. `Evaluation` reads the threshold
as one value that changes in one step, which is what `Settings` promises.

### Deployment

`db` is what PostgreSQL has committed: the version on record, the schema as the set
of columns and indexes each table has, the alerts' numbers and the sequence. A
migrator is a container or the operator who runs `alembic downgrade`; `draft` is
what its open transaction has made, `touched` the tables it has locked by that, and
`at`, `goal`, `step` where alembic is. Each `upgrade()` and `downgrade()` is a
sequence of statements, in the order of its file (`Upgrades`, `Downgrades`).

| Action | Code |
|---|---|
| `Start`, `Restart`, `Stop`, `Crash` | `docker-compose.yml`: the HTTP service first, the others when it is healthy; `restart: on-failure` restarts in any order |
| `Inspect`, `Downgrade` | alembic reads the version, without a lock, and plans its revisions |
| `Execute`, `ExecuteFails` | one statement, once nobody else has its table locked; it raises if the schema it meets is not the one it needs, and the backfill also if there are more alerts to number than LPAD leaves room for (`Fits`) |
| `Stamp`, `StampFails` | alembic's own UPDATE of `alembic_version`, which must match one row |
| `Commit`, `MigrationError`, `DeadlockDetected` | the end of the one transaction in `alembic/env.py:50`; a lost COMMIT may have been carried out |
| `Seed`, `Connect` and their errors | `scripts.seed_rules` as one step, in the development image that compose builds; `InfrastructureContainer.verify` in the gRPC server and the consumer, which the HTTP service does not call |
| `Raise` | an evaluation that stores an alert with the next number, which waits for the tables and fails if a column of the model is missing |

`set -e` is `Exit`: whatever raises ends the container. Tables are locked as a whole and
exclusively, which is what `ALTER`, `DROP` and a table just created amount to; of the
statements that lock less (an index, an UPDATE) each script has altered the table
before, or uses a table that only it knows. Under READ COMMITTED a
statement sees what is committed, except in the tables its transaction has locked
(`Seen`). alembic creates its own table at the first upgrade, which two
containers can also meet at; in the model they meet at the first table.

## 3. Runs

| Run | Asks | Bounds |
|---|---|---|
| `ConsumerStorm` | types, `ProcessedIsStored`, `LockExcludes`, `OneUncommitted`, `LostOnlyByOutage` | 2 consumers, 2 partitions, 3 messages of which two are the same transaction and one is not UTF-8; one crash, Redis failure, database failure, commit failure, rebalance and lock expiry; 2 attempts |
| `ConsumerAlone` | `AlertsOwedToFaults`, `DrainedUnlessStopped`, `StopHeeded` | 1 consumer, 5 messages (refused by the schema, valid, anonymous, no JSON, valid), one of every fault except expiring locks, and a stop signal; 3 attempts, the code's value |
| `Reviews` | `RecordComplete`, `AuditUnlessStale`, `ForwardUnlessStale`, `EveryReviewEnds` | 1 alert, 2 requests at a time, 2 analysts, 1 failure, any number of reviews |
| `Evaluations` | `ReferencesUnique`, `EscalationCurrent`, `AlertsOfStored`, `ImplementsRecord`, `PoolOnlyBusy`, `EveryCallEnds` | 3 calls at a time and in all, 2 ids, a pool of 2, scores 39, 40, 100, thresholds 40 and 90, 1 failure |
| `Rules` | `SeededComplete`, `ImplementsCatalog`, `EnabledKnowingly`, `WindowsBrokenByHalves`, `EveryoneGetsThrough` | 1 rule, which is the default, 2 requests at a time, 1 seeder, 3 patches (both dates, one date, `enabled: null`), 2 failures |
| `Scoring` | `JudgedByOneCatalog`, `FeaturesJustified`, `FailuresExcused` | 2 gRPC calls, 1 consumer, 1 rule with 3 possible rows, good, garbled and odd cache entries, 2 changes of the rule, the cache or the time, 1 failure |
| `Settings` | `AnswerExplained`, `ImplementsSettings`, `EveryRequestEnds` | both settings with 2 values each, 2 requests at a time, 1 failure, any number of requests |
| `Rollout` | `SchemaOfVersion`, `AlertsNumbered`, `ServesAtHead`, `UpgradeKeepsAlerts`, `EveryStartEnds` | all 7 revisions, 2 containers of which one waits for the other at first, an operator with 2 downgrades to version 0, 5 or 6, 3 alerts of which the backfill can pad 2 numbers, 1 failure |

Why these bounds are enough to meet the interesting cases: every race in the code
is between two actors that hold an old copy or a missing lock, so two suffice, and
the third message or call is there to see what a fault leaves behind. One fault of
each kind lets every pair of different faults meet. The scores are the two sides
of 40, one at a threshold, and 100; two thresholds let a change pass over the
scores in between. A pool of two is full while a third call waits, and a call that waits for a
row is one of the two. One seeder is enough to clash with a creation, and two
failures let it fail again after its restart; that several seeders
clash with each other is covered by the theorems, which hold for any number. In
`Rollout` both containers and the operator can be at any statement of any revision;
version 5 is the one before alerts get numbers, 0 the empty database, and from 6 an
upgrade has work to do among alerts that have their numbers already. Two alerts
are what it takes to share a number, and a third is more than the backfill can pad:
`MaxPadded` is 2 where the code has five digits (99,999), so that runs of the backfill
succeed and fail. Any set of migrators may form the circle that
PostgreSQL's deadlock detector breaks (`Circle`), two or more. Where two of the same are not enough (three reviewers, two crashes, a
list of several default rules), the theorems hold for every number. The settings'
two values are the default of the code, which may or may not have a row, and
another. Symmetry is used only in runs without liveness. The consumer runs say
`CHECK_DEADLOCK FALSE` because a topic that has been read to its end, with every
budget spent, leaves the system with nothing to do, and `Rollout` because containers
may be stopped for good.

`DrainedUnlessStopped` excuses a consumer that an operator stops, since nobody starts it
again. `StopHeeded` asks no more than the code does: see the remark on idle
consumers below. `EveryStartEnds` excuses a container when there are more alerts without
a number than can be padded (`TooMany`), since no start succeeds then. `DrainedUnlessStopped`
bounds failing loads of the rules by the failures of the database: with a rule that has
a window in force every load would fail (`Scoring` has that as `LoadRaises`).

Four runs check a statement of the repository's own documentation that
the code does not keep; TLC shows how:

| Run | Statement | What happens |
|---|---|---|
| `LostAfterCrash` | only what is "already processed" is skipped (`transaction_consumer.py:28`) | A consumer dies inside the lock. Within 300 s the message is redelivered, `acquire_lock` fails, the message counts as a duplicate, its offset is committed, and nobody ever evaluates it. |
| `RacingConsumers` | the lock "prevents race conditions when multiple consumers try to process the same message" (`idempotency.py:87`) | The key is checked before the lock is taken, not after. A second consumer checks, the first finishes and unlocks, the second locks and evaluates again: two alerts. |
| `PoisonMessage` | "Error handling with DLQ support" (`base.py:27`) | A message that is not UTF-8 fails in the deserializer, outside the retries; the process exits and meets it again on every restart. |
| `RacingReviews` | "Terminal state" (`alert_state.py:95`, `109`) | Two analysts read a pending alert; one decides it, the other, who has read it pending, decides it again; the UPDATE does not check the status. |

Seen while modelling and not given a run: a dead letter that cannot be sent
is logged and its message's offset committed (`base.py:225`); a message that was
evaluated but whose commits fail ends as a dead letter as well (`base.py:161`);
`release_lock` deletes a lock that expired and now belongs to another
(`idempotency.py:102`, the reason `LockExcludes` speaks of lock expiry);
an idle consumer looks at its stop event only when a message arrives, so that it is
killed in the end without the flush and the goodbye that `base.py:84-97` have for it
(`base.py:109`); after a failing load of the rules the consumer is never stopped
either, and the group waits for its session to time out
(`transaction_consumer.py:59`); a failing `verify()` leaves the clients open
(`consumers/main.py:25`, `grpc/server.py:115`), and a failing `redis.aclose()` leaves the
engine undisposed (`infrastructure.py:106`), both in a process that ends anyway; on
shutdown the gRPC server reports NOT_SERVING for the server as a whole and leaves the
evaluation service at SERVING (`grpc/server.py:148`); after two racing reviews by one person or to one status a row may
mix columns of both (`alert_repository.py:108`); an answer may precede a commit
that fails (`dependencies.py:34`); reference numbers have gaps after a rollback
(`alert_repository.py:42`); an alert is escalated at the threshold and not only
above it (`config_service.py:36`, `evaluation_service.py:176`); the fallback for the
reference number cannot work in PostgreSQL (`alert_repository.py:50`); two toggles
that read the same state count as one (`rule_repository.py:112`); two updates that
each name both ends of a window may mix them through the columns they leave
out, and an update of one end is checked without the other, so that a window may
come to end before it begins although `schemas/rule.py:92` wants it ordered
(`rule_repository.py:88`; `WindowsBrokenByHalves` says that these are the only ways); while a rule with a window is in force every evaluation over
gRPC fails and no consumer can start (`fraud_detector.py:63`); one odd entry in the
cache fails every gRPC evaluation of its customer or merchant until it is replaced
(`feature_service.py:90`); rules about features never fire for what comes from Kafka,
which is not enriched (`transaction_consumer.py:133`), and rules reach a consumer only
when it is restarted (`rule_cache_ttl` is read nowhere); an update of a setting that finds the value it asks for writes nothing, and
so may be answered as done while another changes that setting
(`config_repository.py:60`), as `Apply` of `Settings` admits; on a database without the rows that the migration
inserts (`create_all` alone) the first updates of a setting by two at a time may end one
of them with a status 500 (`config_repository.py:53`); with 100,000 alerts or more that have
no number yet, the backfill cuts the longer numbers to five digits, gives one twice and
raises at the unique index, on every start
(`d4e5f6a7b8c9_add_human_readable_ids.py:43`, `59`); the production image has no
`scripts/` (`Dockerfile:73-79`), so that its entrypoint ends at `seed_rules`
(`entrypoint.sh:8`): what is said of containers holds for the development image, which
`docker-compose.yml` builds.

## 4. Fairness

- `TransactionConsumer`: weak fairness of each consumer's `Turn`: every call
  returns or times out, and the processes are restarted after an error
  (`restart: on-failure`, `docker-compose.yml`). A crash that the operating system
  causes, a signal, a rebalance and an expiry are not fair. Weak fairness of
  assigning each partition: the coordinator hands it out while the group has a
  member. Without a bound on faults nothing would be drained; the budget is it.
- `AlertReview`: weak fairness of each request's own steps once begun. In `Reviews` a
  request waits for a lock only as often as others hold it, and the number of
  competitors is two.
- `Evaluation`: weak fairness of all calls together: while any call can go on, one
  does. Nothing is assumed about the order in which those who wait for rows or
  connections get them; it is the bound on calls that lets the last one through.
- `SystemConfig`: weak fairness of each request and strong fairness of `Update`, which
  a row lock enables and disables again: PostgreSQL queues those who wait for a row.
- `RuleCatalog`: strong fairness of each request's steps for the same reason (it may
  wait for a key or a row), weak fairness of a seeder.
- `Deployment`: strong fairness of each migrator: its statements wait for locks that
  PostgreSQL hands out in a queue, compose restarts what has failed
  (`docker-compose.yml:9`), and starts a container once what it depends on is healthy
  (`docker-compose.yml:55`). The operator goes on with a downgrade that has begun.
- No fairness is assumed of requests that come in, of failures, crashes, signals or
  downgrades.
- `Scoring` states safety only and assumes none.

## 5. Proofs

All proofs hold for any number of consumers, partitions, messages, sessions,
rules, calls, containers and alerts, any pool, any `MaxRetries` of at least 1 and any
number of faults. They assume only the ASSUMEs of the modules: the shapes of the constants,
that `None` differs from what it stands beside, and `RevisionsAssumption` of
`Deployment`. That one is about the seven revisions, not about a parameter: every
statement of every `upgrade()` and `downgrade()` is possible where it stands, the one
undoes the other. TLC evaluates
it on every run of `Rollout`; the provers cannot, because it unfolds a recursive
function. What the numbers of alerts depend on is proved of the scripts themselves:
no upgrade drops the table or the column (`UpgradesKeepNumbers`), and every script is
careful with the sequence (`UpgradesCareful`, `DowngradesCareful`).

| Theorem | Property | Argument |
|---|---|---|
| `TypeCorrect` | `TypeOK` | inductive by itself, one step per action |
| `ProcessedStored` | `ProcessedIsStored` | `StoredInv` adds that a consumer at "mark" has a stored transaction: the key is written after the commit |
| `LockSafe` | `LockExcludes` | `HolderInv`: until a lock expires, whoever is in `Holding` is the lock's recorded owner; one key has one owner |
| `OneAtATime` | `OneUncommitted` | with an owner's busy state: a position runs ahead of its offset only while the owner is busy with that message |
| `NoSilentLoss` | `LostOnlyByOutage` | `LossInv` says what each consumer knows at each point, and that while no consumer has crashed and Redis has not failed a lock belongs to a consumer at work on its id (`LockAttended`), so that a skip for a held lock is a skip for a message that is being tried |
| `AlertsAccounted` | `AlertsOwedToFaults` | `DebtInv`: a lone consumer that holds an id it has already stored, with the key not written, has paid with a fault |
| `ReviewTypes`, `ReviewsComplete`, `AuditSound`, `ReviewsMoveForward` | `TypeOK`, `RecordComplete`, `AuditUnlessStale`, `ForwardUnlessStale` | `SessionsSound`: a session's copy is a well-formed row, and what it is about to write is allowed from its copy. That the copy names a reviewer exactly when it is not pending is what saves `RecordComplete` from the columns left out |
| `EvaluationTypes`, `UniqueReferences`, `CurrentEscalation`, `AlertsStored` | as named | `CallsSound` describes the draft and score at each point, `RefsSound` bounds all numbers by the sequence |
| `PoolJustified` | `PoolOnlyBusy` | `ConnsExact`: the connections checked out are exactly those of calls between `Connect` and the end of their session |
| `Refinement` | `ImplementsRecord` | initial states map to initial states; every step under `IInv` is a `Record`, a `SetThreshold` or a stutter |
| `RuleTypes`, `KnowinglyEnabled` | `TypeOK`, `EnabledKnowingly` | `RequestsSound`: a request's copy exists and its UPDATE is not empty; `LocksSound`: who holds a row's lock has found that row, who has inserted a key finds it free |
| `CatalogImplemented` | `ImplementsCatalog` | a commit is `Change`: its UPDATE has just the columns that `Merge` takes from the request, and a request that holds no lock by then has nothing to change (`WritersSound`); one that has read nothing yet has no copy left over from before (`FreshSound`). A seeder's commit is `Seed`: by `SeedsSound` each default is committed or under the seeder's lock, so that what it has inserted is what `Fill` inserts. Everything else, the clash and the wait included, is a stutter or a fault |
| `WindowsKept` | `WindowsBrokenByHalves` | an UPDATE of both ends on a current copy leaves the ends of the request, which are in order (`KeptInOrder`); a creation's window is in order; no other statement touches an end |
| `SeedingComplete` | `SeededComplete` | `SeedsSound`: every default before `at` is committed, or inserted under the seeder's lock, or the one still to be flushed |
| `ScoringTypes`, `OneCatalog` | `TypeOK`, `JudgedByOneCatalog` | `RulesSound`: while a handler is at work the rules in force when it asked are in `moments`, and its engine was compiled from one of them |
| `FeaturesOfTheCall`, `RedisIsOptional` | `FeaturesJustified`, `FailuresExcused` | `FeaturesSound`: until the last read, `held` has what is cached, and each feature read is justified by it |
| `ConfigTypes`, `AnswersExplained` | `TypeOK`, `AnswerExplained` | `KeySound`: a key a request has passed is locked by it, has the value it asks for, or was changed since it came; a value it has read is in force unless that happened |
| `PutsAreAtomic` | `ImplementsSettings` | a commit is `Apply` of the keys that are locked or have the value asked for already; by `KeySound` the others are in `touched` |
| `TypeCorrect` of `Deployment_proofs` | `TypeOK` | inductive by itself, with what `Leads` says of the scripts |
| `SchemaSound` | `SchemaOfVersion` | `SchemaInv`: locked tables are disjoint (`Apart`), and a migrator's transaction is tentative or settled. While it has not stamped a version, each table it has locked is as its script expects *if* the committed one was as at the start, which need not be so: others may have committed since it read the version. At the stamp the row it matches is locked and is the version it has read, so that all it has found was right (the first revision has no row to match, but could only begin where there was no table): from then on it sees exactly what its revisions make, and its COMMIT moves version and schema together |
| `HeadServed` | `ServesAtHead` | `HeadSound`: a container that has stamped its last revision is at head, and without downgrades the database is there as soon as one has committed that, or has found nothing to do |
| `AlertsKept` | `UpgradeKeepsAlerts` | `NumbersSound`: a container that has locked the alerts has all committed ones in its draft, with the numbers they have (`Outlives`), because no statement of an upgrade takes any away; an operator who commits takes the version down |
| `NumbersSafe` | `AlertsNumbered` | `AlertsInv`: committed numbers, and those each migrator sees, differ and are behind the sequence; whoever has locked the sequence has also locked a table that an evaluation needs, and a transaction that leaves a row without number has the backfill still to come |

Theorems about properties that no run of its own checks; each was checked by TLC on
the instance of the module's run before it was proved:

| Theorem | States | Argument |
|---|---|---|
| `NamedFieldsOnly` (`RuleCatalog_proofs`) | an existing rule changes only by a request for it, and only in the fields that request names | the invariants of `EnabledKnowingly`; `ImplementsCatalog` says more of the values, this says it without a copy of the row |
| `NoDeadlock` (`RuleCatalog_proofs`, `SystemConfig_proofs`) | `NoCircularWait`: in any set of requests and containers one waits for none of the others | who waits and holds something waits for a rule, or a key, that is later in the order of the file, or of `update_config`, than all it holds (`OrderSound`); in a set there is one that is furthest. A request for a rule holds nothing while it waits |
| `FirstRolloutAlone` (`Deployment_proofs`) | `OneMigration`: until somebody takes revisions back, at most one migrator has locked a table | `FirstSound`: the database is empty or at head, and a container whose migration has done anything has created `fraud_rules`, the first table of the first revision, which it holds until it ends |
| `FirstRolloutSmooth` (`Deployment_proofs`) | `FailsOnlyWhenDone`: until then there is no deadlock and no conflict over the version, and a statement fails only in a migrator that has done nothing, when the database is at head | the same invariant: the loser waits at its first statement, and finds the table there. `entrypoint.sh` ends with it, and the restart finds nothing to do. The backfill cannot fail either, since no alert is there before the first migration is committed (`NoneRaised`) |
| `OffsetsExact` (`TransactionConsumer_loss_proofs`) | `CommitsOwnMessage`: an offset moves by one, and only with the message its owner is at the end of | `OneUncommitted`: `commit()` without arguments has nothing else to commit |
| `DeadLettersJustified` (`TransactionConsumer_loss_proofs`) | `DeadLettersEarned`: a message that does not fail by itself is a dead letter only after `MaxRetries` failing calls | `Patient`: an attempt counted is a failing call spent, also across crashes, rebalances and restarts, which start the count again |
| `WorkGoesOn` (`Evaluation_proofs`) | `SomeoneWorks`: of the calls under way one waits neither for the pool nor for a row | a full pool is held by calls in the middle of their work (`ConnsExact`), and who holds a row has its connection and waits for nothing (`TypeOK`) |

`NoDeadlock` needs a least and a greatest element of a set of numbers, which no
installed prover finds by itself; they come from `WFMin` and
`NatLessThanWellFounded` of the library (`Least`, `Greatest`). What a recursive
definition computes for every input remains out of reach: the library's induction
theorems take an operator as a parameter, which the provers cannot instantiate. That is
why `RevisionsAssumption` is an assumption.

Only model-checked, because they are temporal under fairness: `DrainedUnlessStopped`,
`StopHeeded`, `Drained`, `EveryReviewEnds`, `EveryCallEnds`, `EveryoneGetsThrough`,
`EveryRequestEnds`, `EveryStartEnds`; and the four runs that end in a violation.

## 6. Not modelled, and the plan

Modelled, in this order: the consumer with its idempotency (the only part in
which messages can be lost), the review of alerts, the evaluation, the rules, the
settings, the detectors, the connection pool, the consumer's start and stop, the migrations and
the start of containers. Left for later, most important first:

1. gRPC retries over `Evaluation`: a call repeated after an answer was lost raises a
   second alert. No property says anything of that yet (`FaultlessOnce` is about
   Kafka), nor that an answered review is stored, which a failing commit may prevent.
2. Token revocation (`app/auth/token_revocation.py`): a key per token that expires with
   it, read in front of every handler; who decides when Redis is away.
3. `Scoring` under `Evaluation` as one composition, with the conditions of rules over
   several fields.
4. More of the consumer's `stop()` than one step: the flush of the producer and the
   clients that stay open when it fails, which matter only to a process that ends.

Not planned: lists, filters and statistics (they only read), the arithmetic of
`pylitmus` (external; any score may result), schemas beyond what they refuse,
telemetry, logging, rate limits, HTTP headers, the Celery application (it has no
task), the scripts that generate load and measure (clients of the service), alembic's
offline mode (it prints SQL), and the generated protobuf code.
