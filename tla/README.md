# TLA+ models of the coupon-issuance k6 harness

The repository's source is a load and consistency harness. It is three k6
scripts under `src/src/main/resources/k6-tests/`. Each script drives a
coupon-issuance service, which is not part of `src/`, with several scenarios
of virtual users (VUs). Each scenario is bound to one client protocol.
Each protocol classifies the service's replies into metric samples. The
thresholds on those samples judge the service's consistency. This directory
models the client protocols, the scenarios that run them concurrently, the
metric sinks they share, and the service at its HTTP boundary.

## 1. Inventory

### Components

| Component | Source | State it keeps | Operations |
|---|---|---|---|
| DB-lock scenarios | `database-lock-coupon-test.js` | per VU: `userId`, `retryCount`, loop position. Shared: Counters `successful_coupon_issue_db_lock` and `failed_coupon_issue_db_lock`, Rate `coupon_data_consistency`, Trend `database_lock_wait_time` | `setup`, `testDistributedLock` (one issue-sync call), `testOptimisticLock` (issue-optimistic retried on 423, at most `maxRetries = 3` attempts, backoff 0.2s then 0.4s), `testDeadlockScenario` (an `http.batch` of two issue-sync calls for two codes), `teardown` |
| Kafka event scenarios | `kafka-event-coupon-test.js` | per VU: `requestId`, `pollCount`, `processingComplete`, the responses of the ordering test. Shared: Counters `kafka_event_published` and `kafka_result_event_received`, Rates `kafka_eventual_consistency`, `kafka_event_order_consistency` and `kafka_partition_balance`, Trend `kafka_event_processing_time` | `testKafkaEventPublishing` (publish, expect 202 and a requestId, then poll `/coupons/result` every 2s, at most 15 times), `testEventOrdering` (three publishes 100ms apart for one user id `10000 + __VU*100 + __ITER`), `testResultEventPolling` (one result lookup), `testPartitionBalancing` (one publish for one of four derived user ids) |
| Redis queue scenarios | `redis-async-coupon-test.js` | per VU: `requestId`, `pollCount`, `finalStatus`. Shared: Counter `redis_queue_entry_success`, Rates `queue_position_accuracy`, `redis_data_consistency` and `async_issuance_final_success`, Trend `redis_async_processing_time` | `testRedisQueueSystem` (issue-async, expect 202, then poll `/coupons/issue-status` every 2s, at most 20 times, until COMPLETED or NOT_REQUESTED), `testAsyncStatusPolling` (one status lookup), `testRedisFailover` (probe issue-status; on 200 issue-async, on 500/503 fall back to issue-sync) |
| Coupon service (external) | none; spec.md section 6 | policies, coupons granted per (code, user), event and queue processing | issue endpoints, result/status lookups, admin endpoints |
| k6 runtime (external) | the `options.scenarios` objects | VUs per scenario, iteration counters, the shared-iterations pool, scenario stop | scheduling, graceful stop, atomic metric sinks |
| Gradle build | `build.gradle.kts` | none | none |

### How the parts interact

The VUs of one script share nothing except two things. They share the
service's state: a coupon's remaining stock, the coupons each user holds, and
the queues and events in flight. They also share the metric sinks, which k6
updates atomically. A VU's protocol is sequential. Its suspension points are
the HTTP calls, the poll sleeps, the retry backoff, and the pause between
iterations. Other VUs run during those points. A VU's userId is drawn at
random, so two VUs may act for the same user. The three scripts are separate
k6 runs and do not interact.

### What makes the harness hard

- Replies of concurrent VUs interleave at the service. A 409 means sold out or
  duplicate. It must never be counted as a success.
- Retry and poll loops must be bounded. They must give up after exactly their
  budget, and report each iteration once.
- A client-side timeout (k6 status 0) races a server that may still grant the
  coupon.
- A scenario's stop can abandon an iteration in the middle of its loop.
- The scripts classify many statuses. Each branch must add the right samples
  to the right sinks. One wrong branch changes a Rate that a threshold judges.
- Several scenarios write to the same sinks.

### Properties that make each component correct

- DB-lock: successes counted never exceed coupons granted (supply
  conservation). A finished iteration adds exactly one consistency sample, and
  an abandoned one adds none. A retry loop gives up after exactly `maxRetries`
  conflicts. Errors and timeouts are never counted as consistent. A failed
  setup never leads to a
  consistent sample against the missing coupon.
- Kafka: a poll loop ends after at most `maxPolls` polls. A TIMEOUT is
  reported only when no terminal result was seen. Each published request adds
  exactly one eventual-consistency sample. In the ordering test a user gets at
  most one 202. System errors are reported. User ids of different VUs and
  iterations are distinct. The received-results counter never counts more
  results than the consumer processed.
- Redis: the same poll and accounting properties. True
  success samples never exceed the coupons the queue granted. The failover
  path counts errors as inconsistent.

## 2. Plan

Modules, in the order they are built:

1. `CouponService`. The service at its boundary, written from the spec
   because its code is not in `src/`. It is instantiated by every harness
   module. (done)
2. `IterationAccount`. The abstract contract of a consistency Rate: one
   sample per finished iteration, none per cancelled one, and every
   iteration ends. Each harness module is checked to refine it through
   `INSTANCE ... WITH`. (done)
3. `DbLockHarness` with `MCDbLockHarness`. The DB-lock script. (done)
4. `KafkaHarness` with `MCKafkaHarness`. Publish-then-poll against an
   asynchronously processed event, plus the ordering, polling and partition
   tests. It refines `IterationAccount` for `kafka_eventual_consistency`
   and `kafka_event_order_consistency`. (done)
5. `UserIdDerivation`. A pure operator: the ordering test's user id
   `10000 + VU*100 + ITER`, checked over every input of the run. (done)
6. `RedisHarness` with `MCRedisHarness`. Queue entry then status polling,
   status polling and failover. It refines `IterationAccount` for
   `redis_data_consistency`. (done)
7. `PollLoop`. Dropped; see section 6. The loop contract of spec.md
   section 4.3 is checked by the poll properties of `KafkaHarness` and
   `RedisHarness` and by their `IterationAccount` refinements.

## 3. Modules

### `CouponService` (spec-modelled)

- `policies`: the codes whose policy creation succeeded.
- `issued[c]`: the users holding coupon `c`.
- `CanReply(c, u, st, g, refusals)`: the replies the issue endpoints may
  give. The reply is 200 only when the coupon is grantable, and it grants the
  coupon. The reply is 409 when the user already holds the coupon or the
  stock is exhausted. The reply is 404 when there is no policy. A transient
  refusal from `refusals` grants nothing. A client-side timeout (status 0)
  may or may not hide a grant.

### `IterationAccount` (abstract)

- `inFlight`: VUs in the middle of a multi-step iteration.
- `samples`: observations in the Rate.
- `closed`: VUs whose scenario has stopped.
- Actions: `Begin`, `End` (+1 sample), `Whole` (a one-step iteration, +1
  sample), `Cancel` (only when closed, +0), and `Stop`.
- Fairness: every begun iteration ends or is cancelled.

### `EventService` (spec-modelled)

- `requests[c][u]`: `none`, `pending` (accepted, event on the topic),
  `success` or `soldout` (processed by the consumer).
- `PublishReply`: 202 only for a fresh request of an existing policy, which
  it accepts; 409 for a repeated request, 400 for a missing policy, 500 or a
  client timeout (status 0, which may hide an acceptance).
- `Consume`: the consumer grants a pending request, or sells it out when
  `maxCount` coupons are granted.
- `ResultReply`: a lookup sees `notfound` or `unprocessed` until the event is
  processed, then its outcome; an error (5xx) is always possible.

### `DbLockHarness`

| Code | Model |
|---|---|
| `setup()` | `setup`: each policy POST may fail. Its status is only logged |
| executors in `options.scenarios` | `CanIterate` and `Claim`: a per-VU bound (`MaxIter`) for ramping/constant VUs, and the shared pool `pool` for `pure_optimistic_lock`. `StopScenario` ends a scenario's duration. `Abandon` is k6 killing an iteration still in the retry loop after its graceful stop |
| `testDistributedLock` | one atomic step: the request, the reply, the 200/409/429/other branches, the counters and the Rate |
| `testOptimisticLock` | `OptimisticBegin` (picks the userId and enters the loop), `OptimisticSend` (the backoff sleep and `http.post`), `OptimisticReply` (the 200/409, 423 and other branches). Helpers: `NextRetry`, `Exhausted` and `LoopContinues` are lines 178, 181 and 143; `BusinessOutcome` is the 200 and 409 branches (164-174) |
| `testDeadlockScenario` | one atomic step for the batch. Each reply is chosen independently. `DeadlockDetected` is lines 242-245 |
| `teardown()` | `teardown`: it runs when every scenario has ended and only reads |
| metrics | `successfulCouponIssue`, `failedCouponIssue`, and `dataConsistency[TRUE/FALSE]` (the Rate's true and false counts) |

`resp[v]` and `verdict[v]` are the status(es) of v's last reply and the sample
its last iteration recorded. They are the script's local `response` and the
argument of `dataConsistency.add`.

Latency is not modelled. That covers the Trend `database_lock_wait_time`,
the `check()` timing checks and the sleeps, since no property is about time.
`check()` results feed only k6's built-in `checks` rate, which no threshold
of these scripts uses.

### `KafkaHarness`

| Code | Model |
|---|---|
| `setup()` | `setup`: the four policy POSTs may fail; the health check only logs |
| executors | `CanIterate`, `Claim` (per-VU `MaxIter`), `StopScenario`, `Abandon` (a polling loop cut off after the 30s graceful stop adds nothing; the ordering test's three 5s-timeout publishes always finish inside it, so its sequence is never cut) |
| `testKafkaEventPublishing` | `testKafkaEventPublishing` (the publish and the 202 / malformed 202 / other branches), then `KafkaPoll` per loop turn: `NextPoll` (line 143), `LoopContinues` (141), `IsProcessed` (155), `PollContinues` (the whole loop condition with the break of 176), `ReportsTimeout` (181). A 5xx lookup breaks the loop, which then records false |
| `testEventOrdering` | `OrderBegin` (user id `<<VU, iteration>>`), `OrderPublish` per request; after the third, `OrderJudged` (lines 231-259, after the loop) counts the 202s and `OrderVerdict` (248-259) decides the sample |
| `testResultEventPolling` | one step; the lookup is for a fabricated request id, so its answer is not tied to the service's state |
| `testPartitionBalancing` | one step; the four derived ids are abstracted to the random users (their arithmetic is `UserIdDerivation`) |
| the consumer | `ConsumeEvent`, with no fairness |

### `UserIdDerivation`

The pure operator `OrderUserId` (line 204). The state walks every
`(__VU, __ITER)` the run can produce (`__VU` is global, up to 1850 VUs; 10
iterations).
`OrderIdsDistinct` checks each id against the reference decoding
`DecodeOrderId`.

### `RedisService` (spec-modelled)

- `entries[c][u]`: `none`, `waiting` (in the Redis queue), `completed` or
  `soldout`.
- `EntryReply`/`Enter`: issue-async answers 202 for a fresh entry, 409 for a
  user already entered, 404 without a policy, 500/503, or a client timeout
  that may hide an entry.
- `Process`: the queue processor completes a waiting entry while stock lasts;
  the order it drains the queue in is left open.
- `StatusReply`: WAITING with a position (`rank`, `null`, `undefined` or
  `negative`: the client must flag the last three, spec.md section 4.3),
  COMPLETED, NOT_REQUESTED (never entered, or sold out), a 200 without data,
  or an error.
- `SyncReply`/`SyncGrant`: the synchronous endpoint of the failover
  fallback, granting from the same stock.

### `RedisHarness`

| Code | Model |
|---|---|
| `setup()` | `setup` |
| executors | `CanIterate`, `Claim`, `StopScenario`, `Abandon` (a polling loop cut off after the 30s graceful stop; the failover's follow-up request, at most 10s after a 2s probe, always finishes inside it) |
| `testRedisQueueSystem` | `testRedisQueueSystem` (the entry and its 202 / malformed 202 / 409 / other branches), then `RedisPoll` per loop turn: `LoopContinues` (line 122), `PollExits` (the loop condition with the breaks of 143 and 150), `IsCompleted` (136), `PositionValid` (154), `ReportsTimeout` (167). A 200 without data throws into the catch (line 173) |
| `testAsyncStatusPolling` | one step; `WaitingPositionPresent` is line 221 |
| `testRedisFailover` | `FailoverProbe` (the status probe and its three branches), then `FailoverIssue` (issue-async after a 200) or `Fallback` (issue-sync after 500/503). The probe's answer is used by a later step, so other VUs and the queue processor run in between |
| the queue processor | `ProcessEntry`, with no fairness |
| metrics | `Observe` adds a set of at most one sample to a Rate; `verdict`, `posVerdict` and `successVerdict` are the VU's last samples |

## 4. Runs

| Run | Config | Checks | Shows |
|---|---|---|---|
| `db_optimistic` | `MCDbLockOptimistic.cfg` | `TypeOK`, `SuccessesWithinIssued`, `RetriesExhaustedExactly`, `NoConsistencyWithoutPolicy`, `AccountRefined` | Two VUs of the shared-iterations scenario race on a single coupon and on the pool, with scenario stop possible mid-loop and setup possibly failing. The loop is bounded. It gives up after exactly 3 conflicts. It reports one sample per finished iteration, reports none per abandoned one, and always terminates. Successes never exceed grants. No true sample is reported against a coupon whose policy was never created |
| `db_sync` | `MCDbLockSync.cfg` | `SuccessesWithinIssued` | The sync-lock and deadlock-batch VUs issue the same coupon. The shared success counter never exceeds grants |
| `db_consistent_on_error` | `MCDbLock_ConsistentOnlyOnBusinessOutcome.cfg` | violation expected | See the findings |
| `kafka_publish` | `MCKafkaPublish.cfg` | `TypeOK`, `EventualTrueOnlyWhenProcessed`, `PollTimeoutExact`, `PublishedWithinAccepted`, `ResultsReceivedWithinProcessed`, `EventualRefined` | Two publishing VUs race on one coupon and two users while the consumer may stall. A true sample needs a processed event. A TIMEOUT comes after exactly `maxPolls` polls. Each loop reports once and ends. Published never exceeds accepted, and `kafka_result_event_received` never exceeds the results the consumer processed (a processed result ends the loop and is counted once) |
| `kafka_order` | `MCKafkaOrder.cfg` | `TypeOK`, `OrderAlarmOnlyOnError`, `OrderRefined` | Dedup alone never raises an ordering failure; each sequence reports one sample, after its third response, and always ends |
| `kafka_lookup` | `MCKafkaLookup.cfg` | `PublishedWithinAccepted` | The partition test never counts a 409 as published |
| `order_user_ids` | `MCUserIdOrder.cfg` | `OrderIdsDistinct` | Ordering ids are unique over the whole run |
| `redis_queue` | `MCRedisQueue.cfg` | `TypeOK`, `SuccessOnlyWhenCompleted`, `SuccessSamplesWithinCompleted`, `PollTimeoutExact`, `EntriesWithinAccepted`, `ConsistencyRefined` | Two queue VUs race on one coupon while the processor may stall and positions may be misreported. Success only for a granted coupon, true success samples never more than the coupons the queue granted (COMPLETED ends the loop), a still-WAITING entry times out after exactly `maxPolls` polls, entries never over-counted, one sample per finished iteration, and the loop ends |
| `redis_failover` | `MCRedisFailover.cfg` | `EntriesWithinAccepted`, `ConsistencyRefined` | Probe, entry and fallback interleaved with a status-polling VU: one sample per iteration, none added by the fallback |
| `redis_poll_continues_on_error` | `MCRedis_PollStopsOnError.cfg` | violation expected | See the findings |
| `redis_failover_consistent_on_error` | `MCRedis_FailoverConsistentOnlyOnBusinessOutcome.cfg` | violation expected | See the findings |

Bounds. Each policy has one coupon and there are two users, so both a
duplicate 409 and a sold-out 409 happen. The two optimistic VUs draw from a
pool of two iterations with `maxRetries = 3`, so a VU can exhaust its
retries while the other is granted. The sync VUs each run two iterations, so
a user can repeat. The two configurations split the scenarios. All four VUs
together give more than 10^7 states, and the scenarios interact only
through the service.

Fairness. Each k6 VU is its own goroutine, and every request returns within
its timeout. So `OptimisticSend` and `OptimisticReply` are weakly fair for
each VU. Nothing is assumed about which status the service returns. A
service that answers 423 forever is allowed.

Kafka bounds. One coupon per policy and two random users, so grants,
sold-out results and duplicates all happen; `maxPolls = 2` lets a loop time
out after a second unprocessed poll; one iteration per publishing VU and two
per ordering VU (a fresh id per iteration). The scenarios are split across
three configurations because they interact only through the service and the
shared sinks, and together they exceed the time budget.

Kafka fairness. `KafkaPoll` and `OrderPublish` are weakly fair per VU, for
the same reason as above. The consumer is not fair: a stalled consumer is the
case the TIMEOUT branch exists for.

Redis bounds and fairness. One coupon per policy and two users; `maxPolls =
2`; one iteration per queue VU, two for the failover VU so a user repeats.
`RedisPoll`, `FailoverIssue` and `Fallback` are weakly fair per VU; the
queue processor is not.

## 5. Findings

- `db_consistent_on_error`: `testDeadlockScenario` records
  `dataConsistency.add(true)` unless a reply is 408 or 500. A batch whose two
  requests time out on the client (status 0), or get 429, is counted as
  consistent. Spec.md section 7 counts transport failures as failures.
- Read in the code, without a run of its own, of the same kind as the checked findings: `setup()` only logs a failed policy creation, and the
  scenarios then run against a missing policy. Spec.md section 7 says this
  aborts the run. `NoConsistencyWithoutPolicy` checks the consequence for
  `pure_optimistic_lock`, which reports a 404 as a failure. In
  `testDeadlockScenario` a batch of two 404s, or two timeouts, is reported
  consistent. That is the `db_consistent_on_error` finding.

- Read in the code, without a run of its own, of the same kind as the checked findings: `testEventOrdering` records true
  whenever no request got 202 (line 252), so three 500s or three timeouts
  count as correct ordering. Spec.md section 7 says errors are failures.
- Read in the code, without a run of its own, of the same kind as the checked findings: a publish answered 5xx or timed out is
  only logged (lines 195-197); `kafka_eventual_consistency` never sees it.

- `redis_poll_continues_on_error`: on a non-200 status reply
  `testRedisQueueSystem` adds a false position sample and polls again (lines
  161-164). Spec.md section 4.3 says a transport error stops with ERROR.
- `redis_failover_consistent_on_error`: after a healthy probe,
  `testRedisFailover` records true for any issue-async reply (lines 266-273),
  a 500 or a timeout included.
- Read in the code, without a run of its own: `testResultEventPolling` adds
  to `kafka_result_event_received` for every fast 200 (line 294), also for a
  200 with `processed: false`, and for a `requestId` the client makes up.
  Spec.md section 8 ties one increment to one processed result, which
  `ResultsReceivedWithinProcessed` checks for the publishing path.
- Latent, not a run: `testAsyncStatusPolling` accepts an absent or negative
  WAITING position (line 221), but it looks up `REDIS_QUEUE_100`, which no
  scenario enters, so it never sees WAITING.

## 6. Not modelled

- The service's own locking, Kafka consumer and Redis queue. They are outside
  `src/` and only their HTTP contract is modelled.
- Time, latency, thresholds evaluation and console output.
- Kafka's partition assignment. `testPartitionBalancing` sends a partition
  key and only logs `selectedUserId % 4`; the partition Kafka picks depends
  on the key's hash, which is outside the script.
- The JavaScript comparison semantics of the position check (line 154:
  `null >= 0` is true, `undefined >= 0` is false). They are translated by
  hand into `PositionValid`; no property over the model could do more than
  restate that translation.
- The Gradle build.
- A separate abstract poll-until-terminal specification (`PollLoop`). Its
  outcome (PROCESSED, TIMEOUT, ERROR) lives only in locals of the scripts
  (`processingComplete`, `finalStatus`). A refinement mapping would have to
  rebuild it from the Rate samples, which other branches of the same
  iteration also write. What it would check is already checked:
  - exact poll budget: `PollTimeoutExact`;
  - stop at a terminal result: `EventualTrueOnlyWhenProcessed`,
    `ResultsReceivedWithinProcessed` and `SuccessSamplesWithinCompleted`;
  - one outcome per loop and termination: the `IterationAccount`
    refinements;
  - stop on error: violated by the Redis loop, see the findings.
