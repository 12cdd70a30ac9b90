---------------------------- MODULE KafkaHarness ----------------------------
(***************************************************************************)
(* src/src/main/resources/k6-tests/kafka-event-coupon-test.js: four        *)
(* scenarios of virtual users against the event-driven issuance path.      *)
(*   massive_event_publishing  testKafkaEventPublishing: publish, then     *)
(*                             poll the result every 2s, maxPolls times    *)
(*   event_ordering_test       testEventOrdering: three publishes 100ms    *)
(*                             apart for one derived user id               *)
(*   result_polling_load       testResultEventPolling: one result lookup   *)
(*   partition_balancing       testPartitionBalancing: one publish         *)
(* A poll (sleep, GET and its branch) and a publish are one step each;     *)
(* the Kafka consumer runs between them.  The ordering test's user id      *)
(* 10000 + __VU*100 + __ITER is the pair <<VU, iteration>> here, distinct  *)
(* per VU and iteration as UserIdDerivation checks.                        *)
(***************************************************************************)
EXTENDS Integers, FiniteSets, Sequences

CONSTANTS RandomUsers,   \* user ids drawn by Math.random
          MaxCount,      \* [KafkaCodes -> Nat]: maxCount of each test policy
          VUs,
          Scenario,      \* [VUs -> ScenarioNames]
          MaxPolls,      \* maxPolls of testKafkaEventPublishing (15)
          MaxIter,       \* bound: iterations of a VU
          NoVerdict      \* model value: no sample recorded

MASSIVE   == "KAFKA_MASSIVE_1000"
ORDER     == "KAFKA_ORDER_200"
POLL      == "KAFKA_POLL_300"
PARTITION == "KAFKA_PARTITION_100"
KafkaCodes == {MASSIVE, ORDER, POLL, PARTITION}

ScenarioNames == {"massive_event_publishing", "event_ordering_test",
                  "result_polling_load", "partition_balancing"}

OrderIds == {<<v, i>> : v \in {w \in VUs : Scenario[w] = "event_ordering_test"},
                        i \in 0..(MaxIter - 1)}

ASSUME /\ Scenario \in [VUs -> ScenarioNames]
       /\ MaxPolls \in Nat \ {0} /\ MaxIter \in Nat

VARIABLES phase, policies, requests,
          pc,                   \* [VUs -> {"idle", "poll", "order"}]
          user,                 \* the userId of the VU's iteration
          pollCount,            \* testKafkaEventPublishing's pollCount
          orderResp,            \* statuses of testEventOrdering's requests
          iters, stopped,
          resp,                 \* status(es) of the VU's last response
          verdict,              \* last sample the VU added to its scenario's Rate
          kafkaEventPublished, resultEventReceived,
          eventualConsistency, eventOrderConsistency, kafkaPartitionBalance

vars == <<phase, policies, requests, pc, user, pollCount, orderResp, iters,
          stopped, resp, verdict, kafkaEventPublished, resultEventReceived,
          eventualConsistency, eventOrderConsistency, kafkaPartitionBalance>>
vuVars == <<pc, user, pollCount, orderResp, iters, resp, verdict>>
metrics == <<kafkaEventPublished, resultEventReceived, eventualConsistency,
             eventOrderConsistency, kafkaPartitionBalance>>

EventUsers == RandomUsers \cup OrderIds

Service == INSTANCE EventService WITH Users <- EventUsers,
                                      Codes <- KafkaCodes

PublishStatuses == {0, 202, 400, 409, 500}
\* The HTTP status behind each kind of result lookup.
ResultStatus == [success |-> 200, soldout |-> 200, unprocessed |-> 200,
                 notfound |-> 404, error |-> 500]

Count(b) == IF b THEN 1 ELSE 0
Add(rate, ok) == [rate EXCEPT ![ok] = @ + 1]

CanIterate(v) ==
    /\ phase = "run"
    /\ pc[v] = "idle"
    /\ Scenario[v] \notin stopped
    /\ iters[v] < MaxIter

Claim(v) == iters' = [iters EXCEPT ![v] = @ + 1]

\* setup(): create the four policies (failures only logged), then GET
\* /admin/kafka/health, whose answer is only logged.
setup ==
    /\ phase = "setup"
    /\ Service!CreatePolicies
    /\ phase' = "run"
    /\ UNCHANGED <<requests, stopped>> /\ UNCHANGED vuVars /\ UNCHANGED metrics

StopScenario(s) ==
    /\ phase = "run"
    /\ s \notin stopped
    /\ stopped' = stopped \cup {s}
    /\ UNCHANGED <<phase, policies, requests>> /\ UNCHANGED vuVars
    /\ UNCHANGED metrics

\* The Kafka consumer processes one pending event.
ConsumeEvent ==
    /\ phase = "run"
    /\ \E c \in KafkaCodes, u \in EventUsers : Service!Consume(c, u)
    /\ UNCHANGED <<phase, policies, stopped>> /\ UNCHANGED vuVars
    /\ UNCHANGED metrics

-----------------------------------------------------------------------------
(* testKafkaEventPublishing                                              *)

\* One sample of kafka_eventual_consistency (or of the VU's scenario Rate).
Record(v, ok) ==
    /\ eventualConsistency' = Add(eventualConsistency, ok)
    /\ verdict' = [verdict EXCEPT ![v] = ok]

\* Mutant: a duplicate (409) counted as a published event.
PublishCountedDuplicate(st) == st \in {202, 409}

\* if (publishResponse.status === 202) kafkaEventPublished.add(1)
PublishCounted(st) == st = 202

\* The publish and its branches (lines 106-134, 191-197): a 202 whose body
\* lacks data.requestId throws inside the try and records a failure.
testKafkaEventPublishing(v) ==
    /\ CanIterate(v)
    /\ Scenario[v] = "massive_event_publishing"
    /\ \E u \in RandomUsers, st \in PublishStatuses, acc, wellFormed \in BOOLEAN :
         /\ Service!PublishReply(MASSIVE, u, st, acc)
         /\ Service!Accept(MASSIVE, u, acc)
         /\ wellFormed \/ st = 202
         /\ user' = [user EXCEPT ![v] = u]
         /\ resp' = [resp EXCEPT ![v] = {st}]
         /\ kafkaEventPublished' = kafkaEventPublished + Count(PublishCounted(st))
         /\ \/ /\ st = 202 /\ wellFormed
               /\ pc' = [pc EXCEPT ![v] = "poll"]
               /\ pollCount' = [pollCount EXCEPT ![v] = 0]
               /\ verdict' = [verdict EXCEPT ![v] = NoVerdict]
               /\ UNCHANGED eventualConsistency
            \/ /\ st = 202 /\ ~wellFormed
               /\ Record(v, FALSE)
               /\ UNCHANGED <<pc, pollCount>>
            \/ /\ st # 202
               /\ verdict' = [verdict EXCEPT ![v] = NoVerdict]
               /\ UNCHANGED <<pc, pollCount, eventualConsistency>>
    /\ Claim(v)
    /\ UNCHANGED <<phase, policies, orderResp, stopped, resultEventReceived,
                   eventOrderConsistency, kafkaPartitionBalance>>

\* pollCount++
NextPoll(n) == n + 1

\* Mutant: the loop runs one poll too many.
LoopContinuesInclusive(n) == n <= MaxPolls

\* Mutant: the loop gives up one poll early.
LoopContinuesEarly(n) == n < MaxPolls - 1

\* while (pollCount < maxPolls && !processingComplete)
LoopContinues(n) == n < MaxPolls

\* Mutant: a 200 with processed = false taken as the result.
IsProcessedEager(r) == r \in {"success", "soldout", "unprocessed"}

\* if (isProcessed)
IsProcessed(r) == r \in {"success", "soldout"}

\* Mutant: the timeout reported only when the poll budget is spent.
ReportsTimeoutOnBudget(complete, n) == ~complete /\ n >= MaxPolls

\* if (!processingComplete) after the loop
ReportsTimeout(complete, n) == ~complete

\* Mutant: processingComplete left out of the loop condition.
PollContinuesAfterResult(n, complete, r) == LoopContinues(n) /\ r # "error"

\* The loop goes on: polls left, no processed result, and no status that
\* breaks out of it (lines 141, 173-176).
PollContinues(n, complete, r) == LoopContinues(n) /\ ~complete /\ r # "error"

\* One turn of the polling loop (lines 141-184): sleep(2), the result
\* lookup and its branch; a status other than 200 or 404, or a body
\* without data, leaves the loop.
KafkaPoll(v) ==
    /\ pc[v] = "poll"
    /\ \E r \in Service!ResultKinds :
         /\ Service!ResultReply(MASSIVE, user[v], r)
         /\ LET n == NextPoll(pollCount[v])
                complete == IsProcessed(r)
                continues == PollContinues(n, complete, r)
            IN /\ pollCount' = [pollCount EXCEPT ![v] = n]
               /\ resp' = [resp EXCEPT ![v] = {ResultStatus[r]}]
               /\ resultEventReceived' = resultEventReceived + Count(complete)
               /\ pc' = [pc EXCEPT ![v] = IF continues THEN "poll" ELSE "idle"]
               /\ \/ complete /\ Record(v, TRUE)
                  \/ ~complete /\ ~continues /\ ReportsTimeout(complete, n)
                     /\ Record(v, FALSE)
                  \/ ~complete /\ (continues \/ ~ReportsTimeout(complete, n))
                     /\ UNCHANGED <<eventualConsistency, verdict>>
    /\ UNCHANGED <<phase, policies, requests, user, orderResp, iters, stopped,
                   kafkaEventPublished, eventOrderConsistency, kafkaPartitionBalance>>

-----------------------------------------------------------------------------
(* testEventOrdering                                                      *)

\* for (let i = 0; i < 3; i++): all three requests sent.
OrderSequenceDoneLate(rs) == Len(rs) = 4

OrderSequenceDone(rs) == Len(rs) = 3

Count202(rs) == Cardinality({i \in DOMAIN rs : rs[i] = 202})

\* Mutant: the responses counted and judged inside the loop, after each
\* request.
OrderJudgedEach(rs) == Len(rs) >= 1

\* The responses are counted and judged once, after the loop.
OrderJudged(rs) == OrderSequenceDone(rs)

\* Lines 249-258: exactly the first request accepted, or none.
\* Mutant: the index of the first request off by one.
OrderVerdictIndexShift(rs) ==
    \/ Count202(rs) = 1 /\ rs[2] = 202
    \/ Count202(rs) = 0

OrderVerdict(rs) ==
    \/ Count202(rs) = 1 /\ rs[1] = 202
    \/ Count202(rs) = 0

\* The iteration derives its user id from __VU and __ITER.
OrderBegin(v) ==
    /\ CanIterate(v)
    /\ Scenario[v] = "event_ordering_test"
    /\ user' = [user EXCEPT ![v] = <<v, iters[v]>>]
    /\ pc' = [pc EXCEPT ![v] = "order"]
    /\ orderResp' = [orderResp EXCEPT ![v] = <<>>]
    /\ verdict' = [verdict EXCEPT ![v] = NoVerdict]
    /\ Claim(v)
    /\ UNCHANGED <<phase, policies, requests, pollCount, stopped, resp>>
    /\ UNCHANGED metrics

\* One publish of the sequence; after the third the responses are
\* counted and judged (lines 231-259).
OrderPublish(v) ==
    /\ pc[v] = "order"
    /\ \E st \in PublishStatuses, acc \in BOOLEAN :
         /\ Service!PublishReply(ORDER, user[v], st, acc)
         /\ Service!Accept(ORDER, user[v], acc)
         /\ LET rs == Append(orderResp[v], st) IN
            /\ orderResp' = [orderResp EXCEPT ![v] = rs]
            /\ pc' = [pc EXCEPT ![v] = IF OrderSequenceDone(rs) THEN "idle" ELSE "order"]
            /\ \/ /\ OrderJudged(rs)
                  /\ kafkaEventPublished' = kafkaEventPublished + Count202(rs)
                  /\ eventOrderConsistency' = Add(eventOrderConsistency, OrderVerdict(rs))
                  /\ verdict' = [verdict EXCEPT ![v] = OrderVerdict(rs)]
               \/ /\ ~OrderJudged(rs)
                  /\ UNCHANGED <<kafkaEventPublished, eventOrderConsistency, verdict>>
    /\ UNCHANGED <<phase, policies, user, pollCount, iters, stopped, resp,
                   resultEventReceived, eventualConsistency, kafkaPartitionBalance>>

-----------------------------------------------------------------------------
(* testResultEventPolling and testPartitionBalancing                      *)

\* A lookup of a requestId nobody published: the three checks pass for a
\* fast 200 with data or a fast 404 (lines 278-302).
PollLookupKinds == [ok |-> 200, notfound |-> 404, nodata |-> 200, error |-> 500]

testResultEventPolling(v) ==
    /\ CanIterate(v)
    /\ Scenario[v] = "result_polling_load"
    /\ \E r \in DOMAIN PollLookupKinds, fast \in BOOLEAN :
         LET success == r \in {"ok", "notfound"} /\ fast IN
         /\ resp' = [resp EXCEPT ![v] = {PollLookupKinds[r]}]
         /\ resultEventReceived' = resultEventReceived + Count(success /\ r = "ok")
         /\ Record(v, success)
    /\ Claim(v)
    /\ UNCHANGED <<phase, policies, requests, pc, user, pollCount, orderResp,
                   stopped, kafkaEventPublished, eventOrderConsistency,
                   kafkaPartitionBalance>>

\* Mutant: every valid answer counted as a published event.
PartitionPublishedOnValid(st, success) == success

\* if (success) { ... if (response.status === 202) kafkaEventPublished.add(1)
PartitionPublished(st, success) == success /\ st = 202

\* One publish for one of the user's four ids (lines 309-351).
testPartitionBalancing(v) ==
    /\ CanIterate(v)
    /\ Scenario[v] = "partition_balancing"
    /\ \E u \in RandomUsers, st \in PublishStatuses, acc, fast \in BOOLEAN :
         LET success == st \in {202, 409} /\ fast IN
         /\ Service!PublishReply(PARTITION, u, st, acc)
         /\ Service!Accept(PARTITION, u, acc)
         /\ resp' = [resp EXCEPT ![v] = {st}]
         /\ kafkaPartitionBalance' = Add(kafkaPartitionBalance, success)
         /\ verdict' = [verdict EXCEPT ![v] = success]
         /\ kafkaEventPublished' = kafkaEventPublished + Count(PartitionPublished(st, success))
    /\ Claim(v)
    /\ UNCHANGED <<phase, policies, pc, user, pollCount, orderResp, stopped,
                   resultEventReceived, eventualConsistency, eventOrderConsistency>>

-----------------------------------------------------------------------------
(* Scenario stop, teardown and the specification                          *)

\* k6 interrupts an iteration still polling when its scenario's duration
\* (or graceful ramp-down) ends: the iteration records nothing.  A polling
\* loop can outlast the 30s gracefulStop (maxPolls sleeps of 2s plus 5s
\* lookups); testEventOrdering's three publishes (5s timeouts, 0.1s sleeps)
\* always finish inside it, so its sequence is never cut.
Abandon(v) ==
    /\ pc[v] = "poll"
    /\ Scenario[v] \in stopped
    /\ pc' = [pc EXCEPT ![v] = "idle"]
    /\ UNCHANGED <<phase, policies, requests, user, pollCount, orderResp, iters,
                   stopped, resp, verdict>>
    /\ UNCHANGED metrics

ScenarioEnded(v) == Scenario[v] \in stopped \/ iters[v] = MaxIter

\* teardown(): GET /admin/kafka/status and each policy's status, only logged.
teardown ==
    /\ phase = "run"
    /\ \A v \in VUs : pc[v] = "idle" /\ ScenarioEnded(v)
    /\ phase' = "teardown"
    /\ UNCHANGED <<policies, requests, stopped>> /\ UNCHANGED vuVars
    /\ UNCHANGED metrics

\* The k6 process has exited.
Finished == phase = "teardown" /\ UNCHANGED vars

Init ==
    /\ phase = "setup"
    /\ Service!EventServiceInit
    /\ pc = [v \in VUs |-> "idle"]
    /\ user = [v \in VUs |-> CHOOSE u \in RandomUsers : TRUE]
    /\ pollCount = [v \in VUs |-> 0]
    /\ orderResp = [v \in VUs |-> <<>>]
    /\ iters = [v \in VUs |-> 0]
    /\ stopped = {}
    /\ resp = [v \in VUs |-> {}]
    /\ verdict = [v \in VUs |-> NoVerdict]
    /\ kafkaEventPublished = 0
    /\ resultEventReceived = 0
    /\ eventualConsistency = [b \in BOOLEAN |-> 0]
    /\ eventOrderConsistency = [b \in BOOLEAN |-> 0]
    /\ kafkaPartitionBalance = [b \in BOOLEAN |-> 0]

Next ==
    \/ setup
    \/ \E s \in ScenarioNames : StopScenario(s)
    \/ ConsumeEvent
    \/ \E v \in VUs :
         \/ testKafkaEventPublishing(v)
         \/ KafkaPoll(v)
         \/ OrderBegin(v)
         \/ OrderPublish(v)
         \/ testResultEventPolling(v)
         \/ testPartitionBalancing(v)
         \/ Abandon(v)
    \/ teardown
    \/ Finished

\* A VU in the polling loop or the ordering sequence keeps going: sleep
\* returns and every request returns within its timeout.  The consumer
\* gets no fairness: a stalled consumer is what the TIMEOUT path is for.
Fairness ==
    \A v \in VUs : WF_vars(KafkaPoll(v)) /\ WF_vars(OrderPublish(v))

Spec == Init /\ [][Next]_vars /\ Fairness

-----------------------------------------------------------------------------
(* Properties                                                             *)

TypeOK ==
    /\ phase \in {"setup", "run", "teardown"}
    /\ Service!EventServiceTypeOK
    /\ pc \in [VUs -> {"idle", "poll", "order"}]
    /\ user \in [VUs -> RandomUsers \cup OrderIds]
    /\ pollCount \in [VUs -> 0..MaxPolls]
    /\ orderResp \in [VUs -> UNION {[1..n -> PublishStatuses] : n \in 0..3}]
    /\ iters \in [VUs -> 0..MaxIter]
    /\ stopped \subseteq ScenarioNames
    /\ resp \in [VUs -> SUBSET (PublishStatuses \cup {200, 404})]
    /\ verdict \in [VUs -> BOOLEAN \cup {NoVerdict}]
    /\ kafkaEventPublished \in Nat /\ resultEventReceived \in Nat
    /\ eventualConsistency \in [BOOLEAN -> Nat]
    /\ eventOrderConsistency \in [BOOLEAN -> Nat]
    /\ kafkaPartitionBalance \in [BOOLEAN -> Nat]

\* kafka_eventual_consistency, shared by testKafkaEventPublishing and
\* testResultEventPolling, keeps the IterationAccount contract: a publish
\* that entered the polling loop adds exactly one sample when the loop
\* ends (processed, timeout or error), none when abandoned, and the loop
\* always ends although the consumer may never process the event.
EventualAccount == INSTANCE IterationAccount WITH
    inFlight <- {v \in VUs : pc[v] = "poll"},
    samples <- eventualConsistency[TRUE] + eventualConsistency[FALSE],
    closed <- {v \in VUs : Scenario[v] \in stopped}

EventualRefined == EventualAccount!Spec

\* kafka_event_order_consistency keeps the same contract for the
\* three-request sequence of testEventOrdering: one sample when the third
\* response is in, none for the first two, and the sequence always ends.
OrderAccount == INSTANCE IterationAccount WITH
    inFlight <- {v \in VUs : pc[v] = "order"},
    samples <- eventOrderConsistency[TRUE] + eventOrderConsistency[FALSE],
    closed <- {v \in VUs : Scenario[v] \in stopped}

OrderRefined == OrderAccount!Spec

\* Events the service has accepted, over all codes and users.
AcceptedEvents ==
    Cardinality({cu \in KafkaCodes \X EventUsers : requests[cu[1]][cu[2]] # "none"})

\* kafka_event_published, fed by three scenarios, never counts more events
\* than the service accepted: a duplicate (409) or a rejected publish is
\* never counted as a published event.
PublishedWithinAccepted == kafkaEventPublished <= AcceptedEvents

Publishers == {v \in VUs : Scenario[v] = "massive_event_publishing"}
Orderers == {v \in VUs : Scenario[v] = "event_ordering_test"}

\* Eventual consistency (spec.md section 4.3): a publishing VU records
\* true only after the consumer has really processed its event (granted
\* or sold out); a still-pending request is never reported consistent.
EventualTrueOnlyWhenProcessed ==
    \A v \in Publishers :
        verdict[v] = TRUE => requests[MASSIVE][user[v]] \in {"success", "soldout"}

\* Results the consumer has processed (granted or sold out) for the
\* publishing scenario's coupon.
ProcessedEvents ==
    Cardinality({u \in EventUsers : requests[MASSIVE][u] \in {"success", "soldout"}})

\* spec.md section 8 (Scenario E2E): a processed result adds one
\* kafka_result_event_received increment.  Across publishing VUs that
\* race each other and the consumer, the counter never exceeds the
\* results the consumer has processed: no result is counted twice and
\* no pending one is counted at all.
ResultsReceivedWithinProcessed == resultEventReceived <= ProcessedEvents

\* Poll termination: a publishing iteration that gave up while the result
\* was still unprocessed (200) or absent (404) made exactly maxPolls
\* polls, and never reports a TIMEOUT early.
PollTimeoutExact ==
    \A v \in Publishers :
        (verdict[v] = FALSE /\ resp[v] \in {{200}, {404}}) => pollCount[v] = MaxPolls

\* A finished ordering iteration flags an ordering failure only when one of the three
\* requests was answered by something other than 202 or 409: the
\* service's per-user dedup alone never makes it record false.
OrderAlarmOnlyOnError ==
    \A v \in Orderers :
        (pc[v] = "idle" /\ verdict[v] = FALSE) =>
            \E i \in DOMAIN orderResp[v] : orderResp[v][i] \notin {202, 409}
=============================================================================
