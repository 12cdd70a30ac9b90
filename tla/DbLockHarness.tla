--------------------------- MODULE DbLockHarness ---------------------------
(***************************************************************************)
(* src/src/main/resources/k6-tests/database-lock-coupon-test.js: three     *)
(* scenarios of virtual users (VUs) running against the coupon service,    *)
(* sharing its coupon stock and three metric sinks.                        *)
(*   distributed_optimistic_lock  testDistributedLock: one issue-sync call *)
(*   pure_optimistic_lock         testOptimisticLock: issue-optimistic     *)
(*                                with up to maxRetries attempts on 423    *)
(*   deadlock_simulation          testDeadlockScenario: a batch of two     *)
(*                                issue-sync calls for two codes           *)
(* Single-request iterations are one step (their 15s and 20s timeouts are  *)
(* inside k6's 30s graceful stop); the retry loop is a step per request    *)
(* and a step per reply, since k6 may abandon it when its scenario stops.  *)
(***************************************************************************)
EXTENDS Integers, FiniteSets

CONSTANTS Users,            \* user ids drawn by Math.random
          MaxCount,         \* [DbCodes -> Nat]: maxCount of each test policy
          VUs,              \* virtual users
          Scenario,         \* [VUs -> ScenarioNames]: the scenario of each VU
          MaxRetries,       \* maxRetries of testOptimisticLock (3)
          SharedIterations, \* iterations of the shared-iterations executor
          MaxIter,          \* bound: iterations of a ramping/constant VU
          NoVerdict         \* model value: no sample recorded yet

DB_LOCK  == "DB_LOCK_TEST_100"
OPTIMIST == "OPTIMISTIC_TEST_50"
DEADLOCK == "DEADLOCK_TEST_30"
DbCodes  == {DB_LOCK, OPTIMIST, DEADLOCK}

ScenarioNames == {"distributed_optimistic_lock", "pure_optimistic_lock",
                  "deadlock_simulation"}

ASSUME /\ Scenario \in [VUs -> ScenarioNames]
       /\ MaxRetries \in Nat \ {0}
       /\ SharedIterations \in Nat /\ MaxIter \in Nat

VARIABLES phase,                 \* "setup", "run", "teardown" of the k6 run
          policies, issued,      \* the service (CouponService)
          pc,                    \* [VUs -> {"idle", "attempt", "waiting"}]
          user,                  \* userId of testOptimisticLock's iteration
          retryCount,            \* testOptimisticLock's retryCount
          iters,                 \* iterations each VU has begun (__ITER)
          pool,                  \* iterations left in the shared pool
          stopped,               \* scenarios whose duration has ended
          resp,                  \* statuses of a VU's last response(s)
          verdict,               \* the dataConsistency sample of its last iteration
          successfulCouponIssue, \* Counter successful_coupon_issue_db_lock
          failedCouponIssue,     \* Counter failed_coupon_issue_db_lock
          dataConsistency        \* Rate coupon_data_consistency: [BOOLEAN -> Nat]

vars == <<phase, policies, issued, pc, user, retryCount, iters, pool, stopped,
          resp, verdict, successfulCouponIssue, failedCouponIssue,
          dataConsistency>>
vuVars == <<pc, user, retryCount, iters, pool, resp, verdict>>
metrics == <<successfulCouponIssue, failedCouponIssue, dataConsistency>>

Service == INSTANCE CouponService WITH Codes <- DbCodes

SyncReplies       == {0, 200, 404, 408, 409, 429, 500}
SyncRefusals      == {408, 429, 500}
OptimisticReplies == {0, 200, 404, 409, 423, 500}
OptimisticRefusals == {423, 500}

-----------------------------------------------------------------------------
(* Scheduling: the executors configured in options.scenarios.             *)

\* The VU's executor hands it another iteration.
CanIterate(v) ==
    /\ phase = "run"
    /\ pc[v] = "idle"
    /\ Scenario[v] \notin stopped
    /\ \/ Scenario[v] = "pure_optimistic_lock" /\ pool > 0
       \/ Scenario[v] # "pure_optimistic_lock" /\ iters[v] < MaxIter

Claim(v) ==
    /\ iters' = [iters EXCEPT ![v] = @ + 1]
    /\ pool' = IF Scenario[v] = "pure_optimistic_lock" THEN pool - 1 ELSE pool

\* One observation of coupon_data_consistency, remembered as v's verdict.
Record(v, ok) ==
    /\ dataConsistency' = [dataConsistency EXCEPT ![ok] = @ + 1]
    /\ verdict' = [verdict EXCEPT ![v] = ok]

Count(b) == IF b THEN 1 ELSE 0

\* setup(): create the three test policies; failures are only logged.
setup ==
    /\ phase = "setup"
    /\ Service!CreatePolicies
    /\ phase' = "run"
    /\ UNCHANGED <<issued, stopped>> /\ UNCHANGED vuVars /\ UNCHANGED metrics

\* A scenario reaches its duration (or maxDuration): no new iterations.
StopScenario(s) ==
    /\ phase = "run"
    /\ s \notin stopped
    /\ stopped' = stopped \cup {s}
    /\ UNCHANGED <<phase, policies, issued>> /\ UNCHANGED vuVars
    /\ UNCHANGED metrics

-----------------------------------------------------------------------------
(* testDistributedLock: a single issue-sync request, classified.          *)

\* Mutant: a 409 (sold out or duplicate) counted as a successful issue.
SyncCountsSoldOut(st) == st \in {200, 409}

SyncSucceeded(st) == st = 200

testDistributedLock(v) ==
    /\ CanIterate(v)
    /\ Scenario[v] = "distributed_optimistic_lock"
    /\ \E u \in Users, st \in SyncReplies, g \in BOOLEAN :
         /\ Service!CanReply(DB_LOCK, u, st, g, SyncRefusals)
         /\ issued' = Service!GrantAll(IF g THEN {DB_LOCK} ELSE {}, u)
         /\ resp' = [resp EXCEPT ![v] = {st}]
         /\ successfulCouponIssue' = successfulCouponIssue + Count(SyncSucceeded(st))
         /\ failedCouponIssue' = failedCouponIssue + Count(st \notin {200, 409, 429})
         /\ Record(v, st \in {200, 409})
    /\ Claim(v)
    /\ UNCHANGED <<phase, policies, pc, user, retryCount, stopped>>

-----------------------------------------------------------------------------
(* testOptimisticLock: the retry loop of lines 143-197.                   *)

\* retryCount++ on a 423 conflict.
NextRetry(rc) == rc + 1

\* Mutants: the exhaustion test off by one in either direction.
ExhaustedLate(rc) == rc > MaxRetries
ExhaustedEarly(rc) == rc >= MaxRetries - 1

\* retryCount >= maxRetries: the conflict exhausted the budget.
Exhausted(rc) == rc >= MaxRetries

\* Mutant: the loop condition off by one.
LoopContinuesInclusive(rc) == rc <= MaxRetries

\* while (retryCount < maxRetries)
LoopContinues(rc) == rc < MaxRetries

\* Mutant: a 409 counted as a successful issue.
OptimisticCountsSoldOut(st) == st \in {200, 409}

OptimisticSucceeded(st) == st = 200

\* Mutant: a 404 (no such coupon) taken as a business outcome.
BusinessOutcomeWithNotFound(st) == st \in {200, 404, 409}

\* The two statuses that break out of the loop as consistent (lines 164-174).
BusinessOutcome(st) == st \in {200, 409}

\* The iteration picks its userId and enters the loop.
OptimisticBegin(v) ==
    /\ CanIterate(v)
    /\ Scenario[v] = "pure_optimistic_lock"
    /\ \E u \in Users : user' = [user EXCEPT ![v] = u]
    /\ retryCount' = [retryCount EXCEPT ![v] = 0]
    /\ pc' = [pc EXCEPT ![v] = "attempt"]
    /\ resp' = [resp EXCEPT ![v] = {}]
    /\ verdict' = [verdict EXCEPT ![v] = NoVerdict]
    /\ Claim(v)
    /\ UNCHANGED <<phase, policies, issued, stopped>> /\ UNCHANGED metrics

\* http.post to issue-optimistic (after the backoff sleep, if any).
OptimisticSend(v) ==
    /\ pc[v] = "attempt"
    /\ pc' = [pc EXCEPT ![v] = "waiting"]
    /\ UNCHANGED <<phase, policies, issued, user, retryCount, iters, pool,
                   stopped, resp, verdict>> /\ UNCHANGED metrics

\* The reply and the branch of the loop body it selects.
OptimisticReply(v) ==
    /\ pc[v] = "waiting"
    /\ \E st \in OptimisticReplies, g \in BOOLEAN :
         /\ Service!CanReply(OPTIMIST, user[v], st, g, OptimisticRefusals)
         /\ issued' = Service!GrantAll(IF g THEN {OPTIMIST} ELSE {}, user[v])
         /\ resp' = [resp EXCEPT ![v] = {st}]
         /\ \/ /\ BusinessOutcome(st)                     \* success or sold out: break
               /\ successfulCouponIssue' = successfulCouponIssue + Count(OptimisticSucceeded(st))
               /\ Record(v, TRUE)
               /\ pc' = [pc EXCEPT ![v] = "idle"]
               /\ UNCHANGED <<retryCount, failedCouponIssue>>
            \/ /\ st = 423                                \* conflict
               /\ LET rc == NextRetry(retryCount[v]) IN
                  /\ retryCount' = [retryCount EXCEPT ![v] = rc]
                  /\ IF Exhausted(rc)
                       THEN /\ failedCouponIssue' = failedCouponIssue + 1
                            /\ Record(v, FALSE)
                       ELSE UNCHANGED <<failedCouponIssue, dataConsistency, verdict>>
                  /\ pc' = [pc EXCEPT ![v] = IF LoopContinues(rc) THEN "attempt" ELSE "idle"]
               /\ UNCHANGED successfulCouponIssue
            \/ /\ ~BusinessOutcome(st) /\ st # 423        \* system error: break
               /\ failedCouponIssue' = failedCouponIssue + 1
               /\ Record(v, FALSE)
               /\ pc' = [pc EXCEPT ![v] = "idle"]
               /\ UNCHANGED <<retryCount, successfulCouponIssue>>
    /\ UNCHANGED <<phase, policies, user, iters, pool, stopped>>

\* k6 ends the stopped scenario's iteration after its graceful stop; a
\* request already sent may still be granted by the service.
Abandon(v) ==
    /\ phase = "run"
    /\ Scenario[v] \in stopped
    /\ pc[v] \in {"attempt", "waiting"}
    /\ \E g \in BOOLEAN :
         /\ g => pc[v] = "waiting" /\ Service!Grantable(OPTIMIST, user[v])
         /\ issued' = Service!GrantAll(IF g THEN {OPTIMIST} ELSE {}, user[v])
    /\ pc' = [pc EXCEPT ![v] = "idle"]
    /\ UNCHANGED <<phase, policies, user, retryCount, iters, pool, stopped,
                   resp, verdict>> /\ UNCHANGED metrics

-----------------------------------------------------------------------------
(* testDeadlockScenario: http.batch of two issue-sync requests for one    *)
(* user; the service serves them concurrently, each for its own code.      *)

BatchCodes == {DEADLOCK, DB_LOCK}

\* deadlockDetected: some response of the batch was 408 or 500.
DeadlockDetected(r) == \E c \in BatchCodes : r[c] \in {408, 500}

testDeadlockScenario(v) ==
    /\ CanIterate(v)
    /\ Scenario[v] = "deadlock_simulation"
    /\ \E u \in Users, r \in [BatchCodes -> SyncReplies], G \in SUBSET BatchCodes :
         /\ \A c \in BatchCodes : Service!CanReply(c, u, r[c], c \in G, SyncRefusals)
         /\ issued' = Service!GrantAll(G, u)
         /\ resp' = [resp EXCEPT ![v] = {r[c] : c \in BatchCodes}]
         /\ successfulCouponIssue' =
               successfulCouponIssue + Cardinality({c \in BatchCodes : r[c] = 200})
         /\ Record(v, ~DeadlockDetected(r))
    /\ Claim(v)
    /\ UNCHANGED <<phase, policies, pc, user, retryCount, stopped, failedCouponIssue>>

-----------------------------------------------------------------------------
(* teardown(): runs once every scenario has ended; it only reads the      *)
(* admin status endpoint and logs.                                        *)

ScenarioEnded(v) ==
    \/ Scenario[v] \in stopped
    \/ Scenario[v] = "pure_optimistic_lock" /\ pool = 0
    \/ Scenario[v] # "pure_optimistic_lock" /\ iters[v] = MaxIter

teardown ==
    /\ phase = "run"
    /\ \A v \in VUs : pc[v] = "idle" /\ ScenarioEnded(v)
    /\ phase' = "teardown"
    /\ UNCHANGED <<policies, issued, stopped>> /\ UNCHANGED vuVars
    /\ UNCHANGED metrics

\* The k6 process has exited.
Finished == phase = "teardown" /\ UNCHANGED vars

Init ==
    /\ phase = "setup"
    /\ Service!ServiceInit
    /\ pc = [v \in VUs |-> "idle"]
    /\ user = [v \in VUs |-> CHOOSE u \in Users : TRUE]
    /\ retryCount = [v \in VUs |-> 0]
    /\ iters = [v \in VUs |-> 0]
    /\ pool = SharedIterations
    /\ stopped = {}
    /\ resp = [v \in VUs |-> {}]
    /\ verdict = [v \in VUs |-> NoVerdict]
    /\ successfulCouponIssue = 0
    /\ failedCouponIssue = 0
    /\ dataConsistency = [b \in BOOLEAN |-> 0]

Next ==
    \/ setup
    \/ \E s \in ScenarioNames : StopScenario(s)
    \/ \E v \in VUs :
         \/ testDistributedLock(v)
         \/ OptimisticBegin(v)
         \/ OptimisticSend(v)
         \/ OptimisticReply(v)
         \/ Abandon(v)
         \/ testDeadlockScenario(v)
    \/ teardown
    \/ Finished

\* Each VU is its own goroutine in k6: a VU inside the retry loop keeps
\* sending after its backoff and every request returns within its timeout.
Fairness ==
    \A v \in VUs : WF_vars(OptimisticSend(v)) /\ WF_vars(OptimisticReply(v))

Spec == Init /\ [][Next]_vars /\ Fairness

-----------------------------------------------------------------------------
(* Properties                                                             *)

TypeOK ==
    /\ phase \in {"setup", "run", "teardown"}
    /\ Service!ServiceTypeOK
    /\ pc \in [VUs -> {"idle", "attempt", "waiting"}]
    /\ user \in [VUs -> Users]
    /\ retryCount \in [VUs -> 0..MaxRetries]
    /\ iters \in [VUs -> Nat]
    /\ pool \in 0..SharedIterations
    /\ stopped \subseteq ScenarioNames
    /\ resp \in [VUs -> SUBSET Service!Statuses]
    /\ verdict \in [VUs -> BOOLEAN \cup {NoVerdict}]
    /\ successfulCouponIssue \in Nat /\ failedCouponIssue \in Nat
    /\ dataConsistency \in [BOOLEAN -> Nat]

\* Coupons the service has granted, over all codes.
IssuedTotal == Cardinality({cu \in DbCodes \X Users : cu[2] \in issued[cu[1]]})

\* Supply conservation seen from the harness (spec.md section 8): the
\* successful_coupon_issue_db_lock counter, fed by three scenarios and two
\* endpoints, never counts more successes than the service granted, so it
\* never exceeds the total maxCount of the policies.
SuccessesWithinIssued == successfulCouponIssue <= IssuedTotal

\* The consistency Rate's contract (IterationAccount): every finished
\* iteration of every scenario adds exactly one coupon_data_consistency
\* sample, an abandoned one adds none, and an iteration in the retry loop
\* eventually finishes or is abandoned.
Account == INSTANCE IterationAccount WITH
    inFlight <- {v \in VUs : pc[v] # "idle"},
    samples <- dataConsistency[TRUE] + dataConsistency[FALSE],
    closed <- {v \in VUs : Scenario[v] \in stopped}

AccountRefined == Account!Spec

\* The coupon codes each scenario's requests name.
ScenarioCodes == [distributed_optimistic_lock |-> {DB_LOCK},
                  pure_optimistic_lock |-> {OPTIMIST},
                  deadlock_simulation |-> BatchCodes]

\* setup() only logs a failed policy creation and the scenarios still run
\* (lines 67-73).  Against a coupon that does not exist every request is
\* refused (404), and an iteration must then never report consistent: a
\* true coupon_data_consistency sample implies its coupons exist.
NoConsistencyWithoutPolicy ==
    \A v \in VUs : verdict[v] = TRUE => ScenarioCodes[Scenario[v]] \subseteq policies

\* Retry termination (spec.md sections 4.2 and 8): an iteration of
\* testOptimisticLock that gave up on a 423 conflict made exactly
\* maxRetries attempts, neither fewer nor more.
RetriesExhaustedExactly ==
    \A v \in VUs :
        (verdict[v] = FALSE /\ resp[v] = {423}) => retryCount[v] = MaxRetries

\* spec.md section 7: a system error or a timeout is reported as a
\* failure, never as consistent; only 200 and 409 are business outcomes.
\* testDeadlockScenario counts a 429 or a status-0 transport timeout as
\* consistent (lines 242-257).
ConsistentOnlyOnBusinessOutcome ==
    \A v \in VUs : verdict[v] = TRUE => resp[v] \subseteq {200, 409}
=============================================================================
