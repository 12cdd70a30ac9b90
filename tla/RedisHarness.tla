---------------------------- MODULE RedisHarness ----------------------------
(***************************************************************************)
(* src/src/main/resources/k6-tests/redis-async-coupon-test.js: three       *)
(* scenarios of virtual users against the queue-based issuance path.       *)
(*   queue_system_load    testRedisQueueSystem: enter the queue, then poll *)
(*                        the status every 2s, at most maxPolls times      *)
(*   status_polling_load  testAsyncStatusPolling: one status lookup        *)
(*   redis_failover_test  testRedisFailover: probe the status endpoint;    *)
(*                        on 200 enter the queue, on 500/503 fall back to  *)
(*                        the synchronous endpoint                         *)
(* A poll (sleep, GET and its branch), a probe, an entry and a fallback    *)
(* are one step each; the queue processor runs between them.  A metric    *)
(* step adds a set of at most one sample to a Rate.                        *)
(***************************************************************************)
EXTENDS Integers, FiniteSets

CONSTANTS RandomUsers,   \* user ids drawn by Math.random
          MaxCount,      \* [RedisCodes -> Nat]: maxCount of each test policy
          VUs,
          Scenario,      \* [VUs -> ScenarioNames]
          MaxPolls,      \* maxPolls of testRedisQueueSystem (20)
          MaxIter,       \* bound: iterations of a VU
          Nil            \* model value: no status or sample yet

ASYNC    == "REDIS_ASYNC_500"
QUEUE    == "REDIS_QUEUE_100"
FAILOVER == "REDIS_FAILOVER_50"
RedisCodes == {ASYNC, QUEUE, FAILOVER}

ScenarioNames == {"queue_system_load", "status_polling_load", "redis_failover_test"}

ASSUME /\ Scenario \in [VUs -> ScenarioNames]
       /\ MaxPolls \in Nat \ {0} /\ MaxIter \in Nat

VARIABLES phase, policies, entries,
          pc,            \* [VUs -> {"idle", "poll", "failover", "fallback"}]
          user, pollCount,
          lastStatus,    \* the VU's last status payload
          resp,          \* status of the VU's last issue request or probe
          iters, stopped,
          verdict,       \* last redis_data_consistency sample of the VU
          posVerdict,    \* last queue_position_accuracy sample of the VU
          successVerdict, \* last async_issuance_final_success sample
          redisQueueEntry, queuePositionAccuracy, redisDataConsistency,
          asyncIssuanceSuccess

vuVars == <<pc, user, pollCount, lastStatus, resp, iters, verdict, posVerdict,
            successVerdict>>
metrics == <<redisQueueEntry, queuePositionAccuracy, redisDataConsistency,
             asyncIssuanceSuccess>>
vars == <<phase, policies, entries, stopped, vuVars, metrics>>

Service == INSTANCE RedisService WITH Users <- RandomUsers, Codes <- RedisCodes

EntryStatuses == {0, 202, 404, 409, 500, 503}
SyncStatuses == {0, 200, 404, 409, 429, 500}

Count(b) == IF b THEN 1 ELSE 0

\* A Rate after adding the samples in S (at most one).
Observe(rate, S) == [b \in BOOLEAN |-> rate[b] + Count(b \in S)]

\* The VU's last sample, if this step adds one.
Note(f, v, S) == IF S = {} THEN f ELSE [f EXCEPT ![v] = CHOOSE b \in S : TRUE]

CanIterate(v) ==
    /\ phase = "run" /\ pc[v] = "idle"
    /\ Scenario[v] \notin stopped
    /\ iters[v] < MaxIter

Claim(v) == iters' = [iters EXCEPT ![v] = @ + 1]

\* setup(): create the three policies, failures only logged.
setup ==
    /\ phase = "setup"
    /\ Service!CreatePolicies
    /\ phase' = "run"
    /\ UNCHANGED <<entries, stopped>> /\ UNCHANGED vuVars /\ UNCHANGED metrics

StopScenario(s) ==
    /\ phase = "run"
    /\ s \notin stopped
    /\ stopped' = stopped \cup {s}
    /\ UNCHANGED <<phase, policies, entries>> /\ UNCHANGED vuVars
    /\ UNCHANGED metrics

\* The service's queue processor takes one waiting entry.
ProcessEntry ==
    /\ phase = "run"
    /\ \E c \in RedisCodes, u \in RandomUsers : Service!Process(c, u)
    /\ UNCHANGED <<phase, policies, stopped>> /\ UNCHANGED vuVars
    /\ UNCHANGED metrics

-----------------------------------------------------------------------------
(* testRedisQueueSystem                                                   *)

\* Mutant: a duplicate (409) counted as a queue entry.
EntryCountedDuplicate(st) == st \in {202, 409}

\* if (requestResponse.status === 202) redisQueueEntry.add(1)
EntryCounted(st) == st = 202

\* The entry and its branches (lines 86-115, 173-185): 202 with a
\* requestId enters the loop, a 202 without one throws into the catch,
\* 409 is a consistent duplicate, anything else an inconsistency.
testRedisQueueSystem(v) ==
    /\ CanIterate(v)
    /\ Scenario[v] = "queue_system_load"
    /\ \E u \in RandomUsers, st \in EntryStatuses, acc, wellFormed \in BOOLEAN :
         LET enters == st = 202 /\ wellFormed
             cs == IF enters THEN {} ELSE {st = 409}
         IN /\ Service!EntryReply(ASYNC, u, st, acc)
            /\ Service!Enter(ASYNC, u, acc)
            /\ wellFormed \/ st = 202
            /\ user' = [user EXCEPT ![v] = u]
            /\ resp' = [resp EXCEPT ![v] = st]
            /\ pc' = [pc EXCEPT ![v] = IF enters THEN "poll" ELSE "idle"]
            /\ pollCount' = [pollCount EXCEPT ![v] = 0]
            /\ lastStatus' = [lastStatus EXCEPT ![v] = Nil]
            /\ redisQueueEntry' = redisQueueEntry + Count(EntryCounted(st))
            /\ redisDataConsistency' = Observe(redisDataConsistency, cs)
            /\ verdict' = [verdict EXCEPT ![v] = IF enters THEN Nil ELSE st = 409]
            /\ successVerdict' = [successVerdict EXCEPT ![v] = Nil]
            /\ posVerdict' = [posVerdict EXCEPT ![v] = Nil]
    /\ Claim(v)
    /\ UNCHANGED <<phase, policies, stopped, queuePositionAccuracy, asyncIssuanceSuccess>>

\* Mutant: the loop gives up one poll early.
LoopContinuesEarly(n) == n < MaxPolls - 1

\* Mutant: the loop runs one poll too many.
LoopContinuesInclusive(n) == n <= MaxPolls

\* while (pollCount < maxPolls)
LoopContinues(n) == n < MaxPolls

\* Mutant: a sold-out counted as a successful issuance.
IsCompletedOrSoldOut(s) == s \in {"COMPLETED", "NOT_REQUESTED"}

\* if (status === 'COMPLETED')
IsCompleted(s) == s = "COMPLETED"

\* queuePos !== null && queuePos >= 0 (line 154); an absent position is
\* undefined, and undefined >= 0 is false.
PositionValid(pos) == pos = "rank"

\* Mutant: the timeout sample skipped once the budget is spent.
ReportsTimeoutBeforeBudget(final, n) == ~final /\ n < MaxPolls

\* if (finalStatus === null) after the loop
ReportsTimeout(final, n) == ~final

\* Mutant: the break after COMPLETED and NOT_REQUESTED left out.
PollExitsWithoutBreak(n, final, broke) == broke \/ ~LoopContinues(n)

\* The loop ends: a final status breaks out of it (lines 143, 150), a
\* 200 without data throws out of it, or the polls are used up.
PollExits(n, final, broke) == final \/ broke \/ ~LoopContinues(n)

\* One turn of the polling loop (lines 122-171): COMPLETED and
\* NOT_REQUESTED end it, WAITING and a non-200 status add a position
\* sample and go on, a 200 without data throws into the catch.
RedisPoll(v) ==
    /\ pc[v] = "poll"
    /\ \E r \in Service!StatusReplies :
         LET n == pollCount[v] + 1
             final == r.code = 200 /\ r.status \in {"COMPLETED", "NOT_REQUESTED"}
             broke == r.code = 200 /\ r.status = "NODATA"
             exits == PollExits(n, final, broke)
             timeout == ~broke /\ exits /\ ReportsTimeout(final, n)
             ps == IF r.code = 200 /\ r.status = "WAITING" THEN {PositionValid(r.pos)}
                   ELSE IF r.code # 200 THEN {FALSE} ELSE {}
             cs == IF final THEN {TRUE} ELSE IF broke \/ timeout THEN {FALSE} ELSE {}
             ss == IF final THEN {IsCompleted(r.status)} ELSE IF timeout THEN {FALSE} ELSE {}
         IN /\ Service!StatusReply(ASYNC, user[v], r)
            /\ pollCount' = [pollCount EXCEPT ![v] = n]
            /\ lastStatus' = [lastStatus EXCEPT ![v] = r]
            /\ pc' = [pc EXCEPT ![v] = IF exits THEN "idle" ELSE "poll"]
            /\ queuePositionAccuracy' = Observe(queuePositionAccuracy, ps)
            /\ redisDataConsistency' = Observe(redisDataConsistency, cs)
            /\ asyncIssuanceSuccess' = Observe(asyncIssuanceSuccess, ss)
            /\ posVerdict' = Note(posVerdict, v, ps)
            /\ verdict' = Note(verdict, v, cs)
            /\ successVerdict' = Note(successVerdict, v, ss)
    /\ UNCHANGED <<phase, policies, entries, user, resp, iters, stopped, redisQueueEntry>>

-----------------------------------------------------------------------------
(* testAsyncStatusPolling and testRedisFailover                           *)

\* status === 'WAITING' && queuePos !== null (line 221)
WaitingPositionPresent(pos) == pos # "null"

\* One lookup (lines 191-239): the check passes for a fast 200 whose data
\* has a string status; only then is a position sample added.
testAsyncStatusPolling(v) ==
    /\ CanIterate(v)
    /\ Scenario[v] = "status_polling_load"
    /\ \E u \in RandomUsers, r \in Service!StatusReplies, fast \in BOOLEAN :
         LET success == r.code = 200 /\ fast /\ r.status # "NODATA"
             ps == IF success
                   THEN {\/ r.status = "WAITING" /\ WaitingPositionPresent(r.pos)
                         \/ r.status \in {"COMPLETED", "NOT_REQUESTED"}}
                   ELSE {}
         IN /\ Service!StatusReply(QUEUE, u, r)
            /\ user' = [user EXCEPT ![v] = u]
            /\ lastStatus' = [lastStatus EXCEPT ![v] = r]
            /\ queuePositionAccuracy' = Observe(queuePositionAccuracy, ps)
            /\ posVerdict' = Note([posVerdict EXCEPT ![v] = Nil], v, ps)
            /\ redisDataConsistency' = Observe(redisDataConsistency, {success})
            /\ verdict' = [verdict EXCEPT ![v] = success]
    /\ Claim(v)
    /\ UNCHANGED <<phase, policies, entries, pc, pollCount, resp, stopped,
                   successVerdict, redisQueueEntry, asyncIssuanceSuccess>>

\* The health probe (lines 243-249, 275-278, 296-299): a 200 goes on to
\* the queue entry, 500 or 503 records an inconsistency and goes on to the
\* synchronous fallback, anything else records an inconsistency.
FailoverProbe(v) ==
    /\ CanIterate(v)
    /\ Scenario[v] = "redis_failover_test"
    /\ \E u \in RandomUsers, r \in Service!StatusReplies :
         LET cs == IF r.code = 200 THEN {} ELSE {FALSE} IN
         /\ Service!StatusReply(FAILOVER, u, r)
         /\ user' = [user EXCEPT ![v] = u]
         /\ resp' = [resp EXCEPT ![v] = r.code]
         /\ pc' = [pc EXCEPT ![v] = CASE r.code = 200 -> "failover"
                                      [] r.code \in {500, 503} -> "fallback"
                                      [] OTHER -> "idle"]
         /\ redisDataConsistency' = Observe(redisDataConsistency, cs)
         /\ verdict' = Note([verdict EXCEPT ![v] = Nil], v, cs)
    /\ Claim(v)
    /\ UNCHANGED <<phase, policies, entries, pollCount, lastStatus, stopped,
                   posVerdict, successVerdict, redisQueueEntry,
                   queuePositionAccuracy, asyncIssuanceSuccess>>

\* The queue entry after a healthy probe (lines 251-273): 202 is counted
\* as an entry, and every reply, 202 or not, as consistent.
FailoverIssue(v) ==
    /\ pc[v] = "failover"
    /\ \E st \in EntryStatuses, acc \in BOOLEAN :
         /\ Service!EntryReply(FAILOVER, user[v], st, acc)
         /\ Service!Enter(FAILOVER, user[v], acc)
         /\ resp' = [resp EXCEPT ![v] = st]
         /\ redisQueueEntry' = redisQueueEntry + Count(EntryCounted(st))
    /\ pc' = [pc EXCEPT ![v] = "idle"]
    /\ redisDataConsistency' = Observe(redisDataConsistency, {TRUE})
    /\ verdict' = [verdict EXCEPT ![v] = TRUE]
    /\ UNCHANGED <<phase, policies, user, pollCount, lastStatus, iters, stopped,
                   posVerdict, successVerdict, queuePositionAccuracy,
                   asyncIssuanceSuccess>>

\* Mutant: the fallback's reply recorded in redis_data_consistency too.
FallbackObserves(v) ==
    /\ pc[v] = "fallback"
    /\ \E st \in SyncStatuses, g \in BOOLEAN :
         /\ Service!SyncReply(FAILOVER, user[v], st, g)
         /\ Service!SyncGrant(FAILOVER, user[v], g)
         /\ resp' = [resp EXCEPT ![v] = st]
         /\ redisDataConsistency' = Observe(redisDataConsistency, {st = 200})
    /\ pc' = [pc EXCEPT ![v] = "idle"]
    /\ UNCHANGED <<phase, policies, user, pollCount, lastStatus, iters, stopped,
                   verdict, posVerdict, successVerdict>>
    /\ UNCHANGED <<redisQueueEntry, queuePositionAccuracy, asyncIssuanceSuccess>>

\* The synchronous fallback (lines 279-294): its reply is only checked.
Fallback(v) ==
    /\ pc[v] = "fallback"
    /\ \E st \in SyncStatuses, g \in BOOLEAN :
         /\ Service!SyncReply(FAILOVER, user[v], st, g)
         /\ Service!SyncGrant(FAILOVER, user[v], g)
         /\ resp' = [resp EXCEPT ![v] = st]
    /\ pc' = [pc EXCEPT ![v] = "idle"]
    /\ UNCHANGED <<phase, policies, user, pollCount, lastStatus, iters, stopped,
                   verdict, posVerdict, successVerdict>>
    /\ UNCHANGED metrics

-----------------------------------------------------------------------------
(* Scenario stop, teardown and the specification                          *)

\* k6 interrupts an iteration still polling when its scenario's time is
\* up and the 30s gracefulStop has passed (maxPolls sleeps of 2s plus 5s
\* lookups): nothing is recorded.  The failover's follow-up request (3s or
\* 10s timeout after a 2s probe) always finishes inside gracefulStop.
Abandon(v) ==
    /\ pc[v] = "poll"
    /\ Scenario[v] \in stopped
    /\ pc' = [pc EXCEPT ![v] = "idle"]
    /\ UNCHANGED <<phase, policies, entries, user, pollCount, lastStatus, resp,
                   iters, stopped, verdict, posVerdict, successVerdict>>
    /\ UNCHANGED metrics

ScenarioEnded(v) == Scenario[v] \in stopped \/ iters[v] = MaxIter

\* teardown(): GET each policy's DB status and Redis queue status, only logged.
teardown ==
    /\ phase = "run"
    /\ \A v \in VUs : pc[v] = "idle" /\ ScenarioEnded(v)
    /\ phase' = "teardown"
    /\ UNCHANGED <<policies, entries, stopped>> /\ UNCHANGED vuVars
    /\ UNCHANGED metrics

\* The k6 process has exited.
Finished == phase = "teardown" /\ UNCHANGED vars

Init ==
    /\ phase = "setup"
    /\ Service!RedisServiceInit
    /\ pc = [v \in VUs |-> "idle"]
    /\ user = [v \in VUs |-> CHOOSE u \in RandomUsers : TRUE]
    /\ pollCount = [v \in VUs |-> 0]
    /\ lastStatus = [v \in VUs |-> Nil]
    /\ resp = [v \in VUs |-> Nil]
    /\ iters = [v \in VUs |-> 0]
    /\ stopped = {}
    /\ verdict = [v \in VUs |-> Nil]
    /\ posVerdict = [v \in VUs |-> Nil]
    /\ successVerdict = [v \in VUs |-> Nil]
    /\ redisQueueEntry = 0
    /\ queuePositionAccuracy = [b \in BOOLEAN |-> 0]
    /\ redisDataConsistency = [b \in BOOLEAN |-> 0]
    /\ asyncIssuanceSuccess = [b \in BOOLEAN |-> 0]

Next ==
    \/ setup
    \/ \E s \in ScenarioNames : StopScenario(s)
    \/ ProcessEntry
    \/ \E v \in VUs :
         \/ testRedisQueueSystem(v)
         \/ RedisPoll(v)
         \/ testAsyncStatusPolling(v)
         \/ FailoverProbe(v)
         \/ FailoverIssue(v)
         \/ Fallback(v)
         \/ Abandon(v)
    \/ teardown
    \/ Finished

\* A VU in the polling loop or between probe and follow-up keeps going:
\* sleep returns and every request returns within its timeout.  The queue
\* processor gets no fairness: a stalled queue is what the timeout is for.
Fairness ==
    \A v \in VUs : /\ WF_vars(RedisPoll(v))
                   /\ WF_vars(FailoverIssue(v))
                   /\ WF_vars(Fallback(v))

Spec == Init /\ [][Next]_vars /\ Fairness

-----------------------------------------------------------------------------
(* Properties                                                             *)

TypeOK ==
    /\ phase \in {"setup", "run", "teardown"}
    /\ Service!RedisServiceTypeOK
    /\ pc \in [VUs -> {"idle", "poll", "failover", "fallback"}]
    /\ user \in [VUs -> RandomUsers]
    /\ pollCount \in [VUs -> 0..MaxPolls]
    /\ lastStatus \in [VUs -> Service!StatusReplies \cup {Nil}]
    /\ resp \in [VUs -> EntryStatuses \cup SyncStatuses \cup {200, Nil}]
    /\ iters \in [VUs -> 0..MaxIter]
    /\ stopped \subseteq ScenarioNames
    /\ verdict \in [VUs -> BOOLEAN \cup {Nil}]
    /\ posVerdict \in [VUs -> BOOLEAN \cup {Nil}]
    /\ successVerdict \in [VUs -> BOOLEAN \cup {Nil}]
    /\ redisQueueEntry \in Nat
    /\ queuePositionAccuracy \in [BOOLEAN -> Nat]
    /\ redisDataConsistency \in [BOOLEAN -> Nat]
    /\ asyncIssuanceSuccess \in [BOOLEAN -> Nat]

\* redis_data_consistency keeps the IterationAccount contract: a queue
\* entry that went on to poll, or a healthy probe that went on to the
\* queue entry, adds exactly one sample when it ends, and a polling loop
\* the scenario's stop abandons adds none; the polling loop always ends
\* although the queue may never be processed.  The fallback after a
\* failed probe follows a sample already added and adds none.
ConsistencyAccount == INSTANCE IterationAccount WITH
    inFlight <- {v \in VUs : pc[v] \in {"poll", "failover"}},
    samples <- redisDataConsistency[TRUE] + redisDataConsistency[FALSE],
    closed <- {v \in VUs : Scenario[v] \in stopped}

ConsistencyRefined == ConsistencyAccount!Spec

\* Entries the service has accepted, over all codes and users.
AcceptedEntries ==
    Cardinality({cu \in RedisCodes \X RandomUsers : entries[cu[1]][cu[2]] # "none"})

\* redis_queue_entry_success, fed by the queue and the failover
\* scenarios, never counts more entries than the service accepted: a
\* duplicate (409) is never counted as an entry.
EntriesWithinAccepted == redisQueueEntry <= AcceptedEntries

Queuers == {v \in VUs : Scenario[v] = "queue_system_load"}

\* A true async_issuance_final_success sample follows a coupon the queue
\* really granted to the VU's user; a sold-out or a still-waiting entry
\* never counts as a successful issuance.
SuccessOnlyWhenCompleted ==
    \A v \in Queuers :
        successVerdict[v] = TRUE => entries[ASYNC][user[v]] = "completed"

\* Entries of the queue scenario's coupon the queue processor granted.
CompletedEntries == Cardinality(Service!Completed(ASYNC))

\* Supply conservation seen from async_issuance_final_success (spec.md
\* section 8): over all queue VUs, racing each other and the queue
\* processor, the true samples never exceed the coupons the queue really
\* granted; a completed entry is reported once, however often it is
\* polled.
SuccessSamplesWithinCompleted == asyncIssuanceSuccess[TRUE] <= CompletedEntries

\* Poll termination (spec.md section 8): a queue iteration that recorded
\* an inconsistency while the entry was still WAITING made exactly
\* maxPolls polls: it neither gave up early nor polled once more.
PollTimeoutExact ==
    \A v \in Queuers :
        /\ pc[v] = "idle" /\ verdict[v] = FALSE
        /\ lastStatus[v] \in Service!StatusReplies
        /\ lastStatus[v].code = 200 /\ lastStatus[v].status = "WAITING"
        => pollCount[v] = MaxPolls

\* spec.md section 4.3: a transport or server error (non-200) stops the
\* polling with ERROR.  testRedisQueueSystem's loop only adds a position
\* sample and polls again (lines 161-164).
PollStopsOnError ==
    \A v \in Queuers :
        (pc[v] = "poll" /\ lastStatus[v] \in Service!StatusReplies)
            => lastStatus[v].code = 200

\* spec.md section 7: only a duplicate or sold-out is a consistent
\* business outcome.  testRedisFailover records true for any reply to its
\* queue entry, a 500 or a client timeout included (lines 266-273).
FailoverConsistentOnlyOnBusinessOutcome ==
    \A v \in VUs :
        (Scenario[v] = "redis_failover_test" /\ pc[v] = "idle" /\ verdict[v] = TRUE)
            => resp[v] \in {202, 409}
=============================================================================
