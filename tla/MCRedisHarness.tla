-------------------------- MODULE MCRedisHarness --------------------------
(***************************************************************************)
(* Model-checking instances of RedisHarness.  Every policy is scaled down  *)
(* to one coupon and there are two random users, so that a grant, a        *)
(* sold-out and a duplicate entry all happen.                              *)
(*   queue:    two VUs of queue_system_load racing on one coupon while     *)
(*             the queue processor may stall                               *)
(*   failover: a VU of redis_failover_test running two iterations and one  *)
(*             of status_polling_load                                      *)
(***************************************************************************)
EXTENDS RedisHarness, TLC

CONSTANTS a1, a2, f1, s1, u1, u2

MCUsers == {u1, u2}
MCMaxCount == [c \in RedisCodes |-> 1]

QueueVUs == {a1, a2}
QueueScenario == [v \in QueueVUs |-> "queue_system_load"]

FailoverVUs == {f1, s1}
FailoverScenario == (f1 :> "redis_failover_test") @@ (s1 :> "status_polling_load")
=============================================================================
