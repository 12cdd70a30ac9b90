-------------------------- MODULE MCKafkaHarness --------------------------
(***************************************************************************)
(* Model-checking instances of KafkaHarness.  Every policy is scaled down  *)
(* to one coupon and there are two random users, so that a grant, a        *)
(* sold-out result and a duplicate publish all happen.                     *)
(*   publish: two VUs of massive_event_publishing, each publishing and     *)
(*            polling, racing the consumer                                 *)
(*   order:   a VU of event_ordering_test running two iterations           *)
(*   lookup:  a VU of result_polling_load and one of partition_balancing,  *)
(*            both feeding the shared kafka_event_published and            *)
(*            kafka_eventual_consistency sinks                             *)
(***************************************************************************)
EXTENDS KafkaHarness, TLC

CONSTANTS p1, p2, r1, q1, b1, u1, u2

MCUsers == {u1, u2}
MCMaxCount == [c \in KafkaCodes |-> 1]

PublishVUs == {p1, p2}
PublishScenario == [v \in PublishVUs |-> "massive_event_publishing"]

OrderVUs == {r1}
OrderScenario == r1 :> "event_ordering_test"

LookupVUs == {q1, b1}
LookupScenario == (q1 :> "result_polling_load") @@ (b1 :> "partition_balancing")
=============================================================================
