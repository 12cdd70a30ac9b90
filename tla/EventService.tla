---------------------------- MODULE EventService ----------------------------
(***************************************************************************)
(* The event-driven issuance path of the coupon service at its HTTP        *)
(* boundary (spec.md sections 4.4 and 6): POST /coupons/issue publishes an *)
(* issuance event and answers 202 with a requestId, a Kafka consumer later *)
(* processes it into a coupon or a sold-out result, and GET                *)
(* /coupons/result answers 404 until then.  A (user, code) has at most one *)
(* accepted request; a later publish is rejected 409 as a duplicate.  The  *)
(* service's code is not in src/: this module is written from the spec.    *)
(***************************************************************************)
EXTENDS Integers, FiniteSets

CONSTANTS Users, Codes, MaxCount

VARIABLES policies,   \* codes whose policy creation succeeded
          requests    \* [Codes -> [Users -> ReqStates]]

ReqStates == {"none", "pending", "success", "soldout"}

Granted(c) == {u \in Users : requests[c][u] = "success"}

\* The publish endpoint may answer st, having accepted the event or not.
\* A client-side timeout (status 0) may hide an accepted event.
PublishReply(c, u, st, accepted) ==
    LET fresh == c \in policies /\ requests[c][u] = "none" IN
    \/ st = 202 /\ accepted /\ fresh
    \/ st = 409 /\ ~accepted /\ requests[c][u] # "none"
    \/ st = 400 /\ ~accepted /\ c \notin policies
    \/ st = 500 /\ ~accepted
    \/ st = 0 /\ (accepted => fresh)

Accept(c, u, accepted) ==
    requests' = IF accepted THEN [requests EXCEPT ![c][u] = "pending"]
                            ELSE requests

\* The consumer processes a pending event: a coupon while stock lasts.
Consume(c, u) ==
    /\ requests[c][u] = "pending"
    /\ requests' = [requests EXCEPT ![c][u] =
                      IF Cardinality(Granted(c)) < MaxCount[c]
                        THEN "success" ELSE "soldout"]

\* What GET /coupons/result may show for u's request on c: the processed
\* result, 200 with processed = false or 404 while pending, or an error
\* (a non-200 status or a body without data).
ResultReply(c, u, r) ==
    \/ r = "notfound" /\ requests[c][u] \in {"none", "pending"}
    \/ r = "unprocessed" /\ requests[c][u] = "pending"
    \/ r = requests[c][u] /\ r \in {"success", "soldout"}
    \/ r = "error"

\* setup(): every policy POST may fail; its status is only logged.
CreatePolicies ==
    \E created \in SUBSET Codes : policies' = created

ResultKinds == {"success", "soldout", "unprocessed", "notfound", "error"}

EventServiceInit ==
    /\ policies = {}
    /\ requests = [c \in Codes |-> [u \in Users |-> "none"]]

EventServiceTypeOK ==
    /\ policies \subseteq Codes
    /\ requests \in [Codes -> [Users -> ReqStates]]
=============================================================================
