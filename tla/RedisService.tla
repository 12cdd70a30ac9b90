---------------------------- MODULE RedisService ----------------------------
(***************************************************************************)
(* The queue-based issuance path of the coupon service at its HTTP         *)
(* boundary (spec.md sections 4.4 and 6): POST /coupons/issue-async puts   *)
(* the user in a Redis waiting queue and answers 202 with a requestId; the *)
(* service later processes a waiting entry into a coupon or a sold-out;    *)
(* GET /coupons/issue-status answers WAITING (with a queue position),      *)
(* COMPLETED or NOT_REQUESTED.  POST /coupons/issue-sync is the database   *)
(* path the failover test falls back to; it grants from the same stock.   *)
(* The service's code is not in src/: this module is written from the     *)
(* spec.  The order in which the queue is drained is the service's own     *)
(* and is left open.                                                       *)
(***************************************************************************)
EXTENDS Integers, FiniteSets

CONSTANTS Users, Codes, MaxCount

VARIABLES policies,   \* codes whose policy creation succeeded
          entries     \* [Codes -> [Users -> EntryStates]]

EntryStates == {"none", "waiting", "completed", "soldout"}

Completed(c) == {u \in Users : entries[c][u] = "completed"}

\* The status payload: status and queuePosition.  A position is a
\* non-negative rank, null, absent, or negative; spec.md section 4.3 asks
\* the client to flag the last three.
Positions == {"rank", "null", "undefined", "negative"}
StatusReplies ==
    [code : {200}, status : {"WAITING"}, pos : Positions] \cup
    [code : {200}, status : {"COMPLETED", "NOT_REQUESTED", "NODATA"}, pos : {"null"}] \cup
    [code : {0, 500, 503}, status : {"NONE"}, pos : {"null"}]

\* Queue entry: 202 for a fresh entry of an existing policy, 409 for a
\* user already entered, a server error, or a client timeout that may
\* hide an entry.
EntryReply(c, u, st, accepted) ==
    LET fresh == c \in policies /\ entries[c][u] = "none" IN
    \/ st = 202 /\ accepted /\ fresh
    \/ st = 409 /\ ~accepted /\ entries[c][u] # "none"
    \/ st = 404 /\ ~accepted /\ c \notin policies
    \/ st \in {500, 503} /\ ~accepted
    \/ st = 0 /\ (accepted => fresh)

Enter(c, u, accepted) ==
    entries' = IF accepted THEN [entries EXCEPT ![c][u] = "waiting"] ELSE entries

\* The queue processor takes a waiting entry: a coupon while stock lasts.
Process(c, u) ==
    /\ entries[c][u] = "waiting"
    /\ entries' = [entries EXCEPT ![c][u] =
                     IF Cardinality(Completed(c)) < MaxCount[c]
                       THEN "completed" ELSE "soldout"]

\* What the status endpoint may answer for u on c; NODATA is a 200 whose
\* body has no data, an error is always possible.
StatusReply(c, u, r) ==
    \/ r.status = "WAITING" /\ entries[c][u] = "waiting"
    \/ r.status = "COMPLETED" /\ entries[c][u] = "completed"
    \/ r.status = "NOT_REQUESTED" /\ entries[c][u] \in {"none", "soldout"}
    \/ r.status \in {"NODATA", "NONE"}

\* The synchronous endpoint grants from the same stock.
SyncGrantable(c, u) ==
    /\ c \in policies
    /\ entries[c][u] = "none"
    /\ Cardinality(Completed(c)) < MaxCount[c]

SyncReply(c, u, st, granted) ==
    \/ st = 200 /\ granted /\ SyncGrantable(c, u)
    \/ st = 409 /\ ~granted /\ c \in policies /\ ~SyncGrantable(c, u)
    \/ st = 404 /\ ~granted /\ c \notin policies
    \/ st \in {429, 500} /\ ~granted
    \/ st = 0 /\ (granted => SyncGrantable(c, u))

SyncGrant(c, u, granted) ==
    entries' = IF granted THEN [entries EXCEPT ![c][u] = "completed"] ELSE entries

\* setup(): every policy POST may fail; its status is only logged.
CreatePolicies ==
    \E created \in SUBSET Codes : policies' = created

RedisServiceInit ==
    /\ policies = {}
    /\ entries = [c \in Codes |-> [u \in Users |-> "none"]]

RedisServiceTypeOK ==
    /\ policies \subseteq Codes
    /\ entries \in [Codes -> [Users -> EntryStates]]
=============================================================================
