--------------------------- MODULE CouponService ---------------------------
(***************************************************************************)
(* The coupon-issuance service the k6 scripts drive, seen only at its HTTP *)
(* boundary (spec.md section 6).  Its Java source is not part of src/, so  *)
(* this module is written from the spec: a policy per coupon code with a   *)
(* maximum count, at most one coupon per (user, code), and every other     *)
(* reply (lock timeout, conflict, server error, a client-side timeout) as  *)
(* a nondeterministic refusal.  A client-side timeout (k6 status 0) may    *)
(* hide a grant the server completed after the client gave up.             *)
(***************************************************************************)
EXTENDS Integers, FiniteSets

CONSTANTS Users,      \* user ids the scripts draw with Math.random
          Codes,      \* coupon codes created by setup()
          MaxCount    \* [Codes -> Nat]: maxCount of each policy

VARIABLES policies,   \* codes whose POST /admin/coupon-policies succeeded
          issued      \* [Codes -> SUBSET Users]: users holding each coupon

Statuses == {0, 200, 202, 400, 404, 408, 409, 423, 429, 500, 503}

\* A request of u for c that the service would grant now.
Grantable(c, u) ==
    /\ c \in policies
    /\ u \notin issued[c]
    /\ Cardinality(issued[c]) < MaxCount[c]

\* The service may answer status st to u's issue request for c, having
\* granted a coupon (g) or not.  'refusals' are the transient statuses the
\* endpoint is documented to return besides 200 and 409.
CanReply(c, u, st, g, refusals) ==
    \/ st = 200 /\ g /\ Grantable(c, u)
    \/ st = 409 /\ ~g /\ c \in policies /\ ~Grantable(c, u)
    \/ st = 404 /\ ~g /\ c \notin policies
    \/ st \in refusals /\ ~g
    \/ st = 0 /\ (g => Grantable(c, u))

\* issued after granting u every code in G.
GrantAll(G, u) ==
    [c \in Codes |-> IF c \in G THEN issued[c] \cup {u} ELSE issued[c]]

\* setup(): every policy POST may fail; its status is only logged.
CreatePolicies ==
    \E created \in SUBSET Codes : policies' = created

ServiceInit ==
    /\ policies = {}
    /\ issued = [c \in Codes |-> {}]

ServiceTypeOK ==
    /\ policies \subseteq Codes
    /\ issued \in [Codes -> SUBSET Users]
=============================================================================
