-------------------------- MODULE MCDbLockHarness --------------------------
(***************************************************************************)
(* Model-checking instances of DbLockHarness.  Every policy is scaled down *)
(* to one coupon and there are two users, so that sold-out and duplicate   *)
(* replies happen.                                                         *)
(*   optimistic: two VUs of pure_optimistic_lock racing on the shared      *)
(*               iteration pool and on OPTIMISTIC_TEST_50                  *)
(*   sync:       a VU of distributed_optimistic_lock and one of            *)
(*               deadlock_simulation, both issuing DB_LOCK_TEST_100        *)
(***************************************************************************)
EXTENDS DbLockHarness, TLC

CONSTANTS d1, o1, o2, k1, u1, u2

MCUsers == {u1, u2}
MCMaxCount == [c \in DbCodes |-> 1]

OptimisticVUs == {o1, o2}
OptimisticScenario == [v \in OptimisticVUs |-> "pure_optimistic_lock"]

SyncVUs == {d1, k1}
SyncScenario == (d1 :> "distributed_optimistic_lock") @@ (k1 :> "deadlock_simulation")
=============================================================================
