-------------------------- MODULE UserIdDerivation --------------------------
(***************************************************************************)
(* The user id testEventOrdering derives instead of drawing at random:     *)
(*   userId = 10000 + __VU * 100 + __ITER                                  *)
(* meant to be unique per VU and iteration, so that only the first of its  *)
(* three requests is new.  The state walks the inputs the way the          *)
(* per-vu-iterations executor hands them out: every iteration of every     *)
(* VU, one at a time.  __VU is k6's global VU number, so it ranges over    *)
(* the VUs of all scenarios.                                               *)
(***************************************************************************)
EXTENDS Naturals

CONSTANTS MaxVU,        \* VUs of all scenarios together (1500+100+200+50)
          Iterations    \* iterations of event_ordering_test per VU (10)

ASSUME MaxVU \in Nat \ {0} /\ Iterations \in Nat \ {0}

VARIABLES vu, iter

vars == <<vu, iter>>

\* Mutant: VU and iteration weights swapped.
OrderUserIdSwapped(v, i) == 10000 + v + i * 100

\* const userId = 10000 + (__VU * 100) + __ITER
OrderUserId(v, i) == 10000 + v * 100 + i

Init ==
    /\ vu = 1
    /\ iter = 0

\* The executor's next iteration: the VU's next __ITER, or the next VU.
NextIteration ==
    \/ iter < Iterations - 1 /\ iter' = iter + 1 /\ UNCHANGED vu
    \/ iter = Iterations - 1 /\ vu < MaxVU /\ vu' = vu + 1 /\ iter' = 0

\* The walk stops after the last input.
Spec == Init /\ [][NextIteration]_vars

-----------------------------------------------------------------------------
\* The reference decoding of an ordering id: the VU and the iteration it
\* was derived for, read back from its digits.
DecodeOrderId(id) == <<(id - 10000) \div 100, (id - 10000) % 100>>

\* Distinct ordering ids: the id of the current VU and iteration decodes
\* to exactly that VU and iteration, so no other VU or iteration of
\* testEventOrdering shares it and the dedup the test expects (first
\* request 202, the next two 409) is never triggered by another user.
OrderIdsDistinct == DecodeOrderId(OrderUserId(vu, iter)) = <<vu, iter>>
=============================================================================
