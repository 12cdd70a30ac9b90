-------------------------- MODULE IterationAccount --------------------------
(***************************************************************************)
(* What a scenario function of the k6 scripts promises the consistency     *)
(* Rate (spec.md sections 3 and 7): every iteration of a virtual user that *)
(* runs to its end adds exactly one observation to the Rate, and an        *)
(* iteration the scenario's stop abandons adds none (it is CANCELLED,      *)
(* excluded from the rate).  Only a stopped scenario cancels, a stopped   *)
(* scenario begins no iteration, and every iteration that begins ends or  *)
(* is cancelled.                                                           *)
(***************************************************************************)
EXTENDS Naturals

CONSTANT VUs

VARIABLES inFlight,   \* virtual users in the middle of an iteration
          samples,    \* observations added to the Rate so far
          closed      \* virtual users whose scenario has stopped

vars == <<inFlight, samples, closed>>

Init ==
    /\ inFlight = {}
    /\ samples = 0
    /\ closed = {}

\* The scenario of the virtual users in S stops.
Stop(S) ==
    /\ closed' = closed \cup S
    /\ UNCHANGED <<inFlight, samples>>

\* An iteration that spans several steps starts.
Begin(v) ==
    /\ v \notin inFlight
    /\ v \notin closed
    /\ inFlight' = inFlight \cup {v}
    /\ UNCHANGED <<samples, closed>>

\* The iteration ends and reports once.
End(v) ==
    /\ v \in inFlight
    /\ inFlight' = inFlight \ {v}
    /\ samples' = samples + 1
    /\ UNCHANGED closed

\* An iteration done in one step reports once.
Whole(v) ==
    /\ v \notin inFlight
    /\ v \notin closed
    /\ samples' = samples + 1
    /\ UNCHANGED <<inFlight, closed>>

\* The scenario stops and abandons the iteration.
Cancel(v) ==
    /\ v \in inFlight \cap closed
    /\ inFlight' = inFlight \ {v}
    /\ UNCHANGED <<samples, closed>>

Next ==
    \/ \E S \in SUBSET VUs : Stop(S)
    \/ \E v \in VUs : Begin(v) \/ End(v) \/ Whole(v) \/ Cancel(v)

Spec ==
    /\ Init
    /\ [][Next]_vars
    /\ \A v \in VUs : WF_vars(End(v) \/ Cancel(v))
=============================================================================
