-------------------------- MODULE MCSporadicServer --------------------------
(***************************************************************************)
(* A Main VCPU with a small capacity, period and replenishment queue.      *)
(***************************************************************************)
EXTENDS SporadicServer

\* The same server without an observation window: fewer states, for runs that
\* do not measure service.
UnobservedSpec == Init /\ [][Next /\ mark' = 0]_vars
=============================================================================
