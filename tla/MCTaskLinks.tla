---------------------------- MODULE MCTaskLinks ----------------------------
(***************************************************************************)
(* Three tasks and a bottom half on one VCPU.                              *)
(***************************************************************************)
EXTENDS TaskLinks

CONSTANTS sh, t2, t3, bh

MCTask == {sh, t2, t3, bh}
MCInitCpu == [t \in MCTask |-> 0]
=============================================================================
