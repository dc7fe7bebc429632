---------------------------- MODULE MCVcpuSched ----------------------------
(* Model-checking instances of VcpuSched. *)
EXTENDS VcpuSched, TLC

CONSTANTS p0, p1, t1, t2, t3

\* Two Main VCPUs and one I/O VCPU, dealt out to the PCPUs in turn by vcpu_init.
MCHome == [v \in Vcpu |-> IF v % 2 = 0 THEN p0 ELSE p1]
MCInitT == [v \in Vcpu |-> IF v \in MainVcpu THEN 2 ELSE 1]
MCSymmetry == Permutations({t2, t3})
=============================================================================
