----------------------------- MODULE MCIoServer -----------------------------
(***************************************************************************)
(* An I/O VCPU with small numbers for its utilisation and its periods.     *)
(***************************************************************************)
EXTENDS IoServer
=============================================================================
