----------------------------- MODULE MCDevices -----------------------------
(***************************************************************************)
(* The two disk drivers that sleep and the DHCP client, on small           *)
(* instances.  They do not share state, so a behaviour exercises one of    *)
(* them, chosen at the start, and leaves the other two alone.              *)
(***************************************************************************)
EXTENDS Ata, Umsc, Dhcp

VARIABLE which

vars == <<which, tvars, uvars, dvars>>

Init == which \in {"ata", "umsc", "dhcp"} /\ TInit /\ UInit /\ DInit

AtaDoes(A) == which = "ata" /\ A /\ UNCHANGED <<which, uvars, dvars>>
UmscDoes(A) == which = "umsc" /\ A /\ UNCHANGED <<which, tvars, dvars>>
DhcpDoes(A) == which = "dhcp" /\ A /\ UNCHANGED <<which, tvars, uvars>>

Next == AtaDoes(TNext) \/ UmscDoes(UNext) \/ DhcpDoes(DNext)

\* A task that is runnable runs, a device finishes what it began, an
\* interrupt and a timer are served, a message that is not lost arrives.  The
\* rebind timer counts down whatever else happens, so it is strongly fair.
Fairness ==
  /\ \A t \in Readers : WF_vars(AtaDoes(TStep(t)))
  /\ WF_vars(AtaDoes(IrqHandler)) /\ WF_vars(AtaDoes(Device))
  /\ \A t \in Clients : WF_vars(UmscDoes(UStep(t)))
  /\ WF_vars(UmscDoes(BeginTransfer)) /\ WF_vars(UmscDoes(EndOfTransfer))
  /\ WF_vars(DhcpDoes(dhcp_fine_tmr)) /\ WF_vars(DhcpDoes(Deliver))
  /\ WF_vars(DhcpDoes(dhcp_t1_timeout)) /\ SF_vars(DhcpDoes(dhcp_t2_timeout))

Spec == Init /\ [][Next]_vars /\ Fairness

-----------------------------------------------------------------------------
\* Type invariant: each component keeps its type.
TypeOK == TTypeOK /\ UTypeOK /\ DTypeOK

\* A disk read gives the sector its caller asked for: see AtaReadsOwnSector
\* and UmscReadsOwnSector for what the two drivers promise.
ReadsOwnSector == AtaReadsOwnSector /\ UmscReadsOwnSector

\* A task that reads a sector (ata_drive_read_sector, _atapi_drive_read_sector,
\* umsc_read_sector) returns in the end: a reader that queued for the
\* controller is woken, and an owner's interrupt is never lost.
EveryReadCompletes ==
  /\ \A t \in Readers : at[t] # "out" ~> at[t] = "out"
  /\ \A t \in Clients : stage[t] # "out" ~> stage[t] = "out"

\* Once the client has started (dhcp_start, dhcp.c:582) it always gets, or
\* gets back to, a bound address, when no more than MaxFaults things go wrong.
EventuallyBound == (dhcp.state \notin {"none", "stopped"}) ~> (dhcp.state = "BOUND")
=============================================================================
