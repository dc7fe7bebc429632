------------------------------ MODULE MCTables ------------------------------
(***************************************************************************)
(* Frames and address spaces, the allocator of the kernel, the loader of   *)
(* modules, the ARP cache and IP reassembly, on small instances.  They do  *)
(* not share state, so a behaviour exercises one of them, chosen at the    *)
(* start, and leaves the others alone.                                     *)
(***************************************************************************)
EXTENDS AddressSpace, Pow2, Loader, Arp, Reass

VARIABLE which

vars == <<which, avars, pvars, lvars, cvars, rvars>>

\* Host 1 changes its Ethernet address; no two hosts have the same.
MCMacsOf == [h \in Hosts |-> IF h = 1 THEN {1, 2} ELSE {h + 1}]

\* Datagram 1 has four units and comes in quarters or in halves, the others have
\* two; a first fragment takes two pbufs.
Piece(id, start, end, len) ==
  [id |-> id, start |-> start, end |-> end, more |-> end # len,
   clen |-> IF start = 0 THEN 2 ELSE 1]
MCFragments ==
  {Piece(1, s, s + 1, 4) : s \in 0..3} \cup {Piece(1, s, s + 2, 4) : s \in {0, 2}}
  \cup {Piece(id, s, s + 1, 2) : s \in 0..1, id \in 2..4}

\* A program of one page, and one whose two headers share a page of the file,
\* with a bss and with a page of the file that is not loaded.
MCImages ==
  { [file |-> 1, load |-> << [at |-> 1, from |-> 0, n |-> 1, mem |-> 1] >>],
    [file |-> 3, load |-> << [at |-> 1, from |-> 0, n |-> 2, mem |-> 2],
                             [at |-> 3, from |-> 1, n |-> 1, mem |-> 2] >>] }

LIdle ==
  /\ deps = [m \in Module |-> <<>>] /\ works = {}
  /\ loaded = {} /\ next = 1 /\ stack = <<>>

Init ==
  /\ AInit /\ PInit /\ CInit /\ RInit
  /\ \/ which \in {"spaces", "blocks", "arp", "fragments"} /\ LIdle
     \/ which = "modules" /\ LInit

Next ==
  /\ \/ which = "spaces" /\ ANext /\ UNCHANGED <<pvars, lvars, cvars, rvars>>
     \/ which = "blocks" /\ PNext /\ UNCHANGED <<avars, lvars, cvars, rvars>>
     \/ which = "modules" /\ LNext /\ UNCHANGED <<avars, pvars, cvars, rvars>>
     \/ which = "arp" /\ CNext /\ UNCHANGED <<avars, pvars, lvars, rvars>>
     \/ which = "fragments" /\ RNext /\ UNCHANGED <<avars, pvars, lvars, cvars>>
  /\ UNCHANGED which

Spec == Init /\ [][Next]_vars

\* Type invariant: the component that runs keeps its type.
TypeOK ==
  /\ which = "spaces" => ATypeOK
  /\ which = "blocks" => PTypeOK
  /\ which = "modules" => LTypeOK
  /\ which = "arp" => CTypeOK
  /\ which = "fragments" => RTypeOK

\* Whatever sequence of system calls or packets came before, every frame is free
\* or in use by something that can release it (mem/physical.c), every packet the
\* ARP cache copied is on a queue that sends or frees it (etharp.c), and the
\* fragments that wait are counted, within the limits (ip_frag.c).
NothingLeaks ==
  /\ which = "spaces" => FramesAccounted
  /\ which = "arp" => QueuesAccounted
  /\ which = "fragments" => FragmentsAccounted
=============================================================================
