-------------------------------- MODULE Arp --------------------------------
(***************************************************************************)
(* The ARP cache (lwip/netif/etharp.c): a table of address mappings that   *)
(* age, with a queue of packets on every mapping that is not resolved yet, *)
(* and a recycling rule for when the table is full.                        *)
(*                                                                         *)
(* The kernel lock serializes the callers, so a function that the rest of  *)
(* the kernel calls is one action.  Packets are numbered in the order they *)
(* are handed to etharp_output.  The variables heard and astray are        *)
(* history: what the hosts announced and what became of the packets.       *)
(*                                                                         *)
(* The code never reads the fields of an empty entry nor the Ethernet      *)
(* address of a pending one; here they have fixed values.                  *)
(***************************************************************************)
EXTENDS Naturals, Sequences, FiniteSets, FiniteSetsExt, Functions

CONSTANTS
  Hosts,               \* IP addresses of the local network
  MacsOf,              \* the Ethernet addresses each of them may have over time
  Gateway,             \* a host; packets for other networks go to it
  ARP_TABLE_SIZE,      \* 10 in the code
  ARP_MAXAGE,          \* 240 in the code
  ARP_MAXPENDING,      \* 2 in the code
  MEMP_NUM_ARP_QUEUE,  \* 30 in the code
  MaxPackets           \* bound: packets handed to etharp_output

\* The addresses of the network are not 0.0.0.0, and an entry that waits for an
\* answer is given up no later than one that has it (etharp.c:68, 76).
ASSUME ArpAssumption ==
  /\ 0 \notin Hosts /\ Gateway \in Hosts /\ DOMAIN MacsOf = Hosts
  /\ ARP_TABLE_SIZE \in Nat \ {0} /\ ARP_MAXAGE \in Nat /\ ARP_MAXPENDING \in 1 .. ARP_MAXAGE

Entries == 0..(ARP_TABLE_SIZE - 1)
ERR_MEM == ARP_TABLE_SIZE   \* no entry
Elsewhere == 0              \* an address of another network: not in Hosts

VARIABLES
  arp_table,            \* [state, ipaddr, ethaddr, ctime, q]
  etharp_cached_entry,
  arp_queue,            \* elements in use of the pool MEMP_ARP_QUEUE
  copies,               \* pbufs in use for queued packets
  packets,              \* packets handed to etharp_output
  heard,                \* what a host announced last, if not too long ago: [mac, age]
  astray                \* a packet was sent elsewhere, or before an older one

cvars == <<arp_table, etharp_cached_entry, arp_queue, copies, packets, heard, astray>>

Macs == UNION Range(MacsOf)
NoMac == 0                  \* not in Macs

Empty == [state |-> "EMPTY", ipaddr |-> Elsewhere, ethaddr |-> NoMac, ctime |-> 0, q |-> << >>]

CInit ==
  /\ arp_table = [i \in Entries |-> Empty]
  /\ etharp_cached_entry = 0
  /\ arp_queue = 0 /\ copies = 0 /\ packets = 0
  /\ heard = [h \in Hosts |-> [mac |-> NoMac, age |-> ARP_MAXAGE]]
  /\ astray = FALSE

-----------------------------------------------------------------------------
(* find_entry *)

In(state) == {i \in Entries : arp_table[i].state = state}
Queueing == {i \in In("PENDING") : arp_table[i].q # << >>}
Known(ip) == {i \in Entries \ In("EMPTY") : arp_table[i].ipaddr = ip}

\* The oldest entry, and of several the last: the sweep compares with >=.
Oldest(S) ==
  CHOOSE i \in S : \A j \in S \ {i} :
    \/ arp_table[j].ctime < arp_table[i].ctime
    \/ arp_table[j].ctime = arp_table[i].ctime /\ j < i

\* The least destructive entry to recycle.
Recycle ==
  IF In("EMPTY") # {} THEN Min(In("EMPTY"))
  ELSE IF In("STABLE") # {} THEN Oldest(In("STABLE"))
  ELSE IF In("PENDING") \ Queueing # {} THEN Oldest(In("PENDING") \ Queueing)
  ELSE Oldest(Queueing)

CacheHitAnyAddress(ip) == arp_table[etharp_cached_entry].state = "STABLE"

CacheHit(ip) ==
  /\ arp_table[etharp_cached_entry].state = "STABLE"
  /\ arp_table[etharp_cached_entry].ipaddr = ip

\* The entry found or recycled for the address.
find_entry(ip, tryhard) ==
  IF CacheHit(ip) THEN etharp_cached_entry
  ELSE IF Known(ip) # {} THEN Min(Known(ip))
  ELSE IF In("EMPTY") = {} /\ ~tryhard THEN ERR_MEM
  ELSE Recycle

\* It was in use for another address, or not at all.
IsNew(ip, i) == ~CacheHit(ip) /\ Known(ip) = {}

DroppedPacketsNone(ip, i) == 0

\* free_etharp_q: the packets a recycled entry loses.
DroppedPackets(ip, i) == IF IsNew(ip, i) /\ i \in Queueing THEN Len(arp_table[i].q) ELSE 0

\* The entry as find_entry leaves it.
Found(ip, i) ==
  IF IsNew(ip, i)
  THEN [Empty EXCEPT !.ipaddr = ip, !.q = IF i \in Queueing THEN << >> ELSE arp_table[i].q]
  ELSE arp_table[i]

-----------------------------------------------------------------------------
(* Sending and receiving *)

\* etharp_send_ip for the packets ns, in this order, after the table was updated.
SendTo(ip, mac, ns) ==
  astray' =
    \/ astray
    \/ /\ ns # << >>
       /\ \/ mac # heard'[ip].mac
          \/ \E k \in 2..Len(ns) : ns[k] < ns[k - 1]
          \/ \E i \in Entries : LET q == arp_table'[i].q IN
               arp_table'[i].ipaddr = ip /\ q # << >> /\ q[1] < ns[Len(ns)]

\* Entry i becomes e; n elements and packets are freed, m copied and queued.
SetEntry(i, e, n, m) ==
  /\ arp_table' = [arp_table EXCEPT ![i] = e]
  /\ etharp_cached_entry' = i
  /\ arp_queue' = arp_queue - n + m /\ copies' = copies - n + m

\* Packet n for a pending entry: it waits there unless memory or the pool is
\* short, and then it is lost.
QueuePacket(i, e, n, drop) ==
  \/ arp_queue - drop < MEMP_NUM_ARP_QUEUE /\ SetEntry(i, [e EXCEPT !.q = Append(@, n)], drop, 1)
  \/ SetEntry(i, e, drop, 0)

\* etharp_query for the packets ns, one or none.
etharp_query(ip, ns) ==
  LET i == find_entry(ip, TRUE)
      f == Found(ip, i)
      e == [f EXCEPT !.state = IF @ = "EMPTY" THEN "PENDING" ELSE @]
  IN /\ UNCHANGED heard
     /\ \/ /\ e.state = "STABLE" /\ SetEntry(i, e, DroppedPackets(ip, i), 0)
           /\ SendTo(ip, e.ethaddr, ns)
        \/ /\ e.state = "PENDING" /\ UNCHANGED astray
           /\ IF ns = << >> THEN SetEntry(i, e, DroppedPackets(ip, i), 0)
              ELSE QueuePacket(i, e, ns[1], DroppedPackets(ip, i))

\* etharp_output to a host of this network, or to another through the gateway.
etharp_output(ip) ==
  /\ packets < MaxPackets
  /\ packets' = packets + 1
  /\ etharp_query(IF ip \in Hosts THEN ip ELSE Gateway, <<packets'>>)

\* dhcp_check asks for an address without a packet.
dhcp_query(ip) == etharp_query(ip, << >>) /\ UNCHANGED packets

update_arp_entryLate(ip, mac, tryhard) ==
  LET i == find_entry(ip, tryhard)
      f == Found(ip, i)
  IN IF i = ERR_MEM
     THEN UNCHANGED <<arp_table, etharp_cached_entry, arp_queue, copies, astray>>
     ELSE /\ SetEntry(i, [f EXCEPT !.state = "STABLE", !.ethaddr = mac, !.ctime = 0],
                    DroppedPackets(ip, i), 0)
          /\ SendTo(ip, mac, << >>)

\* The mapping is recorded and the packets that wait for it are sent.
update_arp_entry(ip, mac, tryhard) ==
  LET i == find_entry(ip, tryhard)
      f == Found(ip, i)
  IN IF i = ERR_MEM
     THEN UNCHANGED <<arp_table, etharp_cached_entry, arp_queue, copies, astray>>
     ELSE /\ SetEntry(i, [f EXCEPT !.state = "STABLE", !.ethaddr = mac, !.ctime = 0, !.q = << >>],
                    DroppedPackets(ip, i) + Len(f.q), 0)
          /\ SendTo(ip, mac, f.q)

\* A host announces its address in an ARP message, for us or not, or with an
\* IP packet.
Announce(ip, mac, tryhard) ==
  /\ heard' = [heard EXCEPT ![ip] = [mac |-> mac, age |-> 0]]
  /\ update_arp_entry(ip, mac, tryhard)
  /\ UNCHANGED packets

etharp_arp_input(ip, mac) == \E for_us \in BOOLEAN : Announce(ip, mac, for_us)
etharp_ip_input(ip, mac) == Announce(ip, mac, FALSE)

-----------------------------------------------------------------------------
(* Ageing *)

Expired(i) ==
  \/ i \in In("STABLE") /\ arp_table[i].ctime + 1 >= ARP_MAXAGE
  \/ i \in In("PENDING") /\ arp_table[i].ctime + 1 >= ARP_MAXPENDING

Aged(i) ==
  CASE Expired(i) -> Empty
    [] i \in In("EMPTY") -> arp_table[i]
    [] OTHER -> [arp_table[i] EXCEPT !.ctime = @ + 1]

etharp_tmr ==
  LET lost == MapThenSumSet(LAMBDA i : Len(arp_table[i].q), {i \in Entries : Expired(i)})
  IN /\ arp_table' = [i \in Entries |-> Aged(i)]
     /\ arp_queue' = arp_queue - lost /\ copies' = copies - lost
     /\ heard' = [h \in Hosts |-> IF heard[h].age + 1 >= ARP_MAXAGE
                                   THEN [mac |-> NoMac, age |-> ARP_MAXAGE]
                                   ELSE [heard[h] EXCEPT !.age = @ + 1]]
     /\ UNCHANGED <<etharp_cached_entry, packets, astray>>

CNext ==
  \/ \E ip \in Hosts \cup {Elsewhere} : etharp_output(ip)
  \/ \E ip \in Hosts : dhcp_query(ip)
  \/ \E ip \in Hosts : \E mac \in MacsOf[ip] : etharp_arp_input(ip, mac) \/ etharp_ip_input(ip, mac)
  \/ etharp_tmr

CSpec == CInit /\ [][CNext]_cvars

-----------------------------------------------------------------------------
\* Type invariant.
CTypeOK ==
  /\ arp_table \in [Entries -> [state : {"EMPTY", "PENDING", "STABLE"}, ipaddr : Hosts \cup {Elsewhere},
                                ethaddr : Macs \cup {NoMac}, ctime : 0..ARP_MAXAGE,
                                q : UNION {[1..n -> 1..MaxPackets] : n \in 0..MEMP_NUM_ARP_QUEUE}]]
  /\ etharp_cached_entry \in Entries
  /\ arp_queue \in 0..MEMP_NUM_ARP_QUEUE /\ copies \in 0..MaxPackets /\ packets \in 0..MaxPackets
  /\ heard \in [Hosts -> [mac : Macs \cup {NoMac}, age : 0..ARP_MAXAGE]]
  /\ astray \in BOOLEAN

\* A host has one entry at most (find_entry, etharp.c:230), an entry that is
\* resolved has what the host announced last, less than ARP_MAXAGE ticks ago
\* (update_arp_entry, etharp_tmr), and no packet was sent to another Ethernet
\* address or overtook an older one for the same host (etharp.c:513, 951).
MappingsCurrent ==
  /\ \A ip \in Hosts : \A i, j \in Known(ip) : i = j
  /\ \A i \in In("STABLE") :
       /\ arp_table[i].ethaddr = heard[arp_table[i].ipaddr].mac
       /\ arp_table[i].ctime = heard[arp_table[i].ipaddr].age /\ arp_table[i].ctime < ARP_MAXAGE
  /\ ~astray

\* "no queued packets should exist on stable entries" (etharp.c:371) nor on
\* empty ones, so every queue element and every copied packet is on the queue
\* of an entry that can still send or free it: none leaks.
QueuesAccounted ==
  /\ \A i \in Entries : arp_table[i].q # << >> => arp_table[i].state = "PENDING"
  /\ arp_queue = MapThenSumSet(LAMBDA i : Len(arp_table[i].q), Entries)
  /\ copies = arp_queue
=============================================================================
