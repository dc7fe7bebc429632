-------------------------------- MODULE Dhcp --------------------------------
(***************************************************************************)
(* The DHCP client that configures the network interface                   *)
(* (lwip/core/dhcp.c), with a server and a network that loses, repeats,    *)
(* delays and reorders messages.  Time is abstracted: a timer that is set  *)
(* may go off at any time.  Every fault, and every timeout that goes off   *)
(* before the answer it waits for, uses one of MaxFaults.                  *)
(*                                                                         *)
(* The handlers of the code call each other, so they are functions from    *)
(* the client's state to its next state; `mem' says whether pbuf_alloc in  *)
(* dhcp_create_request finds memory.                                       *)
(***************************************************************************)
EXTENDS Naturals, FiniteSets, FiniteSetsExt

CONSTANTS
  Addr,          \* addresses the server has; none is 0, IP_ADDR_ANY
  Xids,          \* transaction identifiers: more than can be in flight at once
  RequestTries,  \* a request is sent again after this many tries (5 in the code)
  RebindTries,   \* and a rebind request after this many (8 in the code)
  MaxFaults,     \* bound: faults of the network, the server and the timing
  MaxNoMem,      \* bound: allocations that fail
  MaxInFlight    \* bound: messages under way when a timer goes off

IP_ADDR_ANY == 0
MaxTries == RequestTries + RebindTries   \* tries saturates above both limits

VARIABLES
  dhcp,      \* the client, and the address and flag it gives the interface
  net,       \* messages under way
  acked,     \* history: addresses acknowledged since the client last gave one up
  faults, nomem

dvars == <<dhcp, net, acked, faults, nomem>>

DInit ==
  /\ dhcp = [state |-> "none", tries |-> 0, xid |-> 0, offered |-> IP_ADDR_ANY,
             request_timeout |-> FALSE, t1 |-> "spent", t2 |-> "spent",
             finite |-> TRUE, ip |-> IP_ADDR_ANY, up |-> FALSE]
  /\ net = {} /\ acked = {} /\ faults = 0 /\ nomem = 0

-----------------------------------------------------------------------------
(* What the functions of the code do to the client. *)

dhcp_set_state(d, s) ==
  IF d.state = s THEN d ELSE [d EXCEPT !.state = s, !.tries = 0]

\* A new transaction takes the next identifier; a retransmission keeps it.
NextXid(d) == Min({x \in Xids : x # d.xid /\ \A m \in net : m.xid # x})
dhcp_create_request(d, mem) ==
  IF mem /\ d.tries = 0 THEN [d EXCEPT !.xid = NextXid(d)] ELSE d

\* How every function that sends ends.
Tried(d) ==
  [d EXCEPT !.tries = Min({@ + 1, MaxTries}), !.request_timeout = TRUE]

Attempt(d, s, mem) == Tried(dhcp_create_request(dhcp_set_state(d, s), mem))

dhcp_discover(d, mem) == Attempt([d EXCEPT !.offered = IP_ADDR_ANY], "SELECTING", mem)
dhcp_select(d, mem) == Attempt(d, "REQUESTING", mem)
dhcp_renew(d, mem) == Attempt(d, "RENEWING", mem)
dhcp_rebind(d, mem) == Attempt(d, "REBINDING", mem)
dhcp_decline(d, mem) == Attempt(d, "BACKING_OFF", mem)
dhcp_check(d) == Tried(dhcp_set_state(d, "CHECKING"))

\* The timers are set for a lease that ends, and keep running otherwise.
dhcp_bind(d) ==
  LET t == [d EXCEPT !.t1 = IF d.finite THEN "set" ELSE @,
                     !.t2 = IF d.finite THEN "set" ELSE @]
  IN dhcp_set_state([t EXCEPT !.ip = d.offered, !.up = TRUE], "BOUND")

\* Its own message needs no answer, so an allocation that fails changes nothing.
dhcp_release(d) ==
  [Attempt([d EXCEPT !.offered = IP_ADDR_ANY, !.finite = TRUE], "OFF", TRUE)
     EXCEPT !.ip = IP_ADDR_ANY, !.up = FALSE]

dhcp_handle_nakKeepsAddress(d, mem) ==
  dhcp_discover(dhcp_set_state(d, "BACKING_OFF"), mem)

dhcp_handle_nak(d, mem) ==
  dhcp_discover(dhcp_set_state([d EXCEPT !.ip = IP_ADDR_ANY, !.up = FALSE], "BACKING_OFF"), mem)

\* The answers bring an address, and an acknowledgement a lease that ends or not.
dhcp_handle_offer(d, a, mem) == dhcp_select([d EXCEPT !.offered = a], mem)
dhcp_handle_ack(d, a, finite) == [d EXCEPT !.offered = a, !.finite = finite]

\* No client any more.
dhcp_stop(d) == [d EXCEPT !.state = "stopped"]

\* Sending, by the state the client is in after the functions above: the
\* address a message asks for is the offered one, or the interface's.
Message(d) ==
  CASE d.state = "SELECTING" -> {[type |-> "DISCOVER", xid |-> d.xid, addr |-> IP_ADDR_ANY]}
    [] d.state = "REQUESTING" -> {[type |-> "REQUEST", xid |-> d.xid, addr |-> d.offered]}
    [] d.state \in {"RENEWING", "REBINDING"} ->
         {[type |-> "REQUEST", xid |-> d.xid, addr |-> d.ip]}
    [] OTHER -> {}

-----------------------------------------------------------------------------
(* The steps of the client.  Becomes(d, rest, mem): the client is d now.   *)

NoMem(mem) == nomem' = IF mem THEN nomem ELSE nomem + 1

Becomes(d, rest, mem) ==
  /\ dhcp' = d
  /\ net' = rest \cup IF mem THEN Message(dhcp') ELSE {}
  /\ acked' = IF dhcp'.state = "SELECTING" THEN {} ELSE acked
  /\ NoMem(mem)

\* Some step that sends finds memory, or one of the failures allowed is used.
Memory == {TRUE} \cup IF nomem < MaxNoMem THEN {FALSE} ELSE {}

\* dhcp_start, called once for the interface.  Without memory it ends in
\* dhcp_stop, and the interface has no client.
dhcp_start ==
  /\ dhcp.state = "none"
  /\ \E mem \in Memory :
       IF mem
       THEN Becomes(dhcp_discover(dhcp, TRUE), net, TRUE)
       ELSE /\ dhcp' = dhcp_stop(dhcp)
            /\ NoMem(FALSE) /\ UNCHANGED <<net, acked>>
  /\ UNCHANGED faults

RetryRebindForever(d, mem) == dhcp_rebind(d, mem)
RetryRebindStaysOff(d, mem) ==
  IF d.tries <= RebindTries THEN dhcp_rebind(d, mem) ELSE dhcp_release(d)

RetryRebind(d, mem) ==
  IF d.tries <= RebindTries THEN dhcp_rebind(d, mem) ELSE dhcp_discover(dhcp_release(d), mem)

\* dhcp_timeout, called when request_timeout reaches 0.
dhcp_timeout(d, mem) ==
  CASE d.state \in {"BACKING_OFF", "SELECTING"} -> dhcp_discover(d, mem)
    [] d.state = "REQUESTING" ->
         IF d.tries <= RequestTries THEN dhcp_select(d, mem)
         ELSE dhcp_discover(dhcp_release(d), mem)
    [] d.state = "CHECKING" -> IF d.tries <= 1 THEN dhcp_check(d) ELSE dhcp_bind(d)
    [] d.state = "RENEWING" -> dhcp_renew(d, mem)
    [] d.state = "REBINDING" -> RetryRebind(d, mem)

\* No message of the current transaction is under way.
Silence == \A m \in net : m.xid # dhcp.xid

\* The fine timer goes off; before the answer is here, it uses a fault.
dhcp_fine_tmr ==
  /\ dhcp.request_timeout /\ Cardinality(net) <= MaxInFlight
  /\ \/ Silence /\ UNCHANGED faults
     \/ ~Silence /\ faults < MaxFaults /\ faults' = faults + 1
  /\ \E mem \in IF dhcp.state = "CHECKING" THEN {TRUE} ELSE Memory :
       Becomes(dhcp_timeout([dhcp EXCEPT !.request_timeout = FALSE], mem), net, mem)

\* A timer that went off wraps and goes off again after 45 days, a time only
\* spent in BOUND or RENEWING, and by then no answer is under way.
GoesOff(timer) == timer = "set" \/ (dhcp.state \in {"BOUND", "RENEWING"} /\ Silence)

\* The coarse timer: time to rebind or to renew, of this lease or of an older one.
dhcp_t2_timeout ==
  /\ GoesOff(dhcp.t2) /\ Cardinality(net) <= MaxInFlight
  /\ \E d \in {[dhcp EXCEPT !.t2 = "spent"]} :
       IF d.state \in {"REQUESTING", "BOUND", "RENEWING"}
       THEN \E mem \in Memory : Becomes(dhcp_rebind(d, mem), net, mem)
       ELSE dhcp' = d /\ UNCHANGED <<net, acked, nomem>>
  /\ UNCHANGED faults

dhcp_t1_timeout ==
  /\ GoesOff(dhcp.t1) /\ Cardinality(net) <= MaxInFlight
  /\ \E d \in {[dhcp EXCEPT !.t1 = "spent"]} :
       IF d.state \in {"REQUESTING", "BOUND", "RENEWING"}
       THEN \E mem \in Memory : Becomes(dhcp_renew(d, mem), net, mem)
       ELSE dhcp' = d /\ UNCHANGED <<net, acked, nomem>>
  /\ UNCHANGED faults

\* dhcp_arp_reply: another host has the address (a fault).
dhcp_arp_reply ==
  /\ dhcp.state = "CHECKING" /\ faults < MaxFaults
  /\ faults' = faults + 1
  /\ \E mem \in Memory : Becomes(dhcp_decline(dhcp, mem), net, mem)

\* dhcp_recv on message m; rest is what is left under way.
Answered(d) == [d EXCEPT !.request_timeout = FALSE]

dhcp_recv(m, rest) ==
  IF m.xid # dhcp.xid
  THEN net' = rest /\ UNCHANGED <<dhcp, acked, nomem>>
  ELSE CASE m.type = "ACK" /\ dhcp.state = "REQUESTING" ->
              \E finite \in BOOLEAN :
                Becomes(dhcp_check(dhcp_handle_ack(Answered(dhcp), m.addr, finite)), rest, TRUE)
         [] m.type = "ACK" /\ dhcp.state \in {"REBINDING", "RENEWING"} ->
              Becomes(dhcp_bind(Answered(dhcp)), rest, TRUE)
         [] m.type = "NAK" /\ dhcp.state \in {"REQUESTING", "REBINDING", "RENEWING"} ->
              \E mem \in Memory : Becomes(dhcp_handle_nak(Answered(dhcp), mem), rest, mem)
         [] m.type = "OFFER" /\ dhcp.state = "SELECTING" ->
              \E mem \in Memory :
                Becomes(dhcp_handle_offer(Answered(dhcp), m.addr, mem), rest, mem)
         [] OTHER -> net' = rest /\ UNCHANGED <<dhcp, acked, nomem>>

-----------------------------------------------------------------------------
(* The network and the server. *)

Reply(m, type, a) == [type |-> type, xid |-> m.xid, addr |-> a]

\* The server offers any address and grants what is asked for, or refuses (a
\* fault); it is silent about a request for no address.
Server(m, rest) ==
  /\ UNCHANGED <<dhcp, nomem>>
  /\ \/ /\ m.type = "DISCOVER"
        /\ \E a \in Addr : net' = rest \cup {Reply(m, "OFFER", a)}
        /\ UNCHANGED acked
     \/ /\ m.type = "REQUEST" /\ m.addr # IP_ADDR_ANY
        /\ net' = rest \cup {Reply(m, "ACK", m.addr)}
        /\ acked' = acked \cup {m.addr}
     \/ /\ m.type = "REQUEST" /\ m.addr = IP_ADDR_ANY
        /\ net' = rest /\ UNCHANGED acked

Refuse(m) ==
  /\ m.type = "REQUEST" /\ faults < MaxFaults
  /\ net' = (net \ {m}) \cup {Reply(m, "NAK", IP_ADDR_ANY)}
  /\ faults' = faults + 1
  /\ UNCHANGED <<dhcp, acked, nomem>>

\* A message arrives; one that is delivered twice stays under way.
Arrive(m, rest) == IF m.type \in {"DISCOVER", "REQUEST"} THEN Server(m, rest) ELSE dhcp_recv(m, rest)

Deliver == \E m \in net : Arrive(m, net \ {m}) /\ UNCHANGED faults

Duplicate == faults < MaxFaults /\ faults' = faults + 1 /\ \E m \in net : Arrive(m, net)

Lose ==
  /\ faults < MaxFaults /\ faults' = faults + 1
  /\ \E m \in net : net' = net \ {m}
  /\ UNCHANGED <<dhcp, acked, nomem>>

DNext ==
  \/ dhcp_start \/ dhcp_fine_tmr \/ dhcp_t2_timeout \/ dhcp_t1_timeout \/ dhcp_arp_reply
  \/ Deliver \/ Duplicate \/ Lose \/ \E m \in net : Refuse(m)

DSpec == DInit /\ [][DNext]_dvars

-----------------------------------------------------------------------------
\* Type invariant.
DTypeOK ==
  /\ dhcp \in [state : {"none", "stopped", "SELECTING", "REQUESTING", "CHECKING", "BOUND",
                        "RENEWING", "REBINDING", "BACKING_OFF"},
               tries : 0..MaxTries, xid : Xids \cup {0}, offered : Addr \cup {IP_ADDR_ANY},
               request_timeout : BOOLEAN, t1 : {"set", "spent"}, t2 : {"set", "spent"},
               finite : BOOLEAN, ip : Addr \cup {IP_ADDR_ANY}, up : BOOLEAN]
  /\ net \subseteq [type : {"DISCOVER", "REQUEST", "OFFER", "ACK", "NAK"},
                    xid : Xids, addr : Addr \cup {IP_ADDR_ANY}]
  /\ acked \subseteq Addr
  /\ faults \in 0..MaxFaults /\ nomem \in 0..MaxNoMem

\* The interface has an address and is up (dhcp_bind, dhcp.c:952) only while
\* the client holds a lease for it: the server acknowledged the address after
\* the client last gave one up, whatever answers were late, repeated or
\* refused, and whatever timers of an older lease went off meanwhile.
UsesOnlyGranted ==
  /\ dhcp.up <=> dhcp.ip # IP_ADDR_ANY
  /\ dhcp.up => dhcp.state \in {"BOUND", "RENEWING", "REBINDING"} /\ dhcp.ip \in acked
=============================================================================
