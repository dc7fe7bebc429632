------------------------------ MODULE IoProof ------------------------------
(***************************************************************************)
(* Theorems about the I/O VCPU that the bottom halves of the drivers run   *)
(* on, for every utilisation, every set of inherited periods and every     *)
(* bound on lateness and skew, and about the ARP cache that the network    *)
(* driver fills, for any number of hosts, table entries and packets.       *)
(***************************************************************************)
EXTENDS IoServer, Arp, DataLemmas

-----------------------------------------------------------------------------
(* The I/O VCPU.                                                           *)

\* What the invariants need besides: an active or replenished VCPU has been
\* unblocked once, which gave it an eligibility time after 0, the value that
\* stands for `no replenishment'.
Started == (running \/ runnable \/ v.rt # 0) => v.e > 0

PendingIsWorthwhile == v.rt # 0 => v.rb > 0

\* A VCPU that never served a job is not `budgeted' either.
Unbudgeted == ~running /\ ~runnable => ~v.budgeted

\* The inductive invariant.
IInv ==
  /\ TypeOK /\ Started /\ PendingIsWorthwhile /\ Unbudgeted
  /\ BudgetOrReplenishment /\ IdleIsReset

\* The quotients of io_vcpu_end_timeslice and io_vcpu_unblock.
LEMMA Quotients ==
  /\ \A t \in Periods \cup {Uden} : Cmax(t) \in Nat /\ Cmax(t) > 0
  /\ \A u \in Nat : (u * Uden) \div Unum \in Nat
<1>1. ASSUME NEW t \in Periods \cup {Uden} PROVE Cmax(t) \in Nat /\ Cmax(t) > 0
  <2>1. t \in Nat /\ t * Unum \in Nat /\ t * Unum >= Uden /\ Uden \in Nat /\ Uden > 0
    BY <1>1, IoAssumption
  <2>2. \A x \in Nat : x >= Uden => x \div Uden \in Nat /\ x \div Uden > 0
    BY <2>1
  <2> QED BY <2>1, <2>2 DEF Cmax
<1>2. ASSUME NEW u \in Nat PROVE (u * Uden) \div Unum \in Nat
  <2>1. u * Uden \in Nat BY <1>2, IoAssumption
  <2>2. \A x \in Nat : x \div Unum \in Nat BY IoAssumption
  <2> QED BY <2>1, <2>2
<1> QED BY <1>1, <1>2

Fields == [b : Nat, usage : Nat, e : Nat, rt : Nat, rb : Nat, budgeted : BOOLEAN]

Bounded(c) == \E p \in Periods \cup {Uden} : c <= Cmax(p)

\* A consistent VCPU: what TypeOK, Started and PendingIsWorthwhile say of v.
Consistent(w) ==
  /\ w \in Fields /\ Bounded(w.b) /\ Bounded(w.rb)
  /\ w.rt # 0 => w.rb > 0 /\ w.e > 0

Funded(w) == w.b > 0 <=> w.rt = 0

\* io_vcpu_update_replenishments turns a pending replenishment into budget.
LEMMA UpdateLemma ==
  ASSUME NEW w, Consistent(w), NEW tcur \in Nat
  PROVE  /\ Consistent(Update(w, tcur))
         /\ Update(w, tcur).e = w.e
         /\ Funded(w) => Funded(Update(w, tcur))
         /\ w.rt # 0 /\ w.rt <= tcur => Funded(Update(w, tcur))
<1>1. CASE w.rt # 0 /\ w.rt <= tcur
  <2> DEFINE x == [w EXCEPT !.b = w.rb]
  <2>1. x \in Fields /\ x.b = w.rb /\ x.rb = w.rb /\ x.e = w.e
    BY DEF Consistent, Fields
  <2>2. Update(w, tcur) = [x EXCEPT !.rt = 0]
    BY <1>1 DEF Update
  <2> HIDE DEF x
  <2>3. /\ Update(w, tcur) \in Fields /\ Update(w, tcur).b = w.rb /\ Update(w, tcur).rb = w.rb
        /\ Update(w, tcur).e = w.e /\ Update(w, tcur).rt = 0
    BY <2>1, <2>2 DEF Fields
  <2> QED BY <1>1, <2>3 DEF Consistent, Funded
<1>2. CASE ~(w.rt # 0 /\ w.rt <= tcur)
  <2>1. Update(w, tcur) = w BY <1>2 DEF Update
  <2> QED BY <1>2, <2>1
<1> QED BY <1>1, <1>2

\* io_vcpu_end_timeslice leaves an active VCPU with budget or a replenishment,
\* and resets one that blocked.
LEMMA EndLemma ==
  ASSUME IInv, running, NEW delta \in Nat
  PROVE  /\ Consistent(EndTimeslice(v, delta)) /\ Funded(EndTimeslice(v, delta))
         /\ EndTimeslice(v, delta).e > 0
         /\ ~runnable => /\ ~EndTimeslice(v, delta).budgeted
                         /\ EndTimeslice(v, delta).b = 0
                         /\ EndTimeslice(v, delta).usage = 0
<1> DEFINE used == v.usage + delta
           e    == v.e + (used * Uden) \div Unum
           w    == EndTimeslice(v, delta)
           rb   == IF v.rt = 0 THEN Cmax(T) ELSE v.rb
<1> SUFFICES /\ Consistent(w) /\ Funded(w) /\ w.e > 0
             /\ ~runnable => ~w.budgeted /\ w.b = 0 /\ w.usage = 0
  OBVIOUS
<1>1. /\ v \in Fields /\ Bounded(v.b) /\ Bounded(v.rb) /\ v.e > 0 /\ Funded(v)
      /\ v.rt # 0 => v.rb > 0
  BY DEF IInv, TypeOK, Fields, Bounded, Started, BudgetOrReplenishment, Funded
<1>2. used \in Nat /\ e \in Nat /\ e > 0
  <2>1. used \in Nat BY <1>1 DEF Fields
  <2>2. (used * Uden) \div Unum \in Nat BY <2>1, Quotients
  <2> HIDE DEF used
  <2> QED BY <1>1, <2>1, <2>2 DEF Fields
<1>3. rb \in Nat /\ rb > 0 /\ Bounded(rb)
  <2>1. T \in Periods \cup {Uden} BY DEF IInv, TypeOK
  <2>2. Cmax(T) \in Nat /\ Cmax(T) > 0 /\ Bounded(Cmax(T)) BY <2>1, Quotients DEF Bounded
  <2> QED BY <1>1, <2>2 DEF Fields
<1>4. Bounded(0) BY Quotients DEF Bounded
<1>5. CASE runnable /\ Maximum(v.b - delta, 0) > 0
  <2>1. /\ Maximum(v.b - delta, 0) \in Nat /\ Maximum(v.b - delta, 0) <= v.b /\ v.b > 0
    BY <1>1, <1>5 DEF Fields, Maximum
  <2> DEFINE x == [v EXCEPT !.b = Maximum(v.b - delta, 0)]
  <2>2. x \in Fields /\ x.b = Maximum(v.b - delta, 0) /\ x.rb = v.rb /\ x.e = v.e /\ x.rt = v.rt
    BY <1>1, <2>1 DEF Fields
  <2>4. w = [x EXCEPT !.usage = used] BY <1>5 DEF EndTimeslice
  <2>3. Bounded(Maximum(v.b - delta, 0))
    <3>1. PICK p \in Periods \cup {Uden} : v.b <= Cmax(p) BY <1>1 DEF Bounded
    <3>2. Cmax(p) \in Nat BY Quotients
    <3> QED BY <2>1, <3>1, <3>2, <1>1 DEF Bounded, Fields
  <2> HIDE DEF used, w, x
  <2>5. w \in Fields /\ w.b = x.b /\ w.rb = v.rb /\ w.e = v.e /\ w.rt = v.rt
    BY <1>2, <2>2, <2>4 DEF Fields
  <2> QED BY <1>1, <1>5, <2>1, <2>2, <2>3, <2>5 DEF Consistent, Funded
<1>6. CASE ~(runnable /\ Maximum(v.b - delta, 0) > 0)
  <2>1. w = [b |-> 0, usage |-> 0, e |-> e, rt |-> e, rb |-> rb,
             budgeted |-> v.budgeted /\ runnable]
    BY <1>6 DEF EndTimeslice, Advance
  <2>2. runnable \in BOOLEAN /\ v.budgeted \in BOOLEAN BY <1>1 DEF IInv, TypeOK, Fields
  <2> HIDE DEF used, e, rb, w
  <2>3. w \in Fields /\ w.b = 0 /\ w.usage = 0 /\ w.e = e /\ w.rt = e /\ w.rb = rb
    BY <1>2, <1>3, <2>1, <2>2 DEF Fields
  <2>4. ~runnable => ~w.budgeted BY <2>1
  <2> QED BY <1>2, <1>3, <1>4, <2>3, <2>4 DEF Consistent, Funded
<1> QED BY <1>5, <1>6

\* io_vcpu_unblock of an idle VCPU posts a replenishment, at once or at its
\* eligibility time, whichever is later.
LEMMA UnblockLemma ==
  ASSUME IInv, ~running, ~runnable, NEW t \in Periods \cup {Uden}, NEW clk \in Nat, clk >= now
  PROVE  /\ Consistent(Unblock(v, t, now)) /\ Unblock(v, t, now).e > 0
         /\ \/ Funded(Unblock(v, t, now))
            \/ Unblock(v, t, now).rt # 0 /\ Unblock(v, t, now).rt <= clk
<1> DEFINE w == Unblock(v, t, now)
           e == IF ~v.budgeted /\ v.e < now THEN now ELSE v.e
<1> SUFFICES Consistent(w) /\ w.e > 0 /\ (Funded(w) \/ (w.rt # 0 /\ w.rt <= clk))
  OBVIOUS
<1>2. now \in Nat /\ now > 0 BY DEF IInv, TypeOK
<1>3. v \in Fields /\ Bounded(v.b) BY DEF IInv, TypeOK, Fields, Bounded
<1>4. Cmax(t) \in Nat /\ Cmax(t) > 0 /\ Bounded(Cmax(t)) BY Quotients DEF Bounded
<1>5. ~v.budgeted BY DEF IInv, Unbudgeted
<1>6. e \in Nat /\ e > 0 /\ (v.e = 0 => e = now) BY <1>2, <1>3, <1>5 DEF Fields
<1>7. w = [b |-> v.b, usage |-> v.usage, e |-> e, rt |-> IF v.rt = 0 THEN e ELSE v.rt,
           rb |-> Cmax(t), budgeted |-> TRUE]
  BY <1>5 DEF Unblock
<1> HIDE DEF w, e
<1>8. /\ w \in Fields /\ w.b = v.b /\ w.e = e /\ w.rb = Cmax(t)
      /\ w.rt = IF v.rt = 0 THEN e ELSE v.rt
  BY <1>3, <1>4, <1>6, <1>7 DEF Fields
<1>9. CASE v.e = 0
  <2>1. v.rt = 0 BY <1>9 DEF IInv, Started
  <2> QED BY <1>2, <1>3, <1>4, <1>6, <1>8, <1>9, <2>1 DEF Consistent
<1>10. CASE v.e # 0
  <2>1. v.b = 0 BY <1>3, <1>10 DEF IInv, IdleIsReset, Fields
  <2> QED BY <1>3, <1>4, <1>6, <1>8, <2>1 DEF Consistent, Funded, Fields
<1> QED BY <1>9, <1>10

LEMMA InitIInv ==
  Init => IInv
<1> SUFFICES ASSUME Init PROVE IInv OBVIOUS
<1>1. v \in Fields /\ v.b = Unum /\ v.rb = 0 /\ v.rt = 0 /\ v.e = 0 /\ ~v.budgeted
  BY IoAssumption DEF Init, Fields
<1>2. Unum <= Cmax(Uden)
  <2>1. Uden \in Nat /\ Uden > 0 /\ Unum \in Nat BY IoAssumption
  <2>2. (Uden * Unum) \div Uden = Unum BY <2>1
  <2> QED BY <2>1, <2>2 DEF Cmax
<1>3. Cmax(Uden) \in Nat BY Quotients
<1>4. MaxTime >= 1 BY IoAssumption
<1>5. /\ \E p \in Periods \cup {Uden} : v.b <= Cmax(p)
      /\ \E p \in Periods \cup {Uden} : v.rb <= Cmax(p)
  BY <1>1, <1>2, <1>3
<1>6. TypeOK
  <2>1. /\ now = 1 /\ tprev = 1 /\ T = Uden /\ mark = 0 /\ served = 0
        /\ running \in BOOLEAN /\ runnable \in BOOLEAN /\ missed \in BOOLEAN
    BY DEF Init
  <2>2. now \in 1 .. MaxTime /\ tprev \in 1 .. now /\ mark \in 0 .. now /\ served \in Nat
    BY <1>4, <2>1, IoAssumption
  <2>3. T \in Periods \cup {Uden} BY <2>1
  <2> QED BY <1>1, <1>5, <2>1, <2>2, <2>3 DEF TypeOK, Fields
<1>7. Started /\ PendingIsWorthwhile /\ Unbudgeted /\ BudgetOrReplenishment /\ IdleIsReset
  BY <1>1
  DEF Init, Started, PendingIsWorthwhile, Unbudgeted, BudgetOrReplenishment, IdleIsReset
<1> QED BY <1>6, <1>7 DEF IInv

\* What a step has to establish, in terms of the VCPU it leaves behind.
LEMMA StepLemma ==
  ASSUME IInv,
         now' \in now .. MaxTime, tprev' \in 1 .. now', T' \in Periods \cup {Uden},
         running' \in BOOLEAN, runnable' \in BOOLEAN, mark' \in 0 .. now', served' \in Nat,
         missed' \in BOOLEAN,
         Consistent(v'),
         running' \/ runnable' => Funded(v') /\ v'.e > 0,
         ~running' /\ ~runnable' => ~v'.budgeted /\ (v'.e > 0 => v'.b = 0 /\ v'.usage = 0)
  PROVE  IInv'
<1>1. TypeOK' BY DEF IInv, TypeOK, Consistent, Fields, Bounded, Cmax
<1>2. Started' /\ PendingIsWorthwhile' BY DEF Started, PendingIsWorthwhile, Consistent
<1>3. Unbudgeted' /\ IdleIsReset' BY DEF Unbudgeted, IdleIsReset
<1>4. BudgetOrReplenishment' BY DEF BudgetOrReplenishment, Consistent, Funded
<1> QED BY <1>1, <1>2, <1>3, <1>4 DEF IInv

\* The invariant as hypotheses of the hook lemmas.
LEMMA StateFacts ==
  ASSUME IInv
  PROVE  /\ now \in 1 .. MaxTime /\ tprev \in 1 .. now /\ mark \in 0 .. now /\ served \in Nat
         /\ T \in Periods \cup {Uden} /\ MaxTime \in Nat
         /\ running \in BOOLEAN /\ runnable \in BOOLEAN /\ missed \in BOOLEAN
         /\ Consistent(v)
         /\ running \/ runnable => Funded(v) /\ v.e > 0
         /\ ~running /\ ~runnable => ~v.budgeted /\ (v.e > 0 => v.b = 0 /\ v.usage = 0)
BY IoAssumption
DEF IInv, TypeOK, Started, PendingIsWorthwhile, Unbudgeted, BudgetOrReplenishment, IdleIsReset,
    Consistent, Funded, Fields, Bounded

LEMMA ClockFacts ==
  ASSUME IInv
  PROVE  /\ now \in Nat /\ now > 0 /\ tprev \in Nat /\ tprev > 0 /\ tprev <= now
         /\ mark \in Nat /\ mark <= now /\ served \in Nat
BY IoAssumption DEF IInv, TypeOK

LEMMA QuietSteps ==
  ASSUME IInv, missed' = (missed \/ WaitsTooLong'), Tick \/ Observe
  PROVE  IInv'
<1>1. /\ now' \in now .. MaxTime /\ tprev' = tprev /\ T' = T /\ running' = running
      /\ runnable' = runnable /\ mark' \in 0 .. now' /\ served' = served /\ v' = v
      /\ missed' \in BOOLEAN
  BY StateFacts DEF Tick, Observe
<1> QED BY <1>1, StateFacts, StepLemma

LEMMA ScheduleInv ==
  ASSUME IInv, missed' = (missed \/ WaitsTooLong'),
         NEW verdict \in {"skipped", "refreshed", "picked"}, NEW more \in BOOLEAN,
         Schedule(verdict, more)
  PROVE  IInv'
<1> DEFINE ended == IF running THEN EndTimeslice(v, now - tprev) ELSE v
<1>1. /\ Consistent(ended) /\ Funded(ended) /\ ended.e > 0
      /\ ~runnable => ~ended.budgeted /\ ended.b = 0 /\ ended.usage = 0
  <2>1. CASE running
    <3>1. now - tprev \in Nat BY ClockFacts
    <3> QED BY <2>1, <3>1, EndLemma
  <2>2. CASE ~running
    <3>1. runnable BY <2>2 DEF Schedule
    <3> QED BY <2>2, <3>1, StateFacts
  <2> QED BY <2>1, <2>2
<1>2. /\ now' = now /\ tprev' = now /\ T' = T /\ mark' = mark
      /\ running' \in BOOLEAN /\ runnable' \in BOOLEAN /\ missed' \in BOOLEAN
  BY StateFacts DEF Schedule
<1>3. served' \in Nat /\ tprev' \in 1 .. now'
  BY <1>2, ClockFacts DEF Schedule, Maximum
<1> HIDE DEF ended
<1>4. CASE runnable
  <2>1. v' = ended \/ v' = Update(ended, now) BY DEF Schedule, ended
  <2>2. Consistent(v') /\ Funded(v') /\ v'.e > 0 BY <1>1, <2>1, UpdateLemma, ClockFacts
  <2>3. running' \/ runnable' BY <1>4 DEF Schedule
  <2> QED BY <1>2, <1>3, <2>2, <2>3, StateFacts, StepLemma
<1>5. CASE ~runnable
  <2>1. verdict = "skipped" /\ v' = ended /\ ~running' /\ ~runnable'
    BY <1>5 DEF Schedule, ended
  <2> QED BY <1>1, <1>2, <1>3, <1>5, <2>1, StateFacts, StepLemma
<1> QED BY <1>4, <1>5

LEMMA JobWakeupInv ==
  ASSUME IInv, missed' = (missed \/ WaitsTooLong'),
         NEW t \in Periods, NEW clk \in now .. now + Skew, clk <= MaxTime, JobWakeup(t, clk)
  PROVE  IInv'
<1> DEFINE w == IF runnable \/ running THEN v ELSE Unblock(v, T', now)
<1>1. clk \in Nat /\ clk >= now /\ clk \in now .. MaxTime /\ now \in Nat
  BY StateFacts, IoAssumption
<1>2. T' \in Periods \cup {Uden} BY StateFacts DEF JobWakeup, Inherit
<1>3. Consistent(w) /\ w.e > 0 /\ (Funded(w) \/ (w.rt # 0 /\ w.rt <= clk))
  BY <1>1, <1>2, StateFacts, UnblockLemma
<1>4. v' = Update(w, clk) BY DEF JobWakeup
<1> HIDE DEF w
<1>5. Consistent(v') /\ Funded(v') /\ v'.e > 0 BY <1>1, <1>3, <1>4, UpdateLemma
<1>6. /\ now' = clk /\ tprev' = tprev /\ mark' = mark /\ served' = served
      /\ running' = running /\ runnable' = TRUE /\ missed' \in BOOLEAN
  BY StateFacts DEF JobWakeup
<1> QED BY <1>1, <1>2, <1>5, <1>6, StateFacts, StepLemma

LEMMA NextIInv ==
  IInv /\ [Next]_vars => IInv'
<1> SUFFICES ASSUME IInv, [Next]_vars PROVE IInv' OBVIOUS
<1>1. CASE Next
  BY <1>1, QuietSteps, ScheduleInv, JobWakeupInv DEF Next
<1>2. CASE UNCHANGED vars
  BY <1>2, StateFacts, StepLemma DEF vars
<1> QED BY <1>1, <1>2

LEMMA Invariance ==
  Spec => []IInv
BY InitIInv, NextIInv, PTL DEF Spec

\* The fields of an I/O VCPU keep their types, and its budget and its pending
\* replenishment are never more than some period is worth.
THEOREM TypeCorrect ==
  Spec => []TypeOK
<1>1. IInv => TypeOK BY DEF IInv
<1> QED BY <1>1, Invariance, PTL

\* An I/O VCPU with work to do is never stranded without budget and without a
\* replenishment to wait for, and never has both, whatever jobs arrive while it
\* is blocked, waiting, preempted or running.
THEOREM NeverStranded ==
  Spec => []BudgetOrReplenishment
<1>1. IInv => BudgetOrReplenishment BY DEF IInv
<1> QED BY <1>1, Invariance, PTL

\* A blocked I/O VCPU carries no budget, no uncharged usage and no `budgeted' mark
\* into its next job.
THEOREM BlockingResets ==
  Spec => []IdleIsReset
<1>1. IInv => IdleIsReset BY DEF IInv
<1> QED BY <1>1, Invariance, PTL

-----------------------------------------------------------------------------
(* The ARP cache.                                                          *)

ArpEntry ==
  [state : {"EMPTY", "PENDING", "STABLE"}, ipaddr : Hosts \cup {0},
   ethaddr : Macs \cup {0}, ctime : 0 .. ARP_MAXAGE, q : Seq(Nat)]

\* Packets in the order they were handed to etharp_output, n of them so far.
InOrder(q, n) ==
  /\ \A k \in 1 .. Len(q) : q[k] <= n
  /\ \A k \in 2 .. Len(q) : q[k - 1] < q[k]

\* An entry, when hd is what was heard from the hosts and n packets were sent.
EntryOK(e, hd, n) ==
  /\ e \in ArpEntry
  /\ e.state # "EMPTY" => e.ipaddr \in Hosts
  /\ e.q # << >> => e.state = "PENDING"
  /\ InOrder(e.q, n)
  /\ e.state = "STABLE" => /\ e.ethaddr = hd[e.ipaddr].mac /\ e.ctime = hd[e.ipaddr].age
                           /\ e.ctime < ARP_MAXAGE

TableOK(tb, hd, n) ==
  /\ tb \in [Entries -> ArpEntry]
  /\ \A i \in Entries : EntryOK(tb[i], hd, n)
  /\ \A i, j \in Entries :
       tb[i].state # "EMPTY" /\ tb[j].state # "EMPTY" /\ tb[i].ipaddr = tb[j].ipaddr => i = j

CacheInv ==
  /\ TableOK(arp_table, heard, packets)
  /\ etharp_cached_entry \in Entries /\ packets \in Nat
  /\ heard \in [Hosts -> [mac : Macs \cup {0}, age : Nat]]
  /\ astray = FALSE

\* The entries an address is found in.
LEMMA KnownIs ==
  ASSUME CacheInv, NEW ip, NEW i
  PROVE  i \in Known(ip) <=> i \in Entries /\ arp_table[i].state # "EMPTY" /\ arp_table[i].ipaddr = ip
BY DEF Known, In

\* Min chooses an element of a set of numbers.
LEMMA MinIn ==
  ASSUME NEW S \in SUBSET Nat, S # {}
  PROVE  Min(S) \in S
<1>1. PICK n \in S : TRUE
  OBVIOUS
<1>2. \E m \in S : \A k \in S : m <= k
  BY <1>1, Least
<1> QED BY <1>2 DEF Min

\* The oldest entry that the sweep of find_entry chooses exists.
LEMMA OldestIn ==
  ASSUME CacheInv, NEW S \in SUBSET Entries, S # {}
  PROVE  Oldest(S) \in S
<1> DEFINE ct(i) == arp_table[i].ctime
           A == {ARP_MAXAGE - ct(i) : i \in S}
<1>0. ARP_MAXAGE \in Nat /\ ARP_TABLE_SIZE \in Nat
  BY ArpAssumption
<1>1. \A i \in S : i \in Nat /\ i < ARP_TABLE_SIZE
  BY <1>0 DEF Entries
<1>2. \A i \in S : ct(i) \in Nat /\ ct(i) <= ARP_MAXAGE
  BY <1>0 DEF CacheInv, TableOK, ArpEntry
<1> HIDE DEF ct
<1>3. A \in SUBSET Nat /\ A # {}
  BY <1>0, <1>2
<1>4. PICK a \in A : \A b \in A : a <= b
  <2>1. PICK x \in A : TRUE
    BY <1>3
  <2> HIDE DEF A
  <2> QED BY <1>3, <2>1, Least
<1>5. PICK i \in S : a = ARP_MAXAGE - ct(i)
  BY <1>4
<1>6. ASSUME NEW j \in S PROVE ct(j) <= ct(i)
  <2>1. ARP_MAXAGE - ct(i) <= ARP_MAXAGE - ct(j)
    BY <1>4, <1>5
  <2> QED BY <1>0, <1>2, <2>1
<1> DEFINE B == {ARP_TABLE_SIZE - j : j \in {x \in S : ct(x) = ct(i)}}
<1>7. B \in SUBSET Nat /\ B # {}
  BY <1>0, <1>1
<1>8. PICK c \in B : \A b \in B : c <= b
  <2>1. PICK x \in B : TRUE
    BY <1>7
  <2> HIDE DEF B
  <2> QED BY <1>7, <2>1, Least
<1>9. PICK j \in S : ct(j) = ct(i) /\ c = ARP_TABLE_SIZE - j
  BY <1>8
<1>10. ASSUME NEW k \in S \ {j} PROVE ct(k) < ct(j) \/ (ct(k) = ct(j) /\ k < j)
  <2>1. ct(k) <= ct(j) /\ ct(k) \in Nat /\ ct(j) \in Nat /\ k \in Nat /\ j \in Nat
    BY <1>1, <1>2, <1>6, <1>9
  <2>2. CASE ct(k) = ct(j)
    <3>1. ARP_TABLE_SIZE - j <= ARP_TABLE_SIZE - k
      BY <1>8, <1>9, <2>2
    <3> QED BY <1>0, <2>1, <2>2, <3>1
  <2> QED BY <2>1, <2>2
<1>11. \E x \in S : \A k \in S \ {x} :
         \/ arp_table[k].ctime < arp_table[x].ctime
         \/ arp_table[k].ctime = arp_table[x].ctime /\ k < x
  BY <1>10 DEF ct
<1> QED BY <1>11 DEF Oldest

\* find_entry returns an entry of the table, or none if it may not recycle one; an
\* entry that is not new is the one of the address.
LEMMA FindEntry ==
  ASSUME CacheInv, NEW ip \in Hosts, NEW tryhard \in BOOLEAN, NEW i,
         i = find_entry(ip, tryhard)
  PROVE  /\ i \in Entries \/ (i = ERR_MEM /\ ~tryhard /\ Known(ip) = {})
         /\ IsNew(ip, i) <=> Known(ip) = {}
         /\ ~IsNew(ip, i) => i \in Known(ip)
         /\ i = ERR_MEM => i \notin Entries
<1>0. etharp_cached_entry \in Entries /\ Entries \in SUBSET Nat
  BY ArpAssumption DEF CacheInv, Entries
<1>1. CacheHit(ip) => etharp_cached_entry \in Known(ip)
  BY <1>0, KnownIs DEF CacheHit
<1>2. Known(ip) \in SUBSET Nat /\ Known(ip) \subseteq Entries
  BY <1>0, KnownIs
<1>3. Known(ip) # {} => Min(Known(ip)) \in Known(ip)
  BY <1>2, MinIn
<1>4. IsNew(ip, i) <=> Known(ip) = {}
  BY <1>1 DEF IsNew
<1>5. Recycle \in Entries
  <2>1. /\ In("EMPTY") \in SUBSET Entries /\ In("STABLE") \in SUBSET Entries
        /\ In("PENDING") \in SUBSET Entries /\ Queueing \subseteq In("PENDING")
    BY DEF In, Queueing
  <2>2. In("EMPTY") \cup In("STABLE") \cup In("PENDING") = Entries
    BY DEF In, CacheInv, TableOK, ArpEntry
  <2>3. In("EMPTY") # {} => Min(In("EMPTY")) \in Entries
    BY <1>0, <2>1, MinIn
  <2>4. In("STABLE") # {} => Oldest(In("STABLE")) \in Entries
    BY <2>1, OldestIn
  <2>5. In("PENDING") \ Queueing # {}
          => Oldest(In("PENDING") \ Queueing) \in Entries
    <3> DEFINE S == In("PENDING") \ Queueing
    <3>1. S \in SUBSET Entries
      BY <2>1
    <3> HIDE DEF S
    <3>2. S # {} => Oldest(S) \in S
      BY <3>1, OldestIn
    <3> QED BY <3>1, <3>2 DEF S
  <2>6. Queueing # {} => Oldest(Queueing) \in Entries
    <3>1. Queueing \in SUBSET Entries
      BY <2>1
    <3> QED BY <3>1, OldestIn
  <2>7. \/ In("EMPTY") # {} \/ In("STABLE") # {}
        \/ In("PENDING") \ Queueing # {} \/ Queueing # {}
    BY <1>0, <2>1, <2>2
  <2> QED BY <2>3, <2>4, <2>5, <2>6, <2>7 DEF Recycle
<1>6. ERR_MEM \notin Entries
  BY ArpAssumption DEF ERR_MEM, Entries
<1>7. CASE CacheHit(ip)
  BY <1>0, <1>1, <1>4, <1>6, <1>7 DEF find_entry
<1>8. CASE ~CacheHit(ip) /\ Known(ip) # {}
  <2>1. i = Min(Known(ip))
    BY <1>8 DEF find_entry
  <2> QED BY <1>2, <1>3, <1>4, <1>6, <1>8, <2>1
<1>9. CASE ~CacheHit(ip) /\ Known(ip) = {}
  <2>1. i = Recycle \/ (i = ERR_MEM /\ ~tryhard)
    BY <1>9 DEF find_entry
  <2> QED BY <1>4, <1>5, <1>6, <1>9, <2>1
<1> QED BY <1>7, <1>8, <1>9

\* The entry as find_entry leaves it: the one of the address, or an empty one for it.
LEMMA FoundIs ==
  ASSUME CacheInv, NEW ip \in Hosts, NEW i \in Entries,
         ~IsNew(ip, i) => i \in Known(ip)
  PROVE  IF IsNew(ip, i)
         THEN Found(ip, i) = [state |-> "EMPTY", ipaddr |-> ip, ethaddr |-> 0, ctime |-> 0, q |-> << >>]
         ELSE Found(ip, i) = arp_table[i] /\ arp_table[i].state # "EMPTY" /\ arp_table[i].ipaddr = ip
<1>1. CASE ~IsNew(ip, i)
  BY <1>1, KnownIs DEF Found
<1>2. CASE IsNew(ip, i)
  <2> DEFINE w == IF i \in Queueing THEN << >> ELSE arp_table[i].q
  <2>1. Found(ip, i) = [Empty EXCEPT !.ipaddr = ip, !.q = w]
    BY <1>2 DEF Found
  <2>2. w = << >>
    <3>1. EntryOK(arp_table[i], heard, packets)
      BY DEF CacheInv, TableOK
    <3>2. i \notin Queueing => arp_table[i].q = << >>
      BY <3>1 DEF Queueing, In, EntryOK
    <3> QED BY <3>2
  <2> HIDE DEF w
  <2>3. Found(ip, i) = [state |-> "EMPTY", ipaddr |-> ip, ethaddr |-> 0, ctime |-> 0, q |-> w]
    BY <2>1 DEF Empty, NoMac, Elsewhere
  <2> QED BY <1>2, <2>2, <2>3
<1> QED BY <1>1, <1>2

\* An entry for an address that no other entry has.
LEMMA TableUpdated ==
  ASSUME CacheInv, NEW ip \in Hosts, NEW i \in Entries, NEW e, NEW hd, NEW n \in Nat,
         \A j \in Entries : j # i => arp_table[j].state = "EMPTY" \/ arp_table[j].ipaddr # ip,
         EntryOK(e, hd, n), e.ipaddr = ip, packets <= n,
         \A h \in Hosts : h # ip => hd[h] = heard[h]
  PROVE  TableOK([arp_table EXCEPT ![i] = e], hd, n)
<1> DEFINE tb == [arp_table EXCEPT ![i] = e]
<1>0. /\ arp_table \in [Entries -> ArpEntry] /\ packets \in Nat
      /\ \A j \in Entries : EntryOK(arp_table[j], heard, packets)
      /\ \A j, k \in Entries : arp_table[j].state # "EMPTY" /\ arp_table[k].state # "EMPTY"
                                 /\ arp_table[j].ipaddr = arp_table[k].ipaddr => j = k
  BY DEF CacheInv, TableOK
<1>1. e \in ArpEntry
  BY DEF EntryOK
<1>2. tb \in [Entries -> ArpEntry] /\ tb[i] = e /\ \A j \in Entries : j # i => tb[j] = arp_table[j]
  BY <1>0, <1>1
<1> HIDE DEF tb
<1>3. ASSUME NEW j \in Entries, j # i PROVE EntryOK(arp_table[j], hd, n)
  <2> DEFINE x == arp_table[j]
  <2>1. EntryOK(x, heard, packets)
    BY <1>0
  <2>2. x.state # "EMPTY" => hd[x.ipaddr] = heard[x.ipaddr]
    BY <1>3, <2>1 DEF EntryOK
  <2>3. InOrder(x.q, n)
    <3>1. x.q \in Seq(Nat) /\ InOrder(x.q, packets)
      BY <2>1 DEF EntryOK, ArpEntry
    <3>2. ASSUME NEW k \in 1 .. Len(x.q) PROVE x.q[k] <= n
      <4>1. x.q[k] \in Nat /\ x.q[k] <= packets
        BY <3>1 DEF InOrder
      <4> QED BY <1>0, <4>1
    <3> QED BY <3>1, <3>2 DEF InOrder
  <2> HIDE DEF x
  <2>4. EntryOK(x, hd, n)
    BY <2>1, <2>2, <2>3 DEF EntryOK
  <2> QED BY <2>4 DEF x
<1>4. ASSUME NEW j \in Entries PROVE EntryOK(tb[j], hd, n)
  BY <1>2, <1>3
<1>5. ASSUME NEW j \in Entries, NEW k \in Entries,
             tb[j].state # "EMPTY", tb[k].state # "EMPTY", tb[j].ipaddr = tb[k].ipaddr
      PROVE  j = k
  <2>1. CASE j = i
    BY <1>2, <1>5, <2>1
  <2>2. CASE k = i
    BY <1>2, <1>5, <2>2
  <2>3. CASE j # i /\ k # i
    BY <1>0, <1>2, <1>5, <2>3
  <2> QED BY <2>1, <2>2, <2>3
<1> QED BY <1>2, <1>4, <1>5 DEF TableOK, tb

\* Packets that are sent when the entry of their address is resolved go astray
\* neither by their address nor by their order.
LEMMA NotAstray ==
  ASSUME astray = FALSE, NEW n, TableOK(arp_table', heard', n),
         NEW ip, NEW i \in Entries, arp_table'[i].state = "STABLE", arp_table'[i].ipaddr = ip,
         NEW mac, mac = heard'[ip].mac,
         NEW ns \in Seq(Nat), NEW m, InOrder(ns, m), SendTo(ip, mac, ns)
  PROVE  astray' = FALSE
<1>1. ASSUME NEW j \in Entries, arp_table'[j].ipaddr = ip, arp_table'[j].q # << >> PROVE FALSE
  <2>1. EntryOK(arp_table'[j], heard', n) /\ EntryOK(arp_table'[i], heard', n)
    BY DEF TableOK
  <2>2. arp_table'[j].state = "PENDING"
    BY <1>1, <2>1 DEF EntryOK
  <2>3. j = i
    BY <1>1, <2>2 DEF TableOK
  <2> QED BY <2>2, <2>3
<1>2. ASSUME NEW k \in 2 .. Len(ns) PROVE ~(ns[k] < ns[k - 1])
  <2>1. ns[k] \in Nat /\ ns[k - 1] \in Nat /\ ns[k - 1] < ns[k]
    BY DEF InOrder
  <2> QED BY <2>1
<1>3. astray' = \/ FALSE
                \/ /\ ns # << >>
                   /\ \/ mac # heard'[ip].mac
                      \/ \E k \in 2 .. Len(ns) : ns[k] < ns[k - 1]
                      \/ \E j \in Entries : LET q == arp_table'[j].q IN
                           arp_table'[j].ipaddr = ip /\ q # << >> /\ q[1] < ns[Len(ns)]
  BY DEF SendTo
<1> QED BY <1>1, <1>2, <1>3

\* What is left to show of a step that changes an entry.
LEMMA CacheStep ==
  ASSUME CacheInv, TableOK(arp_table', heard', packets'), etharp_cached_entry' \in Entries,
         packets' \in Nat, heard' \in [Hosts -> [mac : Macs \cup {0}, age : Nat]],
         astray' = FALSE
  PROVE  CacheInv'
<1>1. TableOK(arp_table, heard, packets)'
  BY DEF TableOK, EntryOK, InOrder, ArpEntry, Entries, Macs
<1>2. etharp_cached_entry' \in Entries' /\ heard' \in [Hosts -> [mac : Macs \cup {0}, age : Nat]]'
  BY DEF Entries, Macs
<1> QED BY <1>1, <1>2 DEF CacheInv

\* An entry other than the one find_entry returns has another address.
LEMMA OthersDiffer ==
  ASSUME CacheInv, NEW ip \in Hosts, NEW i,
         IsNew(ip, i) <=> Known(ip) = {},
         ~IsNew(ip, i) => i \in Known(ip)
  PROVE  \A j \in Entries : j # i => arp_table[j].state = "EMPTY" \/ arp_table[j].ipaddr # ip
<1> SUFFICES ASSUME NEW j \in Entries, j # i, arp_table[j].state # "EMPTY", arp_table[j].ipaddr = ip
             PROVE  FALSE
  OBVIOUS
<1>1. j \in Known(ip)
  BY KnownIs
<1>2. i \in Entries /\ arp_table[i].state # "EMPTY" /\ arp_table[i].ipaddr = ip
  BY <1>1, KnownIs
<1> QED BY <1>2 DEF CacheInv, TableOK

\* A packet that is queued is the last.
LEMMA Queued ==
  ASSUME NEW q \in Seq(Nat), NEW n \in Nat, InOrder(q, n)
  PROVE  /\ Append(q, n + 1) \in Seq(Nat) /\ Append(q, n + 1) # << >>
         /\ InOrder(Append(q, n + 1), n + 1) /\ InOrder(q, n + 1)
<1> DEFINE r == Append(q, n + 1)
<1>1. /\ r \in Seq(Nat) /\ Len(r) = Len(q) + 1 /\ Len(q) \in Nat /\ r[Len(q) + 1] = n + 1
      /\ \A k \in 1 .. Len(q) : r[k] = q[k] /\ q[k] \in Nat
  OBVIOUS
<1> HIDE DEF r
<1>2. \A k \in 1 .. Len(q) : q[k] <= n
  BY DEF InOrder
<1>3. ASSUME NEW k \in 1 .. Len(r) PROVE r[k] <= n + 1
  <2>1. k = Len(q) + 1 \/ k \in 1 .. Len(q)
    BY <1>1
  <2>2. CASE k = Len(q) + 1
    <3>1. r[k] = n + 1
      BY <1>1, <2>2
    <3> QED BY <3>1
  <2>3. CASE k \in 1 .. Len(q)
    <3>1. r[k] = q[k] /\ q[k] \in Nat /\ q[k] <= n
      BY <1>1, <1>2, <2>3
    <3> QED BY <3>1
  <2> QED BY <2>1, <2>2, <2>3
<1>4. ASSUME NEW k \in 2 .. Len(r) PROVE r[k - 1] < r[k]
  <2>1. CASE k = Len(q) + 1
    <3>1. k - 1 \in 1 .. Len(q)
      BY <1>1, <2>1
    <3>2. r[k - 1] \in Nat /\ r[k - 1] <= n /\ r[k] = n + 1
      BY <1>1, <1>2, <2>1, <3>1
    <3> QED BY <3>2
  <2>2. CASE k # Len(q) + 1
    <3>1. k \in 2 .. Len(q) /\ k \in 1 .. Len(q) /\ k - 1 \in 1 .. Len(q)
      BY <1>1, <2>2
    <3> QED BY <1>1, <3>1 DEF InOrder
  <2> QED BY <2>1, <2>2
<1>5. r # << >>
  BY <1>1
<1>6. \A k \in 1 .. Len(q) : q[k] <= n + 1
  BY <1>1, <1>2
<1> QED BY <1>1, <1>3, <1>4, <1>5, <1>6 DEF InOrder, r

LEMMA FoundOK ==
  ASSUME CacheInv, NEW ip \in Hosts, NEW i \in Entries,
         ~IsNew(ip, i) => i \in Known(ip)
  PROVE  EntryOK(Found(ip, i), heard, packets) /\ Found(ip, i).ipaddr = ip
<1> DEFINE f == Found(ip, i)
<1>2. TableOK(arp_table, heard, packets)
  BY DEF CacheInv
<1>3. IF IsNew(ip, i)
      THEN f = [state |-> "EMPTY", ipaddr |-> ip, ethaddr |-> 0, ctime |-> 0, q |-> << >>]
      ELSE f = arp_table[i] /\ arp_table[i].state # "EMPTY" /\ arp_table[i].ipaddr = ip
  BY FoundIs
<1>5. f \in ArpEntry /\ f.ipaddr = ip
  <2>1. CASE IsNew(ip, i)
    <3>1. 0 \in 0 .. ARP_MAXAGE /\ << >> \in Seq(Nat)
      BY ArpAssumption
    <3> DEFINE x == [state |-> "EMPTY", ipaddr |-> ip, ethaddr |-> 0, ctime |-> 0, q |-> << >>]
    <3>2. x \in ArpEntry /\ x.ipaddr = ip
      BY <3>1 DEF ArpEntry
    <3>3. f = x
      BY <1>3, <2>1
    <3> HIDE DEF f, x
    <3> QED BY <3>2, <3>3
  <2>2. CASE ~IsNew(ip, i)
    BY <1>2, <1>3, <2>2 DEF TableOK
  <2> QED BY <2>1, <2>2
<1>6. EntryOK(f, heard, packets)
  <2>1. CASE IsNew(ip, i)
    <3>1. InOrder(<< >>, packets)
      BY DEF InOrder
    <3>2. f.state = "EMPTY" /\ f.q = << >>
      BY <1>3, <2>1
    <3> HIDE DEF f
    <3> QED BY <1>5, <3>1, <3>2 DEF EntryOK
  <2>2. CASE ~IsNew(ip, i)
    BY <1>2, <1>3, <2>2 DEF TableOK
  <2> QED BY <2>1, <2>2
<1> QED BY <1>5, <1>6

LEMMA QueryInv ==
  ASSUME CacheInv, NEW ip \in Hosts, NEW ns \in Seq(Nat), NEW n \in Nat, packets' = n,
         \/ ns = << >> /\ n = packets
         \/ ns = << n >> /\ n = packets + 1,
         etharp_query(ip, ns)
  PROVE  CacheInv'
<1> DEFINE i == find_entry(ip, TRUE)
           f == Found(ip, i)
           e == [f EXCEPT !.state = IF @ = "EMPTY" THEN "PENDING" ELSE @]
           d == DroppedPackets(ip, i)
<1>0. /\ heard' = heard
      /\ \/ /\ e.state = "STABLE" /\ SetEntry(i, e, d, 0) /\ SendTo(ip, e.ethaddr, ns)
         \/ /\ e.state = "PENDING" /\ astray' = astray
            /\ IF ns = << >> THEN SetEntry(i, e, d, 0) ELSE QueuePacket(i, e, ns[1], d)
  BY DEF etharp_query
<1>1. /\ i \in Entries
      /\ IsNew(ip, i) <=> Known(ip) = {}
      /\ ~IsNew(ip, i) => i \in Known(ip)
  <2>1. TRUE \in BOOLEAN
    OBVIOUS
  <2> QED BY <2>1, FindEntry
<1> HIDE DEF i
<1>2. /\ packets \in Nat /\ packets <= n /\ heard \in [Hosts -> [mac : Macs \cup {0}, age : Nat]]
      /\ astray = FALSE /\ TableOK(arp_table, heard, packets)
  BY DEF CacheInv
<1>5. f \in ArpEntry /\ f.ipaddr = ip /\ EntryOK(f, heard, packets)
  BY <1>1, FoundOK DEF EntryOK
<1> HIDE DEF f, d
<1>7. /\ e \in ArpEntry /\ e.state = (IF f.state = "EMPTY" THEN "PENDING" ELSE f.state) /\ e.ipaddr = ip /\ e.ethaddr = f.ethaddr
      /\ e.ctime = f.ctime /\ e.q = f.q
  BY <1>5 DEF ArpEntry
<1> HIDE DEF e
<1>8. (e.state = "STABLE" => f.state = "STABLE") /\ (f.state = "PENDING" => e.state = "PENDING")
  BY <1>7
<1>9. \A j \in Entries : j # i => arp_table[j].state = "EMPTY" \/ arp_table[j].ipaddr # ip
  BY <1>1, OthersDiffer
<1>10. ASSUME NEW x, EntryOK(x, heard, n), x.ipaddr = ip,
              NEW k, NEW m, SetEntry(i, x, k, m), astray' = FALSE
       PROVE  CacheInv'
  <2>1. arp_table' = [arp_table EXCEPT ![i] = x] /\ etharp_cached_entry' = i
    BY <1>10 DEF SetEntry
  <2>2. TableOK([arp_table EXCEPT ![i] = x], heard, n)
    BY <1>1, <1>2, <1>9, <1>10, TableUpdated
  <2>3. TableOK(arp_table', heard', packets')
    BY <1>0, <2>1, <2>2
  <2> QED BY <1>1, <1>2, <1>0, <1>10, <2>1, <2>3, CacheStep
<1>11. InOrder(e.q, n) /\ e.q \in Seq(Nat)
  <2>1. e.q \in Seq(Nat) /\ InOrder(e.q, packets)
    BY <1>5, <1>7 DEF EntryOK, ArpEntry
  <2>2. InOrder(e.q, packets + 1)
    BY <1>2, <2>1, Queued
  <2> QED BY <2>1, <2>2
<1>12. EntryOK(e, heard, n)
  BY <1>5, <1>7, <1>8, <1>11 DEF EntryOK
<1>13. CASE e.state = "STABLE" /\ SetEntry(i, e, d, 0) /\ SendTo(ip, e.ethaddr, ns)
  <2>1. arp_table' = [arp_table EXCEPT ![i] = e]
    BY <1>13 DEF SetEntry
  <2>2. TableOK([arp_table EXCEPT ![i] = e], heard, n)
    BY <1>1, <1>2, <1>7, <1>9, <1>12, TableUpdated
  <2>3. arp_table'[i] = e /\ TableOK(arp_table', heard', n)
    BY <1>1, <1>2, <1>0, <2>1, <2>2 DEF TableOK
  <2>4. e.ethaddr = heard'[ip].mac
    BY <1>0, <1>7, <1>12, <1>13 DEF EntryOK
  <2>5. InOrder(ns, n)
    <3>1. CASE ns = << >>
      BY <3>1 DEF InOrder
    <3>2. CASE ns = << n >>
      BY <3>2 DEF InOrder
    <3> QED BY <3>1, <3>2
  <2>6. astray' = FALSE
    BY <1>1, <1>2, <1>7, <1>13, <2>3, <2>4, <2>5, NotAstray
  <2> QED BY <1>7, <1>10, <1>12, <1>13, <2>6
<1>14. CASE /\ e.state = "PENDING" /\ astray' = astray
            /\ IF ns = << >> THEN SetEntry(i, e, d, 0) ELSE QueuePacket(i, e, ns[1], d)
  <2>1. astray' = FALSE
    BY <1>2, <1>14
  <2>2. CASE SetEntry(i, e, d, 0)
    BY <1>7, <1>10, <1>12, <2>1, <2>2
  <2>3. CASE ns # << >> /\ QueuePacket(i, e, ns[1], d)
    <3>1. ns[1] = n /\ n = packets + 1
      BY <2>3
    <3> DEFINE q == Append(e.q, n)
               x == [e EXCEPT !.q = q]
    <3>2. SetEntry(i, x, d, 1) \/ SetEntry(i, e, d, 0)
      <4>1. [e EXCEPT !.q = Append(@, n)] = x
        OBVIOUS
      <4> QED BY <2>3, <3>1, <4>1 DEF QueuePacket
    <3>3. q \in Seq(Nat) /\ InOrder(q, n)
      <4>1. InOrder(e.q, packets) /\ e.q \in Seq(Nat)
        BY <1>5, <1>7 DEF EntryOK, ArpEntry
      <4> QED BY <1>2, <3>1, <4>1, Queued
    <3> HIDE DEF q
    <3>4. x \in ArpEntry /\ x.state = "PENDING" /\ x.ipaddr = ip /\ x.q = q
      BY <1>7, <1>14, <3>3 DEF ArpEntry
    <3> HIDE DEF x
    <3>5. EntryOK(x, heard, n)
      BY <3>3, <3>4 DEF EntryOK
    <3> QED BY <1>10, <2>1, <2>2, <3>2, <3>4, <3>5
  <2> QED BY <1>14, <2>2, <2>3
<1> QED BY <1>0, <1>13, <1>14

LEMMA AnnounceInv ==
  ASSUME CacheInv, NEW ip \in Hosts, NEW mac \in MacsOf[ip], NEW tryhard \in BOOLEAN,
         Announce(ip, mac, tryhard)
  PROVE  CacheInv'
<1> DEFINE i == find_entry(ip, tryhard)
           f == Found(ip, i)
           e == [f EXCEPT !.state = "STABLE", !.ethaddr = mac, !.ctime = 0, !.q = << >>]
           d == DroppedPackets(ip, i) + Len(f.q)
           r == [mac |-> mac, age |-> 0]
<1>0. IF i = ERR_MEM
      THEN UNCHANGED <<arp_table, etharp_cached_entry, arp_queue, copies, astray>>
      ELSE SetEntry(i, e, d, 0) /\ SendTo(ip, mac, f.q)
  BY DEF Announce, update_arp_entry
<1>1. /\ i \in Entries \/ (i = ERR_MEM /\ Known(ip) = {})
      /\ IsNew(ip, i) <=> Known(ip) = {}
      /\ ~IsNew(ip, i) => i \in Known(ip)
      /\ i = ERR_MEM => i \notin Entries
  BY FindEntry
<1> HIDE DEF i, d
<1>2. /\ heard' = [heard EXCEPT ![ip] = r] /\ packets' = packets
  BY DEF Announce
<1>3. /\ packets \in Nat /\ heard \in [Hosts -> [mac : Macs \cup {0}, age : Nat]]
      /\ astray = FALSE /\ TableOK(arp_table, heard, packets) /\ etharp_cached_entry \in Entries
  BY DEF CacheInv
<1>4. mac \in Macs
  BY ArpAssumption DEF Macs, Range
<1>5. /\ heard' \in [Hosts -> [mac : Macs \cup {0}, age : Nat]] /\ heard'[ip] = r
      /\ \A h \in Hosts : h # ip => heard'[h] = heard[h]
  BY <1>2, <1>3, <1>4
<1>6. r.mac = mac /\ r.age = 0
  OBVIOUS
<1> HIDE DEF r
<1>7. \A j \in Entries : j # i => arp_table[j].state = "EMPTY" \/ arp_table[j].ipaddr # ip
  BY <1>1, OthersDiffer
<1>8. CASE i = ERR_MEM
  <2>1. i \notin Entries /\ arp_table' = arp_table /\ etharp_cached_entry' = etharp_cached_entry
        /\ astray' = astray
    BY <1>0, <1>1, <1>8
  <2>2. ASSUME NEW j \in Entries PROVE EntryOK(arp_table[j], heard', packets)
    <3>1. EntryOK(arp_table[j], heard, packets)
      BY <1>3 DEF TableOK
    <3>2. arp_table[j].state = "EMPTY" \/ arp_table[j].ipaddr # ip
      BY <1>7, <2>1
    <3> DEFINE x == arp_table[j]
    <3> HIDE DEF x
    <3>3. x.state = "STABLE" => heard'[x.ipaddr] = heard[x.ipaddr]
      BY <1>5, <3>1, <3>2 DEF EntryOK, x
    <3>4. EntryOK(x, heard', packets)
      BY <3>1, <3>3 DEF EntryOK, x
    <3> QED BY <3>4 DEF x
  <2>3. TableOK(arp_table', heard', packets')
    BY <1>2, <1>3, <2>1, <2>2 DEF TableOK
  <2> QED BY <1>2, <1>3, <1>5, <2>1, <2>3, CacheStep
<1>9. CASE i # ERR_MEM
  <2>1. i \in Entries
    BY <1>1, <1>9
  <2>2. EntryOK(f, heard, packets) /\ f.ipaddr = ip
    BY <1>1, <2>1, FoundOK
  <2> HIDE DEF f
  <2>3. f \in ArpEntry /\ f.q \in Seq(Nat) /\ InOrder(f.q, packets)
    BY <2>2 DEF EntryOK, ArpEntry
  <2>4. /\ e \in ArpEntry /\ e.state = "STABLE" /\ e.ethaddr = mac /\ e.ctime = 0 /\ e.q = << >>
        /\ e.ipaddr = ip
    <3>1. 0 \in 0 .. ARP_MAXAGE /\ << >> \in Seq(Nat)
      BY ArpAssumption
    <3> QED BY <1>4, <2>2, <2>3, <3>1 DEF ArpEntry
  <2> HIDE DEF e
  <2>5. EntryOK(e, heard', packets)
    <3>1. InOrder(<< >>, packets) /\ 0 < ARP_MAXAGE
      BY ArpAssumption DEF InOrder
    <3> QED BY <1>5, <1>6, <2>4, <3>1 DEF EntryOK
  <2>6. SetEntry(i, e, d, 0) /\ SendTo(ip, mac, f.q)
    BY <1>0, <1>9
  <2>7. arp_table' = [arp_table EXCEPT ![i] = e] /\ etharp_cached_entry' = i
    BY <2>6 DEF SetEntry
  <2>8. TableOK([arp_table EXCEPT ![i] = e], heard', packets)
    <3>1. packets <= packets
      <4>1. \A n \in Nat : n <= n
        OBVIOUS
      <4>2. packets \in Nat
        BY <1>3
      <4> QED BY <4>1, <4>2, Zenon
    <3> QED BY <1>3, <1>5, <1>7, <2>1, <2>4, <2>5, <3>1, TableUpdated
  <2>9. TableOK(arp_table', heard', packets') /\ arp_table'[i] = e
    BY <1>2, <1>3, <2>1, <2>7, <2>8 DEF TableOK
  <2>10. astray' = FALSE
    <3>1. mac = heard'[ip].mac
      BY <1>5, <1>6
    <3> QED BY <1>3, <2>1, <2>3, <2>4, <2>6, <2>9, <3>1, NotAstray
  <2> QED BY <1>2, <1>3, <1>5, <2>1, <2>7, <2>9, <2>10, CacheStep
<1> QED BY <1>8, <1>9

LEMMA TimerInv ==
  ASSUME CacheInv, etharp_tmr
  PROVE  CacheInv'
<1>0. /\ ARP_MAXAGE \in Nat /\ ARP_MAXPENDING \in Nat /\ ARP_MAXPENDING <= ARP_MAXAGE
  BY ArpAssumption
<1>1. /\ arp_table' = [i \in Entries |-> Aged(i)]
      /\ heard' = [h \in Hosts |-> IF heard[h].age + 1 >= ARP_MAXAGE
                                   THEN [mac |-> 0, age |-> ARP_MAXAGE]
                                   ELSE [heard[h] EXCEPT !.age = @ + 1]]
      /\ etharp_cached_entry' = etharp_cached_entry /\ packets' = packets /\ astray' = astray
  BY DEF etharp_tmr, NoMac
<1>2. /\ packets \in Nat /\ heard \in [Hosts -> [mac : Macs \cup {0}, age : Nat]]
      /\ astray = FALSE /\ TableOK(arp_table, heard, packets) /\ etharp_cached_entry \in Entries
  BY DEF CacheInv
<1>3. heard' \in [Hosts -> [mac : Macs \cup {0}, age : Nat]]
  BY <1>0, <1>1, <1>2
<1>4. ASSUME NEW i \in Entries
      PROVE  /\ EntryOK(Aged(i), heard', packets)
             /\ Aged(i).state # "EMPTY" =>
                  arp_table[i].state # "EMPTY" /\ Aged(i).ipaddr = arp_table[i].ipaddr
  <2> DEFINE x == arp_table[i]
             y == [x EXCEPT !.ctime = @ + 1]
  <2>1. EntryOK(x, heard, packets)
    BY <1>2 DEF TableOK
  <2>2. /\ x \in ArpEntry /\ x.ctime \in Nat /\ x.state \in {"EMPTY", "PENDING", "STABLE"}
        /\ InOrder(x.q, packets)
    BY <1>0, <2>1 DEF EntryOK, ArpEntry
  <2>3. CASE Expired(i)
    <3>0. i \notin In("EMPTY")
      BY <2>3 DEF Expired, In
    <3>1. Aged(i) = Empty
      BY <2>3, <3>0 DEF Aged
    <3>2. 0 \in 0 .. ARP_MAXAGE /\ << >> \in Seq(Nat) /\ InOrder(<< >>, packets)
      BY <1>0 DEF InOrder
    <3>3. /\ Empty \in ArpEntry /\ Empty.state = "EMPTY" /\ Empty.q = << >>
      BY <3>2 DEF Empty, Elsewhere, NoMac, ArpEntry
    <3>4. EntryOK(Empty, heard', packets)
      BY <3>2, <3>3 DEF EntryOK
    <3> QED BY <3>1, <3>3, <3>4
  <2>4. CASE ~Expired(i) /\ x.state = "EMPTY"
    <3>1. Aged(i) = x
      BY <2>4 DEF Aged, In
    <3> HIDE DEF x
    <3>2. EntryOK(x, heard', packets)
      BY <2>1, <2>4 DEF EntryOK
    <3> QED BY <2>4, <3>1, <3>2
  <2>5. CASE ~Expired(i) /\ x.state # "EMPTY"
    <3>1. Aged(i) = y
      BY <2>5 DEF Aged, In
    <3>2. /\ x.state = "STABLE" => x.ctime + 1 < ARP_MAXAGE
          /\ x.state = "PENDING" => x.ctime + 1 < ARP_MAXPENDING
      <4>1. /\ ~(x.state = "STABLE" /\ x.ctime + 1 >= ARP_MAXAGE)
            /\ ~(x.state = "PENDING" /\ x.ctime + 1 >= ARP_MAXPENDING)
        BY <2>5 DEF Expired, In
      <4> QED BY <1>0, <2>2, <4>1
    <3>3. x.ctime + 1 \in 0 .. ARP_MAXAGE
      BY <1>0, <2>2, <2>5, <3>2
    <3> HIDE DEF x
    <3>4. /\ y \in ArpEntry /\ y.state = x.state /\ y.ipaddr = x.ipaddr /\ y.ethaddr = x.ethaddr
          /\ y.ctime = x.ctime + 1 /\ y.q = x.q
      BY <2>2, <3>3 DEF ArpEntry
    <3> HIDE DEF y
    <3>5. ASSUME x.state = "STABLE"
          PROVE  y.ethaddr = heard'[y.ipaddr].mac /\ y.ctime = heard'[y.ipaddr].age /\ y.ctime < ARP_MAXAGE
      <4>1. x.ipaddr \in Hosts /\ x.ethaddr = heard[x.ipaddr].mac /\ x.ctime = heard[x.ipaddr].age
        BY <2>1, <3>5 DEF EntryOK
      <4>2. ~(heard[x.ipaddr].age + 1 >= ARP_MAXAGE)
        BY <1>0, <2>2, <3>2, <3>5, <4>1
      <4>3. heard'[x.ipaddr] = [heard[x.ipaddr] EXCEPT !.age = @ + 1]
        BY <1>1, <4>1, <4>2
      <4>4. heard[x.ipaddr] \in [mac : Macs \cup {0}, age : Nat]
        BY <1>2, <4>1
      <4>5. heard'[x.ipaddr].mac = heard[x.ipaddr].mac /\ heard'[x.ipaddr].age = heard[x.ipaddr].age + 1
        BY <4>3, <4>4
      <4> QED BY <3>2, <3>4, <3>5, <4>1, <4>5
    <3>6. EntryOK(y, heard', packets)
      BY <2>1, <2>2, <3>4, <3>5 DEF EntryOK
    <3> QED BY <2>5, <3>1, <3>4, <3>6 DEF x
  <2> QED BY <2>3, <2>4, <2>5
<1>5. TableOK(arp_table', heard', packets')
  <2>1. \A i \in Entries : arp_table'[i] = Aged(i)
    BY <1>1
  <2>2. arp_table' \in [Entries -> ArpEntry]
    BY <1>1, <1>4 DEF EntryOK
  <2>3. \A i, j \in Entries : arp_table'[i].state # "EMPTY" /\ arp_table'[j].state # "EMPTY"
                                /\ arp_table'[i].ipaddr = arp_table'[j].ipaddr => i = j
    BY <1>2, <1>4, <2>1, SMTT(60) DEF TableOK
  <2> QED BY <1>1, <1>4, <2>1, <2>2, <2>3 DEF TableOK
<1> QED BY <1>1, <1>2, <1>3, <1>5, CacheStep

LEMMA CacheInit == CInit => CacheInv
<1> SUFFICES ASSUME CInit PROVE CacheInv
  OBVIOUS
<1>1. /\ arp_table = [i \in Entries |-> Empty] /\ etharp_cached_entry = 0 /\ packets = 0
      /\ heard = [h \in Hosts |-> [mac |-> NoMac, age |-> ARP_MAXAGE]] /\ astray = FALSE
  BY DEF CInit
<1>2. 0 \in Entries /\ 0 \in 0 .. ARP_MAXAGE /\ << >> \in Seq(Nat) /\ InOrder(<< >>, 0)
  BY ArpAssumption DEF Entries, InOrder
<1>3. Empty \in ArpEntry /\ Empty.state = "EMPTY" /\ Empty.q = << >>
  BY <1>2 DEF Empty, ArpEntry, Elsewhere, NoMac
<1>4. EntryOK(Empty, heard, 0)
  BY <1>2, <1>3 DEF EntryOK
<1> HIDE DEF Empty
<1>5. TableOK(arp_table, heard, packets)
  BY <1>1, <1>3, <1>4 DEF TableOK
<1>6. heard \in [Hosts -> [mac : Macs \cup {0}, age : Nat]]
  BY <1>1, ArpAssumption DEF NoMac
<1> QED BY <1>1, <1>2, <1>5, <1>6 DEF CacheInv

LEMMA CacheNext == CacheInv /\ [CNext]_cvars => CacheInv'
<1> SUFFICES ASSUME CacheInv, [CNext]_cvars PROVE CacheInv'
  OBVIOUS
<1>0. packets \in Nat
  BY DEF CacheInv
<1>1. CNext \/ UNCHANGED cvars
  OBVIOUS
<1>2. CASE CNext
  <2>1. ASSUME NEW ip \in Hosts \cup {Elsewhere}, etharp_output(ip) PROVE CacheInv'
    <3> DEFINE h == IF ip \in Hosts THEN ip ELSE Gateway
               n == packets + 1
    <3>1. packets' = n /\ etharp_query(h, << packets' >>)
      BY <2>1 DEF etharp_output
    <3>2. h \in Hosts /\ n \in Nat /\ << n >> \in Seq(Nat)
      BY <1>0, ArpAssumption
    <3> HIDE DEF h
    <3>3. etharp_query(h, << n >>)
      BY <3>1
    <3> QED BY <3>1, <3>2, <3>3, QueryInv
  <2>2. ASSUME NEW ip \in Hosts, dhcp_query(ip) PROVE CacheInv'
    <3>1. packets' = packets /\ etharp_query(ip, << >>) /\ << >> \in Seq(Nat)
      BY <2>2 DEF dhcp_query
    <3> QED BY <1>0, <3>1, QueryInv
  <2>3. ASSUME NEW ip \in Hosts, NEW mac \in MacsOf[ip], etharp_arp_input(ip, mac) PROVE CacheInv'
    BY <2>3, AnnounceInv DEF etharp_arp_input
  <2>4. ASSUME NEW ip \in Hosts, NEW mac \in MacsOf[ip], etharp_ip_input(ip, mac) PROVE CacheInv'
    BY <2>4, AnnounceInv DEF etharp_ip_input
  <2>5. CASE etharp_tmr
    BY <2>5, TimerInv
  <2> QED BY <1>2, <2>1, <2>2, <2>3, <2>4, <2>5 DEF CNext
<1>3. CASE UNCHANGED cvars
  <2>1. /\ arp_table' = arp_table /\ heard' = heard /\ packets' = packets /\ astray' = astray
        /\ etharp_cached_entry' = etharp_cached_entry
    BY <1>3 DEF cvars
  <2>2. TableOK(arp_table', heard', packets')
    BY <2>1 DEF CacheInv
  <2> QED BY <2>1, <2>2, CacheStep DEF CacheInv
<1> QED BY <1>1, <1>2, <1>3

\* For any number of hosts, entries and packets, and any limits of age that keep a
\* pending entry no longer than a resolved one: find_entry never gives an
\* address a second entry, a resolved entry has what the host announced last, less
\* than ARP_MAXAGE ticks ago, and no packet is sent to another Ethernet address or
\* before an older one for the same host, however entries are recycled.
THEOREM MappingsStayCurrent == CSpec => []MappingsCurrent
<1>1. CacheInv => MappingsCurrent
  <2> SUFFICES ASSUME CacheInv PROVE MappingsCurrent
    OBVIOUS
  <2>1. ASSUME NEW ip \in Hosts, NEW i \in Known(ip), NEW j \in Known(ip) PROVE i = j
    <3>1. /\ i \in Entries /\ arp_table[i].state # "EMPTY" /\ arp_table[i].ipaddr = ip
          /\ j \in Entries /\ arp_table[j].state # "EMPTY" /\ arp_table[j].ipaddr = ip
      BY KnownIs
    <3> QED BY <3>1 DEF CacheInv, TableOK
  <2>2. ASSUME NEW i \in In("STABLE")
        PROVE  /\ arp_table[i].ethaddr = heard[arp_table[i].ipaddr].mac
               /\ arp_table[i].ctime = heard[arp_table[i].ipaddr].age
               /\ arp_table[i].ctime < ARP_MAXAGE
    BY DEF In, CacheInv, TableOK, EntryOK
  <2> QED BY <2>1, <2>2 DEF MappingsCurrent, CacheInv
<1> QED BY <1>1, CacheInit, CacheNext, PTL DEF CSpec
=============================================================================
