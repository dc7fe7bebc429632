--------------------------- MODULE VcpuSchedProof ---------------------------
EXTENDS VcpuSched, SequenceTheorems, WellFoundedInduction, TLAPS

-----------------------------------------------------------------------------
(* Queues                                                                   *)

\* queue_append keeps a list duplicate-free and adds exactly the new element.
LEMMA QueueAppendLemma ==
  ASSUME NEW S, NEW q \in Seq(S), NEW x \in S
  PROVE  /\ QueueAppend(q, x) \in Seq(S)
         /\ QueueAppend(q, x) # << >>
         /\ Range(QueueAppend(q, x)) = Range(q) \cup {x}
         /\ IsInjective(q) => IsInjective(QueueAppend(q, x))
<1>1. CASE x \in Range(q)
  BY <1>1 DEF QueueAppend, Range
<1>2. CASE x \notin Range(q)
  <2> DEFINE a == Append(q, x)
  <2>1. QueueAppend(q, x) = a
    BY <1>2 DEF QueueAppend
  <2>2. /\ a \in Seq(S) /\ Len(a) = Len(q) + 1 /\ a # << >>
        /\ \A i \in 1 .. Len(q) : a[i] = q[i]
        /\ a[Len(q) + 1] = x
        /\ DOMAIN a = 1 .. Len(q) + 1 /\ DOMAIN q = 1 .. Len(q)
    OBVIOUS
  <2> HIDE DEF a
  <2>3. Range(a) = Range(q) \cup {x}
    BY <2>2 DEF Range
  <2>4. IsInjective(q) => IsInjective(a)
    BY <1>2, <2>2 DEF IsInjective, Range
  <2> QED BY <2>1, <2>2, <2>3, <2>4
<1> QED BY <1>1, <1>2

\* Removing one position of a duplicate-free list removes that element only.
LEMMA RemoveAtLemma ==
  ASSUME NEW S, NEW q \in Seq(S), NEW k \in DOMAIN q
  PROVE  /\ RemoveAt(q, k) \in Seq(S)
         /\ IsInjective(q) => /\ Range(RemoveAt(q, k)) = Range(q) \ {q[k]}
                              /\ IsInjective(RemoveAt(q, k))
<1> DEFINE r == RemoveAt(q, k)
<1>1. /\ r \in Seq(S) /\ Len(r) = Len(q) - 1
      /\ DOMAIN r = 1 .. Len(q) - 1 /\ DOMAIN q = 1 .. Len(q)
      /\ \A i \in 1 .. Len(q) - 1 : r[i] = IF i < k THEN q[i] ELSE q[i + 1]
  <2> DEFINE a == SubSeq(q, 1, k - 1)
             b == SubSeq(q, k + 1, Len(q))
  <2>1. k \in 1 .. Len(q) /\ Len(q) \in Nat /\ \A i \in 1 .. Len(q) : q[i] \in S
    OBVIOUS
  <2>2. /\ a \in Seq(S) /\ Len(a) = k - 1
        /\ \A i \in 1 .. k - 1 : a[i] = q[i]
    <3>1. \A i \in 1 .. k - 1 : q[i] \in S
      BY <2>1
    <3>2. /\ a \in Seq(S) /\ Len(a) = IF 1 <= k - 1 THEN k - 1 - 1 + 1 ELSE 0
          /\ \A i \in 1 .. k - 1 - 1 + 1 : a[i] = q[1 + i - 1]
      BY <2>1, <3>1, SubSeqProperties, SMT
    <3> HIDE DEF a
    <3> QED BY <2>1, <3>2
  <2>3. /\ b \in Seq(S) /\ Len(b) = Len(q) - k
        /\ \A i \in 1 .. Len(q) - k : b[i] = q[k + i]
    <3>1. \A i \in k + 1 .. Len(q) : q[i] \in S
      BY <2>1
    <3>2. /\ b \in Seq(S)
          /\ Len(b) = IF k + 1 <= Len(q) THEN Len(q) - (k + 1) + 1 ELSE 0
          /\ \A i \in 1 .. Len(q) - (k + 1) + 1 : b[i] = q[k + 1 + i - 1]
      BY <2>1, <3>1, SubSeqProperties, SMT
    <3> HIDE DEF b
    <3> QED BY <2>1, <3>2
  <2>4. r = a \o b
    BY DEF RemoveAt
  <2> HIDE DEF a, b, r
  <2>5. /\ r \in Seq(S) /\ Len(r) = Len(a) + Len(b)
        /\ \A i \in 1 .. Len(a) + Len(b) :
              r[i] = IF i <= Len(a) THEN a[i] ELSE b[i - Len(a)]
    BY <2>2, <2>3, <2>4, ConcatProperties
  <2>6. Len(a) + Len(b) = Len(q) - 1
    BY <2>1, <2>2, <2>3
  <2>7. ASSUME NEW i \in 1 .. Len(q) - 1
        PROVE  r[i] = IF i < k THEN q[i] ELSE q[i + 1]
    <3>1. CASE i < k
      BY <2>1, <2>2, <2>5, <2>6, <3>1
    <3>2. CASE ~(i < k)
      <4>1. i - (k - 1) \in 1 .. Len(q) - k /\ k + (i - (k - 1)) = i + 1
        BY <2>1, <3>2
      <4>2. r[i] = b[i - (k - 1)]
        BY <2>1, <2>2, <2>5, <2>6, <3>2, SMTT(30)
      <4>3. b[i - (k - 1)] = q[i + 1]
        BY <2>1, <2>3, <4>1
      <4> QED BY <3>2, <4>2, <4>3
    <3> QED BY <3>1, <3>2
  <2> QED BY <2>1, <2>5, <2>6, <2>7
<1> HIDE DEF r
<1>2. ASSUME IsInjective(q) PROVE Range(r) = Range(q) \ {q[k]}
  <2>1. ASSUME NEW y \in Range(r) PROVE y \in Range(q) \ {q[k]}
    BY <1>1, <1>2, <2>1 DEF IsInjective, Range
  <2>2. ASSUME NEW y \in Range(q) \ {q[k]} PROVE y \in Range(r)
    <3>1. PICK i \in 1 .. Len(q) : q[i] = y /\ i # k
      BY <1>1, <2>2 DEF Range
    <3>2. CASE i < k
      BY <1>1, <3>1, <3>2 DEF Range
    <3>3. CASE i > k
      <4>1. i - 1 \in 1 .. Len(q) - 1 /\ r[i - 1] = q[i]
        BY <1>1, <3>1, <3>3
      <4> QED BY <1>1, <3>1, <4>1 DEF Range
    <3> QED BY <1>1, <3>1, <3>2, <3>3
  <2> QED BY <2>1, <2>2
<1>3. ASSUME IsInjective(q) PROVE IsInjective(r)
  <2>1. DOMAIN r = 1 .. Len(q) - 1 /\ DOMAIN q = 1 .. Len(q) /\ Len(q) \in Nat
    BY <1>1
  <2> SUFFICES ASSUME NEW i \in 1 .. Len(q) - 1, NEW j \in 1 .. Len(q) - 1, r[i] = r[j]
               PROVE  i = j
    BY <2>1 DEF IsInjective
  <2> DEFINE m == IF i < k THEN i ELSE i + 1
             n == IF j < k THEN j ELSE j + 1
  <2>2. r[i] = q[m] /\ r[j] = q[n]
    BY <1>1
  <2>3. m \in DOMAIN q /\ n \in DOMAIN q
    BY <2>1
  <2>4. m = n
    <3> HIDE DEF m, n
    <3> QED BY <1>3, <2>2, <2>3, Zenon DEF IsInjective
  <2> QED BY <2>1, <2>4
<1> QED BY <1>1, <1>2, <1>3 DEF r

\* Unlinking an element leaves exactly the others, whether it was there or not.
LEMMA UnlinkLemma ==
  ASSUME NEW S, NEW q \in Seq(S), NEW x, IsInjective(q)
  PROVE  /\ Unlink(q, x) \in Seq(S)
         /\ Range(Unlink(q, x)) = Range(q) \ {x}
         /\ IsInjective(Unlink(q, x))
<1>1. CASE x \notin Range(q)
  BY <1>1 DEF Unlink
<1>2. CASE x \in Range(q)
  <2> DEFINE first(i) == q[i] = x /\ \A j \in 1 .. i - 1 : q[j] # x
             k == CHOOSE i \in DOMAIN q : first(i)
  <2>1. PICK i \in DOMAIN q : q[i] = x
    BY <1>2 DEF Range
  <2>2. DOMAIN q = 1 .. Len(q) /\ Len(q) \in Nat
    OBVIOUS
  <2>3. first(i)
    BY <2>1, <2>2 DEF IsInjective
  <2>4. k \in DOMAIN q /\ q[k] = x
    BY <2>3
  <2>5. Unlink(q, x) = RemoveAt(q, k)
    BY <1>2 DEF Unlink
  <2> HIDE DEF k
  <2> QED BY <2>4, <2>5, RemoveAtLemma
<1> QED BY <1>1, <1>2

\* A list is empty exactly when nothing is on it.
LEMMA EmptyRange ==
  ASSUME NEW S, NEW q \in Seq(S)
  PROVE  /\ q = << >> <=> Range(q) = {}
         /\ q # << >> => Head(q) \in Range(q)
         /\ Range(q) \subseteq S
BY DEF Range

\* The do-while loop of vcpu_wakeup ends on a Main VCPU.
LEMMA NextMainLemma ==
  ASSUME NEW n \in Vcpu
  PROVE  NextMain(n) \in MainVcpu
<1> DEFINE reach(d) == (n + d) % NumVcpus
           first(d) == reach(d) \in MainVcpu /\ \A e \in 0 .. d - 1 : reach(e) \notin MainVcpu
<1>1. PICK m \in MainVcpu : m \in Vcpu
  BY MainVcpuAssumption
<1>2. \E d \in Vcpu : reach(d) = m
  <2>1. CASE m >= n
    <3>1. m - n \in Vcpu /\ reach(m - n) = m
      BY <1>1, <2>1, NumVcpusAssumption DEF Vcpu
    <3> QED BY <3>1
  <2>2. CASE m < n
    <3>1. m + NumVcpus - n \in Vcpu /\ reach(m + NumVcpus - n) = m
      BY <1>1, <2>2, NumVcpusAssumption DEF Vcpu
    <3> QED BY <3>1
  <2> QED BY <1>1, <2>1, <2>2, NumVcpusAssumption DEF Vcpu
<1>3. \E d \in Vcpu : first(d)
  <2> DEFINE D == {d \in Vcpu : reach(d) \in MainVcpu}
             R == OpToRel(<, Nat)
  <2>1. D \subseteq Nat /\ D # {}
    BY <1>1, <1>2 DEF Vcpu
  <2>2. \E d \in D : \A e \in D : <<e, d>> \notin R
    <3>1. IsWellFoundedOn(R, Nat)
      BY NatLessThanWellFounded
    <3> HIDE DEF D, R
    <3> QED BY <2>1, <3>1, WFMin
  <2>3. \A d, e \in Nat : e < d => <<e, d>> \in R
    BY DEF OpToRel
  <2>4. PICK d \in D : \A e \in D : <<e, d>> \notin R
    BY <2>2
  <2> HIDE DEF R
  <2>5. ASSUME NEW e \in 0 .. d - 1 PROVE reach(e) \notin MainVcpu
    <3>1. e \in Vcpu /\ e \in Nat /\ d \in Nat /\ e < d
      BY <2>1, <2>5, NumVcpusAssumption DEF Vcpu
    <3> QED BY <2>3, <2>4, <3>1
  <2> QED BY <2>4, <2>5
<1> QED BY <1>3 DEF NextMain

-----------------------------------------------------------------------------
(* The inductive invariant                                                  *)

\* What the properties need besides each other: PCPU queues hold no VCPU
\* twice, a VCPU that was ever scheduled has a selected task, only __exit
\* leaves a PCPU without a task and schedule() follows, and the kernel lock
\* has one holder.
Support ==
  /\ \A p \in Pcpu : IsInjective(vcpu_queue[p])
  /\ \A v \in Vcpu : started[v] => tr[v] \in Task
  /\ \A p \in Pcpu : str[p] = NoTask => handler[p] = "resched"
  /\ \A p, q \in Pcpu : handler[p] # "user" /\ handler[q] # "user" => p = q

SchedInv ==
  /\ RunningIsCurrent
  /\ RunnableIsQueued
  /\ CurrentRunsItsTask
  /\ NoTaskRunsTwice
  /\ OneRunqueue
  /\ OnlyLiveTasks

IInv == TypeOK /\ Support /\ SchedInv

LEMMA InitIInv == Init => IInv
<1> SUFFICES ASSUME Init PROVE IInv
  OBVIOUS
<1> USE DEF Init
<1>1. TypeOK
  BY NumVcpusAssumption, BootAssumption, PeriodAssumption DEF TypeOK, Vcpu
<1>2. /\ \A v \in Vcpu : Range(runqueue[v]) = {}
      /\ \A p \in Pcpu : Range(vcpu_queue[p]) = {}
  BY DEF Range
<1>3. Support
  BY BootAssumption, NullAssumption DEF Support, IsInjective
<1>4. RunningIsCurrent /\ RunnableIsQueued /\ CurrentRunsItsTask
  BY <1>2, NullAssumption DEF RunningIsCurrent, RunnableIsQueued, CurrentRunsItsTask
<1>5. NoTaskRunsTwice /\ OnlyLiveTasks
  BY <1>2, BootAssumption, NullAssumption DEF NoTaskRunsTwice, OnlyLiveTasks
<1>6. OneRunqueue
  <2>1. \A v \in Vcpu : IsInjective(runqueue[v])
    BY DEF IsInjective
  <2> QED BY <1>2, <2>1 DEF OneRunqueue, Queued
<1> QED BY <1>1, <1>3, <1>4, <1>5, <1>6 DEF IInv, SchedInv

\* The effect of vcpu_wakeup on the queues, in terms of what is on them.
LEMMA WakeupEffect ==
  ASSUME TypeOK, Support, OneRunqueue, NEW t \in Task, Wakeup(t)
  PROVE  /\ VcpuOf(t) \in Vcpu
         /\ cpu' \in [Task -> Vcpu \cup {Unbound}]
         /\ \A u \in Task : cpu'[u] = IF u = t THEN VcpuOf(t) ELSE cpu[u]
         /\ next_vcpu_binding' \in Vcpu
         /\ runqueue' \in [Vcpu -> Seq(Task)]
         /\ vcpu_queue' \in [Pcpu -> Seq(Vcpu)]
         /\ \A v \in Vcpu : /\ IsInjective(runqueue'[v])
                            /\ Range(runqueue'[v]) = IF v = VcpuOf(t)
                                 THEN Range(runqueue[v]) \cup {t} ELSE Range(runqueue[v])
                            /\ runqueue'[v] # << >> <=> (runqueue[v] # << >> \/ v = VcpuOf(t))
         /\ \A p \in Pcpu : /\ IsInjective(vcpu_queue'[p])
                            /\ Range(vcpu_queue'[p]) = IF p = home[VcpuOf(t)]
                                 THEN Range(vcpu_queue[p]) \cup {VcpuOf(t)}
                                 ELSE Range(vcpu_queue[p])
<1> DEFINE v == VcpuOf(t)
<1>1. v \in Vcpu
  BY NextMainLemma, MainVcpuAssumption DEF VcpuOf, TypeOK
<1>2. /\ cpu' = [cpu EXCEPT ![t] = v]
      /\ next_vcpu_binding' \in {(v + 1) % NumVcpus, next_vcpu_binding}
      /\ runqueue' = [runqueue EXCEPT ![v] = QueueAppend(runqueue[v], t)]
      /\ vcpu_queue' = [vcpu_queue EXCEPT ![home[v]] = QueueAppend(vcpu_queue[home[v]], v)]
  BY DEF Wakeup, Bind, EnqueueVcpu
<1>3. home[v] \in Pcpu
  BY <1>1, PlacementAssumption
<1> HIDE DEF v
<1>4. next_vcpu_binding' \in Vcpu
  BY <1>1, <1>2, NumVcpusAssumption DEF TypeOK, Vcpu
<1>5. /\ QueueAppend(runqueue[v], t) \in Seq(Task)
      /\ QueueAppend(runqueue[v], t) # << >>
      /\ Range(QueueAppend(runqueue[v], t)) = Range(runqueue[v]) \cup {t}
      /\ IsInjective(QueueAppend(runqueue[v], t))
  <2>1. runqueue[v] \in Seq(Task) /\ IsInjective(runqueue[v])
    BY <1>1 DEF TypeOK, OneRunqueue
  <2> QED BY <2>1, QueueAppendLemma
<1>6. /\ QueueAppend(vcpu_queue[home[v]], v) \in Seq(Vcpu)
      /\ Range(QueueAppend(vcpu_queue[home[v]], v)) = Range(vcpu_queue[home[v]]) \cup {v}
      /\ IsInjective(QueueAppend(vcpu_queue[home[v]], v))
  <2>1. vcpu_queue[home[v]] \in Seq(Vcpu) /\ IsInjective(vcpu_queue[home[v]])
    BY <1>3 DEF TypeOK, Support
  <2> QED BY <1>1, <2>1, QueueAppendLemma
<1>7. /\ cpu' \in [Task -> Vcpu \cup {Unbound}]
      /\ \A u \in Task : cpu'[u] = IF u = t THEN v ELSE cpu[u]
  BY <1>1, <1>2 DEF TypeOK
<1>8. /\ runqueue' \in [Vcpu -> Seq(Task)]
      /\ \A w \in Vcpu : runqueue'[w] = IF w = v THEN QueueAppend(runqueue[v], t)
                                        ELSE runqueue[w]
  BY <1>1, <1>2, <1>5 DEF TypeOK
<1>9. /\ vcpu_queue' \in [Pcpu -> Seq(Vcpu)]
      /\ \A p \in Pcpu : vcpu_queue'[p] = IF p = home[v] THEN QueueAppend(vcpu_queue[home[v]], v)
                                          ELSE vcpu_queue[p]
  BY <1>3, <1>2, <1>6 DEF TypeOK
<1>10. ASSUME NEW w \in Vcpu
       PROVE  /\ IsInjective(runqueue'[w])
              /\ Range(runqueue'[w]) = IF w = v THEN Range(runqueue[w]) \cup {t}
                                       ELSE Range(runqueue[w])
              /\ runqueue'[w] # << >> <=> (runqueue[w] # << >> \/ w = v)
  BY <1>5, <1>8 DEF OneRunqueue
<1>11. ASSUME NEW p \in Pcpu
       PROVE  /\ IsInjective(vcpu_queue'[p])
              /\ Range(vcpu_queue'[p]) = IF p = home[v] THEN Range(vcpu_queue[p]) \cup {v}
                                         ELSE Range(vcpu_queue[p])
  BY <1>6, <1>9 DEF Support
<1> QED BY <1>1, <1>4, <1>7, <1>8, <1>9, <1>10, <1>11 DEF v

\* vcpu_wakeup keeps the invariant when a PCPU that executes the woken task
\* goes on into schedule().
LEMMA WakeupInv ==
  ASSUME IInv, NEW t \in live, Wakeup(t), T' \in [Vcpu -> Period],
         handler' \in [Pcpu -> {"user", "kernel", "resched"}],
         \A p \in Pcpu : /\ handler'[p] = "user" <=> handler[p] = "user"
                         /\ handler[p] = "resched" => handler'[p] = "resched"
                         /\ str[p] = t => handler'[p] = "resched"
  PROVE  IInv'
<1> DEFINE v == VcpuOf(t)
<1>0. t \in Task
  BY DEF IInv, TypeOK
<1>1. /\ v \in Vcpu
      /\ cpu' \in [Task -> Vcpu \cup {Unbound}]
      /\ \A u \in Task : cpu'[u] = IF u = t THEN v ELSE cpu[u]
      /\ next_vcpu_binding' \in Vcpu
      /\ runqueue' \in [Vcpu -> Seq(Task)]
      /\ vcpu_queue' \in [Pcpu -> Seq(Vcpu)]
      /\ \A w \in Vcpu : /\ IsInjective(runqueue'[w])
                         /\ Range(runqueue'[w]) = IF w = v THEN Range(runqueue[w]) \cup {t}
                                                  ELSE Range(runqueue[w])
                         /\ runqueue'[w] # << >> <=> (runqueue[w] # << >> \/ w = v)
      /\ \A p \in Pcpu : /\ IsInjective(vcpu_queue'[p])
                         /\ Range(vcpu_queue'[p]) = IF p = home[v] THEN Range(vcpu_queue[p]) \cup {v}
                                                    ELSE Range(vcpu_queue[p])
  BY <1>0, WakeupEffect DEF IInv, SchedInv
<1>2. /\ UNCHANGED <<live, str, vcpu_current, tr, started, running>>
      /\ runnable' = [runnable EXCEPT ![v] = TRUE]
  BY DEF Wakeup, EnqueueVcpu
<1>3. cpu[t] \in {v, Unbound}
  BY <1>0 DEF VcpuOf
<1> HIDE DEF v
<1>4. TypeOK'
  BY <1>1, <1>2 DEF IInv, TypeOK
<1>5. Support'
  BY <1>1, <1>2 DEF IInv, Support, TypeOK
<1>6. RunningIsCurrent' /\ CurrentRunsItsTask' /\ NoTaskRunsTwice'
  BY <1>2 DEF IInv, SchedInv, RunningIsCurrent, CurrentRunsItsTask, NoTaskRunsTwice
<1>7. RunnableIsQueued'
  <2>1. \A w \in Vcpu : runnable'[w] <=> (runnable[w] \/ w = v)
    BY <1>1, <1>2 DEF IInv, TypeOK
  <2> QED BY <1>1, <2>1, PlacementAssumption DEF IInv, SchedInv, RunnableIsQueued
<1>8. OneRunqueue'
  <2>1. ASSUME NEW w \in Vcpu, NEW u \in Range(runqueue'[w]) PROVE cpu'[u] = w
    <3>1. u \in Task
      BY <1>1, EmptyRange
    <3>2. CASE u = t /\ w = v
      BY <1>1, <3>1, <3>2
    <3>3. CASE ~(u = t /\ w = v)
      <4>1. u \in Range(runqueue[w]) /\ cpu[u] = w
        BY <1>1, <2>1, <3>3 DEF IInv, SchedInv, OneRunqueue
      <4>2. u # t
        BY <1>3, <3>3, <4>1, NullAssumption
      <4> QED BY <1>1, <3>1, <4>1, <4>2
    <3> QED BY <3>2, <3>3
  <2>2. ASSUME NEW p \in Pcpu, Queued(str[p])' PROVE handler'[p] = "resched"
    <3>1. PICK w \in Vcpu : str[p] \in Range(runqueue'[w])
      BY <1>2, <2>2 DEF Queued
    <3>2. str[p] \in Range(runqueue[w]) \/ str[p] = t
      BY <1>1, <3>1, ZenonT(40)
    <3>3. Queued(str[p]) \/ str[p] = t
      BY <3>2 DEF Queued
    <3> QED BY <3>3 DEF IInv, SchedInv, OneRunqueue
  <2> QED BY <1>1, <2>1, <2>2 DEF OneRunqueue
<1>9. OnlyLiveTasks'
  BY <1>1, <1>2, ZenonT(40) DEF IInv, SchedInv, OnlyLiveTasks
<1> QED BY <1>4, <1>5, <1>6, <1>7, <1>8, <1>9 DEF IInv, SchedInv

\* iovcpu_job_wakeup gives an I/O VCPU a period that some VCPU may have.
LEMMA InheritTType ==
  ASSUME TypeOK, NEW v \in Vcpu, NEW period \in Period
  PROVE  InheritT(v, period) \in [Vcpu -> Period]
BY DEF InheritT, TypeOK

LEMMA WakeSteps ==
  ASSUME IInv, NEW p \in Pcpu,
         \/ Yield(p)
         \/ \E t \in Task : WakeOther(p, t)
         \/ \E t \in Task, period \in Period : JobWakeup(p, t, period)
  PROVE  IInv'
<1>1. CASE Yield(p)
  <2>1. str[p] \in live
    BY <1>1 DEF IInv, SchedInv, OnlyLiveTasks, Yield
  <2>2. /\ Wakeup(str[p]) /\ T' \in [Vcpu -> Period]
        /\ handler' = [handler EXCEPT ![p] = "resched"] /\ handler[p] = "kernel"
    BY <1>1 DEF Yield, IInv, TypeOK
  <2>3. \A q \in Pcpu : str[q] = str[p] => q = p
    BY <1>1, NullAssumption DEF Yield, IInv, SchedInv, NoTaskRunsTwice
  <2>4. /\ handler' \in [Pcpu -> {"user", "kernel", "resched"}]
        /\ \A q \in Pcpu : /\ handler'[q] = "user" <=> handler[q] = "user"
                           /\ handler[q] = "resched" => handler'[q] = "resched"
                           /\ str[q] = str[p] => handler'[q] = "resched"
    BY <2>2, <2>3 DEF IInv, TypeOK
  <2> QED BY <2>1, <2>2, <2>4, WakeupInv
<1>2. CASE \E t \in Task : WakeOther(p, t)
  <2>1. PICK t \in Task : WakeOther(p, t)
    BY <1>2
  <2>2. /\ t \in live /\ Wakeup(t) /\ T' \in [Vcpu -> Period] /\ handler' = handler
        /\ \A q \in Pcpu : str[q] # t
    BY <2>1 DEF WakeOther, IInv, TypeOK
  <2>3. handler \in [Pcpu -> {"user", "kernel", "resched"}]
    BY DEF IInv, TypeOK
  <2> QED BY <2>2, <2>3, WakeupInv
<1>3. CASE \E t \in Task, period \in Period : JobWakeup(p, t, period)
  <2>1. PICK t \in Task, period \in Period : JobWakeup(p, t, period)
    BY <1>3
  <2>2. /\ t \in live /\ Wakeup(t) /\ cpu[t] # Unbound /\ handler' = handler
        /\ \A q \in Pcpu : str[q] # t
        /\ T' = InheritT(cpu[t], period)
    BY <2>1 DEF JobWakeup
  <2>3. handler \in [Pcpu -> {"user", "kernel", "resched"}] /\ TypeOK
    BY DEF IInv, TypeOK
  <2>4. T' \in [Vcpu -> Period]
    BY <2>2, <2>3, InheritTType DEF TypeOK
  <2> QED BY <2>2, <2>3, <2>4, WakeupInv
<1> QED BY <1>1, <1>2, <1>3

\* vcpu_internal_schedule on a VCPU of the PCPU's queue finds a task on the
\* VCPU's run queue, whether the previous one is kept or not.
LEMMA NextTaskQueued ==
  ASSUME IInv, NEW v \in Vcpu, runqueue[v] # << >>, NEW expired \in BOOLEAN
  PROVE  /\ NextTask(v, expired) \in Range(runqueue[v])
         /\ NextTask(v, expired) \in live /\ NextTask(v, expired) \in Task
         /\ NextTask(v, expired) # NoTask
<1> DEFINE n == NextTask(v, expired)
<1>1. runqueue[v] \in Seq(Task) /\ (started[v] => tr[v] # NoTask)
  BY NullAssumption DEF IInv, TypeOK, Support
<1>2. n \in Range(runqueue[v])
  BY <1>1, EmptyRange DEF NextTask, KeepsTask, InRunqueue
<1>3. n \in live /\ n \in Task
  BY <1>2 DEF IInv, SchedInv, OnlyLiveTasks, TypeOK
<1> QED BY <1>2, <1>3, NullAssumption

LEMMA RunIdleInv ==
  ASSUME IInv, NEW p \in Pcpu, handler[p] # "user", RunIdle(p),
         handler' = [handler EXCEPT ![p] = "kernel"], UNCHANGED <<taskVars, T>>
  PROVE  IInv'
<1> USE DEF IInv, SchedInv, RunIdle
<1>1. UNCHANGED <<live, cpu, next_vcpu_binding, T, vcpu_queue, runqueue, tr, started, runnable>>
  BY DEF taskVars
<1>2. \A v \in Vcpu : running'[v] <=> (v # vcpu_current[p] /\ running[v])
  BY NullAssumption DEF SwitchRunning, TypeOK
<1>3. \A q \in Pcpu : /\ vcpu_current'[q] = IF q = p THEN NoVcpu ELSE vcpu_current[q]
                      /\ str'[q] = IF q = p THEN Idle ELSE str[q]
                      /\ handler'[q] = IF q = p THEN "kernel" ELSE handler[q]
  BY DEF TypeOK
<1>4. TypeOK'
  <2>1. running' \in [Vcpu -> BOOLEAN]
    BY DEF SwitchRunning, TypeOK
  <2> QED BY <1>1, <2>1 DEF TypeOK
<1>5. Support'
  BY <1>1, <1>3, NullAssumption DEF Support
<1>6. RunningIsCurrent'
  BY <1>2, <1>3, NullAssumption, SMTT(60) DEF RunningIsCurrent
<1>7. RunnableIsQueued' /\ CurrentRunsItsTask' /\ NoTaskRunsTwice' /\ OnlyLiveTasks'
  <2>1. RunnableIsQueued'
    BY <1>1 DEF RunnableIsQueued
  <2>2. CurrentRunsItsTask'
    BY <1>1, <1>3, NullAssumption DEF CurrentRunsItsTask
  <2>3. NoTaskRunsTwice'
    BY <1>3, NullAssumption DEF NoTaskRunsTwice
  <2>4. OnlyLiveTasks'
    BY <1>1, <1>3, NullAssumption DEF OnlyLiveTasks
  <2> QED BY <2>1, <2>2, <2>3, <2>4
<1>8. OneRunqueue'
  <2>1. ~ Queued(Idle)
    BY NullAssumption DEF OnlyLiveTasks, TypeOK, Queued
  <2>2. ASSUME NEW q \in Pcpu, Queued(str[q])' PROVE handler'[q] = "resched"
    <3>1. Queued(str'[q])
      BY <1>1, <2>2 DEF Queued
    <3> QED BY <1>3, <2>1, <3>1 DEF OneRunqueue
  <2> QED BY <1>1, <2>2 DEF OneRunqueue
<1> QED BY <1>4, <1>5, <1>6, <1>7, <1>8

LEMMA RunVcpuInv ==
  ASSUME IInv, NEW p \in Pcpu, handler[p] # "user",
         NEW v \in Range(vcpu_queue[p]), NEW expired \in BOOLEAN, RunVcpu(p, v, expired),
         handler' = [handler EXCEPT ![p] = "kernel"], UNCHANGED <<taskVars, T>>
  PROVE  IInv'
<1> DEFINE n == NextTask(v, expired)
<1>0. v \in Vcpu /\ home[v] = p /\ runqueue[v] # << >>
  <2>1. vcpu_queue[p] \in Seq(Vcpu)
    BY DEF IInv, TypeOK
  <2>2. v \in Vcpu
    BY <2>1, EmptyRange
  <2> QED BY <2>2 DEF IInv, SchedInv, RunnableIsQueued
<1>1. n \in Range(runqueue[v]) /\ n \in live /\ n \in Task /\ n # NoTask
  BY <1>0, NextTaskQueued
<1>2. UNCHANGED <<live, cpu, next_vcpu_binding, T>>
  BY DEF taskVars
<1>3. /\ tr' = [tr EXCEPT ![v] = n]
      /\ runqueue' = [runqueue EXCEPT ![v] = Unlink(runqueue[v], n)]
      /\ started' = [started EXCEPT ![v] = TRUE]
      /\ vcpu_current' = [vcpu_current EXCEPT ![p] = v]
      /\ str' = [str EXCEPT ![p] = n]
      /\ running' = [w \in Vcpu |-> w = v \/ (w # vcpu_current[p] /\ running[w])]
      /\ \/ /\ runqueue'[v] = << >>
            /\ vcpu_queue' = [vcpu_queue EXCEPT ![p] = Unlink(vcpu_queue[p], v)]
            /\ runnable' = [runnable EXCEPT ![v] = FALSE]
         \/ /\ runqueue'[v] # << >>
            /\ UNCHANGED <<vcpu_queue, runnable>>
  BY <1>1 DEF RunVcpu, InternalSchedule, SwitchRunning
<1> HIDE DEF n
<1>4. /\ Unlink(runqueue[v], n) \in Seq(Task)
      /\ Range(Unlink(runqueue[v], n)) = Range(runqueue[v]) \ {n}
      /\ IsInjective(Unlink(runqueue[v], n))
  <2>1. runqueue[v] \in Seq(Task) /\ IsInjective(runqueue[v])
    BY <1>0 DEF IInv, SchedInv, TypeOK, OneRunqueue
  <2> QED BY <2>1, UnlinkLemma
<1>5. /\ Unlink(vcpu_queue[p], v) \in Seq(Vcpu)
      /\ Range(Unlink(vcpu_queue[p], v)) = Range(vcpu_queue[p]) \ {v}
      /\ IsInjective(Unlink(vcpu_queue[p], v))
  <2>1. vcpu_queue[p] \in Seq(Vcpu) /\ IsInjective(vcpu_queue[p])
    BY DEF IInv, TypeOK, Support
  <2> QED BY <2>1, UnlinkLemma
<1>6. \A w \in Vcpu : /\ runqueue'[w] = IF w = v THEN Unlink(runqueue[v], n) ELSE runqueue[w]
                      /\ tr'[w] = IF w = v THEN n ELSE tr[w]
                      /\ started'[w] <=> (w = v \/ started[w])
                      /\ running'[w] <=> (w = v \/ (w # vcpu_current[p] /\ running[w]))
  BY <1>0, <1>3 DEF IInv, TypeOK
<1>7. \A q \in Pcpu : /\ vcpu_current'[q] = IF q = p THEN v ELSE vcpu_current[q]
                      /\ str'[q] = IF q = p THEN n ELSE str[q]
                      /\ handler'[q] = IF q = p THEN "kernel" ELSE handler[q]
  BY <1>3 DEF IInv, TypeOK
<1>8. TypeOK'
  <2>1. /\ runqueue' \in [Vcpu -> Seq(Task)] /\ tr' \in [Vcpu -> Task \cup {NoTask}]
        /\ started' \in [Vcpu -> BOOLEAN] /\ running' \in [Vcpu -> BOOLEAN]
    BY <1>0, <1>1, <1>3, <1>4 DEF IInv, TypeOK
  <2>2. /\ vcpu_current' \in [Pcpu -> Vcpu \cup {NoVcpu}]
        /\ str' \in [Pcpu -> Task \cup {Idle, NoTask}]
        /\ handler' \in [Pcpu -> {"user", "kernel", "resched"}]
    BY <1>0, <1>1, <1>3 DEF IInv, TypeOK
  <2>3. vcpu_queue' \in [Pcpu -> Seq(Vcpu)] /\ runnable' \in [Vcpu -> BOOLEAN]
    <3>1. vcpu_queue \in [Pcpu -> Seq(Vcpu)] /\ runnable \in [Vcpu -> BOOLEAN]
      BY DEF IInv, TypeOK
    <3>2. CASE runqueue'[v] = << >>
      BY <1>3, <1>5, <3>1, <3>2
    <3>3. CASE runqueue'[v] # << >>
      BY <1>3, <3>1, <3>3
    <3> QED BY <3>2, <3>3
  <2> QED BY <1>2, <2>1, <2>2, <2>3 DEF IInv, TypeOK
<1>9. \A q \in Pcpu : /\ IsInjective(vcpu_queue'[q])
                      /\ Range(vcpu_queue'[q]) = IF q = p /\ runqueue'[v] = << >>
                           THEN Range(vcpu_queue[q]) \ {v} ELSE Range(vcpu_queue[q])
  <2>1. vcpu_queue \in [Pcpu -> Seq(Vcpu)] /\ \A q \in Pcpu : IsInjective(vcpu_queue[q])
    BY DEF IInv, TypeOK, Support
  <2>2. CASE runqueue'[v] = << >>
    BY <1>3, <1>5, <2>1, <2>2
  <2>3. CASE runqueue'[v] # << >>
    BY <1>3, <2>1, <2>3
  <2> QED BY <2>2, <2>3
<1>10. Support'
  <2>1. \A w \in Vcpu : started'[w] => tr'[w] \in Task
    BY <1>1, <1>6 DEF IInv, Support
  <2>2. \A q \in Pcpu : str'[q] = NoTask => handler'[q] = "resched"
    BY <1>1, <1>7 DEF IInv, Support
  <2>3. \A q, r \in Pcpu : handler'[q] # "user" /\ handler'[r] # "user" => q = r
    BY <1>7 DEF IInv, Support
  <2> QED BY <1>9, <2>1, <2>2, <2>3 DEF Support
<1>11. RunningIsCurrent'
  BY <1>0, <1>6, <1>7 DEF IInv, SchedInv, RunningIsCurrent
<1>12. RunnableIsQueued'
  <2>1. \A w \in Vcpu : runnable'[w] <=> (IF w = v THEN runqueue'[v] # << >> ELSE runnable[w])
    BY <1>0, <1>3 DEF IInv, SchedInv, TypeOK, RunnableIsQueued
  <2>2. ASSUME NEW w \in Vcpu PROVE runnable'[w] <=> runqueue'[w] # << >>
    <3>1. CASE w = v
      BY <2>1, <3>1
    <3>2. CASE w # v
      <4>1. runnable'[w] <=> runnable[w]
        BY <2>1, <3>2
      <4>2. runqueue'[w] = runqueue[w]
        BY <1>6, <3>2
      <4>3. runnable[w] <=> runqueue[w] # << >>
        BY DEF IInv, SchedInv, RunnableIsQueued
      <4> QED BY <4>1, <4>2, <4>3
    <3> QED BY <3>1, <3>2
  <2>3. ASSUME NEW w \in Vcpu, NEW q \in Pcpu
        PROVE  w \in Range(vcpu_queue'[q]) <=> (runnable'[w] /\ home[w] = q)
    <3>1. w \in Range(vcpu_queue[q]) <=> (runnable[w] /\ home[w] = q)
      BY DEF IInv, SchedInv, RunnableIsQueued
    <3>2. CASE w = v
      BY <1>0, <1>9, <2>1, <3>1, <3>2
    <3>3. CASE w # v
      BY <1>9, <2>1, <3>1, <3>3
    <3> QED BY <3>2, <3>3
  <2> QED BY <2>2, <2>3 DEF RunnableIsQueued
<1>13. CurrentRunsItsTask'
  <2>1. \A q \in Pcpu : q # p => vcpu_current[q] # v
    BY <1>0 DEF IInv, SchedInv, RunningIsCurrent
  <2>2. ASSUME NEW q \in Pcpu, vcpu_current'[q] \in Vcpu
        PROVE  tr'[vcpu_current'[q]] \in Task /\ str'[q] \in {tr'[vcpu_current'[q]], NoTask}
    <3>1. CASE q = p
      <4>1. vcpu_current'[q] = v /\ str'[q] = n /\ tr'[v] = n
        BY <1>0, <1>6, <1>7, <3>1
      <4> QED BY <1>1, <4>1
    <3>2. CASE q # p
      <4>1. vcpu_current'[q] = vcpu_current[q] /\ str'[q] = str[q]
        BY <1>7, <3>2
      <4>2. tr'[vcpu_current[q]] = tr[vcpu_current[q]]
        BY <1>6, <2>1, <2>2, <3>2, <4>1
      <4>3. tr[vcpu_current[q]] \in Task /\ str[q] \in {tr[vcpu_current[q]], NoTask}
        BY <2>2, <4>1 DEF IInv, SchedInv, CurrentRunsItsTask
      <4> QED BY <4>1, <4>2, <4>3
    <3> QED BY <3>1, <3>2
  <2> QED BY <2>2 DEF CurrentRunsItsTask
<1>14. \A q \in Pcpu : q # p => ~ Queued(str[q])
  <2>1. \A q \in Pcpu : q # p => handler[q] = "user"
    BY DEF IInv, Support
  <2> QED BY <2>1 DEF IInv, SchedInv, OneRunqueue
<1>15. NoTaskRunsTwice'
  <2>1. \A q \in Pcpu : q # p => str[q] # n
    BY <1>0, <1>1, <1>14 DEF Queued
  <2> QED BY <1>7, <2>1 DEF IInv, SchedInv, NoTaskRunsTwice
<1>16. OneRunqueue'
  <2>1. \A w \in Vcpu : /\ IsInjective(runqueue'[w])
                        /\ Range(runqueue'[w]) = IF w = v THEN Range(runqueue[w]) \ {n}
                                                 ELSE Range(runqueue[w])
    BY <1>4, <1>6 DEF IInv, SchedInv, OneRunqueue
  <2>2. \A w \in Vcpu : n \notin Range(runqueue'[w])
    <3>1. \A w \in Vcpu : n \in Range(runqueue[w]) => w = cpu[n]
      BY DEF IInv, SchedInv, OneRunqueue
    <3>2. v = cpu[n]
      BY <1>0, <1>1, <3>1
    <3> QED BY <2>1, <3>1, <3>2
  <2>3. ASSUME NEW q \in Pcpu, Queued(str[q])' PROVE FALSE
    <3>1. PICK w \in Vcpu : str'[q] \in Range(runqueue'[w])
      BY <2>3 DEF Queued
    <3>2. q # p
      BY <1>7, <2>2, <3>1
    <3> QED BY <1>7, <1>14, <2>1, <3>1, <3>2 DEF Queued
  <2> QED BY <1>2, <2>1, <2>3 DEF IInv, SchedInv, OneRunqueue
<1>17. OnlyLiveTasks'
  BY <1>1, <1>2, <1>4, <1>6, <1>7 DEF IInv, SchedInv, OnlyLiveTasks
<1> QED BY <1>8, <1>10, <1>11, <1>12, <1>13, <1>15, <1>16, <1>17 DEF IInv, SchedInv

LEMMA ScheduleInv ==
  ASSUME IInv, NEW p \in Pcpu, NEW has \in SUBSET Vcpu, NEW expired \in BOOLEAN,
         Schedule(p, has, expired)
  PROVE  IInv'
<1>1. /\ handler[p] # "user"
      /\ handler' = [handler EXCEPT ![p] = "kernel"] /\ UNCHANGED <<taskVars, T>>
  BY DEF Schedule
<1>2. CASE RunIdle(p)
  BY <1>1, <1>2, RunIdleInv
<1>3. CASE \E i \in DOMAIN vcpu_queue[p] : RunVcpu(p, vcpu_queue[p][i], expired)
  <2>1. PICK i \in DOMAIN vcpu_queue[p] : RunVcpu(p, vcpu_queue[p][i], expired)
    BY <1>3
  <2>2. vcpu_queue[p][i] \in Range(vcpu_queue[p])
    BY DEF Range
  <2> QED BY <1>1, <2>1, <2>2, RunVcpuInv
<1> QED BY <1>2, <1>3 DEF Schedule, Dispatch

\* lock_kernel, unlock_kernel: only the lock changes hands.
LEMMA LockSteps ==
  ASSUME IInv, NEW p \in Pcpu, LockKernel(p) \/ UnlockKernel(p)
  PROVE  IInv'
<1> USE DEF IInv, SchedInv
<1>1. UNCHANGED <<live, cpu, next_vcpu_binding, str, vcpu_queue, vcpu_current, runqueue,
                  tr, started, runnable, running, T>>
  BY DEF LockKernel, UnlockKernel, taskVars, vcpuVars
<1>2. /\ handler' \in [Pcpu -> {"user", "kernel", "resched"}]
      /\ \A q \in Pcpu : handler[q] = "resched" => handler'[q] = "resched"
      /\ \A q, r \in Pcpu : handler'[q] # "user" /\ handler'[r] # "user" => q = r
  BY ZenonT(40) DEF LockKernel, UnlockKernel, KernelUnlocked, TypeOK, Support
<1>3. TypeOK' /\ Support'
  BY <1>1, <1>2 DEF TypeOK, Support
<1>4. RunningIsCurrent' /\ RunnableIsQueued' /\ CurrentRunsItsTask' /\ NoTaskRunsTwice'
      /\ OnlyLiveTasks'
  BY <1>1 DEF RunningIsCurrent, RunnableIsQueued, CurrentRunsItsTask, NoTaskRunsTwice,
              OnlyLiveTasks
<1>5. OneRunqueue'
  BY <1>1, <1>2 DEF OneRunqueue, Queued
<1> QED BY <1>3, <1>4, <1>5

\* duplicate_TSS and the migration of the running task change the binding of a
\* task that is on no run queue.
LEMMA RebindInv ==
  ASSUME IInv, NEW t \in Task, ~ Queued(t), NEW c \in Vcpu \cup {Unbound},
         cpu' = [cpu EXCEPT ![t] = c],
         live \subseteq live', live' \subseteq Task, T' \in [Vcpu -> Period],
         handler' \in [Pcpu -> {"user", "kernel", "resched"}],
         \A p \in Pcpu : /\ handler'[p] = "user" <=> handler[p] = "user"
                         /\ handler[p] = "resched" => handler'[p] = "resched",
         UNCHANGED <<next_vcpu_binding, str, vcpu_queue, vcpu_current, runqueue,
                     tr, started, runnable, running>>
  PROVE  IInv'
<1> USE DEF IInv, SchedInv
<1>1. TypeOK'
  BY DEF TypeOK
<1>2. Support'
  BY DEF Support
<1>3. RunningIsCurrent' /\ RunnableIsQueued' /\ CurrentRunsItsTask' /\ NoTaskRunsTwice'
  BY DEF RunningIsCurrent, RunnableIsQueued, CurrentRunsItsTask, NoTaskRunsTwice
<1>4. OnlyLiveTasks'
  BY DEF OnlyLiveTasks
<1>5. OneRunqueue'
  <2>1. ASSUME NEW v \in Vcpu, NEW u \in Range(runqueue[v]) PROVE cpu'[u] = v
    <3>1. u \in Task /\ u # t
      BY EmptyRange DEF TypeOK, Queued
    <3> QED BY <3>1 DEF TypeOK, OneRunqueue
  <2> QED BY <2>1 DEF OneRunqueue, Queued
<1> QED BY <1>1, <1>2, <1>3, <1>4, <1>5

LEMMA TaskSteps ==
  ASSUME IInv, NEW p \in Pcpu,
         \/ \E t \in Task, c \in Vcpu \cup {Unbound} : CreateTask(p, t, c)
         \/ \E v \in Vcpu : MigrateSelf(p, v)
  PROVE  IInv'
<1>0. handler \in [Pcpu -> {"user", "kernel", "resched"}] /\ T \in [Vcpu -> Period]
      /\ live \subseteq Task
  BY DEF IInv, TypeOK
<1>1. CASE \E t \in Task, c \in Vcpu \cup {Unbound} : CreateTask(p, t, c)
  <2>1. PICK t \in Task, c \in Vcpu \cup {Unbound} : CreateTask(p, t, c)
    BY <1>1
  <2>2. ~ Queued(t)
    BY <2>1 DEF CreateTask, Queued, IInv, SchedInv, OnlyLiveTasks
  <2>3. /\ cpu' = [cpu EXCEPT ![t] = c] /\ live' = live \cup {t}
        /\ UNCHANGED <<handler, T, next_vcpu_binding, str, vcpu_queue, vcpu_current, runqueue,
                       tr, started, runnable, running>>
    BY <2>1 DEF CreateTask, vcpuVars
  <2> QED BY <1>0, <2>2, <2>3, RebindInv
<1>2. CASE \E v \in Vcpu : MigrateSelf(p, v)
  <2>1. PICK v \in Vcpu : MigrateSelf(p, v)
    BY <1>2
  <2>2. ~ Queued(str[p]) /\ str[p] \in Task
    BY <2>1 DEF MigrateSelf, IInv, SchedInv, OneRunqueue
  <2>3. /\ cpu' = [cpu EXCEPT ![str[p]] = v] /\ live' = live
        /\ UNCHANGED <<next_vcpu_binding, str, vcpu_queue, vcpu_current, runqueue,
                       tr, started, runnable, running>>
        /\ handler' = [handler EXCEPT ![p] = "resched"] /\ handler[p] = "kernel"
    BY <2>1 DEF MigrateSelf
  <2>4. T' \in [Vcpu -> Period]
    BY <1>0, <2>1 DEF MigrateSelf
  <2>5. /\ handler' \in [Pcpu -> {"user", "kernel", "resched"}]
        /\ \A q \in Pcpu : /\ handler'[q] = "user" <=> handler[q] = "user"
                           /\ handler[q] = "resched" => handler'[q] = "resched"
    BY <1>0, <2>3
  <2> QED BY <1>0, <2>2, <2>3, <2>4, <2>5, RebindInv
<1> QED BY <1>1, <1>2

\* __exit: the task that disappears is on no queue and on no other PCPU.
LEMMA ExitInv ==
  ASSUME IInv, NEW p \in Pcpu, ExitTask(p)
  PROVE  IInv'
<1> USE DEF IInv, SchedInv
<1>1. /\ handler[p] = "kernel" /\ str[p] \in Task /\ live' = live \ {str[p]}
      /\ str' = [str EXCEPT ![p] = NoTask]
      /\ handler' = [handler EXCEPT ![p] = "resched"]
      /\ UNCHANGED <<cpu, next_vcpu_binding, vcpu_queue, vcpu_current, runqueue,
                     tr, started, runnable, running, T>>
  BY DEF ExitTask, vcpuVars
<1>2. \A q \in Pcpu : /\ str'[q] = IF q = p THEN NoTask ELSE str[q]
                      /\ handler'[q] = IF q = p THEN "resched" ELSE handler[q]
  BY <1>1 DEF TypeOK
<1>3. ~ Queued(str[p])
  BY <1>1 DEF OneRunqueue
<1>4. \A q \in Pcpu : q # p => str[q] # str[p]
  BY <1>1, NullAssumption DEF NoTaskRunsTwice
<1>5. TypeOK'
  BY <1>1 DEF TypeOK
<1>6. Support'
  BY <1>1, <1>2 DEF Support
<1>7. RunningIsCurrent' /\ RunnableIsQueued' /\ CurrentRunsItsTask' /\ NoTaskRunsTwice'
  <2>1. RunningIsCurrent'
    BY <1>1 DEF RunningIsCurrent
  <2>2. RunnableIsQueued'
    BY <1>1 DEF RunnableIsQueued
  <2>3. CurrentRunsItsTask'
    BY <1>1, <1>2 DEF CurrentRunsItsTask
  <2>4. NoTaskRunsTwice'
    BY <1>2 DEF NoTaskRunsTwice
  <2> QED BY <2>1, <2>2, <2>3, <2>4
<1>8. OneRunqueue'
  <2>1. ASSUME NEW q \in Pcpu, Queued(str[q])' PROVE handler'[q] = "resched"
    <3>1. Queued(str'[q])
      BY <1>1, <2>1 DEF Queued
    <3> QED BY <1>2, <3>1 DEF OneRunqueue
  <2> QED BY <1>1, <2>1 DEF OneRunqueue
<1>9. OnlyLiveTasks'
  BY <1>1, <1>2, <1>3, <1>4, NullAssumption DEF OnlyLiveTasks, Queued
<1> QED BY <1>5, <1>6, <1>7, <1>8, <1>9

LEMMA StutterInv == ASSUME IInv, UNCHANGED vars PROVE IInv'
<1> USE DEF vars, taskVars, vcpuVars, IInv, SchedInv
<1>1. TypeOK'
  BY DEF TypeOK
<1>2. Support'
  BY DEF Support
<1>3. RunningIsCurrent'
  BY DEF RunningIsCurrent
<1>4. RunnableIsQueued'
  BY DEF RunnableIsQueued
<1>5. CurrentRunsItsTask' /\ NoTaskRunsTwice'
  BY DEF CurrentRunsItsTask, NoTaskRunsTwice
<1>6. OneRunqueue' /\ OnlyLiveTasks'
  BY DEF OneRunqueue, OnlyLiveTasks, Queued
<1> QED BY <1>1, <1>2, <1>3, <1>4, <1>5, <1>6

LEMMA NextIInv == IInv /\ [Next]_vars => IInv'
<1> SUFFICES ASSUME IInv, [Next]_vars PROVE IInv'
  OBVIOUS
<1>1. CASE UNCHANGED vars
  BY <1>1, StutterInv
<1>2. CASE Next
  <2>1. PICK p \in Pcpu : Step(p)
    BY <1>2 DEF Next
  <2>2. CASE LockKernel(p) \/ UnlockKernel(p)
    BY <2>2, LockSteps
  <2>3. CASE \/ Yield(p)
             \/ \E t \in Task : WakeOther(p, t)
             \/ \E t \in Task, period \in Period : JobWakeup(p, t, period)
    BY <2>3, WakeSteps
  <2>4. CASE ExitTask(p)
    BY <2>4, ExitInv
  <2>5. CASE \/ \E t \in Task, c \in Vcpu \cup {Unbound} : CreateTask(p, t, c)
             \/ \E v \in Vcpu : MigrateSelf(p, v)
    BY <2>5, TaskSteps
  <2>6. CASE \E has \in SUBSET Vcpu, expired \in BOOLEAN : Schedule(p, has, expired)
    BY <2>6, ScheduleInv
  <2> QED BY <2>1, <2>2, <2>3, <2>4, <2>5, <2>6 DEF Step
<1> QED BY <1>1, <1>2

-----------------------------------------------------------------------------
(* Theorems                                                                 *)

\* Every variable of the scheduler keeps its type, for every number of tasks,
\* VCPUs and PCPUs and every placement of VCPUs on PCPUs.
THEOREM TypeCorrect == Spec => []TypeOK
<1>1. IInv => TypeOK
  BY DEF IInv
<1> QED BY <1>1, InitIInv, NextIInv, PTL DEF Spec

\* A VCPU's running flag says which PCPU executes it, on every PCPU: what
\* check_run_invariants tests of the flags.
THEOREM RunningFlags == Spec => []RunningIsCurrent
<1>1. IInv => RunningIsCurrent
  BY DEF IInv, SchedInv
<1> QED BY <1>1, InitIInv, NextIInv, PTL DEF Spec

\* What check_run_invariants tests of the queues: vcpu_schedule finds every VCPU
\* that has a task, and only those.
THEOREM RunInvariants == Spec => []RunnableIsQueued
<1>1. IInv => RunnableIsQueued
  BY DEF IInv, SchedInv
<1> QED BY <1>1, InitIInv, NextIInv, PTL DEF Spec

\* Time is charged to the VCPU whose task executes, whatever preempts it.
THEOREM ChargesTheRightVcpu == Spec => []CurrentRunsItsTask
<1>1. IInv => CurrentRunsItsTask
  BY DEF IInv, SchedInv
<1> QED BY <1>1, InitIInv, NextIInv, PTL DEF Spec

\* Tasks migrating between PCPUs never execute on two of them.
THEOREM TasksAreExclusive == Spec => []NoTaskRunsTwice
<1>1. IInv => NoTaskRunsTwice
  BY DEF IInv, SchedInv
<1> QED BY <1>1, InitIInv, NextIInv, PTL DEF Spec

\* The link tssp->next is used by one queue at a time.
THEOREM OneQueuePerTask == Spec => []OneRunqueue
<1>1. IInv => OneRunqueue
  BY DEF IInv, SchedInv
<1> QED BY <1>1, InitIInv, NextIInv, PTL DEF Spec

\* No dead selector is scheduled.
THEOREM DeadTasksStayDead == Spec => []OnlyLiveTasks
<1>1. IInv => OnlyLiveTasks
  BY DEF IInv, SchedInv
<1> QED BY <1>1, InitIInv, NextIInv, PTL DEF Spec

\* The queue part of RunVcpu: only the selected task leaves its queue.
LEMMA ScheduleKeepsRunnable ==
  ASSUME IInv, NEW p \in Pcpu, NEW has \in SUBSET Vcpu, NEW expired \in BOOLEAN,
         Schedule(p, has, expired)
  PROVE  KeepsRunnable
<1> SUFFICES ASSUME NEW t \in Task, NEW w \in Vcpu, t \in Range(runqueue[w])
             PROVE  Queued(t)' \/ \E q \in Pcpu : str'[q] = t
  BY DEF KeepsRunnable, Queued
<1>1. CASE RunIdle(p)
  BY <1>1 DEF RunIdle, Queued
<1>2. CASE \E i \in DOMAIN vcpu_queue[p] : RunVcpu(p, vcpu_queue[p][i], expired)
  <2>1. PICK i \in DOMAIN vcpu_queue[p] : RunVcpu(p, vcpu_queue[p][i], expired)
    BY <1>2
  <2> DEFINE v == vcpu_queue[p][i]
             n == NextTask(v, expired)
  <2>2. v \in Vcpu /\ v \in Range(vcpu_queue[p])
    <3>1. vcpu_queue[p] \in Seq(Vcpu)
      BY DEF IInv, TypeOK
    <3>2. v \in Range(vcpu_queue[p])
      BY DEF Range
    <3>3. v \in Vcpu
      BY <3>1, LenProperties
    <3> QED BY <3>2, <3>3
  <2> HIDE DEF v
  <2>3. runqueue[v] # << >> /\ runqueue[v] \in Seq(Task) /\ IsInjective(runqueue[v])
    BY <2>2 DEF IInv, SchedInv, RunnableIsQueued, TypeOK, OneRunqueue
  <2>4. n # NoTask
    BY <2>2, <2>3, NextTaskQueued
  <2>5. /\ runqueue' = [runqueue EXCEPT ![v] = Unlink(runqueue[v], n)]
        /\ str' = [str EXCEPT ![p] = n]
    BY <2>1, <2>4 DEF RunVcpu, InternalSchedule, v
  <2> HIDE DEF n
  <2>6. Range(Unlink(runqueue[v], n)) = Range(runqueue[v]) \ {n}
    BY <2>3, UnlinkLemma
  <2>7. CASE t = n
    BY <2>5, <2>7 DEF IInv, TypeOK
  <2>8. CASE t # n
    <3>1. t \in Range(runqueue'[w])
      BY <2>2, <2>5, <2>6, <2>8 DEF IInv, TypeOK
    <3> QED BY <3>1 DEF Queued
  <2> QED BY <2>7, <2>8
<1> QED BY <1>1, <1>2 DEF Schedule, Dispatch

LEMMA WakeupKeepsRunnable ==
  ASSUME IInv, NEW t \in Task, Wakeup(t)
  PROVE  KeepsRunnable
<1>1. \A w \in Vcpu : Range(runqueue[w]) \subseteq Range(runqueue'[w])
  <2>1. \A w \in Vcpu : Range(runqueue'[w]) = IF w = VcpuOf(t)
           THEN Range(runqueue[w]) \cup {t} ELSE Range(runqueue[w])
    BY WakeupEffect DEF IInv, SchedInv
  <2> QED BY <2>1
<1> QED BY <1>1 DEF KeepsRunnable, Queued

\* Theorem Preservation of docs/vcpu.tex, for the code: a queued task is queued
\* or executing after every step.
THEOREM PreservationHolds == Spec => Preservation
<1>1. ASSUME IInv, [Next]_vars PROVE [KeepsRunnable]_vars
  <2>1. CASE UNCHANGED vars
    BY <2>1
  <2>2. CASE Next
    <3>1. PICK p \in Pcpu : Step(p)
      BY <2>2 DEF Next
    <3>2. CASE UNCHANGED runqueue
      BY <3>2 DEF KeepsRunnable, Queued
    <3>3. CASE \/ Yield(p)
               \/ \E t \in Task : WakeOther(p, t)
               \/ \E t \in Task, period \in Period : JobWakeup(p, t, period)
      <4>1. \E t \in Task : Wakeup(t)
        BY <3>3 DEF Yield, WakeOther, JobWakeup
      <4> QED BY <1>1, <4>1, WakeupKeepsRunnable
    <3>4. CASE \E has \in SUBSET Vcpu, expired \in BOOLEAN : Schedule(p, has, expired)
      BY <1>1, <3>4, ScheduleKeepsRunnable
    <3>5. ASSUME \/ LockKernel(p) \/ UnlockKernel(p) \/ ExitTask(p)
                 \/ \E t \in Task, c \in Vcpu \cup {Unbound} : CreateTask(p, t, c)
                 \/ \E v \in Vcpu : MigrateSelf(p, v)
          PROVE  UNCHANGED runqueue
      BY <3>5 DEF LockKernel, UnlockKernel, ExitTask, CreateTask, MigrateSelf, vcpuVars
    <3> QED BY <3>1, <3>2, <3>3, <3>4, <3>5 DEF Step
  <2> QED BY <1>1, <2>1, <2>2
<1> QED BY <1>1, InitIInv, NextIInv, PTL DEF Spec, Preservation
=============================================================================
