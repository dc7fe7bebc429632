------------------------ MODULE SporadicServerProof ------------------------
(***************************************************************************)
(* Theorems about the budget of a Main VCPU, for every capacity, period,   *)
(* length limit of the queue of replenishments and lateness of the timer.  *)
(***************************************************************************)
EXTENDS SporadicServer, DataLemmas

Ascending(q) == \A i \in 1 .. Len(q) - 1 : q[i].t <= q[i + 1].t

Budgets == [Q : Seq(Replenishments), usage : Nat, b : Nat]

\* A budget whose replenishments add up to C.
Sound(x) ==
  /\ x \in Budgets /\ Len(x.Q) \in 1 .. MAX_REPL
  /\ Total(x.Q) = C /\ \A i \in 1 .. Len(x.Q) : x.Q[i].b > 0

\* What a timeslice has: a head replenishment whose time has come, what is left of it as
\* the budget, and a length that exceeds it by no more than the timer is late.
Slice ==
  running => /\ s.Q[1].t <= now /\ s.b = s.Q[1].b - s.usage
             /\ now - tprev <= s.b + late

IInv ==
  /\ TypeOK /\ Sound(s) /\ NoUnderflow /\ Slice
  /\ late = 0 => Ascending(s.Q)
-----------------------------------------------------------------------------
(* Sums.                                                                   *)

IsSum(q, f) == f = [n \in 0 .. Len(q) |-> IF n = 0 THEN 0 ELSE f[n - 1] + q[n].b]
Sums(q) == CHOOSE f : IsSum(q, f)

LEMMA EntryTypes ==
  ASSUME NEW q \in Seq(Replenishments)
  PROVE  /\ Len(q) \in Nat
         /\ \A n \in 1 .. Len(q) : q[n] \in Replenishments /\ q[n].b \in Nat /\ q[n].t \in Nat
<1>1. Len(q) \in Nat /\ \A n \in 1 .. Len(q) : q[n] \in Replenishments
  BY LenProperties
<1>2. \A r \in Replenishments : r.b \in Nat /\ r.t \in Nat
  BY DEF Replenishments
<1> QED BY <1>1, <1>2

\* The partial sums that Total is defined with.
LEMMA SumsDef ==
  ASSUME NEW q \in Seq(Replenishments)
  PROVE  /\ Total(q) = Sums(q)[Len(q)]
         /\ Sums(q) \in [0 .. Len(q) -> Nat]
         /\ Sums(q)[0] = 0
         /\ \A n \in 1 .. Len(q) : Sums(q)[n] = Sums(q)[n - 1] + q[n].b
<1> DEFINE step == [n \in 1 .. Len(q) |-> [v \in Nat |-> v + q[n].b]]
<1>1. Len(q) \in Nat /\ \A n \in 1 .. Len(q) : q[n] \in Replenishments /\ q[n].b \in Nat
  BY EntryTypes
<1>2. step \in [1 .. Len(q) -> [Nat -> Nat]]
  BY <1>1
<1>3. \A n \in 1 .. Len(q), v \in Nat : step[n][v] = v + q[n].b
  OBVIOUS
<1> HIDE DEF step
<1>4. PICK f : Iterates(f, Nat, Len(q), 0, step)
  BY <1>1, <1>2, Recursion
<1>5. ASSUME NEW n \in 0 .. Len(q) PROVE f[n] = IF n = 0 THEN 0 ELSE f[n - 1] + q[n].b
  <2>1. CASE n = 0
    BY <1>4, <2>1 DEF Iterates
  <2>2. CASE n # 0
    <3>1. n \in 1 .. Len(q) /\ n - 1 \in 0 .. Len(q)
      BY <1>1, <2>2
    <3>2. f[n - 1] \in Nat
      BY <1>4, <3>1 DEF Iterates
    <3> QED BY <1>3, <1>4, <2>2, <3>1, <3>2 DEF Iterates
  <2> QED BY <2>1, <2>2
<1>6. IsSum(q, f)
  BY <1>4, <1>5 DEF IsSum, Iterates
<1>7. IsSum(q, Sums(q))
  BY <1>6 DEF Sums
<1> DEFINE g == Sums(q)
<1>8. \A n \in 0 .. Len(q) : g[n] = IF n = 0 THEN 0 ELSE g[n - 1] + q[n].b
  BY <1>7, Zenon DEF IsSum
<1>9. g = [n \in 0 .. Len(q) |-> g[n]]
  BY <1>7, Zenon DEF IsSum
<1>10. Total(q) = g[Len(q)]
  BY DEF Total, Sums, IsSum
<1> HIDE DEF g
<1>11. \A n \in 0 .. Len(q) : g[n] \in Nat
  <2> DEFINE S == {n \in 0 .. Len(q) : g[n] \in Nat}
  <2>1. 0 \in S
    BY <1>1, <1>8
  <2>2. ASSUME NEW n \in 0 .. Len(q) - 1, n \in S PROVE n + 1 \in S
    <3>1. n + 1 \in 0 .. Len(q) /\ n + 1 \in 1 .. Len(q) /\ n + 1 # 0 /\ (n + 1) - 1 = n
      BY <1>1
    <3>2. g[n + 1] = g[n] + q[n + 1].b
      BY <1>8, <3>1
    <3> QED BY <1>1, <2>2, <3>1, <3>2
  <2> HIDE DEF S
  <2>3. \A n \in 0 .. Len(q) : n \in S
    BY <1>1, <2>1, <2>2, UpTo
  <2> QED BY <2>3 DEF S
<1>12. g \in [0 .. Len(q) -> Nat]
  BY <1>9, <1>11
<1>13. \A n \in 1 .. Len(q) : n \in 0 .. Len(q) /\ n # 0
  BY <1>1
<1> QED BY <1>1, <1>8, <1>10, <1>12, <1>13 DEF g

SamePart(p, i, q, j, d) == \A k \in 1 .. d : p[i + k].b = q[j + k].b

\* Equal parts of two queues have equal sums.
LEMMA EqualParts ==
  ASSUME NEW p \in Seq(Replenishments), NEW q \in Seq(Replenishments),
         NEW i \in Nat, NEW j \in Nat, NEW d \in Nat, i + d <= Len(p), j + d <= Len(q),
         SamePart(p, i, q, j, d)
  PROVE  Sums(p)[i + d] - Sums(p)[i] = Sums(q)[j + d] - Sums(q)[j]
<1> DEFINE f == Sums(p)
           g == Sums(q)
           S == {k \in 0 .. d : f[i + k] - f[i] = g[j + k] - g[j]}
<1>1. Len(p) \in Nat /\ Len(q) \in Nat
  BY LenProperties
<1>2. /\ f \in [0 .. Len(p) -> Nat] /\ \A n \in 1 .. Len(p) : f[n] = f[n - 1] + p[n].b
      /\ g \in [0 .. Len(q) -> Nat] /\ \A n \in 1 .. Len(q) : g[n] = g[n - 1] + q[n].b
  BY SumsDef
<1>3. /\ \A n \in 1 .. Len(p) : p[n].b \in Nat
      /\ \A n \in 1 .. Len(q) : q[n].b \in Nat
  BY EntryTypes
<1> HIDE DEF f, g
<1>4. i \in 0 .. Len(p) /\ j \in 0 .. Len(q)
  BY <1>1
<1>5. f[i] \in Nat /\ g[j] \in Nat
  BY <1>2, <1>4
<1>6. 0 \in S
  BY <1>5
<1>7. ASSUME NEW k \in 0 .. d - 1, k \in S PROVE k + 1 \in S
  <2>1. /\ k + 1 \in 1 .. d /\ k + 1 \in 0 .. d
        /\ i + (k + 1) \in 1 .. Len(p) /\ i + k \in 0 .. Len(p) /\ (i + (k + 1)) - 1 = i + k
        /\ j + (k + 1) \in 1 .. Len(q) /\ j + k \in 0 .. Len(q) /\ (j + (k + 1)) - 1 = j + k
    BY <1>1
  <2>2. f[i + (k + 1)] = f[i + k] + p[i + (k + 1)].b
    BY <1>2, <2>1
  <2>3. g[j + (k + 1)] = g[j + k] + q[j + (k + 1)].b
    BY <1>2, <2>1
  <2>4. p[i + (k + 1)].b = q[j + (k + 1)].b
    BY <2>1 DEF SamePart
  <2>5. f[i + k] \in Nat /\ g[j + k] \in Nat /\ p[i + (k + 1)].b \in Nat
    BY <1>2, <1>3, <2>1
  <2>6. f[i + k] - f[i] = g[j + k] - g[j]
    BY <1>7
  <2>8. f[i + (k + 1)] - f[i] = g[j + (k + 1)] - g[j]
    <3> DEFINE a == f[i]
               c == g[j]
               x == f[i + k]
               y == g[j + k]
               z == p[i + (k + 1)].b
    <3>1. a \in Nat /\ c \in Nat /\ x \in Nat /\ y \in Nat /\ z \in Nat /\ x - a = y - c
      BY <1>5, <2>5, <2>6
    <3>2. f[i + (k + 1)] = x + z /\ g[j + (k + 1)] = y + z
      BY <2>2, <2>3, <2>4
    <3> HIDE DEF a, c, x, y, z
    <3>3. (x + z) - a = (y + z) - c
      BY <3>1
    <3> QED BY <3>2, <3>3 DEF a, c
  <2> QED BY <2>1, <2>8
<1> HIDE DEF S
<1>8. \A k \in 0 .. d : k \in S
  BY <1>6, <1>7, UpTo
<1>9. d \in S
  BY <1>8
<1> QED BY <1>9 DEF S, f, g
\* Two queues that differ in their first m and n replenishments.
LEMMA SameRest ==
  ASSUME NEW p \in Seq(Replenishments), NEW q \in Seq(Replenishments),
         NEW m \in 0 .. Len(p), NEW n \in 0 .. Len(q), Len(p) - m = Len(q) - n,
         \A k \in 1 .. Len(p) - m : p[m + k].b = q[n + k].b
  PROVE  Total(p) - Sums(p)[m] = Total(q) - Sums(q)[n]
<1>1. Len(p) \in Nat /\ Len(q) \in Nat
  BY LenProperties
<1> DEFINE d == Len(p) - m
<1>2. d \in Nat /\ m \in Nat /\ n \in Nat /\ m + d = Len(p) /\ n + d = Len(q)
  BY <1>1
<1>3. m + d <= Len(p) /\ n + d <= Len(q)
  BY <1>1, <1>2
<1>4. SamePart(p, m, q, n, d)
  BY DEF SamePart
<1> HIDE DEF d
<1>5. Sums(p)[m + d] - Sums(p)[m] = Sums(q)[n + d] - Sums(q)[n]
  BY <1>2, <1>3, <1>4, EqualParts
<1> QED BY <1>2, <1>5, SumsDef

\* The sums of the first one and the first two.
LEMMA FirstSums ==
  ASSUME NEW q \in Seq(Replenishments)
  PROVE  /\ Total(q) \in Nat /\ Sums(q)[0] = 0
         /\ Len(q) >= 1 => Sums(q)[1] = q[1].b
         /\ Len(q) >= 2 => Sums(q)[2] = q[1].b + q[2].b
<1>1. Len(q) \in Nat /\ \A n \in 1 .. Len(q) : q[n].b \in Nat
  BY EntryTypes
<1> DEFINE g == Sums(q)
<1>2. /\ Total(q) = g[Len(q)] /\ g \in [0 .. Len(q) -> Nat] /\ g[0] = 0
      /\ \A n \in 1 .. Len(q) : g[n] = g[n - 1] + q[n].b
  BY SumsDef
<1> HIDE DEF g
<1>3. Total(q) \in Nat
  BY <1>1, <1>2
<1>4. ASSUME Len(q) >= 1 PROVE g[1] = q[1].b
  <2>1. 1 \in 1 .. Len(q) /\ 1 - 1 = 0
    BY <1>1, <1>4
  <2>2. g[1] = g[0] + q[1].b
    BY <1>2, <2>1
  <2> QED BY <1>1, <1>2, <2>1, <2>2
<1>5. ASSUME Len(q) >= 2 PROVE g[2] = q[1].b + q[2].b
  <2>1. 2 \in 1 .. Len(q) /\ 2 - 1 = 1 /\ Len(q) >= 1
    BY <1>1, <1>5
  <2>2. g[2] = g[1] + q[2].b
    BY <1>2, <2>1
  <2> QED BY <1>4, <2>1, <2>2
<1> QED BY <1>2, <1>3, <1>4, <1>5 DEF g

LEMMA TotalOfTail ==
  ASSUME NEW q \in Seq(Replenishments), Len(q) >= 1
  PROVE  /\ Tail(q) \in Seq(Replenishments) /\ Len(Tail(q)) = Len(q) - 1
         /\ \A n \in 1 .. Len(q) - 1 : Tail(q)[n] = q[n + 1]
         /\ Total(Tail(q)) = Total(q) - q[1].b /\ q[1].b <= Total(q)
<1>0. Len(q) \in Nat
  BY LenProperties
<1>1. q # << >>
  OBVIOUS
<1> DEFINE p == Tail(q)
<1>2. p \in Seq(Replenishments) /\ Len(p) = Len(q) - 1 /\ \A n \in 1 .. Len(q) - 1 : p[n] = q[n + 1]
  BY <1>1, HeadTailProperties
<1> HIDE DEF p
<1>3. 1 \in 0 .. Len(q) /\ 0 \in 0 .. Len(p) /\ Len(q) - 1 = Len(p) - 0
  BY <1>0, <1>2
<1>4. \A k \in 1 .. Len(q) - 1 : q[1 + k].b = p[0 + k].b
  BY <1>0, <1>2
<1>5. Total(q) - Sums(q)[1] = Total(p) - Sums(p)[0]
  BY <1>2, <1>3, <1>4, SameRest
<1>6. Total(q) \in Nat /\ Total(p) \in Nat /\ Sums(q)[1] = q[1].b /\ Sums(p)[0] = 0
  BY <1>2, FirstSums
<1>7. q[1].b \in Nat
  BY <1>0, EntryTypes
<1>8. Total(p) = Total(q) - q[1].b /\ q[1].b <= Total(q)
  BY <1>5, <1>6, <1>7
<1> QED BY <1>2, <1>8 DEF p

\* Another head.
LEMMA TotalOfHead ==
  ASSUME NEW q \in Seq(Replenishments), Len(q) >= 1, NEW r \in Replenishments
  PROVE  /\ [q EXCEPT ![1] = r] \in Seq(Replenishments)
         /\ Len([q EXCEPT ![1] = r]) = Len(q)
         /\ [q EXCEPT ![1] = r][1] = r
         /\ \A n \in 2 .. Len(q) : [q EXCEPT ![1] = r][n] = q[n]
         /\ Total([q EXCEPT ![1] = r]) = (Total(q) - q[1].b) + r.b
<1>0. Len(q) \in Nat /\ 1 \in 1 .. Len(q)
  BY LenProperties
<1> DEFINE p == [q EXCEPT ![1] = r]
<1>1. /\ p \in Seq(Replenishments) /\ Len(p) = Len(q)
      /\ \A j \in 1 .. Len(q) : p[j] = IF j = 1 THEN r ELSE q[j]
  BY <1>0, ExceptSeq
<1> HIDE DEF p
<1>2. p[1] = r /\ \A n \in 2 .. Len(q) : p[n] = q[n]
  BY <1>0, <1>1
<1>3. 1 \in 0 .. Len(q) /\ 1 \in 0 .. Len(p) /\ Len(q) - 1 = Len(p) - 1
  BY <1>0, <1>1
<1>4. \A k \in 1 .. Len(q) - 1 : q[1 + k].b = p[1 + k].b
  BY <1>0, <1>2
<1>5. Total(q) - Sums(q)[1] = Total(p) - Sums(p)[1]
  BY <1>1, <1>3, <1>4, SameRest
<1>6. /\ Total(q) \in Nat /\ Total(p) \in Nat
      /\ Sums(q)[1] = q[1].b /\ Sums(p)[1] = r.b
  BY <1>1, <1>2, FirstSums
<1>7. q[1].b \in Nat /\ r.b \in Nat
  BY <1>0, EntryTypes DEF Replenishments
<1>8. Total(p) = (Total(q) - q[1].b) + r.b
  BY <1>5, <1>6, <1>7
<1> QED BY <1>1, <1>2, <1>8 DEF p

LEMMA TotalOfMerge ==
  ASSUME NEW q \in Seq(Replenishments), Len(q) >= 2, NEW t \in Nat
  PROVE  /\ MergeHead(q, t) \in Seq(Replenishments)
         /\ Len(MergeHead(q, t)) = Len(q) - 1
         /\ MergeHead(q, t)[1] = [t |-> t, b |-> q[1].b + q[2].b]
         /\ \A n \in 2 .. Len(q) - 1 : MergeHead(q, t)[n] = q[n + 1]
         /\ Total(MergeHead(q, t)) = Total(q)
<1>0. /\ Len(q) \in Nat /\ \A n \in 1 .. Len(q) : q[n] \in Replenishments
      /\ q[1].b \in Nat /\ q[2].b \in Nat
  BY EntryTypes
<1> DEFINE h == << [t |-> t, b |-> q[1].b + q[2].b] >>
           c == SubSeq(q, 3, Len(q))
           p == h \o c
<1>1. /\ h \in Seq(Replenishments) /\ Len(h) = 1 /\ h[1] = [t |-> t, b |-> q[1].b + q[2].b]
  BY <1>0 DEF Replenishments
<1>2. /\ c \in Seq(Replenishments) /\ Len(c) = Len(q) - 2
      /\ \A j \in 1 .. Len(q) - 2 : c[j] = q[j + 2]
  <2>1. 3 \in Int /\ Len(q) \in Int /\ \A i \in 3 .. Len(q) : q[i] \in Replenishments
    BY <1>0
  <2>2. /\ SubSeq(q, 3, Len(q)) \in Seq(Replenishments)
        /\ Len(SubSeq(q, 3, Len(q))) = IF 3 <= Len(q) THEN Len(q) - 3 + 1 ELSE 0
        /\ \A i \in 1 .. Len(q) - 3 + 1 : SubSeq(q, 3, Len(q))[i] = q[3 + i - 1]
    BY <2>1, SubSeqProperties
  <2>3. ASSUME NEW j \in 1 .. Len(q) - 2 PROVE c[j] = q[j + 2]
    <3>1. j \in 1 .. Len(q) - 3 + 1 /\ 3 + j - 1 = j + 2
      BY <1>0
    <3> QED BY <2>2, <3>1
  <2>4. Len(c) = Len(q) - 2
    <3>1. CASE 3 <= Len(q)
      BY <1>0, <2>2, <3>1
    <3>2. CASE ~(3 <= Len(q))
      <4>0. PICK n \in Nat : n = Len(q)
        BY <1>0
      <4>1. n >= 2 /\ ~(3 <= n)
        BY <3>2, <4>0
      <4>3. n - 2 = 0
        BY <4>1
      <4>2. Len(c) = 0
        BY <2>2, <3>2
      <4> QED BY <4>0, <4>2, <4>3
    <3> QED BY <3>1, <3>2
  <2> QED BY <2>2, <2>3, <2>4
<1> HIDE DEF h, c
<1>3. /\ p \in Seq(Replenishments) /\ Len(p) = Len(h) + Len(c)
      /\ \A i \in 1 .. Len(h) + Len(c) : p[i] = IF i <= Len(h) THEN h[i] ELSE c[i - Len(h)]
  BY <1>1, <1>2, ConcatProperties
<1>4. MergeHead(q, t) = p
  BY DEF MergeHead, h, c
<1> HIDE DEF p
<1>5. Len(p) = Len(q) - 1 /\ p[1] = [t |-> t, b |-> q[1].b + q[2].b]
  BY <1>0, <1>1, <1>2, <1>3
<1>6. ASSUME NEW n \in 2 .. Len(q) - 1 PROVE p[n] = q[n + 1]
  <2>1. n \in 1 .. Len(h) + Len(c) /\ ~(n <= Len(h)) /\ n - Len(h) = n - 1 /\ n - 1 \in 1 .. Len(q) - 2 /\ (n - 1) + 2 = n + 1
    BY <1>0, <1>1, <1>2
  <2> QED BY <1>2, <1>3, <2>1
<1>7. 2 \in 0 .. Len(q) /\ 1 \in 0 .. Len(p) /\ Len(q) - 2 = Len(p) - 1
  BY <1>0, <1>5
<1>8. \A k \in 1 .. Len(q) - 2 : q[2 + k].b = p[1 + k].b
  BY <1>0, <1>6
<1>9. Total(q) - Sums(q)[2] = Total(p) - Sums(p)[1]
  BY <1>3, <1>7, <1>8, SameRest
<1>10. /\ Total(q) \in Nat /\ Total(p) \in Nat
       /\ Sums(q)[2] = q[1].b + q[2].b /\ Sums(p)[1] = p[1].b
  <2>1. Len(p) >= 1
    BY <1>0, <1>5
  <2> QED BY <1>3, <2>1, FirstSums
<1>11. p[1].b = q[1].b + q[2].b
  BY <1>5
<1>12. Total(p) = Total(q)
  BY <1>0, <1>9, <1>10, <1>11
<1> QED BY <1>3, <1>4, <1>5, <1>6, <1>12
\* repl_queue_add into a queue that is not full: nothing is lost, and the order is kept.
LEMMA InsertKeeps ==
  ASSUME NEW q \in Seq(Replenishments), NEW r \in Replenishments
  PROVE  /\ InsertByTime(q, r) \in Seq(Replenishments)
         /\ Len(InsertByTime(q, r)) = Len(q) + 1
         /\ Total(InsertByTime(q, r)) = Total(q) + r.b
         /\ (\A n \in 1 .. Len(q) : q[n].b > 0) /\ r.b > 0
              => \A n \in 1 .. Len(q) + 1 : InsertByTime(q, r)[n].b > 0
         /\ Ascending(q) => Ascending(InsertByTime(q, r))
<1>1. /\ Len(q) \in Nat
      /\ \A n \in 1 .. Len(q) : q[n] \in Replenishments /\ q[n].b \in Nat /\ q[n].t \in Nat
  BY EntryTypes
<1>2. r.b \in Nat /\ r.t \in Nat
  BY DEF Replenishments
<1> DEFINE I == {k \in 1 .. Len(q) : q[k].t >= r.t}
<1>3. PICK i \in 1 .. Len(q) + 1 :
        /\ InsertByTime(q, r) = InsertAt(q, i, r)
        /\ \A k \in 1 .. Len(q) : k < i => q[k].t < r.t
        /\ i \in 1 .. Len(q) => q[i].t >= r.t
  <2>1. CASE I = {}
    <3>1. SelectInSeq(q, LAMBDA x : x.t >= r.t) = 0
      BY <2>1 DEF SelectInSeq
    <3>2. InsertByTime(q, r) = InsertAt(q, Len(q) + 1, r)
      BY <3>1 DEF InsertByTime
    <3>3. \A k \in 1 .. Len(q) : q[k].t < r.t
      BY <1>1, <1>2, <2>1
    <3>4. Len(q) + 1 \in 1 .. Len(q) + 1 /\ Len(q) + 1 \notin 1 .. Len(q)
      BY <1>1
    <3> QED BY <3>2, <3>3, <3>4
  <2>2. CASE I # {}
    <3>1. PICK m \in I : \A k \in I : m <= k
      <4>1. I \in SUBSET Nat
        BY <1>1
      <4>2. PICK n : n \in I
        BY <2>2
      <4> HIDE DEF I
      <4> QED BY <4>1, <4>2, Least
    <3>2. Min(I) \in I /\ \A k \in I : Min(I) <= k
      BY <3>1 DEF Min
    <3>3. SelectInSeq(q, LAMBDA x : x.t >= r.t) = Min(I)
      BY <2>2 DEF SelectInSeq
    <3>4. Min(I) # 0 /\ Min(I) \in 1 .. Len(q) /\ q[Min(I)].t >= r.t /\ Min(I) \in 1 .. Len(q) + 1
      BY <1>1, <3>2
    <3>5. InsertByTime(q, r) = InsertAt(q, Min(I), r)
      BY <3>3, <3>4 DEF InsertByTime
    <3>6. ASSUME NEW k \in 1 .. Len(q), k < Min(I) PROVE q[k].t < r.t
      <4>1. k \notin I
        BY <1>1, <3>2, <3>4, <3>6
      <4> QED BY <1>1, <1>2, <4>1
    <3> HIDE DEF I
    <3> QED BY <3>4, <3>5, <3>6
  <2> QED BY <2>1, <2>2
<1> HIDE DEF I
<1> DEFINE p == InsertAt(q, i, r)
<1>4. /\ p \in Seq(Replenishments) /\ Len(p) = Len(q) + 1
      /\ \A j \in 1 .. Len(q) + 1 : p[j] = IF j < i THEN q[j] ELSE IF j = i THEN r ELSE q[j - 1]
  <2>1. p = InsertedAt(q, i, r)
    BY DEF InsertedAt, InsertAt
  <2> HIDE DEF p
  <2>2. /\ InsertedAt(q, i, r) \in Seq(Replenishments) /\ Len(InsertedAt(q, i, r)) = Len(q) + 1
        /\ \A j \in 1 .. Len(q) + 1 :
             InsertedAt(q, i, r)[j] = IF j < i THEN q[j] ELSE IF j = i THEN r ELSE q[j - 1]
    BY Inserting
  <2> QED BY <2>1, <2>2, Zenon
<1> HIDE DEF p
<1>5. \A j \in 1 .. Len(q) + 1 : (j < i => j \in 1 .. Len(q)) /\ (j > i => j - 1 \in 1 .. Len(q))
  BY <1>1
<1>6. Total(p) = Total(q) + r.b
  <2> DEFINE m == i - 1
             d == Len(q) + 1 - i
             f == Sums(p)
             g == Sums(q)
  <2>1. /\ m \in Nat /\ d \in Nat /\ i \in Nat /\ 0 \in Nat /\ i - 1 = m
        /\ 0 + m = m /\ 0 + m <= Len(p) /\ 0 + m <= Len(q)
        /\ i + d = Len(p) /\ m + d = Len(q) /\ i + d <= Len(p) /\ m + d <= Len(q)
        /\ i \in 1 .. Len(p)
    BY <1>1, <1>4
  <2>2. SamePart(p, 0, q, 0, m)
    <3> SUFFICES ASSUME NEW k \in 1 .. m PROVE p[0 + k].b = q[0 + k].b
      BY DEF SamePart
    <3>1. 0 + k = k /\ k \in 1 .. Len(q) + 1 /\ k < i
      BY <1>1
    <3> QED BY <1>4, <3>1
  <2>3. SamePart(p, i, q, m, d)
    <3> SUFFICES ASSUME NEW k \in 1 .. d PROVE p[i + k].b = q[m + k].b
      BY DEF SamePart
    <3>1. i + k \in 1 .. Len(q) + 1 /\ ~(i + k < i) /\ i + k # i /\ (i + k) - 1 = m + k
      BY <1>1
    <3> QED BY <1>4, <3>1
  <2>4. /\ Total(p) = f[Len(p)] /\ f \in [0 .. Len(p) -> Nat] /\ f[0] = 0
        /\ \A n \in 1 .. Len(p) : f[n] = f[n - 1] + p[n].b
        /\ Total(q) = g[Len(q)] /\ g \in [0 .. Len(q) -> Nat] /\ g[0] = 0
    BY <1>4, SumsDef
  <2> HIDE DEF m, d
  <2>5. f[0 + m] - f[0] = g[0 + m] - g[0]
    BY <1>4, <2>1, <2>2, EqualParts
  <2>6. f[i + d] - f[i] = g[m + d] - g[m]
    BY <1>4, <2>1, <2>3, EqualParts
  <2> HIDE DEF f, g
  <2>7. f[i] = f[m] + r.b
    <3>1. p[i] = r
      BY <1>1, <1>4
    <3>2. f[i] = f[i - 1] + p[i].b
      BY <2>1, <2>4
    <3> QED BY <2>1, <3>1, <3>2
  <2>8. f[m] \in Nat /\ f[i] \in Nat /\ f[Len(p)] \in Nat /\ g[m] \in Nat /\ g[Len(q)] \in Nat
    <3>1. m \in 0 .. Len(p) /\ i \in 0 .. Len(p) /\ Len(p) \in 0 .. Len(p) /\ m \in 0 .. Len(q) /\ Len(q) \in 0 .. Len(q)
      BY <1>1, <1>4, <2>1
    <3> QED BY <2>4, <3>1
  <2>9. f[m] = g[m]
    BY <2>1, <2>4, <2>5, <2>8
  <2>10. f[Len(p)] - f[i] = g[Len(q)] - g[m]
    BY <2>1, <2>6
  <2> DEFINE a == f[i]
             x == f[Len(p)]
             y == g[Len(q)]
             z == g[m]
             w == r.b
  <2>11. a \in Nat /\ x \in Nat /\ y \in Nat /\ z \in Nat /\ w \in Nat /\ a = z + w /\ x - a = y - z
    BY <1>2, <2>7, <2>8, <2>9, <2>10
  <2>12. Total(p) = x /\ Total(q) = y
    BY <2>4
  <2> HIDE DEF a, x, y, z, w
  <2>13. x = y + w
    BY <2>11
  <2> QED BY <2>12, <2>13 DEF w
<1>7. ASSUME \A n \in 1 .. Len(q) : q[n].b > 0, r.b > 0, NEW n \in 1 .. Len(q) + 1
      PROVE  p[n].b > 0
  <2>1. CASE n < i
    BY <1>4, <1>5, <1>7, <2>1
  <2>2. CASE n = i
    BY <1>4, <1>7, <2>2
  <2>3. CASE n > i
    BY <1>1, <1>4, <1>5, <1>7, <2>3
  <2> QED BY <1>1, <2>1, <2>2, <2>3
<1>8. ASSUME Ascending(q) PROVE Ascending(p)
  <2> SUFFICES ASSUME NEW k \in 1 .. Len(p) - 1 PROVE p[k].t <= p[k + 1].t
    BY DEF Ascending
  <2>0. /\ k \in 1 .. Len(q) /\ k \in 1 .. Len(q) + 1 /\ k + 1 \in 1 .. Len(q) + 1 /\ (k + 1) - 1 = k
        /\ k - 1 \in Int
    BY <1>1, <1>4
  <2>1. CASE k + 1 < i
    <3>1. k \in 1 .. Len(q) - 1 /\ k < i
      BY <1>1, <2>0, <2>1
    <3> QED BY <1>4, <1>8, <2>0, <2>1, <3>1 DEF Ascending
  <2>2. CASE k + 1 = i
    <3>1. k < i
      BY <2>2
    <3>2. p[k] = q[k] /\ p[k + 1] = r
      BY <1>4, <2>0, <2>2, <3>1
    <3> QED BY <1>1, <1>2, <1>3, <2>0, <3>1, <3>2
  <2>3. CASE k = i
    <3>1. p[k] = r /\ p[k + 1] = q[k]
      BY <1>4, <2>0, <2>3
    <3> QED BY <1>1, <1>2, <1>3, <2>0, <2>3, <3>1
  <2>4. CASE k > i
    <3>1. k - 1 \in 1 .. Len(q) - 1 /\ (k - 1) + 1 = k /\ ~(k < i) /\ k # i /\ ~(k + 1 < i) /\ k + 1 # i
      BY <1>1, <2>0, <2>4
    <3>2. p[k] = q[k - 1] /\ p[k + 1] = q[k]
      BY <1>4, <2>0, <3>1
    <3> QED BY <1>8, <3>1, <3>2 DEF Ascending
  <2> QED BY <1>1, <2>1, <2>2, <2>3, <2>4
<1> QED BY <1>3, <1>4, <1>6, <1>7, <1>8 DEF p
-----------------------------------------------------------------------------
(* The hooks keep a budget sound.                                          *)

LEMMA BudgetParts ==
  ASSUME NEW x, Sound(x)
  PROVE  /\ x = [Q |-> x.Q, usage |-> x.usage, b |-> x.b]
         /\ x.Q \in Seq(Replenishments) /\ Len(x.Q) \in Nat /\ Len(x.Q) >= 1 /\ Len(x.Q) <= MAX_REPL
         /\ x.usage \in Nat /\ x.b \in Nat
         /\ x.Q[1] \in Replenishments /\ x.Q[1].b \in Nat /\ x.Q[1].b > 0 /\ x.Q[1].t \in Nat
         /\ x.Q[1] = [t |-> x.Q[1].t, b |-> x.Q[1].b]
         /\ x.Q[1].b <= C
<1>1. x \in Budgets /\ Len(x.Q) \in 1 .. MAX_REPL /\ Total(x.Q) = C /\ \A i \in 1 .. Len(x.Q) : x.Q[i].b > 0
  BY DEF Sound
<1>2. /\ x = [Q |-> x.Q, usage |-> x.usage, b |-> x.b]
      /\ x.Q \in Seq(Replenishments) /\ x.usage \in Nat /\ x.b \in Nat
  BY <1>1 DEF Budgets
<1>3. Len(x.Q) \in Nat /\ Len(x.Q) >= 1 /\ Len(x.Q) <= MAX_REPL /\ 1 \in 1 .. Len(x.Q)
  BY <1>1, MaxReplAssumption
<1>4. x.Q[1] \in Replenishments /\ x.Q[1].b \in Nat /\ x.Q[1].t \in Nat
  BY <1>2, <1>3, EntryTypes
<1>5. x.Q[1].b > 0
  BY <1>1, <1>3
<1>6. x.Q[1] = [t |-> x.Q[1].t, b |-> x.Q[1].b]
  BY <1>4 DEF Replenishments
<1>7. x.Q[1].b <= C
  BY <1>1, <1>2, <1>3, TotalOfTail
<1> QED BY <1>2, <1>3, <1>4, <1>5, <1>6, <1>7

LEMMA MakeSound ==
  ASSUME NEW q \in Seq(Replenishments), NEW u \in Nat, NEW c \in Nat,
         Len(q) >= 1, Len(q) <= MAX_REPL, Total(q) = C,
         \A i \in 1 .. Len(q) : q[i].b > 0
  PROVE  Sound([Q |-> q, usage |-> u, b |-> c])
<1>1. Len(q) \in Nat
  BY LenProperties
<1>2. Len(q) \in 1 .. MAX_REPL
  BY <1>1, MaxReplAssumption
<1> DEFINE x == [Q |-> q, usage |-> u, b |-> c]
<1>3. x \in Budgets /\ x.Q = q
  BY DEF Budgets
<1> HIDE DEF x
<1>4. Sound(x)
  BY <1>2, <1>3 DEF Sound
<1> QED BY <1>4 DEF x

\* One round of the loop of budget_check.
LEMMA ExhaustOnceSound ==
  ASSUME NEW x, Sound(x), x.Q[1].b <= x.usage
  PROVE  /\ Sound(ExhaustOnce(x, T))
         /\ ExhaustOnce(x, T).usage = x.usage - x.Q[1].b
         /\ ExhaustOnce(x, T).b = x.b
         /\ Ascending(x.Q) => Ascending(ExhaustOnce(x, T).Q)
<1> DEFINE q == Tail(x.Q)
           r == [t |-> x.Q[1].t + T, b |-> x.Q[1].b]
           p == InsertByTime(q, r)
           u == x.usage - x.Q[1].b
<1>0. /\ x = [Q |-> x.Q, usage |-> x.usage, b |-> x.b]
      /\ x.Q \in Seq(Replenishments) /\ Len(x.Q) \in Nat /\ Len(x.Q) >= 1 /\ Len(x.Q) <= MAX_REPL
      /\ x.usage \in Nat /\ x.b \in Nat
      /\ x.Q[1].b \in Nat /\ x.Q[1].b > 0 /\ x.Q[1].t \in Nat
  BY BudgetParts
<1>1. Total(x.Q) = C /\ \A i \in 1 .. Len(x.Q) : x.Q[i].b > 0
  BY DEF Sound
<1>2. /\ q \in Seq(Replenishments) /\ Len(q) = Len(x.Q) - 1
      /\ \A n \in 1 .. Len(x.Q) - 1 : q[n] = x.Q[n + 1]
      /\ Total(q) = Total(x.Q) - x.Q[1].b
  BY <1>0, TotalOfTail
<1>3. r \in Replenishments /\ r.b = x.Q[1].b /\ r.b > 0
  BY <1>0, ServerAssumption DEF Replenishments
<1>4. u \in Nat
  BY <1>0
<1>5. Len(q) < MAX_REPL
  BY <1>0, <1>2, MaxReplAssumption
<1>6. ExhaustOnce(x, T) = [Q |-> p, usage |-> u, b |-> x.b]
  <2>1. Add(q, r) = p
    BY <1>5 DEF Add
  <2>2. ExhaustOnce(x, T) = [x EXCEPT !.usage = u, !.Q = Add(q, r)]
    BY DEF ExhaustOnce
  <2>3. ExhaustOnce(x, T) = [x EXCEPT !.usage = u, !.Q = p]
    BY <2>1, <2>2
  <2> HIDE DEF p, u
  <2> QED BY <1>0, <2>3
<1> HIDE DEF q, r, u
<1>7. \A n \in 1 .. Len(q) : q[n].b > 0
  <2> SUFFICES ASSUME NEW n \in 1 .. Len(q) PROVE q[n].b > 0
    OBVIOUS
  <2>1. n \in 1 .. Len(x.Q) - 1 /\ n + 1 \in 1 .. Len(x.Q)
    BY <1>0, <1>2
  <2> QED BY <1>1, <1>2, <2>1
<1>8. /\ p \in Seq(Replenishments) /\ Len(p) = Len(q) + 1 /\ Total(p) = Total(q) + r.b
      /\ \A n \in 1 .. Len(q) + 1 : p[n].b > 0
      /\ Ascending(q) => Ascending(p)
  BY <1>2, <1>3, <1>7, InsertKeeps
<1> HIDE DEF p
<1>9. Len(p) >= 1 /\ Len(p) <= MAX_REPL /\ \A n \in 1 .. Len(p) : p[n].b > 0
  BY <1>0, <1>2, <1>8
<1>10. Total(p) = C
  <2>1. C \in Nat /\ Total(p) = (C - x.Q[1].b) + x.Q[1].b
    BY <1>1, <1>2, <1>3, <1>8, ServerAssumption
  <2> QED BY <1>0, <2>1
<1>11. Sound([Q |-> p, usage |-> u, b |-> x.b])
  BY <1>0, <1>4, <1>8, <1>9, <1>10, MakeSound
<1>12. Ascending(x.Q) => Ascending(q)
  <2> SUFFICES ASSUME Ascending(x.Q), NEW n \in 1 .. Len(q) - 1 PROVE q[n].t <= q[n + 1].t
    BY DEF Ascending
  <2>1. n \in 1 .. Len(x.Q) - 1 /\ n + 1 \in 1 .. Len(x.Q) - 1
    BY <1>0, <1>2
  <2> QED BY <1>2, <2>1 DEF Ascending
<1> QED BY <1>6, <1>8, <1>11, <1>12 DEF u

Round(r) == IF r.Q[1].b <= r.usage THEN ExhaustOnce(r, T) ELSE r

Rounds(x, f) ==
  f = [n \in 0 .. x.usage |->
         IF n = 0 THEN x ELSE IF f[n - 1].Q[1].b <= f[n - 1].usage THEN ExhaustOnce(f[n - 1], T) ELSE f[n - 1]]

\* What is true of the budget after n rounds of the loop that began with x: as long as
\* there is usage to consume, each round consumes some.
AfterRounds(x, n, y) ==
  /\ Sound(y) /\ y.b = x.b
  /\ Ascending(x.Q) => Ascending(y.Q)
  /\ x.usage <= x.Q[1].b => y = x \/ y.usage = 0
  /\ y.usage < y.Q[1].b \/ y.usage + n <= x.usage

LEMMA OneRound ==
  ASSUME NEW x, Sound(x), NEW n \in Nat, NEW y, AfterRounds(x, n, y)
  PROVE  AfterRounds(x, n + 1, Round(y))
<1>0. /\ Sound(y) /\ y.b = x.b /\ y.usage \in Nat /\ y.Q[1].b \in Nat /\ y.Q[1].b > 0
      /\ x.usage \in Nat /\ x.Q[1].b \in Nat /\ x.Q[1].b > 0
  BY BudgetParts DEF AfterRounds
<1>1. CASE y.Q[1].b <= y.usage
  <2> DEFINE z == ExhaustOnce(y, T)
  <2>1. /\ Sound(z) /\ z.usage = y.usage - y.Q[1].b /\ z.b = y.b
        /\ Ascending(y.Q) => Ascending(z.Q)
    BY <1>0, <1>1, ExhaustOnceSound
  <2>2. Round(y) = z
    BY <1>1 DEF Round
  <2> HIDE DEF z
  <2>3. x.usage <= x.Q[1].b => z.usage = 0
    <3> SUFFICES ASSUME x.usage <= x.Q[1].b PROVE z.usage = 0
      OBVIOUS
    <3>1. CASE y = x
      BY <1>0, <1>1, <2>1, <3>1
    <3>2. CASE y.usage = 0
      BY <1>0, <1>1, <3>2
    <3> QED BY <3>1, <3>2 DEF AfterRounds
  <2>4. ~(y.usage < y.Q[1].b)
    BY <1>0, <1>1
  <2>5. y.usage + n <= x.usage
    BY <2>4 DEF AfterRounds
  <2>6. z.usage + (n + 1) <= x.usage
    BY <1>0, <2>1, <2>5
  <2>7. Ascending(x.Q) => Ascending(z.Q)
    BY <2>1 DEF AfterRounds
  <2> QED BY <1>0, <2>1, <2>2, <2>3, <2>6, <2>7 DEF AfterRounds
<1>2. CASE ~(y.Q[1].b <= y.usage)
  <2>1. Round(y) = y /\ y.usage < y.Q[1].b
    BY <1>0, <1>2 DEF Round
  <2> QED BY <2>1 DEF AfterRounds
<1> QED BY <1>1, <1>2

\* The loop of budget_check ends, with less usage than there is in the head.
LEMMA ExhaustSound ==
  ASSUME NEW x, Sound(x)
  PROVE  /\ AfterRounds(x, x.usage, Exhaust(x, T))
         /\ Exhaust(x, T).usage < Exhaust(x, T).Q[1].b
<1> DEFINE V == {y \in Budgets : Sound(y)}
           N == x.usage
           step == [n \in 1 .. N |-> [y \in V |-> Round(y)]]
           g == CHOOSE f : Rounds(x, f)
<1>0. N \in Nat /\ x \in V
  BY BudgetParts DEF Sound
<1>1. \A y \in V : Round(y) \in V
  <2> SUFFICES ASSUME NEW y \in V PROVE Sound(Round(y))
    BY DEF Sound
  <2> QED BY ExhaustOnceSound DEF Round
<1> HIDE DEF V, N
<1>2. step \in [1 .. N -> [V -> V]]
  BY <1>1
<1>3. \A n \in 1 .. N, y \in V : step[n][y] = Round(y)
  OBVIOUS
<1> HIDE DEF step
<1>4. PICK f : Iterates(f, V, N, x, step)
  BY <1>0, <1>2, Recursion
<1>5. ASSUME NEW n \in 0 .. N PROVE f[n] = IF n = 0 THEN x ELSE Round(f[n - 1])
  <2>1. CASE n = 0
    BY <1>4, <2>1 DEF Iterates
  <2>2. CASE n # 0
    <3>1. n \in 1 .. N /\ n - 1 \in 0 .. N
      BY <1>0, <2>2
    <3>2. f[n - 1] \in V
      BY <1>4, <3>1 DEF Iterates
    <3> QED BY <1>3, <1>4, <2>2, <3>1, <3>2 DEF Iterates
  <2> QED BY <2>1, <2>2
<1>6. f = [n \in 0 .. N |-> IF n = 0 THEN x ELSE Round(f[n - 1])]
  BY <1>4, <1>5 DEF Iterates
<1>7. Rounds(x, f)
  BY <1>6 DEF Rounds, Round, N
<1>8. Rounds(x, g)
  BY <1>7
<1>9. \A n \in 0 .. N : g[n] = IF n = 0 THEN x ELSE Round(g[n - 1])
  BY <1>8, Zenon DEF Rounds, Round, N
<1>10. Exhaust(x, T) = g[N]
  BY DEF Exhaust, Rounds, N
<1> HIDE DEF g
<1> DEFINE S == {n \in 0 .. N : AfterRounds(x, n, g[n])}
<1>11. 0 \in S
  <2>1. g[0] = x /\ 0 \in 0 .. N
    BY <1>0, <1>9
  <2>2. x.usage \in Nat
    BY BudgetParts
  <2>3. AfterRounds(x, 0, x)
    BY <2>2 DEF AfterRounds
  <2> QED BY <2>1, <2>3
<1>12. ASSUME NEW n \in 0 .. N - 1, n \in S PROVE n + 1 \in S
  <2>1. n \in Nat /\ n + 1 \in 0 .. N /\ n + 1 # 0 /\ (n + 1) - 1 = n
    BY <1>0
  <2>2. g[n + 1] = Round(g[n])
    BY <1>9, <2>1
  <2>3. AfterRounds(x, n + 1, Round(g[n]))
    BY <1>12, <2>1, OneRound
  <2> QED BY <2>1, <2>2, <2>3
<1> HIDE DEF S
<1>13. \A n \in 0 .. N : n \in S
  BY <1>0, <1>11, <1>12, UpTo
<1>14. AfterRounds(x, N, g[N])
  <2>1. N \in 0 .. N
    BY <1>0
  <2> QED BY <1>13, <2>1 DEF S
<1>15. g[N].usage < g[N].Q[1].b
  <2> DEFINE y == g[N]
  <2>1. y.usage \in Nat /\ y.Q[1].b \in Nat /\ y.Q[1].b > 0 /\ x.usage \in Nat
    BY <1>14, BudgetParts DEF AfterRounds
  <2>2. y.usage < y.Q[1].b \/ y.usage + N <= N
    BY <1>14 DEF AfterRounds, N
  <2> HIDE DEF y
  <2> QED BY <1>0, <2>1, <2>2 DEF y
<1> QED BY <1>10, <1>14, <1>15 DEF N

\* The usage is less than the head, as the unsigned differences need it.
Fits(x) == Sound(x) /\ x.usage < x.Q[1].b

\* A queue with another head is as good, when what the heads hold is accounted for.
LEMMA NewHead ==
  ASSUME NEW x, Sound(x), NEW t \in Nat
  PROVE  /\ [x.Q EXCEPT ![1] = [t |-> t, b |-> x.Q[1].b]] \in Seq(Replenishments)
         /\ Len([x.Q EXCEPT ![1] = [t |-> t, b |-> x.Q[1].b]]) = Len(x.Q)
         /\ [x.Q EXCEPT ![1] = [t |-> t, b |-> x.Q[1].b]][1] = [t |-> t, b |-> x.Q[1].b]
         /\ \A n \in 2 .. Len(x.Q) : [x.Q EXCEPT ![1] = [t |-> t, b |-> x.Q[1].b]][n] = x.Q[n]
         /\ Total([x.Q EXCEPT ![1] = [t |-> t, b |-> x.Q[1].b]]) = C
         /\ \A n \in 1 .. Len(x.Q) : [x.Q EXCEPT ![1] = [t |-> t, b |-> x.Q[1].b]][n].b > 0
<1>0. /\ x.Q \in Seq(Replenishments) /\ Len(x.Q) \in Nat /\ Len(x.Q) >= 1
      /\ x.Q[1].b \in Nat /\ x.Q[1].b > 0
  BY BudgetParts
<1>1. Total(x.Q) = C /\ \A i \in 1 .. Len(x.Q) : x.Q[i].b > 0
  BY DEF Sound
<1> DEFINE r == [t |-> t, b |-> x.Q[1].b]
           p == [x.Q EXCEPT ![1] = r]
<1>2. r \in Replenishments /\ r.b = x.Q[1].b
  BY <1>0 DEF Replenishments
<1> HIDE DEF r
<1>3. /\ p \in Seq(Replenishments) /\ Len(p) = Len(x.Q) /\ p[1] = r
      /\ \A n \in 2 .. Len(x.Q) : p[n] = x.Q[n]
      /\ Total(p) = (Total(x.Q) - x.Q[1].b) + r.b
  BY <1>0, <1>2, TotalOfHead
<1> HIDE DEF p
<1>4. Total(p) = C
  <2>1. C \in Nat /\ Total(p) = (C - x.Q[1].b) + x.Q[1].b
    BY <1>1, <1>2, <1>3, ServerAssumption
  <2> QED BY <1>0, <2>1
<1>5. ASSUME NEW n \in 1 .. Len(x.Q) PROVE p[n].b > 0
  <2>1. CASE n = 1
    BY <1>0, <1>2, <1>3, <2>1
  <2>2. CASE n # 1
    <3>1. n \in 2 .. Len(x.Q)
      BY <1>0, <2>2
    <3> QED BY <1>1, <1>3, <3>1
  <2> QED BY <2>1, <2>2
<1> QED BY <1>3, <1>4, <1>5 DEF p, r

\* The head absorbed by the next replenishment.
LEMMA MergedHead ==
  ASSUME NEW q \in Seq(Replenishments), NEW t \in Nat, Len(q) >= 2,
         Total(q) = C, \A n \in 1 .. Len(q) : q[n].b > 0
  PROVE  /\ MergeHead(q, t) \in Seq(Replenishments) /\ Len(MergeHead(q, t)) = Len(q) - 1
         /\ MergeHead(q, t)[1].t = t
         /\ MergeHead(q, t)[1].b = q[1].b + q[2].b /\ MergeHead(q, t)[1].b > q[1].b
         /\ \A n \in 2 .. Len(q) - 1 : MergeHead(q, t)[n] = q[n + 1]
         /\ Total(MergeHead(q, t)) = C
         /\ \A n \in 1 .. Len(q) - 1 : MergeHead(q, t)[n].b > 0
<1>0. Len(q) \in Nat /\ \A n \in 1 .. Len(q) : q[n].b \in Nat
  BY EntryTypes
<1>1. q[1].b \in Nat /\ q[1].b > 0 /\ q[2].b \in Nat /\ q[2].b > 0
  BY <1>0
<1> DEFINE p == MergeHead(q, t)
<1>2. /\ p \in Seq(Replenishments) /\ Len(p) = Len(q) - 1 /\ p[1] = [t |-> t, b |-> q[1].b + q[2].b]
      /\ \A n \in 2 .. Len(q) - 1 : p[n] = q[n + 1]
      /\ Total(p) = Total(q)
  BY TotalOfMerge
<1> HIDE DEF p
<1>3. p[1].t = t /\ p[1].b = q[1].b + q[2].b
  BY <1>2
<1>4. p[1].b > q[1].b /\ p[1].b > 0
  BY <1>1, <1>3
<1>5. ASSUME NEW n \in 1 .. Len(q) - 1 PROVE p[n].b > 0
  <2>1. CASE n = 1
    BY <1>4, <2>1
  <2>2. CASE n # 1
    <3>1. n \in 2 .. Len(q) - 1 /\ n + 1 \in 1 .. Len(q)
      BY <1>0, <2>2
    <3> QED BY <1>2, <3>1
  <2> QED BY <2>1, <2>2
<1> QED BY <1>2, <1>3, <1>4, <1>5 DEF p

\* Postponing the head loses nothing.
LEMMA OverrunSound ==
  ASSUME NEW x, Fits(x)
  PROVE  Fits(Overrun(x)) /\ Overrun(x).b = x.b /\ (x.usage = 0 => Overrun(x) = x)
<1>0. /\ Sound(x) /\ x.usage < x.Q[1].b
      /\ x = [Q |-> x.Q, usage |-> x.usage, b |-> x.b]
      /\ x.Q \in Seq(Replenishments) /\ Len(x.Q) \in Nat /\ Len(x.Q) >= 1 /\ Len(x.Q) <= MAX_REPL
      /\ x.usage \in Nat /\ x.b \in Nat
      /\ x.Q[1].b \in Nat /\ x.Q[1].t \in Nat /\ x.Q[1] = [t |-> x.Q[1].t, b |-> x.Q[1].b]
  BY BudgetParts DEF Fits
<1>1. Total(x.Q) = C /\ \A i \in 1 .. Len(x.Q) : x.Q[i].b > 0
  BY DEF Fits, Sound
<1> DEFINE t == x.Q[1].t + x.usage
<1>2. t \in Nat
  BY <1>0
<1>3. CASE x.usage = 0
  BY <1>3 DEF Overrun
<1>4. CASE x.usage # 0 /\ Len(x.Q) > 1 /\ t + x.Q[1].b >= x.Q[2].t
  <2> DEFINE p == MergeHead(x.Q, t)
             y == [Q |-> p, usage |-> x.usage, b |-> x.b]
  <2>1. Overrun(x) = [x EXCEPT !.Q = p]
    BY <1>4 DEF Overrun
  <2> HIDE DEF t
  <2>2. /\ p \in Seq(Replenishments) /\ Len(p) = Len(x.Q) - 1 /\ p[1].b > x.Q[1].b
        /\ p[1].b = x.Q[1].b + x.Q[2].b
        /\ Total(p) = C /\ \A n \in 1 .. Len(x.Q) - 1 : p[n].b > 0
    <3>1. Len(x.Q) >= 2
      BY <1>0, <1>4
    <3> QED BY <1>0, <1>1, <1>2, <3>1, MergedHead
  <2> HIDE DEF p
  <2>3. Overrun(x) = y
    BY <1>0, <2>1
  <2>4. Len(p) >= 1 /\ Len(p) <= MAX_REPL
    BY <1>0, <1>4, <2>2, MaxReplAssumption
  <2>5. Sound(y)
    BY <1>0, <2>2, <2>4, MakeSound
  <2>6. x.usage < p[1].b
    <3>1. x.Q[2].b \in Nat
      BY <1>0, <1>4, EntryTypes
    <3> QED BY <1>0, <2>2, <3>1
  <2> QED BY <1>4, <2>3, <2>5, <2>6 DEF Fits
<1>5. CASE x.usage # 0 /\ ~(Len(x.Q) > 1 /\ t + x.Q[1].b >= x.Q[2].t)
  <2> DEFINE p == [x.Q EXCEPT ![1] = [t |-> t, b |-> x.Q[1].b]]
             y == [Q |-> p, usage |-> x.usage, b |-> x.b]
  <2>1. Overrun(x) = [x EXCEPT !.Q[1].t = t]
    BY <1>5 DEF Overrun
  <2> HIDE DEF t
  <2>2. /\ p \in Seq(Replenishments) /\ Len(p) = Len(x.Q) /\ p[1] = [t |-> t, b |-> x.Q[1].b]
        /\ Total(p) = C /\ \A n \in 1 .. Len(x.Q) : p[n].b > 0
    BY <1>0, <1>2, NewHead
  <2>3. Overrun(x) = y
    <3>1. [x.Q[1] EXCEPT !.t = t] = [t |-> t, b |-> x.Q[1].b]
      BY <1>0
    <3>2. [x EXCEPT !.Q[1].t = t] = [x EXCEPT !.Q = [x.Q EXCEPT ![1] = [x.Q[1] EXCEPT !.t = t]]]
      OBVIOUS
    <3>3. [x EXCEPT !.Q[1].t = t] = [x EXCEPT !.Q = p]
      BY <3>1, <3>2
    <3> HIDE DEF p
    <3> QED BY <1>0, <2>1, <3>3
  <2> HIDE DEF p
  <2>4. Sound(y)
    BY <1>0, <2>2, MakeSound
  <2> QED BY <1>0, <1>5, <2>2, <2>3, <2>4 DEF Fits
<1> QED BY <1>3, <1>4, <1>5
\* budget_check, for any overrun; and in a timeslice that did not overrun its
\* budget it keeps the order.
LEMMA BudgetCheckSound ==
  ASSUME NEW x, Sound(x), NEW clk \in Nat
  PROVE  /\ Fits(BudgetCheck(x, T, clk)) /\ BudgetCheck(x, T, clk).b = x.b
         /\ Ascending(x.Q) /\ x.usage <= x.Q[1].b /\ x.Q[1].t <= clk
              => Ascending(BudgetCheck(x, T, clk).Q)
<1>0. x.usage \in Nat /\ x.Q[1].b \in Nat /\ x.Q[1].b > 0 /\ x.Q[1].t \in Nat
  BY BudgetParts
<1> DEFINE y == Exhaust(x, T)
<1>1. CASE Capacity(x, clk) <= 0
  <2>1. BudgetCheck(x, T, clk) = Overrun(y)
    BY <1>1 DEF BudgetCheck
  <2>2. AfterRounds(x, x.usage, y) /\ y.usage < y.Q[1].b
    BY ExhaustSound
  <2> HIDE DEF y
  <2>3. Fits(y) /\ y.b = x.b
    BY <2>2 DEF Fits, AfterRounds
  <2>4. Fits(Overrun(y)) /\ Overrun(y).b = y.b /\ (y.usage = 0 => Overrun(y) = y)
    BY <2>3, OverrunSound
  <2>5. ASSUME Ascending(x.Q), x.usage <= x.Q[1].b, x.Q[1].t <= clk
        PROVE  Ascending(Overrun(y).Q)
    <3>1. x.Q[1].b - x.usage <= 0
      BY <1>0, <1>1, <2>5 DEF Capacity
    <3>2. ~(x.usage < x.Q[1].b)
      BY <1>0, <3>1
    <3>3. y # x
      BY <2>2, <3>2
    <3>4. y.usage = 0 /\ Ascending(y.Q)
      BY <2>2, <2>5, <3>3 DEF AfterRounds
    <3> QED BY <2>4, <3>4
  <2> QED BY <2>1, <2>3, <2>4, <2>5
<1>2. CASE ~(Capacity(x, clk) <= 0)
  <2>1. BudgetCheck(x, T, clk) = x
    BY <1>2 DEF BudgetCheck
  <2>2. x.usage < x.Q[1].b
    BY <1>0, <1>2 DEF Capacity
  <2> QED BY <2>1, <2>2 DEF Fits
<1> QED BY <1>1, <1>2

\* split_check: whether or not the queue is full.
LEMMA SplitCheckSound ==
  ASSUME NEW x, Fits(x), NEW clk \in Nat
  PROVE  /\ Fits(SplitCheck(x, T, clk)) /\ SplitCheck(x, T, clk).b = x.b
         /\ Ascending(x.Q) => Ascending(SplitCheck(x, T, clk).Q)
<1>0. /\ Sound(x) /\ x.usage < x.Q[1].b
      /\ x = [Q |-> x.Q, usage |-> x.usage, b |-> x.b]
      /\ x.Q \in Seq(Replenishments) /\ Len(x.Q) \in Nat /\ Len(x.Q) >= 1 /\ Len(x.Q) <= MAX_REPL
      /\ x.usage \in Nat /\ x.b \in Nat
      /\ x.Q[1].b \in Nat /\ x.Q[1].t \in Nat /\ x.Q[1] = [t |-> x.Q[1].t, b |-> x.Q[1].b]
  BY BudgetParts DEF Fits
<1>1. Total(x.Q) = C /\ \A i \in 1 .. Len(x.Q) : x.Q[i].b > 0
  BY DEF Fits, Sound
<1>2. CASE ~(x.usage > 0 /\ x.Q[1].t <= clk)
  <2>1. SplitCheck(x, T, clk) = x
    BY <1>2, Zenon DEF SplitCheck
  <2> QED BY <2>1
<1>3. CASE x.usage > 0 /\ x.Q[1].t <= clk
  <2> DEFINE remnant == x.Q[1].b - x.usage
             q == IF Len(x.Q) = MAX_REPL THEN [Tail(x.Q) EXCEPT ![1].b = @ + remnant]
                  ELSE [x.Q EXCEPT ![1].b = remnant]
             r == [t |-> q[1].t + T, b |-> x.usage]
             p == InsertByTime(q, r)
             y == [Q |-> p, usage |-> 0, b |-> x.b]
  <2>0. remnant \in Nat /\ remnant > 0
    BY <1>0
  <2>1. SplitCheck(x, T, clk) = [x EXCEPT !.Q = Add(q, r), !.usage = 0]
    BY <1>3, Zenon DEF SplitCheck
  <2> HIDE DEF remnant
  <2>2. /\ q \in Seq(Replenishments) /\ Len(q) >= 1 /\ Len(q) < MAX_REPL
        /\ Total(q) = C - x.usage /\ \A n \in 1 .. Len(q) : q[n].b > 0
        /\ Ascending(x.Q) => Ascending(q)
    <3>1. CASE Len(x.Q) = MAX_REPL
      <4> DEFINE w == Tail(x.Q)
                 h == [t |-> w[1].t, b |-> w[1].b + remnant]
                 v == [w EXCEPT ![1] = h]
      <4>1. /\ w \in Seq(Replenishments) /\ Len(w) = Len(x.Q) - 1
            /\ \A n \in 1 .. Len(x.Q) - 1 : w[n] = x.Q[n + 1]
            /\ Total(w) = Total(x.Q) - x.Q[1].b
        BY <1>0, TotalOfTail
      <4>2. q = [w EXCEPT ![1].b = @ + remnant]
        BY <3>1
      <4> HIDE DEF w, q
      <4>3. Len(w) \in Nat /\ Len(w) >= 1 /\ Len(w) < MAX_REPL
        BY <1>0, <3>1, <4>1, MaxReplAssumption
      <4>4. w[1] \in Replenishments /\ w[1].b \in Nat /\ w[1].t \in Nat
        BY <4>1, <4>3, EntryTypes
      <4>5. \A n \in 1 .. Len(w) : w[n].b > 0
        <5> SUFFICES ASSUME NEW n \in 1 .. Len(w) PROVE w[n].b > 0
          OBVIOUS
        <5>1. n \in 1 .. Len(x.Q) - 1 /\ n + 1 \in 1 .. Len(x.Q)
          BY <1>0, <4>1
        <5> QED BY <1>1, <4>1, <5>1
      <4>6. h \in Replenishments /\ h.b = w[1].b + remnant /\ h.t = w[1].t /\ h.b > 0
        BY <2>0, <4>4 DEF Replenishments
      <4>7. q = v
        <5>1. [w[1] EXCEPT !.b = @ + remnant] = h
          BY <4>4 DEF Replenishments
        <5>2. [w EXCEPT ![1].b = @ + remnant] = [w EXCEPT ![1] = [w[1] EXCEPT !.b = @ + remnant]]
          BY <4>1
        <5> QED BY <4>2, <5>1, <5>2
      <4> HIDE DEF h
      <4>8. /\ v \in Seq(Replenishments) /\ Len(v) = Len(w) /\ v[1] = h
            /\ \A n \in 2 .. Len(w) : v[n] = w[n]
            /\ Total(v) = (Total(w) - w[1].b) + h.b
        BY <4>1, <4>3, <4>6, TotalOfHead
      <4> HIDE DEF v
      <4>9. Total(v) = C - x.usage
        <5>1. Total(v) = ((C - x.Q[1].b) - w[1].b) + (w[1].b + remnant)
          BY <1>1, <4>1, <4>6, <4>8
        <5>2. C \in Nat
          BY ServerAssumption
        <5> QED BY <1>0, <4>4, <5>1, <5>2 DEF remnant
      <4>10. ASSUME NEW n \in 1 .. Len(v) PROVE v[n].b > 0 /\ v[n].t = w[n].t
        <5>1. CASE n = 1
          BY <4>6, <4>8, <5>1
        <5>2. CASE n # 1
          <6>1. n \in 2 .. Len(w) /\ n \in 1 .. Len(w)
            BY <4>3, <4>8, <5>2
          <6> QED BY <4>5, <4>8, <6>1
        <5> QED BY <5>1, <5>2
      <4>11. ASSUME Ascending(x.Q) PROVE Ascending(v)
        <5> SUFFICES ASSUME NEW n \in 1 .. Len(v) - 1 PROVE v[n].t <= v[n + 1].t
          BY DEF Ascending
        <5>1. /\ n \in 1 .. Len(v) /\ n + 1 \in 1 .. Len(v)
              /\ n \in 1 .. Len(x.Q) - 1 /\ n + 1 \in 1 .. Len(x.Q) - 1
          BY <1>0, <4>1, <4>3, <4>8
        <5>2. x.Q[n + 1].t <= x.Q[(n + 1) + 1].t
          BY <4>11, <5>1 DEF Ascending
        <5> QED BY <4>1, <4>10, <5>1, <5>2
      <4> QED BY <4>3, <4>7, <4>8, <4>9, <4>10, <4>11
    <3>2. CASE Len(x.Q) # MAX_REPL
      <4> DEFINE h == [t |-> x.Q[1].t, b |-> remnant]
                 v == [x.Q EXCEPT ![1] = h]
      <4>1. q = [x.Q EXCEPT ![1].b = remnant]
        BY <3>2
      <4> HIDE DEF q
      <4>2. Len(x.Q) < MAX_REPL
        BY <1>0, <3>2, MaxReplAssumption
      <4>3. h \in Replenishments /\ h.b = remnant /\ h.t = x.Q[1].t
        BY <1>0, <2>0 DEF Replenishments
      <4>4. q = v
        <5>1. [x.Q[1] EXCEPT !.b = remnant] = h
          BY <1>0
        <5>2. [x.Q EXCEPT ![1].b = remnant] = [x.Q EXCEPT ![1] = [x.Q[1] EXCEPT !.b = remnant]]
          OBVIOUS
        <5> QED BY <4>1, <5>1, <5>2
      <4> HIDE DEF h
      <4>5. /\ v \in Seq(Replenishments) /\ Len(v) = Len(x.Q) /\ v[1] = h
            /\ \A n \in 2 .. Len(x.Q) : v[n] = x.Q[n]
            /\ Total(v) = (Total(x.Q) - x.Q[1].b) + h.b
        BY <1>0, <4>3, TotalOfHead
      <4> HIDE DEF v
      <4>6. Total(v) = C - x.usage
        <5>1. Total(v) = (C - x.Q[1].b) + remnant /\ C \in Nat
          BY <1>1, <4>3, <4>5, ServerAssumption
        <5> QED BY <1>0, <5>1 DEF remnant
      <4>7. ASSUME NEW n \in 1 .. Len(v) PROVE v[n].b > 0 /\ v[n].t = x.Q[n].t
        <5>1. CASE n = 1
          BY <2>0, <4>3, <4>5, <5>1
        <5>2. CASE n # 1
          <6>1. n \in 2 .. Len(x.Q) /\ n \in 1 .. Len(x.Q)
            BY <1>0, <4>5, <5>2
          <6> QED BY <1>1, <4>5, <6>1
        <5> QED BY <5>1, <5>2
      <4>8. ASSUME Ascending(x.Q) PROVE Ascending(v)
        <5> SUFFICES ASSUME NEW n \in 1 .. Len(v) - 1 PROVE v[n].t <= v[n + 1].t
          BY DEF Ascending
        <5>1. n \in 1 .. Len(v) /\ n + 1 \in 1 .. Len(v) /\ n \in 1 .. Len(x.Q) - 1
          BY <1>0, <4>5
        <5> QED BY <4>7, <4>8, <5>1 DEF Ascending
      <4> QED BY <1>0, <4>2, <4>4, <4>5, <4>6, <4>7, <4>8
    <3> QED BY <3>1, <3>2
  <2> HIDE DEF q
  <2>3. Len(q) \in Nat /\ q[1].t \in Nat
    BY <2>2, EntryTypes
  <2>4. r \in Replenishments /\ r.b = x.usage /\ r.b > 0
    <3>1. q[1].t + T \in Nat
      BY <2>3, ServerAssumption
    <3> QED BY <1>0, <1>3, <3>1 DEF Replenishments
  <2>5. Add(q, r) = p
    BY <2>2 DEF Add
  <2> HIDE DEF r
  <2>6. /\ p \in Seq(Replenishments) /\ Len(p) = Len(q) + 1 /\ Total(p) = Total(q) + r.b
        /\ \A n \in 1 .. Len(q) + 1 : p[n].b > 0
        /\ Ascending(q) => Ascending(p)
    BY <2>2, <2>4, InsertKeeps
  <2>7. SplitCheck(x, T, clk) = y
    <3>1. SplitCheck(x, T, clk) = [x EXCEPT !.Q = p, !.usage = 0]
      BY <2>1, <2>5
    <3> HIDE DEF p
    <3> QED BY <1>0, <3>1
  <2> HIDE DEF p
  <2>8. Len(p) >= 1 /\ Len(p) <= MAX_REPL /\ \A n \in 1 .. Len(p) : p[n].b > 0
    BY <2>2, <2>3, <2>6, MaxReplAssumption
  <2>9. Total(p) = C
    <3>1. Total(p) = (C - x.usage) + x.usage /\ C \in Nat
      BY <2>2, <2>4, <2>6, ServerAssumption
    <3> QED BY <1>0, <3>1
  <2>10. Sound(y)
    <3>1. 0 \in Nat
      OBVIOUS
    <3> QED BY <1>0, <2>6, <2>8, <2>9, <3>1, MakeSound
  <2>11. p[1].b > 0
    <3>1. 1 \in 1 .. Len(p)
      BY <2>3, <2>6
    <3> QED BY <2>8, <3>1
  <2>12. Fits(y) /\ y.b = x.b
    BY <2>10, <2>11 DEF Fits
  <2> QED BY <2>2, <2>6, <2>7, <2>12
<1> QED BY <1>2, <1>3

\* main_vcpu_update_replenishments changes nothing but b.
LEMMA UpdateSound ==
  ASSUME NEW x, Fits(x), NEW clk \in Nat
  PROVE  /\ Fits(Update(x, clk))
         /\ Update(x, clk).Q = x.Q /\ Update(x, clk).usage = x.usage
         /\ Update(x, clk).b \in 0 .. C
         /\ x.Q[1].t <= clk => Update(x, clk).b = x.Q[1].b - x.usage
         /\ Update(x, clk).b > 0 => x.Q[1].t <= clk
<1>0. /\ Sound(x) /\ x.usage < x.Q[1].b
      /\ x = [Q |-> x.Q, usage |-> x.usage, b |-> x.b]
      /\ x.Q \in Seq(Replenishments) /\ Len(x.Q) \in Nat /\ Len(x.Q) >= 1 /\ Len(x.Q) <= MAX_REPL
      /\ x.usage \in Nat /\ x.Q[1].b \in Nat /\ x.Q[1].t \in Nat /\ x.Q[1].b <= C
  BY BudgetParts DEF Fits
<1>1. Total(x.Q) = C /\ \A i \in 1 .. Len(x.Q) : x.Q[i].b > 0
  BY DEF Fits, Sound
<1> DEFINE v == IF Capacity(x, clk) > 0 THEN Capacity(x, clk) ELSE 0
           y == [Q |-> x.Q, usage |-> x.usage, b |-> v]
<1>2. /\ v \in 0 .. C /\ v \in Nat
      /\ x.Q[1].t <= clk => v = x.Q[1].b - x.usage
      /\ v > 0 => x.Q[1].t <= clk
  BY <1>0, ServerAssumption DEF Capacity
<1>3. Update(x, clk) = [x EXCEPT !.b = v]
  BY DEF Update
<1> HIDE DEF v
<1>4. Update(x, clk) = y
  BY <1>0, <1>3
<1>5. Sound(y)
  BY <1>0, <1>1, <1>2, MakeSound
<1>6. Fits(y)
  BY <1>0, <1>5 DEF Fits
<1> QED BY <1>2, <1>4, <1>6

\* main_vcpu_end_timeslice, after any time delta; and in a timeslice that did
\* not overrun its budget it keeps the order.
LEMMA EndTimesliceSound ==
  ASSUME NEW x, Fits(x), NEW delta \in Nat, NEW rn \in BOOLEAN, NEW clk \in Nat
  PROVE  /\ Fits(EndTimeslice(x, T, delta, rn, clk))
         /\ EndTimeslice(x, T, delta, rn, clk).b \in 0 .. C
         /\ Ascending(x.Q) /\ x.usage + delta <= x.Q[1].b /\ x.Q[1].t <= clk
              => Ascending(EndTimeslice(x, T, delta, rn, clk).Q)
<1>0. /\ x = [Q |-> x.Q, usage |-> x.usage, b |-> x.b]
      /\ x.Q \in Seq(Replenishments) /\ Len(x.Q) \in Nat /\ Len(x.Q) >= 1 /\ Len(x.Q) <= MAX_REPL
      /\ x.usage \in Nat /\ x.b \in Nat
  BY BudgetParts DEF Fits
<1>1. Total(x.Q) = C /\ \A i \in 1 .. Len(x.Q) : x.Q[i].b > 0
  BY DEF Fits, Sound
<1> DEFINE u == x.usage + delta
           y == [Q |-> x.Q, usage |-> u, b |-> x.b]
           used == BudgetCheck(y, T, clk)
           split == SplitCheck(used, T, clk)
           last == IF rn THEN used ELSE split
<1>2. [x EXCEPT !.usage = @ + delta] = y
  <2>1. [x EXCEPT !.usage = @ + delta] = [x EXCEPT !.usage = u]
    OBVIOUS
  <2> HIDE DEF u
  <2> QED BY <1>0, <2>1
<1>3. EndTimeslice(x, T, delta, rn, clk) = Update(last, clk)
  BY <1>2 DEF EndTimeslice
<1>4. u \in Nat
  BY <1>0
<1> HIDE DEF u
<1>5. Sound(y)
  BY <1>0, <1>1, <1>4, MakeSound
<1>6. y.Q = x.Q /\ y.usage = u
  OBVIOUS
<1> HIDE DEF y
<1>7. /\ Fits(used)
      /\ Ascending(x.Q) /\ u <= x.Q[1].b /\ x.Q[1].t <= clk => Ascending(used.Q)
  BY <1>5, <1>6, BudgetCheckSound
<1> HIDE DEF used
<1>8. Fits(split) /\ (Ascending(used.Q) => Ascending(split.Q))
  BY <1>7, SplitCheckSound
<1> HIDE DEF split
<1>9. Fits(last) /\ (Ascending(used.Q) => Ascending(last.Q))
  BY <1>7, <1>8
<1> HIDE DEF last
<1>10. Fits(Update(last, clk)) /\ Update(last, clk).Q = last.Q /\ Update(last, clk).b \in 0 .. C
  BY <1>9, UpdateSound
<1> QED BY <1>3, <1>7, <1>9, <1>10 DEF u

-----------------------------------------------------------------------------
(* unblock_check.                                                          *)

Reached(x, clk, q) == Len(q) > 1 /\ q[2].t <= clk + q[1].b - x.usage

Merge(x, clk, q) == IF Reached(x, clk, q) THEN MergeHead(q, clk) ELSE q

Merges(x, clk, f) ==
  f = [n \in 0 .. Len(x.Q) |->
         IF n = 0 THEN [x.Q EXCEPT ![1].t = clk]
         ELSE IF Len(f[n - 1]) > 1 /\ f[n - 1][2].t <= clk + f[n - 1][1].b - x.usage
              THEN MergeHead(f[n - 1], clk) ELSE f[n - 1]]

\* What is true of the queue after n rounds of the loop of unblock_check.
AfterMerges(x, clk, n, q) ==
  /\ q \in Seq(Replenishments) /\ Len(q) >= 1 /\ Len(q) <= Len(x.Q)
  /\ Total(q) = C /\ \A i \in 1 .. Len(q) : q[i].b > 0
  /\ q[1].t = clk /\ x.Q[1].b <= q[1].b
  /\ Ascending(x.Q) => \A i \in 2 .. Len(q) - 1 : q[i].t <= q[i + 1].t
  /\ Len(q) + n <= Len(x.Q) \/ ~Reached(x, clk, q)

LEMMA OneMerge ==
  ASSUME NEW x, Fits(x), NEW clk \in Nat, NEW n \in Nat, NEW q, AfterMerges(x, clk, n, q)
  PROVE  AfterMerges(x, clk, n + 1, Merge(x, clk, q))
<1>0. /\ q \in Seq(Replenishments) /\ Len(q) >= 1 /\ Len(q) <= Len(x.Q)
      /\ Total(q) = C /\ \A i \in 1 .. Len(q) : q[i].b > 0
      /\ x.Q[1].b <= q[1].b
      /\ Len(q) + n <= Len(x.Q) \/ ~Reached(x, clk, q)
  BY DEF AfterMerges
<1>1. Len(q) \in Nat /\ q[1].b \in Nat
  BY <1>0, EntryTypes
<1>2. Len(x.Q) \in Nat /\ x.Q[1].b \in Nat
  BY BudgetParts DEF Fits
<1>3. CASE Reached(x, clk, q)
  <2> DEFINE p == MergeHead(q, clk)
  <2>1. Merge(x, clk, q) = p
    BY <1>3 DEF Merge
  <2>2. Len(q) >= 2
    BY <1>1, <1>3 DEF Reached
  <2>3. /\ p \in Seq(Replenishments) /\ Len(p) = Len(q) - 1 /\ p[1].t = clk
        /\ p[1].b > q[1].b
        /\ \A i \in 2 .. Len(q) - 1 : p[i] = q[i + 1]
        /\ Total(p) = C
        /\ \A i \in 1 .. Len(q) - 1 : p[i].b > 0
    BY <1>0, <2>2, MergedHead
  <2> HIDE DEF p
  <2>4. p[1].b \in Nat
    BY <1>1, <2>2, <2>3, EntryTypes
  <2>5. Len(p) >= 1 /\ Len(p) <= Len(x.Q) /\ x.Q[1].b <= p[1].b /\ Len(p) + (n + 1) <= Len(x.Q)
    BY <1>0, <1>1, <1>2, <1>3, <2>2, <2>3, <2>4, SMTT(60)
  <2>6. ASSUME Ascending(x.Q), NEW i \in 2 .. Len(p) - 1 PROVE p[i].t <= p[i + 1].t
    <3>1. i \in 2 .. Len(q) - 1 /\ i + 1 \in 2 .. Len(q) - 1
      BY <1>1, <2>3
    <3>2. q[i + 1].t <= q[(i + 1) + 1].t
      BY <2>6, <3>1 DEF AfterMerges
    <3> QED BY <2>3, <3>1, <3>2
  <2> QED BY <2>1, <2>3, <2>5, <2>6 DEF AfterMerges
<1>4. CASE ~Reached(x, clk, q)
  <2>1. Merge(x, clk, q) = q
    BY <1>4 DEF Merge
  <2> QED BY <1>4, <2>1 DEF AfterMerges
<1> QED BY <1>3, <1>4

\* unblock_check: the loop ends with a head that nothing more can be merged into.
LEMMA UnblockSound ==
  ASSUME NEW x, Fits(x), NEW clk \in Nat
  PROVE  /\ Fits(Unblock(x, clk)) /\ Unblock(x, clk).b = x.b
         /\ Ascending(x.Q) => Ascending(Unblock(x, clk).Q)
<1> DEFINE N == Len(x.Q)
           V == Seq(Replenishments)
           first == [x.Q EXCEPT ![1] = [t |-> clk, b |-> x.Q[1].b]]
           step == [n \in 1 .. N |-> [q \in V |-> Merge(x, clk, q)]]
           g == CHOOSE f : Merges(x, clk, f)
<1>0. /\ Sound(x) /\ x.usage < x.Q[1].b
      /\ x = [Q |-> x.Q, usage |-> x.usage, b |-> x.b]
      /\ x.Q \in Seq(Replenishments) /\ N \in Nat /\ N >= 1 /\ N <= MAX_REPL
      /\ x.usage \in Nat /\ x.b \in Nat /\ x.Q[1].b \in Nat /\ x.Q[1].t \in Nat
      /\ x.Q[1] = [t |-> x.Q[1].t, b |-> x.Q[1].b]
  BY BudgetParts DEF Fits
<1>1. CASE ~(Capacity(x, clk) > 0)
  <2>1. Unblock(x, clk) = x
    BY <1>1, Zenon DEF Unblock
  <2> QED BY <2>1
<1>2. CASE Capacity(x, clk) > 0
  <2>1. [x.Q EXCEPT ![1].t = clk] = first
    <3>1. [x.Q[1] EXCEPT !.t = clk] = [t |-> clk, b |-> x.Q[1].b]
      BY <1>0
    <3>2. [x.Q EXCEPT ![1].t = clk] = [x.Q EXCEPT ![1] = [x.Q[1] EXCEPT !.t = clk]]
      OBVIOUS
    <3> QED BY <3>1, <3>2
  <2>2. /\ first \in V /\ Len(first) = N /\ first[1] = [t |-> clk, b |-> x.Q[1].b]
        /\ \A n \in 2 .. N : first[n] = x.Q[n]
        /\ Total(first) = C /\ \A n \in 1 .. N : first[n].b > 0
    BY <1>0, NewHead
  <2> HIDE DEF first, N, V
  <2>3. \A q \in V : Merge(x, clk, q) \in V
    <3> SUFFICES ASSUME NEW q \in V, Reached(x, clk, q) PROVE MergeHead(q, clk) \in V
      BY DEF Merge
    <3>1. Len(q) \in Nat
      BY DEF V
    <3>2. Len(q) >= 2
      BY <3>1 DEF Reached
    <3> QED BY <3>2, TotalOfMerge DEF V
  <2>4. step \in [1 .. N -> [V -> V]]
    BY <2>3
  <2>5. \A n \in 1 .. N, q \in V : step[n][q] = Merge(x, clk, q)
    OBVIOUS
  <2> HIDE DEF step
  <2>6. PICK f : Iterates(f, V, N, first, step)
    BY <1>0, <2>2, <2>4, Recursion
  <2>7. ASSUME NEW n \in 0 .. N PROVE f[n] = IF n = 0 THEN first ELSE Merge(x, clk, f[n - 1])
    <3>1. CASE n = 0
      BY <2>6, <3>1 DEF Iterates
    <3>2. CASE n # 0
      <4>1. n \in 1 .. N /\ n - 1 \in 0 .. N
        BY <1>0, <3>2
      <4>2. f[n - 1] \in V
        BY <2>6, <4>1 DEF Iterates
      <4> QED BY <2>5, <2>6, <3>2, <4>1, <4>2 DEF Iterates
    <3> QED BY <3>1, <3>2
  <2>8. f = [n \in 0 .. N |-> IF n = 0 THEN first ELSE Merge(x, clk, f[n - 1])]
    BY <2>6, <2>7 DEF Iterates
  <2>9. Merges(x, clk, f)
    BY <2>1, <2>8 DEF Merges, Merge, Reached, N
  <2>10. Merges(x, clk, g)
    BY <2>9
  <2>11. \A n \in 0 .. N : g[n] = IF n = 0 THEN first ELSE Merge(x, clk, g[n - 1])
    BY <2>1, <2>10, Zenon DEF Merges, Merge, Reached, N
  <2>12. Unblock(x, clk) = [x EXCEPT !.Q = g[N]]
    BY <1>2 DEF Unblock, Merges, N
  <2> HIDE DEF g
  <2> DEFINE S == {n \in 0 .. N : AfterMerges(x, clk, n, g[n])}
  <2>13. 0 \in S
    <3>1. g[0] = first /\ 0 \in 0 .. N
      BY <1>0, <2>11
    <3>2. first[1].t = clk /\ first[1].b = x.Q[1].b
      BY <2>2
    <3>3. ASSUME Ascending(x.Q), NEW i \in 2 .. Len(first) - 1 PROVE first[i].t <= first[i + 1].t
      <4>1. i \in 2 .. N /\ i + 1 \in 2 .. N /\ i \in 1 .. N - 1
        BY <1>0, <2>2
      <4> QED BY <2>2, <3>3, <4>1 DEF Ascending, N
    <3>4. AfterMerges(x, clk, 0, first)
      BY <1>0, <2>2, <3>2, <3>3 DEF AfterMerges, N, V
    <3> QED BY <3>1, <3>4
  <2>14. ASSUME NEW n \in 0 .. N - 1, n \in S PROVE n + 1 \in S
    <3>0. N \in Nat
      BY <1>0
    <3>1. n \in Nat /\ n + 1 \in 0 .. N /\ n + 1 # 0 /\ (n + 1) - 1 = n
      BY <3>0
    <3>2. g[n + 1] = Merge(x, clk, g[n])
      BY <2>11, <3>1
    <3>3. AfterMerges(x, clk, n + 1, Merge(x, clk, g[n]))
      BY <2>14, <3>1, OneMerge
    <3> QED BY <3>1, <3>2, <3>3
  <2> HIDE DEF S
  <2>15. \A n \in 0 .. N : n \in S
    BY <1>0, <2>13, <2>14, UpTo
  <2> DEFINE q == g[N]
             y == [Q |-> q, usage |-> x.usage, b |-> x.b]
  <2>16. AfterMerges(x, clk, N, q)
    <3>1. N \in 0 .. N
      BY <1>0
    <3> QED BY <2>15, <3>1 DEF S
  <2>17. Unblock(x, clk) = y
    BY <1>0, <2>12
  <2> HIDE DEF q
  <2>18. /\ q \in Seq(Replenishments) /\ Len(q) >= 1 /\ Len(q) <= N
         /\ Total(q) = C /\ \A i \in 1 .. Len(q) : q[i].b > 0
         /\ q[1].t = clk /\ x.Q[1].b <= q[1].b
         /\ Len(q) + N <= N \/ ~Reached(x, clk, q)
    BY <2>16 DEF AfterMerges, N
  <2>19. Len(q) \in Nat /\ q[1].b \in Nat /\ \A i \in 1 .. Len(q) : q[i].t \in Nat
    BY <2>18, EntryTypes
  <2>20. Len(q) <= MAX_REPL /\ x.usage < q[1].b /\ ~Reached(x, clk, q)
    BY <1>0, <2>18, <2>19, MaxReplAssumption
  <2>21. Sound(y)
    BY <1>0, <2>18, <2>20, MakeSound
  <2>22. Fits(y) /\ y.b = x.b /\ y.Q = q
    BY <2>20, <2>21 DEF Fits
  <2>23. ASSUME Ascending(x.Q) PROVE Ascending(q)
    <3> SUFFICES ASSUME NEW i \in 1 .. Len(q) - 1 PROVE q[i].t <= q[i + 1].t
      BY DEF Ascending
    <3>1. CASE i = 1
      <4>1. Len(q) > 1 /\ 2 \in 1 .. Len(q) /\ 1 + 1 = 2
        BY <2>19, <3>1
      <4>2. q[2].t \in Nat /\ ~(q[2].t <= clk + q[1].b - x.usage)
        BY <2>19, <2>20, <4>1 DEF Reached
      <4>3. clk <= q[2].t
        BY <1>0, <2>19, <2>20, <4>2
      <4> QED BY <2>18, <3>1, <4>1, <4>3
    <3>2. CASE i # 1
      <4>1. i \in 2 .. Len(q) - 1
        BY <2>19, <3>2
      <4> QED BY <2>16, <2>23, <4>1 DEF AfterMerges
    <3> QED BY <3>1, <3>2
  <2> QED BY <2>17, <2>22, <2>23
<1> QED BY <1>1, <1>2

-----------------------------------------------------------------------------
(* The server.                                                             *)

\* What TypeOK and NoUnderflow say of the budget.
LEMMA FitsTyped ==
  ASSUME NEW x, Fits(x)
  PROVE  /\ DOMAIN x = {"Q", "usage", "b"}
         /\ x.Q \in Seq(Replenishments) /\ Len(x.Q) \in 1 .. MAX_REPL /\ x.usage \in Nat
         /\ x.usage < x.Q[1].b /\ \A i \in DOMAIN x.Q : x.Q[i].b > 0
<1>1. x \in Budgets /\ Len(x.Q) \in 1 .. MAX_REPL /\ x.usage < x.Q[1].b
      /\ \A i \in 1 .. Len(x.Q) : x.Q[i].b > 0
  BY DEF Fits, Sound
<1>2. DOMAIN x = {"Q", "usage", "b"} /\ x.Q \in Seq(Replenishments) /\ x.usage \in Nat
  BY <1>1 DEF Budgets
<1>3. DOMAIN x.Q = 1 .. Len(x.Q)
  BY <1>2, LenProperties
<1> QED BY <1>1, <1>2, <1>3

\* The numbers of a state, for arithmetic.
LEMMA Numbers ==
  ASSUME IInv
  PROVE  /\ Fits(s) /\ late \in Nat /\ now \in Nat /\ now >= 1 /\ now <= MaxTime
         /\ tprev \in Nat /\ tprev >= 1 /\ tprev <= now
         /\ mark \in Nat /\ mark <= now /\ served \in Nat
         /\ s.b \in 0 .. C /\ s.b \in Nat /\ s.usage \in Nat
         /\ s.Q[1].b \in Nat /\ s.Q[1].t \in Nat
<1>1. Fits(s)
  BY DEF IInv, Fits, NoUnderflow
<1>2. s.usage \in Nat /\ s.Q[1].b \in Nat /\ s.Q[1].t \in Nat
  BY <1>1, BudgetParts DEF Fits
<1>3. TypeOK
  BY DEF IInv
<1> QED BY <1>1, <1>2, <1>3, ServerAssumption DEF TypeOK

LEMMA InitIInv == Init => IInv
<1> SUFFICES ASSUME Init PROVE IInv
  OBVIOUS
<1> DEFINE r == [t |-> 1, b |-> C]
           q == << r >>
<1>1. C \in Nat /\ C > 0 /\ MaxTime \in Nat /\ MaxTime >= 1 /\ MAX_REPL >= 1
  BY ServerAssumption, MaxReplAssumption
<1>2. s = [Q |-> q, usage |-> 0, b |-> 0]
  BY DEF Init
<1>3. r \in Replenishments /\ r.b = C
  BY <1>1 DEF Replenishments
<1> HIDE DEF r
<1>4. q \in Seq(Replenishments) /\ Len(q) = 1 /\ q[1] = r
  BY <1>3
<1> HIDE DEF q
<1>5. Total(q) = C
  <2>1. Total(q) = Sums(q)[Len(q)]
    BY <1>4, SumsDef
  <2>2. Sums(q)[1] = q[1].b
    BY <1>4, FirstSums
  <2> QED BY <1>3, <1>4, <2>1, <2>2
<1>6. Sound(s)
  <2>1. \A i \in 1 .. Len(q) : q[i].b > 0
    BY <1>1, <1>3, <1>4
  <2>2. 0 \in Nat /\ Len(q) >= 1 /\ Len(q) <= MAX_REPL
    BY <1>1, <1>4
  <2>3. Sound([Q |-> q, usage |-> 0, b |-> 0])
    BY <1>4, <1>5, <2>1, <2>2, MakeSound
  <2> QED BY <1>2, <2>3
<1>7. Fits(s) /\ s.b = 0
  BY <1>1, <1>2, <1>3, <1>4, <1>6 DEF Fits
<1>8. /\ DOMAIN s = {"Q", "usage", "b"}
      /\ s.Q \in Seq(Replenishments) /\ Len(s.Q) \in 1 .. MAX_REPL /\ s.usage \in Nat
      /\ s.usage < s.Q[1].b /\ \A i \in DOMAIN s.Q : s.Q[i].b > 0
  BY <1>7, FitsTyped
<1>9. TypeOK
  <2>1. /\ late \in Lateness /\ now = 1 /\ tprev = 1 /\ mark = 0 /\ served = 0
        /\ running = FALSE /\ runnable = FALSE /\ missed = FALSE
    BY DEF Init
  <2>2. now \in 1 .. MaxTime /\ tprev \in 1 .. now /\ mark \in 0 .. now /\ served \in Nat /\ s.b \in 0 .. C
    BY <1>1, <1>7, <2>1
  <2> QED BY <1>8, <2>1, <2>2 DEF TypeOK
<1>10. Ascending(s.Q)
  <2>1. Len(s.Q) = 1
    BY <1>2, <1>4
  <2>2. \A i \in 1 .. 1 - 1 : FALSE
    OBVIOUS
  <2> QED BY <2>1, <2>2 DEF Ascending
<1>11. Slice
  BY DEF Init, Slice
<1> QED BY <1>6, <1>8, <1>9, <1>10, <1>11 DEF IInv, NoUnderflow

\* What is left to show of a step: the budget, the clocks and the timeslice.
LEMMA StepIInv ==
  ASSUME IInv, Fits(s'), s'.b \in 0 .. C, late' = late,
         now' \in Nat, now' >= now, now' <= MaxTime, tprev' \in 1 .. now', mark' \in 0 .. now',
         running' \in BOOLEAN, runnable' \in BOOLEAN, served' \in Nat, missed' \in BOOLEAN,
         Slice', late = 0 => Ascending(s'.Q)
  PROVE  IInv'
<1>1. /\ DOMAIN s' = {"Q", "usage", "b"}
      /\ s'.Q \in Seq(Replenishments) /\ Len(s'.Q) \in 1 .. MAX_REPL /\ s'.usage \in Nat
      /\ s'.usage < s'.Q[1].b /\ \A i \in DOMAIN s'.Q : s'.Q[i].b > 0
  BY FitsTyped
<1>2. late' \in Lateness /\ now' \in 1 .. MaxTime
  BY ServerAssumption DEF IInv, TypeOK
<1>3. TypeOK'
  BY <1>1, <1>2 DEF TypeOK
<1>4. NoUnderflow' /\ Sound(s')
  BY <1>1 DEF NoUnderflow, Fits
<1> QED BY <1>3, <1>4 DEF IInv

LEMMA TickIInv ==
  ASSUME IInv, Tick, late' = late, missed' \in BOOLEAN
  PROVE  IInv'
<1>0. /\ Fits(s) /\ late \in Nat /\ now \in Nat /\ now >= 1 /\ now <= MaxTime
      /\ tprev \in Nat /\ tprev >= 1 /\ tprev <= now
      /\ mark \in Nat /\ mark <= now /\ served \in Nat
      /\ s.b \in 0 .. C
  BY Numbers
<1>1. /\ now' = now + 1 /\ now < MaxTime /\ s' = s /\ running' = running /\ runnable' = runnable
      /\ tprev' = tprev /\ mark' = mark /\ served' = served
  BY DEF Tick
<1>2. Slice'
  <2>1. running => s.Q[1].t <= now /\ s.b = s.Q[1].b - s.usage /\ (now + 1) - tprev <= s.b + late
    BY DEF Slice, IInv, Tick, InSlice
  <2>2. s.Q[1].t \in Nat
    BY Numbers
  <2>3. running => s.Q[1].t <= now + 1
    BY <1>0, <2>1, <2>2
  <2> QED BY <1>1, <2>1, <2>3 DEF Slice
<1>3. now' \in Nat /\ now' >= now /\ now' <= MaxTime /\ tprev' \in 1 .. now' /\ mark' \in 0 .. now'
  BY <1>0, <1>1, ServerAssumption
<1>4. running' \in BOOLEAN /\ runnable' \in BOOLEAN
  BY <1>1 DEF IInv, TypeOK
<1>5. late = 0 => Ascending(s'.Q)
  BY <1>1 DEF IInv
<1> QED BY <1>0, <1>1, <1>2, <1>3, <1>4, <1>5, StepIInv

LEMMA ObserveIInv ==
  ASSUME IInv, Observe, late' = late, missed' \in BOOLEAN
  PROVE  IInv'
<1>0. /\ Fits(s) /\ now \in Nat /\ now >= 1 /\ now <= MaxTime
      /\ tprev \in Nat /\ tprev >= 1 /\ tprev <= now
      /\ served \in Nat /\ s.b \in 0 .. C
  BY Numbers
<1>1. /\ now' = now /\ s' = s /\ running' = running /\ runnable' = runnable
      /\ tprev' = tprev /\ mark' = now /\ served' = served
  BY DEF Observe
<1>2. Slice'
  BY <1>1 DEF Slice, IInv
<1>3. now' \in Nat /\ now' >= now /\ now' <= MaxTime /\ tprev' \in 1 .. now' /\ mark' \in 0 .. now'
  BY <1>0, <1>1
<1>4. running' \in BOOLEAN /\ runnable' \in BOOLEAN
  BY <1>1 DEF IInv, TypeOK
<1>5. late = 0 => Ascending(s'.Q)
  BY <1>1 DEF IInv
<1> QED BY <1>0, <1>1, <1>2, <1>3, <1>4, <1>5, StepIInv

\* The execution time that the end of a timeslice adds is not negative.
LEMMA ServedTyped ==
  ASSUME NEW a \in Nat, NEW n \in Nat, NEW m \in Nat, NEW p \in Nat, m <= n, p <= n
  PROVE  a + n - Maximum(m, p) \in Nat
BY DEF Maximum

LEMMA ScheduleIInv ==
  ASSUME IInv, NEW clk \in now .. now + late, clk <= MaxTime,
         NEW verdict \in {"skipped", "refreshed", "picked"}, NEW more \in BOOLEAN,
         Schedule(clk, verdict, more), late' = late, missed' \in BOOLEAN
  PROVE  IInv'
<1> DEFINE delta == now - tprev
           over == EndTimeslice(s, T, delta, runnable, clk)
           ended == IF running THEN over ELSE s
<1>0. /\ Fits(s) /\ late \in Nat /\ now \in Nat /\ now >= 1 /\ now <= MaxTime
      /\ tprev \in Nat /\ tprev >= 1 /\ tprev <= now
      /\ mark \in Nat /\ mark <= now /\ served \in Nat
      /\ s.b \in 0 .. C /\ s.b \in Nat /\ s.usage \in Nat
      /\ s.Q[1].b \in Nat /\ s.Q[1].t \in Nat
  BY Numbers
<1>1. running \in BOOLEAN /\ runnable \in BOOLEAN
  BY DEF IInv, TypeOK
<1>2. /\ s' = IF verdict = "skipped" THEN ended ELSE Update(ended, clk)
      /\ verdict = "picked" => s'.b > 0
      /\ running' = (verdict = "picked")
      /\ runnable' = IF verdict = "picked" THEN more ELSE runnable
      /\ tprev' = now /\ now' = clk /\ mark' = mark
      /\ served' = IF mark = 0 \/ ~running THEN served ELSE served + now - Maximum(mark, tprev)
  BY DEF Schedule
<1>3. clk \in Nat /\ clk >= now /\ clk - now <= late /\ delta \in Nat
  BY <1>0
<1>4. Fits(ended) /\ ended.b \in 0 .. C /\ (late = 0 => Ascending(ended.Q))
  <2>0. late = 0 => Ascending(s.Q)
    BY DEF IInv
  <2>1. CASE running
    <3>1. s.Q[1].t <= now /\ s.b = s.Q[1].b - s.usage /\ delta <= s.b + late
      BY <2>1 DEF IInv, Slice
    <3> HIDE DEF delta
    <3>2. Fits(over) /\ over.b \in 0 .. C
          /\ (Ascending(s.Q) /\ s.usage + delta <= s.Q[1].b /\ s.Q[1].t <= clk => Ascending(over.Q))
      BY <1>0, <1>1, <1>3, EndTimesliceSound
    <3> HIDE DEF over
    <3>3. s.Q[1].t <= clk /\ (late = 0 => s.usage + delta <= s.Q[1].b)
      <4>1. s.Q[1].t \in Nat /\ s.Q[1].b \in Nat /\ s.usage \in Nat
        BY <1>0
      <4>2. s.Q[1].t <= clk
        BY <1>0, <1>3, <3>1, <4>1
      <4>3. late = 0 => s.usage + delta <= s.Q[1].b
        BY <1>3, <3>1, <4>1
      <4> QED BY <4>2, <4>3
    <3> QED BY <2>0, <2>1, <3>2, <3>3
  <2>2. CASE ~running
    BY <1>0, <2>0, <2>2
  <2> QED BY <2>1, <2>2
<1> HIDE DEF ended, delta
<1> DEFINE y == Update(ended, clk)
<1>5. /\ Fits(y) /\ y.Q = ended.Q /\ y.usage = ended.usage /\ y.b \in 0 .. C
      /\ ended.Q[1].t <= clk => y.b = ended.Q[1].b - ended.usage
      /\ y.b > 0 => ended.Q[1].t <= clk
  BY <1>3, <1>4, UpdateSound
<1> HIDE DEF y
<1>6. (s' = ended /\ verdict = "skipped") \/ (s' = y /\ verdict # "skipped")
  BY <1>2 DEF y
<1>7. Fits(s') /\ s'.b \in 0 .. C /\ (late = 0 => Ascending(s'.Q))
  BY <1>4, <1>5, <1>6
<1>8. Slice'
  <2> SUFFICES ASSUME verdict = "picked"
      PROVE  s'.Q[1].t <= clk /\ s'.b = s'.Q[1].b - s'.usage /\ clk - now <= s'.b + late
    BY <1>2 DEF Slice
  <2>1. s' = y /\ y.b > 0
    BY <1>2, <1>6
  <2>2. y.b \in Nat
    BY <1>5, ServerAssumption
  <2>3. clk - now <= y.b + late
    BY <1>0, <1>3, <2>2
  <2> QED BY <1>5, <2>1, <2>3
<1>9. running' \in BOOLEAN /\ runnable' \in BOOLEAN
  <2>1. (verdict = "picked") \in BOOLEAN
    OBVIOUS
  <2> QED BY <1>1, <1>2, <2>1
<1>10. now' \in Nat /\ now' >= now /\ now' <= MaxTime /\ tprev' \in 1 .. now' /\ mark' \in 0 .. now'
  BY <1>0, <1>2, <1>3
<1>11. served' \in Nat
  <2>1. served + now - Maximum(mark, tprev) \in Nat
    BY <1>0, ServedTyped
  <2> QED BY <1>0, <1>2, <2>1
<1> QED BY <1>7, <1>8, <1>9, <1>10, <1>11, StepIInv

LEMMA WakeUpIInv ==
  ASSUME IInv, NEW clk \in now .. now + late, clk <= MaxTime,
         WakeUp(clk), late' = late, missed' \in BOOLEAN
  PROVE  IInv'
<1> DEFINE x == IF runnable \/ running THEN s ELSE Unblock(s, clk)
           y == Update(x, clk)
<1>0. /\ Fits(s) /\ late \in Nat /\ now \in Nat /\ now >= 1 /\ now <= MaxTime
      /\ tprev \in Nat /\ tprev >= 1 /\ tprev <= now
      /\ mark \in Nat /\ mark <= now /\ served \in Nat /\ s.Q[1].t \in Nat
  BY Numbers
<1>1. running \in BOOLEAN /\ (late = 0 => Ascending(s.Q))
  BY DEF IInv, TypeOK
<1>2. /\ s' = y /\ runnable' = TRUE /\ now' = clk
      /\ running' = running /\ tprev' = tprev /\ mark' = mark /\ served' = served
      /\ running => clk - tprev <= s.b + late
  BY DEF WakeUp, InSlice
<1>3. clk \in Nat /\ clk >= now
  BY <1>0
<1>4. Fits(x) /\ (late = 0 => Ascending(x.Q)) /\ (running => x = s)
  <2>1. Fits(Unblock(s, clk)) /\ (Ascending(s.Q) => Ascending(Unblock(s, clk).Q))
    BY <1>0, <1>3, UnblockSound
  <2> QED BY <1>0, <1>1, <2>1
<1> HIDE DEF x
<1>5. /\ Fits(y) /\ y.Q = x.Q /\ y.usage = x.usage /\ y.b \in 0 .. C
      /\ x.Q[1].t <= clk => y.b = x.Q[1].b - x.usage
  BY <1>3, <1>4, UpdateSound
<1> HIDE DEF y
<1>6. Slice'
  <2> SUFFICES ASSUME running
      PROVE  y.Q[1].t <= clk /\ y.b = y.Q[1].b - y.usage /\ clk - tprev <= y.b + late
    BY <1>2 DEF Slice
  <2>1. s.Q[1].t <= now /\ s.b = s.Q[1].b - s.usage
    BY DEF IInv, Slice
  <2>2. s.Q[1].t <= clk
    BY <1>0, <1>3, <2>1
  <2> QED BY <1>2, <1>4, <1>5, <2>1, <2>2
<1>7. now' \in Nat /\ now' >= now /\ now' <= MaxTime /\ tprev' \in 1 .. now' /\ mark' \in 0 .. now'
  BY <1>0, <1>2, <1>3
<1>8. Fits(s') /\ s'.b \in 0 .. C /\ (late = 0 => Ascending(s'.Q))
  BY <1>2, <1>4, <1>5
<1> QED BY <1>0, <1>1, <1>2, <1>6, <1>7, <1>8, StepIInv

LEMMA NextIInv == IInv /\ [Next]_vars => IInv'
<1> SUFFICES ASSUME IInv, [Next]_vars PROVE IInv'
  OBVIOUS
<1>1. CASE Next
  <2>1. late' = late
    BY <1>1 DEF Next
  <2>2. missed' \in BOOLEAN
    <3>1. missed' = (missed \/ WaitsTooLong')
      BY <1>1 DEF Next
    <3>2. (missed \/ WaitsTooLong') \in BOOLEAN
      OBVIOUS
    <3> QED BY <3>1, <3>2, Zenon
  <2>3. CASE Tick
    BY <2>1, <2>2, <2>3, TickIInv
  <2>4. CASE Observe
    BY <2>1, <2>2, <2>4, ObserveIInv
  <2>5. ASSUME NEW clk \in now .. now + late, clk <= MaxTime,
               NEW verdict \in {"skipped", "refreshed", "picked"}, NEW more \in BOOLEAN,
               Schedule(clk, verdict, more)
        PROVE  IInv'
    BY <2>1, <2>2, <2>5, ScheduleIInv
  <2>6. ASSUME NEW clk \in now .. now + late, clk <= MaxTime, WakeUp(clk) PROVE IInv'
    BY <2>1, <2>2, <2>6, WakeUpIInv
  <2> QED BY <1>1, <2>3, <2>4, <2>5, <2>6 DEF Next
<1>2. CASE UNCHANGED vars
  BY <1>2 DEF vars, IInv, TypeOK, NoUnderflow, Slice
<1> QED BY <1>1, <1>2

-----------------------------------------------------------------------------
LEMMA Inductive == Spec => []IInv
BY InitIInv, NextIInv, PTL DEF Spec

\* Whatever the period, the capacity, the lateness of the timer and the length
\* limit of the queue: the queue of replenishments of a Main VCPU is never empty
\* nor longer than MAX_REPL, and the budget vcpu_schedule sees is between 0 and C.
THEOREM ServerTypes == Spec => []TypeOK
<1>1. IInv => TypeOK
  BY DEF IInv
<1> QED BY <1>1, Inductive, PTL

\* The replenishments always add up to the capacity, which is what the assertion
\* of check_run_invariants tests: budget_check, split_check and unblock_check move
\* budget from one replenishment to another, and repl_queue_add never drops one.
THEOREM BudgetIsConserved == Spec => []BudgetConserved
<1>1. IInv => BudgetConserved
  BY DEF IInv, Sound, BudgetConserved
<1> QED BY <1>1, Inductive, PTL

\* The loop of budget_check ends with less usage than there is in the head, however
\* late the timer was, so the unsigned differences of split_check, unblock_check
\* and capacity do not wrap.
THEOREM UsageFits == Spec => []NoUnderflow
<1>1. IInv => NoUnderflow
  BY DEF IInv
<1> QED BY <1>1, Inductive, PTL

\* With a punctual timer the queue stays in the order that main_vcpu_next_event and
\* repl_queue_add rely on.
THEOREM PunctualOrder == Spec => []OrderedIfPunctual
<1>1. IInv => OrderedIfPunctual
  BY DEF IInv, OrderedIfPunctual, Ordered, Ascending
<1> QED BY <1>1, Inductive, PTL
=============================================================================
