----------------------------- MODULE ReassProof -----------------------------
(***************************************************************************)
(* Theorems about the reassembly of datagrams, for any fragments and any   *)
(* limits on pbufs and datagrams.                                          *)
(***************************************************************************)
EXTENDS Reass, DataLemmas, FiniteSetTheorems

\* A datagram that waits: pieces of its own, ordered by where they start, and once
\* its end is known none of its fragments reaches past it.
Waiting ==
  {d \in [id : {f.id : f \in Fragments}, p : Seq(Fragments), last : BOOLEAN, datagram_len : Nat] :
     /\ \A j \in 1 .. Len(d.p) : d.p[j].id = d.id
     /\ \A i, j \in 1 .. Len(d.p) : i < j => d.p[i].start < d.p[j].start
     /\ d.last => \A f \in Fragments : f.id = d.id => f.end <= d.datagram_len}

Filled(list) == \A k \in 1 .. Len(list) : list[k].p # << >>

ReassInv ==
  /\ reassdatagrams \in Seq(Waiting) /\ ReturnedInOrder
  /\ ip_reass_pbufcount = PbufsOf(reassdatagrams) /\ Filled(reassdatagrams)
  /\ ip_reass_pbufcount <= IP_REASS_MAX_PBUFS /\ Len(reassdatagrams) <= MEMP_NUM_REASSDATA

\* Min chooses an element of a set of numbers.
LEMMA MinIn ==
  ASSUME NEW S \in SUBSET Nat, S # {}
  PROVE  Min(S) \in S
<1>1. PICK n \in S : TRUE
  OBVIOUS
<1>2. \E m \in S : \A k \in S : m <= k
  BY <1>1, Least
<1> QED BY <1>2 DEF Min

(* Sums.                                                                   *)

IsSum(s, f) == f = [n \in 0 .. Len(s) |-> IF n = 0 THEN 0 ELSE f[n - 1] + s[n]]
Sums(s) == CHOOSE f : IsSum(s, f)

\* The partial sums that SumSeq is defined with.
LEMMA SumsDef ==
  ASSUME NEW s \in Seq(Nat)
  PROVE  /\ SumSeq(s) = Sums(s)[Len(s)] /\ SumSeq(s) \in Nat
         /\ Sums(s)[0] = 0 /\ \A n \in 0 .. Len(s) : Sums(s)[n] \in Nat
         /\ \A n \in 1 .. Len(s) : Sums(s)[n] = Sums(s)[n - 1] + s[n]
<1> DEFINE step == [n \in 1 .. Len(s) |-> [v \in Nat |-> v + s[n]]]
<1>1. Len(s) \in Nat /\ \A n \in 1 .. Len(s) : s[n] \in Nat
  BY LenProperties
<1>2. step \in [1 .. Len(s) -> [Nat -> Nat]]
  BY <1>1
<1>3. \A n \in 1 .. Len(s), v \in Nat : step[n][v] = v + s[n]
  OBVIOUS
<1> HIDE DEF step
<1>4. PICK f : Iterates(f, Nat, Len(s), 0, step)
  BY <1>1, <1>2, Recursion
<1>5. ASSUME NEW n \in 0 .. Len(s) PROVE f[n] = IF n = 0 THEN 0 ELSE f[n - 1] + s[n]
  <2>1. CASE n = 0
    BY <1>4, <2>1 DEF Iterates
  <2>2. CASE n # 0
    <3>1. n \in 1 .. Len(s) /\ n - 1 \in 0 .. Len(s)
      BY <1>1, <2>2
    <3>2. f[n - 1] \in Nat
      BY <1>4, <3>1 DEF Iterates
    <3> QED BY <1>3, <1>4, <2>2, <3>1, <3>2 DEF Iterates
  <2> QED BY <2>1, <2>2
<1>6. IsSum(s, f)
  BY <1>4, <1>5 DEF IsSum, Iterates
<1>7. IsSum(s, Sums(s))
  BY <1>6 DEF Sums
<1> DEFINE g == Sums(s)
<1>8. \A n \in 0 .. Len(s) : g[n] = IF n = 0 THEN 0 ELSE g[n - 1] + s[n]
  BY <1>7, Zenon DEF IsSum
<1>9. SumSeq(s) = g[Len(s)]
  BY DEF SumSeq, Sums, IsSum
<1> HIDE DEF g
<1>10. \A n \in 0 .. Len(s) : g[n] \in Nat
  <2> DEFINE S == {n \in 0 .. Len(s) : g[n] \in Nat}
  <2>1. 0 \in S
    BY <1>1, <1>8
  <2>2. ASSUME NEW n \in 0 .. Len(s) - 1, n \in S PROVE n + 1 \in S
    <3>1. n + 1 \in 0 .. Len(s) /\ n + 1 \in 1 .. Len(s) /\ n + 1 # 0 /\ (n + 1) - 1 = n
      BY <1>1
    <3>2. g[n + 1] = g[n] + s[n + 1]
      BY <1>8, <3>1
    <3> QED BY <1>1, <2>2, <3>1, <3>2
  <2> HIDE DEF S
  <2>3. \A n \in 0 .. Len(s) : n \in S
    BY <1>1, <2>1, <2>2, UpTo
  <2> QED BY <2>3 DEF S
<1>11. \A n \in 1 .. Len(s) : n \in 0 .. Len(s) /\ n # 0
  BY <1>1
<1> QED BY <1>1, <1>8, <1>9, <1>10, <1>11 DEF g

\* The sequence t is s without what s has at i.
Lacking(t, s, i) ==
  /\ Len(s) = Len(t) + 1
  /\ \A j \in 1 .. Len(t) : t[j] = IF j < i THEN s[j] ELSE s[j + 1]

LEMMA OneMore ==
  ASSUME NEW s \in Seq(Nat), NEW t \in Seq(Nat), NEW i \in 1 .. Len(s), Lacking(t, s, i)
  PROVE  SumSeq(s) = SumSeq(t) + s[i]
<1> DEFINE f == Sums(s)
           g == Sums(t)
           S == {n \in 0 .. Len(s) : f[n] = IF n < i THEN g[n] ELSE g[n - 1] + s[i]}
<1>1. /\ Len(s) \in Nat /\ Len(t) \in Nat /\ Len(s) = Len(t) + 1 /\ i \in Nat
      /\ s[i] \in Nat /\ \A n \in 1 .. Len(s) : s[n] \in Nat
  BY LenProperties DEF Lacking
<1>2. /\ SumSeq(s) = f[Len(s)] /\ f[0] = 0 /\ \A n \in 0 .. Len(s) : f[n] \in Nat
      /\ \A n \in 1 .. Len(s) : f[n] = f[n - 1] + s[n]
  BY SumsDef
<1>3. /\ SumSeq(t) = g[Len(t)] /\ g[0] = 0 /\ \A n \in 0 .. Len(t) : g[n] \in Nat
      /\ \A n \in 1 .. Len(t) : g[n] = g[n - 1] + t[n]
  BY SumsDef
<1> HIDE DEF f, g
<1>4. 0 \in S
  BY <1>1, <1>2, <1>3
<1>5. ASSUME NEW n \in 0 .. Len(s) - 1, n \in S PROVE n + 1 \in S
  <2>1. n \in Nat /\ n + 1 \in 1 .. Len(s) /\ n + 1 \in 0 .. Len(s) /\ (n + 1) - 1 = n
    BY <1>1
  <2>2. f[n + 1] = f[n] + s[n + 1] /\ s[n + 1] \in Nat
    BY <1>1, <1>2, <2>1
  <2>3. CASE n + 1 < i
    <3>1. n < i /\ n + 1 \in 1 .. Len(t)
      BY <1>1, <2>1, <2>3
    <3>2. f[n] = g[n] /\ g[n + 1] = g[n] + t[n + 1] /\ t[n + 1] = s[n + 1]
      BY <1>3, <1>5, <2>1, <2>3, <3>1 DEF Lacking
    <3> QED BY <2>1, <2>2, <2>3, <3>2
  <2>4. CASE n + 1 = i
    <3>1. n < i /\ ~(n + 1 < i)
      BY <2>1, <2>4
    <3>2. f[n] = g[n]
      BY <1>5, <3>1
    <3> QED BY <2>1, <2>2, <2>4, <3>1, <3>2
  <2>5. CASE n + 1 > i
    <3>1. ~(n < i) /\ ~(n + 1 < i) /\ n \in 1 .. Len(t) /\ n - 1 \in 0 .. Len(t)
      BY <1>1, <2>1, <2>5
    <3>2. f[n] = g[n - 1] + s[i]
      BY <1>5, <3>1
    <3>3. g[n] = g[n - 1] + t[n] /\ t[n] = s[n + 1] /\ g[n - 1] \in Nat
      BY <1>3, <3>1 DEF Lacking
    <3>4. (g[n - 1] + s[i]) + s[n + 1] = (g[n - 1] + s[n + 1]) + s[i]
      BY <1>1, <2>2, <3>3
    <3>5. f[n + 1] = g[n] + s[i]
      BY <2>2, <3>2, <3>3, <3>4
    <3> QED BY <2>1, <3>1, <3>5
  <2> QED BY <1>1, <2>1, <2>3, <2>4, <2>5
<1> HIDE DEF S
<1>6. \A n \in 0 .. Len(s) : n \in S
  BY <1>1, <1>4, <1>5, UpTo
<1>7. Len(s) \in S /\ ~(Len(s) < i) /\ Len(s) - 1 = Len(t)
  BY <1>1, <1>6
<1> QED BY <1>2, <1>3, <1>7 DEF S

LEMMA NextPlace ==
  ASSUME NEW n \in Nat, NEW j \in 1 .. n, NEW i \in Nat
  PROVE  j \in 1 .. n + 1 /\ j + 1 \in 1 .. n + 1 /\ (j < i => j # i) /\ (~(j < i) => j + 1 # i)
OBVIOUS

LEMMA OneOther ==
  ASSUME NEW s \in Seq(Nat), NEW t \in Seq(Nat), NEW i \in 1 .. Len(s), Len(t) = Len(s),
         \A j \in 1 .. Len(s) : j # i => t[j] = s[j]
  PROVE  SumSeq(t) + s[i] = SumSeq(s) + t[i]
<1> DEFINE r == RemoveAt(s, i)
<1>0. /\ r \in Seq(Nat) /\ Len(r) = Len(s) - 1
      /\ \A j \in 1 .. Len(s) - 1 : r[j] = IF j < i THEN s[j] ELSE s[j + 1]
  BY Removing DEF RemovedAt, RemoveAt
<1> HIDE DEF r
<1>1. /\ r \in Seq(Nat) /\ Len(r) \in Nat /\ Len(s) = Len(r) + 1 /\ i \in Nat
      /\ \A j \in 1 .. Len(r) : r[j] = IF j < i THEN s[j] ELSE s[j + 1]
  <2>1. Len(r) \in Nat /\ Len(s) \in Nat
    BY <1>0, LenProperties
  <2> QED BY <1>0, <2>1
<1>2. Lacking(r, s, i)
  BY <1>1 DEF Lacking
<1>3. Lacking(r, t, i)
  <2>1. ASSUME NEW j \in 1 .. Len(r) PROVE r[j] = IF j < i THEN t[j] ELSE t[j + 1]
    <3>1. j \in 1 .. Len(s) /\ j + 1 \in 1 .. Len(s) /\ (j < i => j # i) /\ (~(j < i) => j + 1 # i)
      <4>1. Len(r) \in Nat /\ i \in Nat /\ Len(s) = Len(r) + 1
        BY <1>1
      <4>2. /\ j \in 1 .. Len(r) + 1 /\ j + 1 \in 1 .. Len(r) + 1
            /\ (j < i => j # i) /\ (~(j < i) => j + 1 # i)
        BY <4>1, NextPlace
      <4> QED BY <4>1, <4>2
    <3>2. CASE j < i
      <4>1. r[j] = s[j]
        BY <1>1, <3>2
      <4>2. t[j] = s[j]
        BY <3>1, <3>2
      <4> QED BY <3>2, <4>1, <4>2
    <3>3. CASE ~(j < i)
      <4>1. r[j] = s[j + 1]
        BY <1>1, <3>3
      <4>2. t[j + 1] = s[j + 1]
        BY <3>1, <3>3
      <4> QED BY <3>3, <4>1, <4>2
    <3> QED BY <3>2, <3>3
  <2> QED BY <1>1, <2>1 DEF Lacking
<1>4. SumSeq(s) = SumSeq(r) + s[i] /\ SumSeq(t) = SumSeq(r) + t[i]
  BY <1>1, <1>2, <1>3, OneMore
<1>5. SumSeq(r) \in Nat /\ s[i] \in Nat /\ t[i] \in Nat
  BY <1>1, SumsDef, LenProperties
<1> QED BY <1>4, <1>5

LEMMA Lengths ==
  ASSUME NEW p \in Seq(Fragments)
  PROVE  LET c == [j \in DOMAIN p |-> p[j].clen]
         IN  c \in Seq(Nat) /\ Len(c) = Len(p) /\ \A j \in 1 .. Len(p) : c[j] = p[j].clen
<1>1. Len(p) \in Nat /\ DOMAIN p = 1 .. Len(p) /\ \A j \in 1 .. Len(p) : p[j] \in Fragments
  BY LenProperties
<1>2. \A f \in Fragments : f.clen \in Nat
  BY FragmentsAssumption
<1> DEFINE c == [j \in DOMAIN p |-> p[j].clen]
<1>3. c \in [1 .. Len(p) -> Nat] /\ \A j \in 1 .. Len(p) : c[j] = p[j].clen
  BY <1>1, <1>2
<1> HIDE DEF c
<1>4. c \in Seq(Nat) /\ Len(c) = Len(p)
  BY <1>1, <1>3
<1> QED BY <1>3, <1>4 DEF c

LEMMA ClenNat ==
  ASSUME NEW p \in Seq(Fragments)
  PROVE  Clen(p) \in Nat
<1> DEFINE c == [j \in DOMAIN p |-> p[j].clen]
<1>1. c \in Seq(Nat)
  BY Lengths
<1> HIDE DEF c
<1>2. SumSeq(c) \in Nat
  BY <1>1, SumsDef
<1> QED BY <1>2 DEF c, Clen

LEMMA PieceAt ==
  ASSUME NEW p \in Seq(Fragments), NEW k \in 1 .. Len(p) + 1, NEW f \in Fragments
  PROVE  /\ InsertAt(p, k, f) \in Seq(Fragments) /\ Len(InsertAt(p, k, f)) = Len(p) + 1
         /\ \A j \in 1 .. Len(p) + 1 :
              InsertAt(p, k, f)[j] = IF j < k THEN p[j] ELSE IF j = k THEN f ELSE p[j - 1]
<1>1. InsertAt(p, k, f) = InsertedAt(p, k, f)
  BY DEF InsertedAt, InsertAt
<1>2. InsertedAt(p, k, f) \in Seq(Fragments) /\ Len(InsertedAt(p, k, f)) = Len(p) + 1
  BY Inserting
<1>3. ASSUME NEW j \in 1 .. Len(p) + 1
      PROVE  InsertedAt(p, k, f)[j] = IF j < k THEN p[j] ELSE IF j = k THEN f ELSE p[j - 1]
  BY Inserting
<1>4. /\ InsertedAt(p, k, f) \in Seq(Fragments) /\ Len(InsertedAt(p, k, f)) = Len(p) + 1
      /\ \A j \in 1 .. Len(p) + 1 :
           InsertedAt(p, k, f)[j] = IF j < k THEN p[j] ELSE IF j = k THEN f ELSE p[j - 1]
  BY <1>2, <1>3, Zenon
<1> QED BY <1>1, <1>4, Zenon

LEMMA ClenInserted ==
  ASSUME NEW p \in Seq(Fragments), NEW k \in 1 .. Len(p) + 1, NEW f \in Fragments
  PROVE  Clen(InsertAt(p, k, f)) = Clen(p) + f.clen
<1> DEFINE q == InsertAt(p, k, f)
<1>0. Len(p) \in Nat /\ k \in Nat
  BY LenProperties
<1>1. /\ q \in Seq(Fragments) /\ Len(q) = Len(p) + 1
      /\ \A j \in 1 .. Len(p) + 1 : q[j] = IF j < k THEN p[j] ELSE IF j = k THEN f ELSE p[j - 1]
  <2>1. q \in Seq(Fragments)
    BY PieceAt
  <2>2. Len(q) = Len(p) + 1
    BY PieceAt
  <2>3. ASSUME NEW j \in 1 .. Len(p) + 1
        PROVE  q[j] = IF j < k THEN p[j] ELSE IF j = k THEN f ELSE p[j - 1]
    BY PieceAt
  <2> HIDE DEF q
  <2> QED BY <2>1, <2>2, <2>3
<1> HIDE DEF q
<1> DEFINE c == [j \in DOMAIN p |-> p[j].clen]
           d == [j \in DOMAIN q |-> q[j].clen]
<1>2. c \in Seq(Nat) /\ Len(c) = Len(p) /\ \A j \in 1 .. Len(p) : c[j] = p[j].clen
  BY Lengths
<1>3. d \in Seq(Nat) /\ Len(d) = Len(q) /\ \A j \in 1 .. Len(q) : d[j] = q[j].clen
  BY <1>1, Lengths
<1>4. Clen(p) = SumSeq(c) /\ Clen(q) = SumSeq(d)
  BY DEF Clen
<1> HIDE DEF c, d
<1>5. ASSUME NEW j \in 1 .. Len(c) PROVE c[j] = IF j < k THEN d[j] ELSE d[j + 1]
  <2>1. /\ j \in 1 .. Len(p) /\ j \in 1 .. Len(q) /\ j + 1 \in 1 .. Len(q) /\ (j + 1) - 1 = j
        /\ ~(j < k) => ~(j + 1 < k) /\ j + 1 # k
    BY <1>0, <1>1, <1>2
  <2>2. c[j] = p[j].clen /\ d[j] = q[j].clen /\ d[j + 1] = q[j + 1].clen
    BY <1>2, <1>3, <2>1
  <2>3. j < k => q[j] = p[j]
    BY <1>1, <2>1
  <2>4. ~(j < k) => q[j + 1] = p[j]
    BY <1>1, <2>1
  <2> QED BY <2>2, <2>3, <2>4
<1>6. Lacking(c, d, k) /\ k \in 1 .. Len(d) /\ d[k] = f.clen
  BY <1>0, <1>1, <1>2, <1>3, <1>5 DEF Lacking
<1>7. SumSeq(d) = SumSeq(c) + f.clen
  BY <1>2, <1>3, <1>6, OneMore
<1> QED BY <1>4, <1>7 DEF q

LEMMA NoPieces == Clen(<< >>) = 0
<1> DEFINE c == [j \in DOMAIN << >> |-> << >>[j].clen]
<1>1. << >> \in Seq(Fragments) /\ Len(<< >>) = 0
  OBVIOUS
<1>2. c \in Seq(Nat) /\ Len(c) = 0
  BY <1>1, Lengths
<1>3. Clen(<< >>) = SumSeq(c)
  BY DEF Clen
<1> HIDE DEF c
<1>4. SumSeq(c) = Sums(c)[Len(c)] /\ Sums(c)[0] = 0
  BY <1>2, SumsDef
<1> QED BY <1>2, <1>3, <1>4

LEMMA Weights ==
  ASSUME NEW list \in Seq(Waiting)
  PROVE  LET c == [k \in DOMAIN list |-> Clen(list[k].p)]
         IN  c \in Seq(Nat) /\ Len(c) = Len(list) /\ \A k \in 1 .. Len(list) : c[k] = Clen(list[k].p)
<1>1. Len(list) \in Nat /\ DOMAIN list = 1 .. Len(list) /\ \A k \in 1 .. Len(list) : list[k] \in Waiting
  BY LenProperties
<1>2. \A d \in Waiting : Clen(d.p) \in Nat
  BY ClenNat DEF Waiting
<1> DEFINE c == [k \in DOMAIN list |-> Clen(list[k].p)]
<1>3. c \in [1 .. Len(list) -> Nat] /\ \A k \in 1 .. Len(list) : c[k] = Clen(list[k].p)
  BY <1>1, <1>2
<1> HIDE DEF c
<1>4. c \in Seq(Nat) /\ Len(c) = Len(list)
  BY <1>1, <1>3
<1> QED BY <1>3, <1>4 DEF c

LEMMA PbufsNat ==
  ASSUME NEW list \in Seq(Waiting)
  PROVE  PbufsOf(list) \in Nat
<1> DEFINE c == [k \in DOMAIN list |-> Clen(list[k].p)]
<1>1. c \in Seq(Nat)
  BY Weights
<1> HIDE DEF c
<1>2. SumSeq(c) \in Nat
  BY <1>1, SumsDef
<1> QED BY <1>2 DEF c, PbufsOf

\* The pbufs of two lists, where one lacks a datagram of the other.
LEMMA PbufsLacking ==
  ASSUME NEW s \in Seq(Waiting), NEW t \in Seq(Waiting), NEW i \in 1 .. Len(s), Lacking(t, s, i)
  PROVE  PbufsOf(s) = PbufsOf(t) + Clen(s[i].p)
<1> DEFINE c == [k \in DOMAIN s |-> Clen(s[k].p)]
           d == [k \in DOMAIN t |-> Clen(t[k].p)]
<1>1. c \in Seq(Nat) /\ Len(c) = Len(s) /\ \A k \in 1 .. Len(s) : c[k] = Clen(s[k].p)
  BY Weights
<1>2. d \in Seq(Nat) /\ Len(d) = Len(t) /\ \A k \in 1 .. Len(t) : d[k] = Clen(t[k].p)
  BY Weights
<1>3. PbufsOf(s) = SumSeq(c) /\ PbufsOf(t) = SumSeq(d)
  BY DEF PbufsOf
<1> HIDE DEF c, d
<1>4. Len(s) = Len(t) + 1 /\ Len(t) \in Nat /\ i \in Nat
  BY LenProperties DEF Lacking
<1>5. ASSUME NEW k \in 1 .. Len(d) PROVE d[k] = IF k < i THEN c[k] ELSE c[k + 1]
  <2>1. k \in 1 .. Len(t) /\ k \in 1 .. Len(s) /\ k + 1 \in 1 .. Len(s)
    BY <1>2, <1>4
  <2>2. t[k] = IF k < i THEN s[k] ELSE s[k + 1]
    BY <2>1 DEF Lacking
  <2> QED BY <1>1, <1>2, <2>1, <2>2
<1>6. Lacking(d, c, i) /\ i \in 1 .. Len(c) /\ c[i] = Clen(s[i].p)
  BY <1>1, <1>2, <1>4, <1>5 DEF Lacking
<1>7. SumSeq(c) = SumSeq(d) + c[i]
  BY <1>1, <1>2, <1>6, OneMore
<1> QED BY <1>3, <1>6, <1>7

\* The pbufs of two lists that differ in one datagram.
LEMMA PbufsOther ==
  ASSUME NEW s \in Seq(Waiting), NEW t \in Seq(Waiting), NEW i \in 1 .. Len(s), Len(t) = Len(s),
         \A k \in 1 .. Len(s) : k # i => t[k] = s[k]
  PROVE  PbufsOf(t) + Clen(s[i].p) = PbufsOf(s) + Clen(t[i].p)
<1> DEFINE c == [k \in DOMAIN s |-> Clen(s[k].p)]
           d == [k \in DOMAIN t |-> Clen(t[k].p)]
<1>1. c \in Seq(Nat) /\ Len(c) = Len(s) /\ \A k \in 1 .. Len(s) : c[k] = Clen(s[k].p)
  BY Weights
<1>2. d \in Seq(Nat) /\ Len(d) = Len(t) /\ \A k \in 1 .. Len(t) : d[k] = Clen(t[k].p)
  BY Weights
<1>3. PbufsOf(s) = SumSeq(c) /\ PbufsOf(t) = SumSeq(d)
  BY DEF PbufsOf
<1> HIDE DEF c, d
<1>4. \A k \in 1 .. Len(c) : k # i => d[k] = c[k]
  BY <1>1, <1>2
<1>5. SumSeq(d) + c[i] = SumSeq(c) + d[i]
  <2>1. c \in Seq(Nat) /\ d \in Seq(Nat) /\ i \in 1 .. Len(c) /\ Len(d) = Len(c)
    BY <1>1, <1>2
  <2> QED BY <1>4, <2>1, OneOther, Zenon
<1> QED BY <1>1, <1>2, <1>3, <1>5

(* Which datagrams are removed and found.                                  *)

LEMMA MaxIn ==
  ASSUME NEW S \in SUBSET Nat, NEW n \in Nat, \A x \in S : x <= n, S # {}
  PROVE  Max(S) \in S
<1> DEFINE A == {n - x : x \in S}
<1>0. \A x \in S : x \in Nat /\ n - x \in Nat
  OBVIOUS
<1>1. A \in SUBSET Nat /\ A # {}
  BY <1>0
<1>2. PICK a \in A : \A b \in A : a <= b
  <2>1. PICK b \in A : TRUE
    BY <1>1
  <2> HIDE DEF A
  <2> QED BY <1>1, <2>1, Least
<1>3. PICK x \in S : a = n - x
  BY <1>2
<1>4. ASSUME NEW y \in S PROVE x >= y
  <2>1. n - x <= n - y
    BY <1>2, <1>3
  <2> QED BY <2>1
<1>5. \E m \in S : \A y \in S : m >= y
  BY <1>4
<1> QED BY <1>5 DEF Max

LEMMA OldestOtherIn ==
  ASSUME NEW list \in Seq(Waiting), NEW id
  PROVE  OldestOther(list, id) \in 0 .. Len(list)
<1> DEFINE S == {0} \cup {k \in DOMAIN list : list[k].id # id}
<1>1. Len(list) \in Nat /\ DOMAIN list = 1 .. Len(list)
  BY LenProperties
<1>2. S \in SUBSET Nat /\ S # {} /\ S \subseteq 0 .. Len(list) /\ \A x \in S : x <= Len(list)
  BY <1>1
<1>3. OldestOther(list, id) = Max(S)
  BY DEF OldestOther
<1> HIDE DEF S
<1> QED BY <1>1, <1>2, <1>3, MaxIn

Rooms == [list : Seq(Waiting), freed : Nat, broken : BOOLEAN]

\* What may be left of the state st when datagrams are removed.
Remaining(st) ==
  {r \in Rooms : /\ r.freed + PbufsOf(r.list) = st.freed + PbufsOf(st.list)
                 /\ st.freed <= r.freed /\ Len(r.list) <= Len(st.list)
                 /\ Filled(st.list) => Filled(r.list)}

LEMMA RemoveOneLeaves ==
  ASSUME NEW st \in Rooms, NEW r \in Remaining(st), NEW id, OldestOther(r.list, id) # 0
  PROVE  RemoveOne(r, id) \in Remaining(st)
<1> DEFINE k == OldestOther(r.list, id)
           q == RemoveAt(r.list, k)
           n == Clen(r.list[k].p)
           x == RemoveOne(r, id)
<1>1. /\ r.list \in Seq(Waiting) /\ st.list \in Seq(Waiting) /\ r.freed \in Nat /\ st.freed \in Nat
      /\ r \in Rooms
  BY DEF Rooms, Remaining
<1>2. Len(r.list) \in Nat /\ Len(st.list) \in Nat
  BY <1>1, LenProperties
<1>3. k \in 1 .. Len(r.list)
  <2>1. k \in 0 .. Len(r.list) /\ k # 0
    BY <1>1, OldestOtherIn
  <2> HIDE DEF k
  <2> QED BY <1>2, <2>1
<1>4. x = [list |-> q, freed |-> r.freed + n, broken |-> r.broken \/ (k # 1 /\ k # Len(r.list))]
  BY DEF RemoveOne
<1> HIDE DEF x, k
<1>5. /\ q \in Seq(Waiting) /\ Len(q) = Len(r.list) - 1
      /\ \A j \in 1 .. Len(r.list) - 1 : q[j] = IF j < k THEN r.list[j] ELSE r.list[j + 1]
  BY <1>1, <1>3, Removing DEF RemovedAt, RemoveAt
<1> HIDE DEF q
<1>6. Lacking(q, r.list, k)
  BY <1>2, <1>5 DEF Lacking
<1>7. PbufsOf(r.list) = PbufsOf(q) + n
  BY <1>1, <1>3, <1>5, <1>6, PbufsLacking
<1>8. n \in Nat
  <2>1. r.list[k] \in Waiting
    BY <1>1, <1>3, LenProperties
  <2> QED BY <2>1, ClenNat DEF Waiting
<1> HIDE DEF n
<1>9. x \in Rooms /\ x.list = q /\ x.freed = r.freed + n
  BY <1>1, <1>4, <1>5, <1>8 DEF Rooms
<1>10. PbufsOf(q) \in Nat /\ PbufsOf(r.list) \in Nat /\ PbufsOf(st.list) \in Nat
  BY <1>1, <1>5, PbufsNat
<1>11. r.freed + PbufsOf(r.list) = st.freed + PbufsOf(st.list) /\ st.freed <= r.freed
  BY DEF Remaining
<1>12. x.freed + PbufsOf(x.list) = st.freed + PbufsOf(st.list) /\ st.freed <= x.freed
  BY <1>1, <1>7, <1>8, <1>9, <1>10, <1>11
<1>13. Len(x.list) <= Len(st.list)
  BY <1>2, <1>5, <1>9 DEF Remaining
<1>14. ASSUME Filled(st.list) PROVE Filled(x.list)
  <2>1. Filled(r.list)
    BY <1>14 DEF Remaining
  <2>2. \A j \in 1 .. Len(q) : j \in 1 .. Len(r.list) - 1 /\ j \in 1 .. Len(r.list) /\ j + 1 \in 1 .. Len(r.list)
    BY <1>2, <1>5
  <2> QED BY <1>5, <1>9, <2>1, <2>2 DEF Filled
<1> QED BY <1>9, <1>12, <1>13, <1>14 DEF Remaining, x

\* One turn of the loop of ip_reass_remove_oldest_datagram.
Turn(st, id, needed, n, r) ==
  IF OldestOther(r.list, id) # 0 /\ (n = 1 \/ r.freed < st.freed + needed) THEN RemoveOne(r, id) ELSE r

IsTurns(st, id, needed, f) ==
  f = [n \in 0 .. Len(st.list) |-> IF n = 0 THEN st ELSE Turn(st, id, needed, n, f[n - 1])]

LEMMA RemoveOldestLeaves ==
  ASSUME NEW st \in Rooms, NEW id, NEW needed
  PROVE  RemoveOldest(st, id, needed) \in Remaining(st)
<1> DEFINE N == Len(st.list)
           V == Remaining(st)
           step == [n \in 1 .. N |-> [r \in V |-> Turn(st, id, needed, n, r)]]
           g == CHOOSE f : IsTurns(st, id, needed, f)
<1>1. N \in Nat /\ st.freed \in Nat /\ st.list \in Seq(Waiting)
  BY LenProperties DEF Rooms
<1>2. st \in V
  <2>1. PbufsOf(st.list) \in Nat
    BY <1>1, PbufsNat
  <2> QED BY <1>1, <2>1 DEF Remaining
<1>3. RemoveOldest(st, id, needed) = g[N]
  BY DEF RemoveOldest, IsTurns, Turn
<1>4. \A n \in 1 .. N, r \in V : Turn(st, id, needed, n, r) \in V
  BY RemoveOneLeaves DEF Turn
<1> HIDE DEF N, V
<1>5. step \in [1 .. N -> [V -> V]] /\ \A n \in 1 .. N, r \in V : step[n][r] = Turn(st, id, needed, n, r)
  BY <1>4
<1> HIDE DEF step
<1>6. PICK f : Iterates(f, V, N, st, step)
  BY <1>1, <1>2, <1>5, Recursion
<1>7. ASSUME NEW n \in 0 .. N PROVE f[n] = IF n = 0 THEN st ELSE Turn(st, id, needed, n, f[n - 1])
  <2>1. CASE n = 0
    BY <1>6, <2>1 DEF Iterates
  <2>2. CASE n # 0
    <3>1. n \in 1 .. N /\ n - 1 \in 0 .. N
      BY <1>1, <2>2
    <3>2. f[n - 1] \in V /\ f[n] = step[n][f[n - 1]]
      BY <1>6, <3>1 DEF Iterates
    <3> QED BY <1>5, <2>2, <3>1, <3>2
  <2> QED BY <2>1, <2>2
<1>8. IsTurns(st, id, needed, f)
  BY <1>6, <1>7 DEF IsTurns, Iterates, N
<1>9. IsTurns(st, id, needed, g)
  BY <1>8
<1>10. \A n \in 0 .. N : g[n] = IF n = 0 THEN st ELSE Turn(st, id, needed, n, g[n - 1])
  BY <1>9, Zenon DEF IsTurns, N
<1> HIDE DEF g
<1> DEFINE S == {n \in 0 .. N : g[n] \in V}
<1>11. 0 \in S
  BY <1>1, <1>2, <1>10
<1>12. ASSUME NEW n \in 0 .. N - 1, n \in S PROVE n + 1 \in S
  <2>1. n + 1 \in 0 .. N /\ n + 1 \in 1 .. N /\ n + 1 # 0 /\ (n + 1) - 1 = n
    BY <1>1
  <2>2. g[n + 1] = Turn(st, id, needed, n + 1, g[n])
    BY <1>10, <2>1
  <2> QED BY <1>4, <1>12, <2>1, <2>2
<1> HIDE DEF S
<1>13. \A n \in 0 .. N : n \in S
  BY <1>1, <1>11, <1>12, UpTo
<1>14. N \in S
  BY <1>1, <1>13
<1> QED BY <1>3, <1>14 DEF S, V

LEMMA IndexIs ==
  ASSUME NEW list \in Seq(Waiting), NEW id
  PROVE  /\ Index(list, id) \in 0 .. Len(list)
         /\ Index(list, id) # 0 => list[Index(list, id)].id = id
         /\ (\E k \in 1 .. Len(list) : list[k].id = id) => Index(list, id) # 0
<1> DEFINE S == {k \in 1 .. Len(list) : list[k].id = id}
<1>1. Len(list) \in Nat /\ S \in SUBSET Nat
  BY LenProperties
<1>2. Index(list, id) = IF S # {} THEN Min(S) ELSE 0
  BY DEF Index, SelectInSeq
<1>3. \A k \in S : k \in 1 .. Len(list) /\ k # 0 /\ list[k].id = id
  BY <1>1
<1>4. (\E k \in 1 .. Len(list) : list[k].id = id) => S # {}
  OBVIOUS
<1> HIDE DEF S
<1>5. S # {} => Min(S) \in S
  BY <1>1, MinIn
<1> DEFINE i == Index(list, id)
<1>6. CASE S # {}
  <2>1. i \in S
    BY <1>2, <1>5, <1>6
  <2> HIDE DEF i
  <2>2. i \in 1 .. Len(list) /\ i # 0 /\ list[i].id = id
    BY <1>3, <2>1
  <2>3. i \in 0 .. Len(list)
    BY <1>1, <2>2
  <2> QED BY <2>2, <2>3 DEF i
<1>7. CASE S = {}
  BY <1>1, <1>2, <1>4, <1>7
<1> QED BY <1>6, <1>7

LEMMA IndexSame ==
  ASSUME NEW s, NEW t, NEW id, Len(s) = Len(t), \A k \in 1 .. Len(s) : s[k].id = t[k].id
  PROVE  Index(s, id) = Index(t, id)
<1>1. {k \in 1 .. Len(s) : s[k].id = id} = {k \in 1 .. Len(t) : t[k].id = id}
  OBVIOUS
<1> QED BY <1>1 DEF Index, SelectInSeq

\* A list with the datagram of the fragment: only this one may be without pieces.
HasOwn(l, list, f) ==
  /\ l \in Seq(Waiting) /\ Index(l, f.id) \in 1 .. Len(l) /\ l[Index(l, f.id)].id = f.id
  /\ PbufsOf(l) = PbufsOf(list)
  /\ Len(l) = IF Index(list, f.id) = 0 THEN Len(list) + 1 ELSE Len(list)
  /\ Filled(list) => \A k \in 1 .. Len(l) : k # Index(l, f.id) => l[k].p # << >>

LEMMA FrontHasOwn ==
  ASSUME NEW list \in Seq(Waiting), NEW f \in Fragments,
         NEW new, new = [id |-> f.id, p |-> << >>, last |-> FALSE, datagram_len |-> 0]
  PROVE  HasOwn(IF Index(list, f.id) = 0 THEN << new >> \o list ELSE list, list, f)
<1> DEFINE i == Index(list, f.id)
<1>1. Len(list) \in Nat /\ \A k \in 1 .. Len(list) : list[k] \in Waiting
  BY LenProperties
<1>2. /\ i \in 0 .. Len(list)
      /\ i # 0 => list[i].id = f.id
      /\ (\E k \in 1 .. Len(list) : list[k].id = f.id) => i # 0
  BY IndexIs
<1> HIDE DEF i
<1>3. CASE i # 0
  <2>1. i \in 1 .. Len(list)
    BY <1>1, <1>2, <1>3
  <2> QED BY <1>2, <1>3, <2>1 DEF HasOwn, Filled, i
<1>4. CASE i = 0
  <2> DEFINE m == << new >> \o list
  <2>1. new \in Waiting /\ new.id = f.id /\ new.p = << >>
    <3>1. << >> \in Seq(Fragments) /\ Len(<< >>) = 0
      OBVIOUS
    <3> QED BY <3>1 DEF Waiting
  <2>2. << new >> \in Seq(Waiting) /\ Len(<< new >>) = 1 /\ << new >>[1] = new
    BY <2>1
  <2>3. /\ m \in Seq(Waiting) /\ Len(m) = Len(list) + 1 /\ m[1] = new
        /\ \A k \in 2 .. Len(list) + 1 : m[k] = list[k - 1]
    <3>1. /\ m \in Seq(Waiting) /\ Len(m) = Len(<< new >>) + Len(list)
          /\ \A k \in 1 .. Len(<< new >>) + Len(list) :
               m[k] = IF k <= Len(<< new >>) THEN << new >>[k] ELSE list[k - Len(<< new >>)]
      BY <2>2, ConcatProperties
    <3> HIDE DEF m
    <3>2. /\ Len(m) = 1 + Len(list)
          /\ \A k \in 1 .. 1 + Len(list) : m[k] = IF k <= 1 THEN << new >>[k] ELSE list[k - 1]
      BY Zenon, <2>2, <3>1
    <3>3. 1 + Len(list) = Len(list) + 1 /\ 1 \in 1 .. 1 + Len(list) /\ \A k \in 2 .. Len(list) + 1 : k \in 1 .. 1 + Len(list) /\ ~(k <= 1)
      BY <1>1
    <3> QED BY <2>2, <3>1, <3>2, <3>3
  <2> HIDE DEF m
  <2> DEFINE j == Index(m, f.id)
  <2>4. 1 \in 1 .. Len(m)
    BY <1>1, <2>3
  <2>5. j \in 0 .. Len(m) /\ j # 0 /\ m[j].id = f.id
    <3>1. m \in Seq(Waiting) /\ \E k \in 1 .. Len(m) : m[k].id = f.id
      BY <2>1, <2>3, <2>4
    <3> QED BY <3>1, IndexIs
  <2> HIDE DEF j
  <2>6. j = 1
    <3>1. ASSUME j # 1 PROVE FALSE
      <4>1. j \in 2 .. Len(list) + 1 /\ j - 1 \in 1 .. Len(list)
        BY <1>1, <2>3, <2>5, <3>1
      <4>2. list[j - 1].id = f.id
        BY <2>3, <2>5, <4>1
      <4> QED BY <1>2, <1>4, <4>1, <4>2
    <3> QED BY <3>1
  <2>7. PbufsOf(m) = PbufsOf(list)
    <3>1. ASSUME NEW k \in 1 .. Len(list) PROVE list[k] = IF k < 1 THEN m[k] ELSE m[k + 1]
      <4>1. k + 1 \in 2 .. Len(list) + 1 /\ (k + 1) - 1 = k /\ ~(k < 1)
        BY <1>1
      <4> QED BY <2>3, <4>1
    <3>2. Lacking(list, m, 1)
      BY <2>3, <3>1 DEF Lacking
    <3>3. PbufsOf(m) = PbufsOf(list) + Clen(m[1].p)
      BY <2>3, <2>4, <3>2, PbufsLacking
    <3>4. Clen(m[1].p) = 0 /\ PbufsOf(list) \in Nat
      BY <2>1, <2>3, NoPieces, PbufsNat
    <3> QED BY <3>3, <3>4
  <2>8. ASSUME Filled(list), NEW k \in 1 .. Len(m), k # 1 PROVE m[k].p # << >>
    <3>1. k \in 2 .. Len(list) + 1 /\ k - 1 \in 1 .. Len(list)
      BY <1>1, <2>3, <2>8
    <3> QED BY <2>3, <2>8, <3>1 DEF Filled
  <2>9. HasOwn(m, list, f)
    BY <1>4, <2>3, <2>4, <2>5, <2>6, <2>7, <2>8 DEF HasOwn, j, i
  <2> QED BY <1>4, <2>9 DEF m, i
<1> QED BY <1>3, <1>4

LEMMA EnqueuedHasOwn ==
  ASSUME NEW list \in Seq(Waiting), NEW f \in Fragments
  PROVE  HasOwn(Enqueued(list, f), list, f)
<1> DEFINE new == [id |-> f.id, p |-> << >>, last |-> FALSE, datagram_len |-> 0]
           m == IF Index(list, f.id) = 0 THEN << new >> \o list ELSE list
           l == [m EXCEPT ![Index(m, f.id)].last = TRUE, ![Index(m, f.id)].datagram_len = f.end]
<1>1. HasOwn(m, list, f)
  BY FrontHasOwn
<1>2. Enqueued(list, f) = IF f.more THEN m ELSE l
  BY DEF Enqueued
<1> DEFINE i == Index(m, f.id)
<1> HIDE DEF m
<1>3. CASE f.more
  BY <1>1, <1>2, <1>3
<1>4. CASE ~f.more
  <2>1. /\ m \in Seq(Waiting) /\ i \in 1 .. Len(m) /\ m[i].id = f.id /\ Len(m) \in Nat
        /\ PbufsOf(m) = PbufsOf(list)
    BY <1>1, LenProperties DEF HasOwn
  <2> DEFINE d == m[i]
             e == [d EXCEPT !.last = TRUE, !.datagram_len = f.end]
  <2>2. m \in [1 .. Len(m) -> Waiting] /\ d \in Waiting /\ d.id = f.id
    BY <2>1, LenProperties
  <2>3. l = [m EXCEPT ![i] = e]
    BY <2>1, <2>2 DEF Waiting
  <2> HIDE DEF i, d
  <2>4. /\ d \in [id : {g.id : g \in Fragments}, p : Seq(Fragments), last : BOOLEAN, datagram_len : Nat]
        /\ \A j \in 1 .. Len(d.p) : d.p[j].id = d.id
        /\ \A h, j \in 1 .. Len(d.p) : h < j => d.p[h].start < d.p[j].start
    BY <2>2 DEF Waiting
  <2>5. /\ f.end \in Nat /\ \A g \in Fragments : g.id = f.id => g.end <= f.end
    BY <1>4, FragmentsAssumption
  <2>6. /\ e \in [id : {g.id : g \in Fragments}, p : Seq(Fragments), last : BOOLEAN, datagram_len : Nat]
        /\ e.id = d.id /\ e.p = d.p /\ e.datagram_len = f.end
    BY <2>4, <2>5
  <2> HIDE DEF e
  <2>7. e \in Waiting
    BY <2>2, <2>4, <2>5, <2>6 DEF Waiting
  <2> HIDE DEF l
  <2>8. /\ l \in [1 .. Len(m) -> Waiting] /\ l[i] = e
        /\ \A k \in 1 .. Len(m) : k # i => l[k] = m[k]
    BY <2>1, <2>2, <2>3, <2>7
  <2>9. l \in Seq(Waiting) /\ Len(l) = Len(m)
    BY <2>1, <2>8
  <2>10. Index(l, f.id) = i
    <3>1. ASSUME NEW k \in 1 .. Len(l) PROVE l[k].id = m[k].id
      BY <2>6, <2>8, <2>9 DEF d
    <3> QED BY <2>9, <3>1, IndexSame DEF i
  <2>11. PbufsOf(l) = PbufsOf(m)
    <3>1. PbufsOf(l) + Clen(m[i].p) = PbufsOf(m) + Clen(l[i].p)
      BY <2>1, <2>8, <2>9, PbufsOther
    <3>2. l[i].p = m[i].p
      BY <2>6, <2>8 DEF d
    <3>3. Clen(m[i].p) \in Nat /\ PbufsOf(l) \in Nat /\ PbufsOf(m) \in Nat
      BY <2>1, <2>2, <2>9, ClenNat, PbufsNat DEF d, Waiting
    <3> QED BY <3>1, <3>2, <3>3
  <2>12. HasOwn(l, list, f)
    BY <1>1, <2>1, <2>2, <2>6, <2>8, <2>9, <2>10, <2>11 DEF HasOwn, i
  <2> QED BY <1>2, <1>4, <2>12
<1> QED BY <1>3, <1>4

(* The pieces of a datagram.                                               *)

Ascending(p) == \A i, j \in 1 .. Len(p) : i < j => p[i].start < p[j].start

\* Place is where the fragment belongs: behind all pieces that start before it.
LEMMA PlaceIs ==
  ASSUME NEW p \in Seq(Fragments), Ascending(p), NEW f \in Fragments
  PROVE  /\ Place(p, f) \in 1 .. Len(p) + 1
         /\ \A j \in 1 .. Len(p) : p[j].start < f.start <=> j < Place(p, f)
<1> DEFINE S == {j \in DOMAIN p : p[j].start < f.start}
           T == {j \in 1 .. Len(p) + 1 : j = Len(p) + 1 \/ ~(p[j].start < f.start)}
<1>1. Len(p) \in Nat /\ DOMAIN p = 1 .. Len(p) /\ f.start \in Nat
  BY LenProperties, FragmentsAssumption
<1>2. \A j \in 1 .. Len(p) : p[j].start \in Nat
  <2>1. \A j \in 1 .. Len(p) : p[j] \in Fragments
    BY LenProperties
  <2> QED BY <2>1, FragmentsAssumption
<1>3. T \in SUBSET Nat /\ Len(p) + 1 \in T
  BY <1>1
<1>4. \A j \in T : j \in 1 .. Len(p) + 1 /\ (j = Len(p) + 1 \/ ~(p[j].start < f.start))
  OBVIOUS
<1>5. \A j \in 1 .. Len(p) : j \notin T => p[j].start < f.start
  BY <1>1
<1> HIDE DEF T
<1>6. PICK k \in T : \A j \in T : k <= j
  BY <1>3, Least
<1>7. k \in 1 .. Len(p) + 1 /\ k \in Int /\ k - 1 \in Int
  BY <1>1, <1>4
<1>8. ASSUME NEW j \in 1 .. Len(p) PROVE p[j].start < f.start <=> j < k
  <2>1. CASE j < k
    <3>1. j \notin T
      BY <1>1, <1>6, <1>7, <2>1
    <3> QED BY <1>5, <2>1, <3>1
  <2>2. CASE ~(j < k)
    <3>1. k \in 1 .. Len(p) /\ (k = j \/ k < j)
      BY <1>1, <1>7, <2>2
    <3>2. ~(p[k].start < f.start)
      BY <1>1, <1>4, <1>6, <3>1
    <3>3. p[k].start <= p[j].start
      BY <1>2, <3>1 DEF Ascending
    <3> QED BY <1>1, <1>2, <2>2, <3>1, <3>2, <3>3
  <2> QED BY <2>1, <2>2
<1>9. S = 1 .. k - 1
  <2>1. \A j \in 1 .. k - 1 : j \in 1 .. Len(p) /\ j < k
    BY <1>1, <1>7
  <2>2. \A j \in 1 .. Len(p) : j < k => j \in 1 .. k - 1
    BY <1>1, <1>7
  <2> QED BY <1>1, <1>8, <2>1, <2>2
<1>10. Cardinality(1 .. k - 1) = k - 1
  <2>1. Cardinality(1 .. k - 1) = IF 1 > k - 1 THEN 0 ELSE (k - 1) - 1 + 1
    BY <1>7, FS_Interval
  <2> QED BY <1>7, <2>1
<1>11. Place(p, f) = 1 + Cardinality(S)
  BY DEF Place
<1> HIDE DEF S
<1>12. Place(p, f) = k
  BY <1>7, <1>9, <1>10, <1>11
<1> QED BY <1>7, <1>8, <1>12

\* A fragment that is not thrown away keeps the pieces in order.
LEMMA InsertedIn ==
  ASSUME NEW p \in Seq(Fragments), Ascending(p), NEW f \in Fragments, ~ThrowsAway(p, f),
         NEW q, q = InsertAt(p, Place(p, f), f), NEW id, f.id = id,
         \A j \in 1 .. Len(p) : p[j].id = id
  PROVE  /\ q \in Seq(Fragments) /\ Len(q) = Len(p) + 1 /\ Ascending(q)
         /\ \A j \in 1 .. Len(q) : q[j].id = id
         /\ Place(p, f) \in 1 .. Len(q) /\ q[Place(p, f)] = f
         /\ \A j \in 1 .. Len(q) : j < Place(p, f) => q[j] = p[j] /\ p[j].start < f.start
<1> DEFINE k == Place(p, f)
<1>1. Len(p) \in Nat /\ f.start \in Nat /\ DOMAIN p = 1 .. Len(p)
  BY LenProperties, FragmentsAssumption
<1>2. \A j \in 1 .. Len(p) : p[j] \in Fragments /\ p[j].start \in Nat /\ p[j].start # f.start
  <2>1. \A j \in 1 .. Len(p) : p[j] \in Fragments
    BY LenProperties
  <2> QED BY <1>1, <2>1, FragmentsAssumption DEF ThrowsAway
<1>3. k \in 1 .. Len(p) + 1 /\ \A j \in 1 .. Len(p) : p[j].start < f.start <=> j < k
  BY PlaceIs
<1> HIDE DEF k
<1>4. /\ q \in Seq(Fragments) /\ Len(q) = Len(p) + 1
      /\ \A j \in 1 .. Len(p) + 1 : q[j] = IF j < k THEN p[j] ELSE IF j = k THEN f ELSE p[j - 1]
  <2>1. q = InsertAt(p, k, f)
    BY DEF k
  <2>2. /\ InsertAt(p, k, f) \in Seq(Fragments) /\ Len(InsertAt(p, k, f)) = Len(p) + 1
        /\ \A j \in 1 .. Len(p) + 1 :
             InsertAt(p, k, f)[j] = IF j < k THEN p[j] ELSE IF j = k THEN f ELSE p[j - 1]
    BY <1>3, PieceAt
  <2> QED BY <2>1, <2>2
<1>5. ASSUME NEW j \in 1 .. Len(q)
      PROVE  /\ j < k => j \in 1 .. Len(p) /\ q[j] = p[j]
             /\ j = k => q[j] = f
             /\ j > k => j - 1 \in 1 .. Len(p) /\ q[j] = p[j - 1] /\ ~(j - 1 < k)
  BY <1>1, <1>3, <1>4
<1>6. ASSUME NEW i \in 1 .. Len(q), NEW j \in 1 .. Len(q), i < j
      PROVE  q[i].start < q[j].start
  <2>0. i \in Int /\ j \in Int /\ k \in Int
    BY <1>1, <1>3, <1>4
  <2>1. CASE j < k
    BY <1>5, <1>6, <2>0, <2>1 DEF Ascending
  <2>2. CASE j = k
    BY <1>3, <1>5, <1>6, <2>0, <2>2
  <2>3. CASE j > k /\ i < k
    <3>1. /\ j - 1 \in 1 .. Len(p) /\ q[j] = p[j - 1] /\ ~(j - 1 < k)
          /\ i \in 1 .. Len(p) /\ q[i] = p[i]
      BY <1>5, <2>3
    <3>2. p[i].start < f.start /\ ~(p[j - 1].start < f.start)
      BY <1>3, <2>3, <3>1
    <3> QED BY <1>1, <1>2, <3>1, <3>2
  <2>4. CASE j > k /\ i = k
    <3>1. /\ j - 1 \in 1 .. Len(p) /\ q[j] = p[j - 1] /\ ~(j - 1 < k) /\ q[i] = f
      BY <1>5, <2>4
    <3>2. ~(p[j - 1].start < f.start) /\ p[j - 1].start # f.start
      BY <1>2, <1>3, <3>1
    <3> QED BY <1>1, <1>2, <3>1, <3>2
  <2>5. CASE j > k /\ i > k
    <3>1. /\ j - 1 \in 1 .. Len(p) /\ q[j] = p[j - 1]
          /\ i - 1 \in 1 .. Len(p) /\ q[i] = p[i - 1] /\ i - 1 < j - 1
      BY <1>5, <1>6, <2>0, <2>5
    <3> QED BY <3>1 DEF Ascending
  <2> QED BY <2>0, <2>1, <2>2, <2>3, <2>4, <2>5
<1>7. ASSUME NEW j \in 1 .. Len(q) PROVE q[j].id = id
  <2>1. j < k \/ j = k \/ j > k
    BY <1>1, <1>3, <1>4
  <2> QED BY <1>5, <2>1
<1>8. k \in 1 .. Len(q) /\ q[k] = f
  BY <1>1, <1>3, <1>4, <1>5
<1>9. ASSUME NEW j \in 1 .. Len(q), j < k PROVE q[j] = p[j] /\ p[j].start < f.start
  BY <1>3, <1>5, <1>9
<1> QED BY <1>4, <1>6, <1>7, <1>8, <1>9 DEF k, Ascending

\* The datagram with the new piece waits like the others.
LEMMA WaitingInserted ==
  ASSUME NEW d \in Waiting, NEW f \in Fragments, f.id = d.id, ~ThrowsAway(d.p, f),
         NEW q, q = InsertAt(d.p, Place(d.p, f), f)
  PROVE  /\ [d EXCEPT !.p = q] \in Waiting /\ [d EXCEPT !.p = q].p = q
         /\ q # << >> /\ q \in Seq(Fragments) /\ Clen(q) = Clen(d.p) + f.clen
<1> DEFINE e == [d EXCEPT !.p = q]
<1>1. /\ d.p \in Seq(Fragments) /\ Ascending(d.p) /\ \A j \in 1 .. Len(d.p) : d.p[j].id = d.id
      /\ d \in [id : {g.id : g \in Fragments}, p : Seq(Fragments), last : BOOLEAN, datagram_len : Nat]
      /\ d.last => \A g \in Fragments : g.id = d.id => g.end <= d.datagram_len
  BY DEF Waiting, Ascending
<1>2. /\ q \in Seq(Fragments) /\ Len(q) = Len(d.p) + 1 /\ Ascending(q)
      /\ \A j \in 1 .. Len(q) : q[j].id = d.id
  BY <1>1, InsertedIn
<1>3. Clen(q) = Clen(d.p) + f.clen
  <2>1. Place(d.p, f) \in 1 .. Len(d.p) + 1
    BY <1>1, PlaceIs
  <2> QED BY <1>1, <2>1, ClenInserted
<1>4. q # << >>
  <2>1. Len(d.p) \in Nat
    BY <1>1, LenProperties
  <2> QED BY <1>2, <2>1
<1>5. /\ e \in [id : {g.id : g \in Fragments}, p : Seq(Fragments), last : BOOLEAN, datagram_len : Nat]
      /\ e.p = q /\ e.id = d.id /\ e.last = d.last /\ e.datagram_len = d.datagram_len
  BY <1>1, <1>2
<1> HIDE DEF e
<1>6. e \in Waiting
  BY <1>1, <1>2, <1>5 DEF Waiting, Ascending
<1> QED BY <1>2, <1>3, <1>4, <1>5, <1>6 DEF e

\* What ip_reass_chain_frag_into_datagram_and_validate finds complete is in order.
LEMMA CompleteInOrder ==
  ASSUME NEW d \in Waiting, d.last, NEW f \in Fragments, f.id = d.id, ~ThrowsAway(d.p, f),
         NEW q, q = InsertAt(d.p, Place(d.p, f), f), Valid(q, Place(d.p, f))
  PROVE  /\ \A j \in DOMAIN q : q[j].id = q[1].id
         /\ \A j \in 2 .. Len(q) : q[j - 1].end <= q[j].start
         /\ q[1].start = 0 /\ q[Len(q)].end <= d.datagram_len
<1> DEFINE p == d.p
           k == Place(p, f)
<1>1. /\ p \in Seq(Fragments) /\ Ascending(p) /\ \A j \in 1 .. Len(p) : p[j].id = d.id
      /\ \A g \in Fragments : g.id = d.id => g.end <= d.datagram_len
  BY DEF Waiting, Ascending
<1>2. /\ q \in Seq(Fragments) /\ Len(q) = Len(p) + 1
      /\ \A j \in 1 .. Len(q) : q[j].id = d.id
      /\ k \in 1 .. Len(q) /\ q[k] = f
      /\ \A j \in 1 .. Len(q) : j < k => q[j] = p[j] /\ p[j].start < f.start
  BY <1>1, InsertedIn
<1>3. /\ q[1].start = 0
      /\ \A j \in 1 .. Len(q) - 1 : (j = k - 1 /\ k # Len(q)) \/ q[j].end = q[j + 1].start
  BY DEF Valid
<1>4. Len(p) \in Nat /\ Len(q) \in Nat /\ 1 \in 1 .. Len(q) /\ Len(q) \in 1 .. Len(q) /\ DOMAIN p = 1 .. Len(p)
      /\ DOMAIN q = 1 .. Len(q)
  <2>1. Len(p) \in Nat /\ DOMAIN p = 1 .. Len(p) /\ DOMAIN q = 1 .. Len(q)
    BY <1>1, <1>2, LenProperties
  <2> QED BY <1>2, <2>1
<1>5. \A j \in 1 .. Len(q) : q[j] \in Fragments /\ q[j].start \in Nat /\ q[j].end \in Nat
  <2>1. \A j \in 1 .. Len(q) : q[j] \in Fragments
    BY <1>2, LenProperties
  <2> QED BY <2>1, FragmentsAssumption
<1>6. \A j \in 1 .. Len(p) : ~(p[j].start < f.start /\ f.start < p[j].end)
  BY <1>4 DEF ThrowsAway
<1> HIDE DEF p, k
<1>7. ASSUME NEW j \in 2 .. Len(q) PROVE q[j - 1].end <= q[j].start
  <2>1. /\ j \in 1 .. Len(q) /\ j - 1 \in 1 .. Len(q) - 1 /\ j - 1 \in 1 .. Len(q) /\ (j - 1) + 1 = j
        /\ j - 1 \in 1 .. Len(p)
    BY <1>2, <1>4
  <2>2. CASE q[j - 1].end = q[j].start
    BY <1>5, <2>1, <2>2
  <2>3. CASE j - 1 = k - 1
    <3>1. j = k /\ j - 1 < k
      BY <1>2, <1>4, <2>1, <2>3
    <3>2. q[j] = f /\ q[j - 1] = p[j - 1] /\ p[j - 1].start < f.start
      BY <1>2, <2>1, <3>1
    <3>3. ~(f.start < q[j - 1].end)
      BY <1>6, <2>1, <3>2
    <3> QED BY <1>5, <2>1, <3>2, <3>3
  <2> QED BY <1>3, <2>1, <2>2, <2>3
<1>8. q[Len(q)].end <= d.datagram_len
  BY <1>1, <1>2, <1>4, <1>5
<1> QED BY <1>2, <1>3, <1>4, <1>7, <1>8

LEMMA ReassStep ==
  ASSUME ReassInv, reassdatagrams' \in Seq(Waiting), Filled(reassdatagrams'),
         ip_reass_pbufcount' = PbufsOf(reassdatagrams'),
         ip_reass_pbufcount' <= IP_REASS_MAX_PBUFS, Len(reassdatagrams') <= MEMP_NUM_REASSDATA,
         returned' = Nothing \/ ReturnedInOrder'
  PROVE  ReassInv'
<1>1. returned' = Nothing => ReturnedInOrder'
  BY DEF ReturnedInOrder, Nothing
<1> QED BY <1>1 DEF ReassInv

\* A datagram without pieces takes any fragment.
LEMMA EmptyTakes ==
  ASSUME NEW f
  PROVE  ~ThrowsAway(<< >>, f)
<1>1. DOMAIN << >> = {} /\ Len(<< >>) = 0
  OBVIOUS
<1>2. \A x : x \notin 2 .. 0
  OBVIOUS
<1> QED BY <1>1, <1>2 DEF ThrowsAway

LEMMA ChainInv ==
  ASSUME ReassInv, NEW f \in Fragments, NEW st \in Remaining(Present), HasRoom(st, f),
         Index(st.list, f.id) # 0 \/ Len(st.list) < MEMP_NUM_REASSDATA, Chain(st, f)
  PROVE  ReassInv'
<1> DEFINE l == Enqueued(st.list, f)
           i == Index(l, f.id)
           k == Place(l[i].p, f)
           p == InsertAt(l[i].p, k, f)
           count == ip_reass_pbufcount - st.freed
<1>1. IF ThrowsAway(l[i].p, f)
      THEN reassdatagrams' = l /\ ip_reass_pbufcount' = count /\ returned' = Nothing
      ELSE IF l[i].last /\ Valid(p, k)
      THEN /\ reassdatagrams' = RemoveAt(l, i)
           /\ ip_reass_pbufcount' = count + f.clen - Clen(p)
           /\ returned' = [p |-> p, datagram_len |-> l[i].datagram_len]
      ELSE /\ reassdatagrams' = [l EXCEPT ![i].p = p]
           /\ ip_reass_pbufcount' = count + f.clen
           /\ returned' = Nothing
  BY DEF Chain
<1>2. /\ reassdatagrams \in Seq(Waiting) /\ Filled(reassdatagrams)
      /\ ip_reass_pbufcount = PbufsOf(reassdatagrams) /\ Len(reassdatagrams) <= MEMP_NUM_REASSDATA
  BY DEF ReassInv
<1>3. /\ st.list \in Seq(Waiting) /\ st.freed \in Nat /\ Filled(st.list)
      /\ st.freed + PbufsOf(st.list) = 0 + PbufsOf(reassdatagrams)
      /\ Len(st.list) <= Len(reassdatagrams)
  BY <1>2 DEF Remaining, Rooms, Present
<1>4. HasOwn(l, st.list, f)
  BY <1>3, EnqueuedHasOwn
<1> HIDE DEF l
<1>5. /\ l \in Seq(Waiting) /\ i \in 1 .. Len(l) /\ l[i].id = f.id /\ PbufsOf(l) = PbufsOf(st.list)
      /\ \A j \in 1 .. Len(l) : j # i => l[j].p # << >>
  BY <1>3, <1>4 DEF HasOwn
<1>6. /\ Len(l) \in Nat /\ Len(st.list) \in Nat /\ Len(reassdatagrams) \in Nat /\ f.clen \in Nat
      /\ PbufsOf(l) \in Nat /\ PbufsOf(reassdatagrams) \in Nat
      /\ MEMP_NUM_REASSDATA \in Nat /\ IP_REASS_MAX_PBUFS \in Nat
  BY <1>2, <1>3, <1>5, LenProperties, PbufsNat, FragmentsAssumption
<1>7. Len(l) <= MEMP_NUM_REASSDATA
  <2>1. Len(l) = IF Index(st.list, f.id) = 0 THEN Len(st.list) + 1 ELSE Len(st.list)
    BY <1>4 DEF HasOwn
  <2> QED BY <1>2, <1>3, <1>6, <2>1
<1>8. count = PbufsOf(l) /\ PbufsOf(l) + f.clen <= IP_REASS_MAX_PBUFS
  <2>1. count + f.clen <= IP_REASS_MAX_PBUFS
    BY DEF HasRoom
  <2> QED BY <1>2, <1>3, <1>5, <1>6, <2>1
<1> HIDE DEF i, count
<1> DEFINE d == l[i]
<1>9. l \in [1 .. Len(l) -> Waiting] /\ d \in Waiting /\ Clen(d.p) \in Nat
  <2>1. l \in [1 .. Len(l) -> Waiting]
    BY <1>5, LenProperties
  <2>2. d \in Waiting
    BY <1>5, <2>1
  <2> QED BY <2>1, <2>2, ClenNat DEF Waiting
<1>10. CASE ThrowsAway(d.p, f)
  <2>1. reassdatagrams' = l /\ ip_reass_pbufcount' = count /\ returned' = Nothing
    BY <1>1, <1>10
  <2>2. d.p # << >>
    BY <1>10, EmptyTakes
  <2>3. Filled(l)
    BY <1>5, <2>2 DEF Filled
  <2>4. PbufsOf(l) <= IP_REASS_MAX_PBUFS
    BY <1>6, <1>8
  <2> QED BY <1>5, <1>7, <1>8, <2>1, <2>3, <2>4, ReassStep
<1>11. CASE ~ThrowsAway(d.p, f) /\ d.last /\ Valid(p, k)
  <2> DEFINE r == RemoveAt(l, i)
  <2>1. /\ reassdatagrams' = r /\ ip_reass_pbufcount' = count + f.clen - Clen(p)
        /\ returned' = [p |-> p, datagram_len |-> d.datagram_len]
    BY <1>1, <1>11
  <2>2. /\ r \in Seq(Waiting) /\ Len(r) = Len(l) - 1
        /\ \A j \in 1 .. Len(l) - 1 : r[j] = IF j < i THEN l[j] ELSE l[j + 1]
    BY <1>5, Removing DEF RemovedAt, RemoveAt
  <2> HIDE DEF r
  <2>3. PbufsOf(l) = PbufsOf(r) + Clen(d.p) /\ PbufsOf(r) \in Nat
    <3>1. Lacking(r, l, i)
      BY <1>6, <2>2 DEF Lacking
    <3> QED BY <1>5, <2>2, <3>1, PbufsLacking, PbufsNat
  <2>4. Clen(p) = Clen(d.p) + f.clen
    BY <1>5, <1>9, <1>11, WaitingInserted, ZenonT(40)
  <2>5. ip_reass_pbufcount' = PbufsOf(r) /\ PbufsOf(r) <= IP_REASS_MAX_PBUFS
    BY <1>6, <1>8, <1>9, <2>1, <2>3, <2>4
  <2>6. Filled(r)
    <3>1. ASSUME NEW j \in 1 .. Len(r) PROVE r[j].p # << >>
      <4>1. /\ j \in 1 .. Len(l) - 1 /\ j \in 1 .. Len(l) /\ j + 1 \in 1 .. Len(l)
            /\ IF j < i THEN j # i ELSE j + 1 # i
        BY <1>5, <1>6, <2>2
      <4> QED BY <1>5, <2>2, <4>1
    <3> QED BY <3>1 DEF Filled
  <2>7. ReturnedInOrder'
    <3>1. /\ \A j \in DOMAIN p : p[j].id = p[1].id
          /\ \A j \in 2 .. Len(p) : p[j - 1].end <= p[j].start
          /\ p[1].start = 0 /\ p[Len(p)].end <= d.datagram_len
      BY <1>5, <1>9, <1>11, CompleteInOrder
    <3> HIDE DEF p
    <3>2. returned'.p = p /\ returned'.datagram_len = d.datagram_len
      BY <2>1
    <3> QED BY <3>1, <3>2 DEF ReturnedInOrder
  <2>8. Len(r) <= MEMP_NUM_REASSDATA
    BY <1>6, <1>7, <2>2
  <2> QED BY <2>1, <2>2, <2>5, <2>6, <2>7, <2>8, ReassStep
<1>12. CASE ~ThrowsAway(d.p, f) /\ ~(d.last /\ Valid(p, k))
  <2> DEFINE e == [d EXCEPT !.p = p]
             m == [l EXCEPT ![i].p = p]
  <2>1. reassdatagrams' = m /\ ip_reass_pbufcount' = count + f.clen /\ returned' = Nothing
    BY <1>1, <1>12
  <2>2. e \in Waiting /\ e.p = p /\ p # << >> /\ Clen(p) = Clen(d.p) + f.clen
    BY <1>5, <1>9, <1>12, WaitingInserted
  <2>3. m = [l EXCEPT ![i] = e]
    OBVIOUS
  <2> HIDE DEF e, p
  <2>4. /\ m \in [1 .. Len(l) -> Waiting] /\ m[i] = e
        /\ \A j \in 1 .. Len(l) : j # i => m[j] = l[j]
    BY <1>5, <1>9, <2>2, <2>3
  <2> HIDE DEF m
  <2>5. m \in Seq(Waiting) /\ Len(m) = Len(l)
    BY <1>6, <2>4
  <2>6. PbufsOf(m) + Clen(d.p) = PbufsOf(l) + Clen(e.p) /\ PbufsOf(m) \in Nat
    BY <1>5, <2>4, <2>5, PbufsOther, PbufsNat
  <2>7. ip_reass_pbufcount' = PbufsOf(m) /\ PbufsOf(m) <= IP_REASS_MAX_PBUFS
    <3>1. PbufsOf(m) + Clen(d.p) = PbufsOf(l) + (Clen(d.p) + f.clen)
      BY <2>2, <2>6
    <3>2. PbufsOf(m) = PbufsOf(l) + f.clen
      <4>1. PbufsOf(m) \in Nat /\ PbufsOf(l) \in Nat /\ Clen(d.p) \in Nat /\ f.clen \in Nat
        BY <1>6, <1>9, <2>6
      <4>2. \A w, x, y, z \in Nat : w + x = y + (x + z) => w = y + z
        OBVIOUS
      <4> QED BY <3>1, <4>1, <4>2
    <3> QED BY <1>8, <2>1, <3>2
  <2>8. Filled(m)
    BY <1>5, <2>2, <2>4, <2>5 DEF Filled
  <2> QED BY <1>7, <2>1, <2>5, <2>7, <2>8, ReassStep
<1> QED BY <1>10, <1>11, <1>12

LEMMA DroppedInv ==
  ASSUME ReassInv, NEW st \in Remaining(Present), Dropped(st)
  PROVE  ReassInv'
<1>1. /\ reassdatagrams \in Seq(Waiting) /\ Filled(reassdatagrams)
      /\ ip_reass_pbufcount = PbufsOf(reassdatagrams)
      /\ ip_reass_pbufcount <= IP_REASS_MAX_PBUFS /\ Len(reassdatagrams) <= MEMP_NUM_REASSDATA
  BY DEF ReassInv
<1>2. /\ st.list \in Seq(Waiting) /\ st.freed \in Nat /\ Filled(st.list)
      /\ st.freed + PbufsOf(st.list) = 0 + PbufsOf(reassdatagrams)
      /\ Len(st.list) <= Len(reassdatagrams)
  BY <1>1 DEF Remaining, Rooms, Present
<1>3. /\ reassdatagrams' = st.list /\ ip_reass_pbufcount' = ip_reass_pbufcount - st.freed
      /\ returned' = Nothing
  BY DEF Dropped
<1>4. /\ PbufsOf(st.list) \in Nat /\ PbufsOf(reassdatagrams) \in Nat
      /\ Len(st.list) \in Nat /\ Len(reassdatagrams) \in Nat
      /\ MEMP_NUM_REASSDATA \in Nat /\ IP_REASS_MAX_PBUFS \in Nat
  BY <1>1, <1>2, LenProperties, PbufsNat, FragmentsAssumption
<1>5. /\ ip_reass_pbufcount' = PbufsOf(st.list) /\ PbufsOf(st.list) <= IP_REASS_MAX_PBUFS
      /\ Len(st.list) <= MEMP_NUM_REASSDATA
  <2>1. /\ PbufsOf(st.list) = PbufsOf(reassdatagrams) - st.freed
        /\ PbufsOf(st.list) <= PbufsOf(reassdatagrams)
    BY <1>2, <1>4
  <2>2. PbufsOf(st.list) <= IP_REASS_MAX_PBUFS
    BY <1>1, <1>4, <2>1
  <2>3. Len(st.list) <= MEMP_NUM_REASSDATA
    BY <1>1, <1>2, <1>4
  <2> QED BY <1>1, <1>3, <2>1, <2>2, <2>3
<1> QED BY <1>2, <1>3, <1>5, ReassStep

\* ip_reass, whatever is removed to make room for the fragment and for its datagram.
LEMMA FragmentInv ==
  ASSUME ReassInv, NEW f \in Fragments, ip_reass(f)
  PROVE  ReassInv'
<1> DEFINE room == MakeRoom(f)
           st == MakeDatagram(room, f)
<1>1. IF ~HasRoom(room, f) THEN Dropped(room)
      ELSE IF HasDatagram(room, st, f) THEN Chain(st, f) ELSE Dropped(st)
  BY DEF ip_reass
<1>2. Present \in Rooms /\ Present.list = reassdatagrams /\ Present.freed = 0
  BY DEF ReassInv, Present, Rooms
<1>3. ASSUME NEW s \in Rooms PROVE s \in Remaining(s)
  BY LenProperties DEF Remaining, Rooms
<1>4. room \in Remaining(Present)
  BY <1>2, <1>3, RemoveOldestLeaves DEF MakeRoom
<1> HIDE DEF room
<1>5. room \in Rooms /\ st \in Remaining(room)
  <2>1. room \in Rooms
    BY <1>4 DEF Remaining
  <2> QED BY <1>3, <2>1, RemoveOldestLeaves DEF MakeDatagram
<1>6. HasDatagram(room, st, f) => Index(st.list, f.id) # 0 \/ Len(st.list) < MEMP_NUM_REASSDATA
  BY DEF HasDatagram, MakeDatagram
<1> HIDE DEF st
<1>7. /\ st \in Rooms /\ room.freed <= st.freed /\ room.freed \in Nat /\ st.freed \in Nat
      /\ Len(st.list) \in Nat /\ Len(room.list) \in Nat /\ Len(reassdatagrams) \in Nat
  BY <1>2, <1>5, LenProperties DEF Remaining, Rooms
<1>8. st \in Remaining(Present)
  BY <1>2, <1>4, <1>5, <1>7 DEF Remaining
<1>9. CASE ~HasRoom(room, f)
  BY <1>1, <1>4, <1>9, DroppedInv
<1>10. CASE HasRoom(room, f) /\ ~HasDatagram(room, st, f)
  BY <1>1, <1>8, <1>10, DroppedInv
<1>11. CASE HasRoom(room, f) /\ HasDatagram(room, st, f)
  <2>1. HasRoom(st, f)
    <3>1. ip_reass_pbufcount \in Nat
      BY PbufsNat DEF ReassInv
    <3>2. f.clen \in Nat /\ IP_REASS_MAX_PBUFS \in Nat
      BY FragmentsAssumption
    <3> QED BY <1>7, <1>11, <3>1, <3>2 DEF HasRoom
  <2> QED BY <1>1, <1>6, <1>8, <1>11, <2>1, ChainInv
<1> QED BY <1>9, <1>10, <1>11

LEMMA ReassInit == RInit => ReassInv
<1> SUFFICES ASSUME RInit PROVE ReassInv
  OBVIOUS
<1>1. reassdatagrams = << >> /\ ip_reass_pbufcount = 0 /\ returned = Nothing
  BY DEF RInit
<1>2. << >> \in Seq(Waiting) /\ Len(<< >>) = 0 /\ << >> \in Seq(Nat) /\ DOMAIN << >> = {}
  OBVIOUS
<1>3. PbufsOf(<< >>) = 0
  <2>1. [k \in DOMAIN << >> |-> Clen(<< >>[k].p)] = << >>
    BY <1>2
  <2>2. SumSeq(<< >>) = 0
    BY <1>2, SumsDef
  <2> QED BY <2>1, <2>2 DEF PbufsOf
<1>4. Filled(<< >>)
  BY DEF Filled
<1>5. ReturnedInOrder
  BY <1>1 DEF ReturnedInOrder, Nothing
<1> QED BY <1>1, <1>2, <1>3, <1>4, <1>5, FragmentsAssumption DEF ReassInv

LEMMA ReassNext == ReassInv /\ [RNext]_rvars => ReassInv'
<1> SUFFICES ASSUME ReassInv, [RNext]_rvars PROVE ReassInv'
  OBVIOUS
<1>1. CASE RNext
  BY <1>1, FragmentInv DEF RNext
<1>2. CASE UNCHANGED rvars
  BY <1>2 DEF rvars, ReassInv, ReturnedInOrder
<1> QED BY <1>1, <1>2

\* What ip_reass returns is made of pieces of one datagram, in order and without overlap,
\* from offset 0 and not past its end, for any set of fragments, in any order, repeated
\* or lost, and for any limits.
THEOREM DatagramsInOrder == RSpec => []ReturnedInOrder
<1>1. ReassInv => ReturnedInOrder
  BY DEF ReassInv
<1> QED BY <1>1, ReassInit, ReassNext, PTL DEF RSpec

\* ip_reass_pbufcount is the number of pbufs that wait and stays within its limit, and the
\* structures in use, each with a piece, stay within theirs, whatever arrives.
THEOREM PbufsAreCounted == RSpec => []FragmentsAccounted
<1>1. ReassInv => FragmentsAccounted
  <2> SUFFICES ASSUME ReassInv PROVE FragmentsAccounted
    OBVIOUS
  <2>1. DOMAIN reassdatagrams = 1 .. Len(reassdatagrams)
    BY LenProperties DEF ReassInv
  <2> QED BY <2>1 DEF ReassInv, FragmentsAccounted, Filled
<1> QED BY <1>1, ReassInit, ReassNext, PTL DEF RSpec
=============================================================================
