--------------------------- MODULE TaskLinksProof ---------------------------
(***************************************************************************)
(* The task lists that share the link tssp->next, for any number of tasks, *)
(* VCPUs and sleeping times: they are the queues of TaskQueues.            *)
(***************************************************************************)
EXTENDS TaskLinks, DataLemmas

-----------------------------------------------------------------------------
(* Lists in memory.                                                        *)

Cells == Queues \cup Task \cup {Nil}
Ptrs == {p \in [Cells -> Task \cup {Nil}] : p[Nil] = Nil}

\* The i-th cell of the list s that starts in the variable q.
Node(q, s, i) == IF i = 0 THEN q ELSE s[i]

\* The pointers p link the tasks s, and no task twice, behind q.
IsList(p, q, s) ==
  /\ s \in Seq(Task)
  /\ \A i, j \in 1 .. Len(s) : s[i] = s[j] => i = j
  /\ \A i \in 0 .. Len(s) : p[Node(q, s, i)] = IF i < Len(s) THEN s[i + 1] ELSE Nil

LEMMA Apart ==
  /\ Nil \notin Task /\ Nil \notin Queues /\ \A q \in Queues : q \notin Task
  /\ \A v \in Vcpu : Run(v) \in Queues /\ Run(v) # Sleep
  /\ \A t \in Task : Wait(t) \in Queues /\ Wait(t) # Sleep
  /\ \A v \in Vcpu, t \in Task : Run(v) # Wait(t)
  /\ \A v, w \in Vcpu : Run(v) = Run(w) => v = w
  /\ \A t, u \in Task : Wait(t) = Wait(u) => t = u
  /\ Sleep \in Queues
<1>1. /\ Nil \notin Task /\ Nil \notin Queues /\ \A q \in Queues : q \notin Task
  BY LinksAssumption
<1>2. /\ \A v \in Vcpu : Run(v) \in Queues
      /\ \A t \in Task : Wait(t) \in Queues
      /\ Sleep \in Queues
  BY DEF Queues
<1>3. /\ \A v : Run(v) # Sleep
      /\ \A t : Wait(t) # Sleep
      /\ \A v, t : Run(v) # Wait(t)
      /\ \A v, w : Run(v) = Run(w) => v = w
      /\ \A t, u : Wait(t) = Wait(u) => t = u
  BY DEF Run, Wait, Sleep
<1> QED BY <1>1, <1>2, <1>3

LEMMA Tasks ==
  ASSUME NEW s \in Seq(Task)
  PROVE  /\ Len(s) \in Nat /\ DOMAIN s = 1 .. Len(s) /\ \A i \in 1 .. Len(s) : s[i] \in Task
         /\ Range(s) = {s[i] : i \in 1 .. Len(s)}
BY LenProperties DEF Range

\* A list without repetitions is no longer than there are tasks.
LEMMA ListFits ==
  ASSUME NEW s \in Seq(Task), \A i, j \in 1 .. Len(s) : s[i] = s[j] => i = j
  PROVE  Len(s) <= MaxTasks /\ MaxTasks \in Nat
<1>1. /\ Len(s) \in Nat /\ MaxTasks \in Nat /\ \A i \in 1 .. Len(s) : s[i] \in Task
      /\ \A f \in [1 .. MaxTasks + 1 -> Task] : ~IsInjective(f)
  BY Tasks, LinksAssumption
<1>2. ASSUME Len(s) > MaxTasks PROVE FALSE
  <2> DEFINE f == [i \in 1 .. MaxTasks + 1 |-> s[i]]
  <2>1. \A i \in 1 .. MaxTasks + 1 : i \in 1 .. Len(s)
    BY <1>1, <1>2
  <2>2. f \in [1 .. MaxTasks + 1 -> Task] /\ IsInjective(f)
    BY <1>1, <2>1 DEF IsInjective
  <2> QED BY <1>1, <2>2
<1> QED BY <1>1, <1>2

IsWalk(p, q, f) ==
  f = [n \in 0 .. MaxTasks + 1 |-> IF n = 0 THEN q ELSE p[f[n - 1]]]

\* Follow finds the tasks of a list, in order.
LEMMA FollowIs ==
  ASSUME NEW p \in Ptrs, NEW q \in Queues, NEW s, IsList(p, q, s)
  PROVE  Follow(p, q) = s
<1> DEFINE max == MaxTasks + 1
           step == [n \in 1 .. max |-> [c \in Cells |-> p[c]]]
           nth == CHOOSE f : IsWalk(p, q, f)
           length == CHOOSE n \in 0 .. max : \A m \in 1 .. max : m <= n <=> nth[m] # Nil
<1>1. /\ Len(s) \in Nat /\ max \in Nat /\ Len(s) < max
      /\ s \in Seq(Task) /\ \A i \in 1 .. Len(s) : s[i] \in Task
  <2>1. s \in Seq(Task) /\ \A i, j \in 1 .. Len(s) : s[i] = s[j] => i = j
    BY DEF IsList
  <2>2. Len(s) \in Nat /\ \A i \in 1 .. Len(s) : s[i] \in Task
    BY <2>1, Tasks
  <2>3. Len(s) <= MaxTasks /\ MaxTasks \in Nat
    BY <2>1, ListFits
  <2> QED BY <2>1, <2>2, <2>3
<1>2. p \in [Cells -> Task \cup {Nil}] /\ p[Nil] = Nil /\ q \in Cells /\ \A c \in Cells : p[c] \in Cells
  BY DEF Ptrs, Cells
<1>3. step \in [1 .. max -> [Cells -> Cells]] /\ \A n \in 1 .. max, c \in Cells : step[n][c] = p[c]
  BY <1>2
<1> HIDE DEF step
<1>4. PICK f : Iterates(f, Cells, max, q, step)
  BY <1>1, <1>2, <1>3, Recursion
<1>5. ASSUME NEW n \in 0 .. max PROVE f[n] = IF n = 0 THEN q ELSE p[f[n - 1]]
  <2>1. CASE n = 0
    BY <1>4, <2>1 DEF Iterates
  <2>2. CASE n # 0
    <3>1. n \in 1 .. max /\ n - 1 \in 0 .. max
      BY <1>1, <2>2
    <3>2. f[n - 1] \in Cells
      BY <1>4, <3>1 DEF Iterates
    <3> QED BY <1>3, <1>4, <2>2, <3>1, <3>2 DEF Iterates
  <2> QED BY <2>1, <2>2
<1>6. IsWalk(p, q, f)
  BY <1>4, <1>5 DEF IsWalk, Iterates
<1>7. IsWalk(p, q, nth)
  BY <1>6
<1>8. Follow(p, q) = [n \in 1 .. length |-> nth[n]]
  BY DEF Follow, IsWalk
<1> HIDE DEF nth
<1>9. \A n \in 0 .. max : nth[n] = IF n = 0 THEN q ELSE p[nth[n - 1]]
  BY <1>7 DEF IsWalk
<1> DEFINE S == {n \in 0 .. max : nth[n] = IF n <= Len(s) THEN Node(q, s, n) ELSE Nil}
<1>10. 0 \in S
  BY <1>1, <1>9 DEF Node
<1>11. ASSUME NEW n \in 0 .. max - 1, n \in S PROVE n + 1 \in S
  <2>1. /\ n + 1 \in 0 .. max /\ n + 1 # 0 /\ (n + 1) - 1 = n /\ n \in Nat
    BY <1>1
  <2>2. nth[n + 1] = p[nth[n]]
    BY <1>9, <2>1
  <2>3. nth[n] = IF n <= Len(s) THEN Node(q, s, n) ELSE Nil
    BY <1>11
  <2>4. CASE n < Len(s)
    <3>1. p[Node(q, s, n)] = s[n + 1] /\ n <= Len(s) /\ n + 1 <= Len(s)
      BY <1>1, <2>1, <2>4 DEF IsList
    <3> QED BY <2>1, <2>2, <2>3, <3>1 DEF Node
  <2>5. CASE n = Len(s)
    <3>1. p[Node(q, s, n)] = Nil /\ n <= Len(s) /\ ~(n + 1 <= Len(s))
      BY <1>1, <2>1, <2>5 DEF IsList
    <3> QED BY <2>1, <2>2, <2>3, <3>1
  <2>6. CASE n > Len(s)
    <3>1. ~(n <= Len(s)) /\ ~(n + 1 <= Len(s))
      BY <1>1, <2>1, <2>6
    <3> QED BY <1>2, <2>1, <2>2, <2>3, <3>1
  <2> QED BY <1>1, <2>1, <2>4, <2>5, <2>6
<1> HIDE DEF S
<1>12. \A n \in 0 .. max : n \in S
  <2>1. \A n \in 0 .. max - 1 : n \in S => n + 1 \in S
    BY <1>11
  <2> QED BY <1>1, <1>10, <2>1, UpTo
<1>13. \A n \in 1 .. max : nth[n] = IF n <= Len(s) THEN s[n] ELSE Nil
  <2>1. \A n \in 1 .. max : n \in 0 .. max /\ n # 0
    BY <1>1
  <2> QED BY <1>12, <2>1 DEF S, Node
<1>14. \A m \in 1 .. max : m <= Len(s) <=> nth[m] # Nil
  <2>1. \A m \in 1 .. max : m <= Len(s) => m \in 1 .. Len(s) /\ s[m] # Nil
    BY <1>1, Apart
  <2> QED BY <1>13, <2>1
<1>15. length = Len(s)
  <2>1. Len(s) \in 0 .. max
    BY <1>1
  <2>2. length \in 0 .. max /\ \A m \in 1 .. max : m <= length <=> nth[m] # Nil
    BY <1>14, <2>1
  <2> HIDE DEF length
  <2>3. \A m \in 1 .. max : m <= length <=> m <= Len(s)
    BY <1>14, <2>2
  <2>4. ~(length < Len(s))
    <3>1. length < Len(s) => length + 1 \in 1 .. max /\ length + 1 <= Len(s) /\ ~(length + 1 <= length)
      BY <1>1, <2>1, <2>2
    <3> QED BY <2>3, <3>1
  <2>5. ~(Len(s) < length)
    <3>1. Len(s) < length => Len(s) + 1 \in 1 .. max /\ Len(s) + 1 <= length /\ ~(Len(s) + 1 <= Len(s))
      BY <1>1, <2>1, <2>2
    <3> QED BY <2>3, <3>1
  <2> QED BY <1>1, <2>1, <2>2, <2>4, <2>5
<1>16. Follow(p, q) = [n \in 1 .. Len(s) |-> nth[n]]
  BY <1>8, <1>15
<1>17. \A n \in 1 .. Len(s) : nth[n] = s[n]
  BY <1>1, <1>13
<1>18. s = [n \in 1 .. Len(s) |-> s[n]]
  BY <1>1
<1> QED BY <1>16, <1>17, <1>18

\* A list does not depend on other cells than its own.
LEMMA ListKept ==
  ASSUME NEW p, NEW r, NEW q, NEW s, IsList(p, q, s), r[q] = p[q],
         \A i \in 1 .. Len(s) : r[s[i]] = p[s[i]]
  PROVE  IsList(r, q, s)
<1>1. Len(s) \in Nat
  BY Tasks DEF IsList
<1>2. ASSUME NEW i \in 0 .. Len(s) PROVE r[Node(q, s, i)] = p[Node(q, s, i)]
  <2>1. i # 0 => i \in 1 .. Len(s)
    BY <1>1
  <2> QED BY <2>1 DEF Node
<1> QED BY <1>2 DEF IsList

\* The pointer at the end of the list is set, and the task is its last one.
LEMMA ListAppended ==
  ASSUME NEW p \in Ptrs, NEW q \in Queues, NEW s, IsList(p, q, s), NEW t \in Task,
         \A i \in 1 .. Len(s) : s[i] # t,
         NEW r, r = [p EXCEPT ![Node(q, s, Len(s))] = t, ![t] = Nil]
  PROVE  IsList(r, q, Append(s, t)) /\ r \in Ptrs
<1> DEFINE n == Node(q, s, Len(s))
           u == Append(s, t)
<1>1. /\ Len(s) \in Nat /\ s \in Seq(Task) /\ \A i \in 1 .. Len(s) : s[i] \in Task
      /\ \A i, j \in 1 .. Len(s) : s[i] = s[j] => i = j
      /\ \A i \in 0 .. Len(s) : p[Node(q, s, i)] = IF i < Len(s) THEN s[i + 1] ELSE Nil
  BY Tasks DEF IsList
<1>2. \A i \in 0 .. Len(s) : Node(q, s, i) \in Cells \ {Nil, t} /\ (Node(q, s, i) = n => i = Len(s))
  <2>1. \A i \in 0 .. Len(s) : i # 0 => i \in 1 .. Len(s)
    BY <1>1
  <2>2. Len(s) \in 0 .. Len(s)
    BY <1>1
  <2> QED BY <1>1, <2>1, <2>2, Apart DEF Node, Cells
<1>3. p \in [Cells -> Task \cup {Nil}] /\ t \in Cells /\ n \in Cells /\ n # Nil /\ n # t /\ t # Nil
      /\ p[Nil] = Nil
  <2>1. Len(s) \in 0 .. Len(s)
    BY <1>1
  <2> QED BY <1>2, <2>1, Apart DEF Ptrs, Cells
<1> HIDE DEF n
<1>4. /\ r \in [Cells -> Task \cup {Nil}] /\ r[n] = t /\ r[t] = Nil
      /\ \A c \in Cells : c # n /\ c # t => r[c] = p[c]
  <2>1. r = [p EXCEPT ![n] = t, ![t] = Nil]
    BY DEF n
  <2> QED BY <1>3, <2>1
<1>5. r \in Ptrs
  BY <1>3, <1>4 DEF Ptrs, Cells
<1>6. /\ u \in Seq(Task) /\ Len(u) = Len(s) + 1 /\ u[Len(s) + 1] = t
      /\ \A i \in 1 .. Len(s) : u[i] = s[i]
  BY <1>1
<1> HIDE DEF u
<1>7. ASSUME NEW i \in 1 .. Len(u), NEW j \in 1 .. Len(u), u[i] = u[j] PROVE i = j
  <2>1. /\ i \in 1 .. Len(s) \/ i = Len(s) + 1
        /\ j \in 1 .. Len(s) \/ j = Len(s) + 1
    BY <1>1, <1>6
  <2> QED BY <1>1, <1>6, <1>7, <2>1
<1>8. ASSUME NEW i \in 0 .. Len(u)
      PROVE  r[Node(q, u, i)] = IF i < Len(u) THEN u[i + 1] ELSE Nil
  <2>1. CASE i < Len(s)
    <3>1. /\ i \in 0 .. Len(s) /\ i + 1 \in 1 .. Len(s) /\ i # Len(s) /\ i < Len(u)
          /\ i # 0 => i \in 1 .. Len(s)
      BY <1>1, <1>6, <2>1
    <3>2. Node(q, u, i) = Node(q, s, i)
      BY <1>6, <3>1 DEF Node
    <3>3. r[Node(q, s, i)] = p[Node(q, s, i)]
      BY <1>2, <1>4, <3>1
    <3> QED BY <1>1, <1>6, <2>1, <3>1, <3>2, <3>3
  <2>2. CASE i = Len(s)
    <3>1. i < Len(u) /\ i # 0 => i \in 1 .. Len(s)
      BY <1>1, <1>6, <2>2
    <3>2. Node(q, u, i) = n
      BY <1>6, <2>2, <3>1 DEF Node, n
    <3> QED BY <1>4, <1>6, <2>2, <3>1, <3>2
  <2>3. CASE i = Len(s) + 1
    <3>1. ~(i < Len(u)) /\ Node(q, u, i) = t
      BY <1>1, <1>6, <2>3 DEF Node
    <3> QED BY <1>4, <3>1
  <2> QED BY <1>1, <1>6, <2>1, <2>2, <2>3
<1>9. IsList(r, q, u)
  BY <1>6, <1>7, <1>8 DEF IsList
<1> QED BY <1>5, <1>9 DEF u

\* The pointer to a task is set to what comes behind the task.
LEMMA ListUnlinked ==
  ASSUME NEW p \in Ptrs, NEW q \in Queues, NEW s, IsList(p, q, s), NEW k \in 1 .. Len(s),
         NEW r, r = [p EXCEPT ![Node(q, s, k - 1)] = p[s[k]]]
  PROVE  IsList(r, q, RemovedAt(s, k)) /\ r \in Ptrs
<1> DEFINE n == Node(q, s, k - 1)
           u == RemovedAt(s, k)
<1>1. /\ Len(s) \in Nat /\ s \in Seq(Task) /\ \A i \in 1 .. Len(s) : s[i] \in Task
      /\ \A i, j \in 1 .. Len(s) : s[i] = s[j] => i = j
      /\ \A i \in 0 .. Len(s) : p[Node(q, s, i)] = IF i < Len(s) THEN s[i + 1] ELSE Nil
  BY Tasks DEF IsList
<1>2. \A i \in 0 .. Len(s) : Node(q, s, i) \in Cells \ {Nil} /\ (Node(q, s, i) = n => i = k - 1)
  <2>1. \A i \in 0 .. Len(s) : i # 0 => i \in 1 .. Len(s)
    BY <1>1
  <2>2. k - 1 \in 0 .. Len(s)
    BY <1>1
  <2> QED BY <1>1, <2>1, <2>2, Apart DEF Node, Cells
<1>3. p \in [Cells -> Task \cup {Nil}] /\ n \in Cells /\ n # Nil /\ p[Nil] = Nil /\ s[k] \in Cells
  <2>1. k - 1 \in 0 .. Len(s)
    BY <1>1
  <2> QED BY <1>1, <1>2, <2>1 DEF Ptrs, Cells
<1> HIDE DEF n
<1>4. /\ r \in [Cells -> Task \cup {Nil}] /\ r[n] = p[s[k]]
      /\ \A c \in Cells : c # n => r[c] = p[c]
  <2>1. r = [p EXCEPT ![n] = p[s[k]]]
    BY DEF n
  <2> QED BY <1>3, <2>1
<1>5. r \in Ptrs
  BY <1>3, <1>4 DEF Ptrs, Cells
<1>6. /\ u \in Seq(Task) /\ Len(u) = Len(s) - 1
      /\ \A i \in 1 .. Len(s) - 1 : u[i] = IF i < k THEN s[i] ELSE s[i + 1]
  BY <1>1, Removing
<1> HIDE DEF u
<1>7. ASSUME NEW i \in 1 .. Len(u), NEW j \in 1 .. Len(u), u[i] = u[j] PROVE i = j
  <2>1. /\ i \in 1 .. Len(s) - 1 /\ i \in 1 .. Len(s) /\ i + 1 \in 1 .. Len(s)
        /\ j \in 1 .. Len(s) - 1 /\ j \in 1 .. Len(s) /\ j + 1 \in 1 .. Len(s)
    BY <1>1, <1>6
  <2>2. (IF i < k THEN i ELSE i + 1) = (IF j < k THEN j ELSE j + 1)
    BY <1>1, <1>6, <1>7, <2>1
  <2> QED BY <1>1, <2>1, <2>2
<1>8. ASSUME NEW i \in 0 .. Len(u)
      PROVE  r[Node(q, u, i)] = IF i < Len(u) THEN u[i + 1] ELSE Nil
  <2>1. CASE i < k - 1
    <3>1. /\ i \in 0 .. Len(s) /\ i < Len(s) /\ i + 1 \in 1 .. Len(s) - 1 /\ i + 1 < k /\ i # k - 1 /\ i < Len(u)
          /\ i # 0 => i \in 1 .. Len(s) - 1 /\ i < k
      BY <1>1, <1>6, <2>1
    <3>2. Node(q, u, i) = Node(q, s, i)
      BY <1>6, <3>1 DEF Node
    <3>3. r[Node(q, s, i)] = p[Node(q, s, i)]
      BY <1>2, <1>4, <3>1
    <3> QED BY <1>1, <1>6, <3>1, <3>2, <3>3
  <2>2. CASE i = k - 1
    <3>1. /\ i # 0 => i \in 1 .. Len(s) - 1 /\ i < k
          /\ k \in 0 .. Len(s) /\ k # 0 /\ i + 1 = k
          /\ k < Len(s) <=> i < Len(u)
          /\ k < Len(s) => k \in 1 .. Len(s) - 1 /\ ~(k < k)
      BY <1>1, <1>6, <2>2
    <3>2. Node(q, u, i) = n
      BY <1>6, <2>2, <3>1 DEF Node, n
    <3>3. p[s[k]] = IF k < Len(s) THEN s[k + 1] ELSE Nil
      BY <1>1, <3>1 DEF Node
    <3> QED BY <1>4, <1>6, <3>1, <3>2, <3>3
  <2>3. CASE i > k - 1
    <3>1. /\ i \in 1 .. Len(s) - 1 /\ ~(i < k) /\ i # 0 /\ i + 1 # 0 /\ i + 1 # k - 1 /\ i + 1 \in 0 .. Len(s)
          /\ i < Len(u) <=> i + 1 < Len(s)
          /\ i < Len(u) => i + 1 \in 1 .. Len(s) - 1 /\ ~(i + 1 < k)
      BY <1>1, <1>6, <2>3
    <3>2. Node(q, u, i) = Node(q, s, i + 1)
      BY <1>6, <3>1 DEF Node
    <3>3. r[Node(q, s, i + 1)] = p[Node(q, s, i + 1)]
      BY <1>2, <1>4, <3>1
    <3>4. p[Node(q, s, i + 1)] = IF i + 1 < Len(s) THEN s[(i + 1) + 1] ELSE Nil
      BY <1>1, <3>1
    <3> QED BY <1>6, <3>1, <3>2, <3>3, <3>4
  <2> QED BY <1>1, <1>6, <2>1, <2>2, <2>3
<1>9. IsList(r, q, u)
  BY <1>6, <1>7, <1>8 DEF IsList
<1> QED BY <1>5, <1>9 DEF u

-----------------------------------------------------------------------------
(* The queues, all of which use the same link of a task.                   *)

\* The pointers p hold the queues qs, and a task is on one of them at most.
Linked(p, qs) ==
  /\ p \in Ptrs /\ qs \in [Queues -> Seq(Task)]
  /\ \A q \in Queues : IsList(p, q, qs[q])
  /\ \A q, r \in Queues : \A t \in Task : t \in Range(qs[q]) /\ t \in Range(qs[r]) => q = r

Enter(qs, q, t) == IF t \in Range(qs[q]) THEN qs ELSE [qs EXCEPT ![q] = Append(qs[q], t)]
Leave(qs, q, k) == [qs EXCEPT ![q] = RemovedAt(qs[q], k)]

LEMMA InRange ==
  ASSUME NEW s \in Seq(Task)
  PROVE  /\ \A t : t \in Range(s) <=> \E i \in 1 .. Len(s) : s[i] = t
         /\ \A i \in 1 .. Len(s) : s[i] \in Range(s) /\ s[i] \in Task
         /\ \A t \in Range(s) : t \in Task
BY Tasks

LEMMA RangeAppended ==
  ASSUME NEW s \in Seq(Task), NEW t \in Task
  PROVE  Append(s, t) \in Seq(Task) /\ \A u : u \in Range(Append(s, t)) <=> u \in Range(s) \/ u = t
<1> DEFINE a == Append(s, t)
<1>1. Len(s) \in Nat
  BY Tasks
<1>2. /\ a \in Seq(Task) /\ Len(a) = Len(s) + 1 /\ a[Len(s) + 1] = t
      /\ \A i \in 1 .. Len(s) : a[i] = s[i]
  BY <1>1
<1> HIDE DEF a
<1>3. ASSUME NEW u PROVE (\E i \in 1 .. Len(a) : a[i] = u) <=> (\E i \in 1 .. Len(s) : s[i] = u) \/ u = t
  <2>1. \A i \in 1 .. Len(a) : i \in 1 .. Len(s) \/ i = Len(s) + 1
    BY <1>1, <1>2
  <2>2. /\ \A i \in 1 .. Len(s) : i \in 1 .. Len(a)
        /\ Len(s) + 1 \in 1 .. Len(a)
    BY <1>1, <1>2
  <2> QED BY <1>2, <2>1, <2>2
<1> QED BY <1>2, <1>3, InRange DEF a

LEMMA RangeRemoved ==
  ASSUME NEW s \in Seq(Task), \A i, j \in 1 .. Len(s) : s[i] = s[j] => i = j, NEW k \in 1 .. Len(s)
  PROVE  RemovedAt(s, k) \in Seq(Task) /\ \A u : u \in Range(RemovedAt(s, k)) <=> u \in Range(s) /\ u # s[k]
<1> DEFINE a == RemovedAt(s, k)
<1>1. Len(s) \in Nat
  BY Tasks
<1>2. /\ a \in Seq(Task) /\ Len(a) = Len(s) - 1
      /\ \A i \in 1 .. Len(s) - 1 : a[i] = IF i < k THEN s[i] ELSE s[i + 1]
  BY Removing
<1> HIDE DEF a
<1>3. ASSUME NEW u, NEW i \in 1 .. Len(a), a[i] = u PROVE (\E j \in 1 .. Len(s) : s[j] = u) /\ u # s[k]
  <2>1. /\ i \in 1 .. Len(s) - 1 /\ i \in 1 .. Len(s) /\ i + 1 \in 1 .. Len(s)
        /\ IF i < k THEN i # k ELSE i + 1 # k
    BY <1>1, <1>2
  <2> QED BY <1>2, <1>3, <2>1
<1>4. ASSUME NEW u, NEW j \in 1 .. Len(s), s[j] = u, u # s[k] PROVE \E i \in 1 .. Len(a) : a[i] = u
  <2>1. CASE j < k
    <3>1. j \in 1 .. Len(s) - 1 /\ j \in 1 .. Len(a)
      BY <1>1, <1>2, <2>1
    <3> QED BY <1>2, <1>4, <2>1, <3>1
  <2>2. CASE ~(j < k)
    <3>1. j - 1 \in 1 .. Len(s) - 1 /\ j - 1 \in 1 .. Len(a) /\ ~(j - 1 < k) /\ (j - 1) + 1 = j
      BY <1>1, <1>2, <1>4, <2>2
    <3> QED BY <1>2, <1>4, <3>1
  <2> QED BY <2>1, <2>2
<1> QED BY <1>2, <1>3, <1>4, InRange, ZenonT(40) DEF a

LEMMA FollowQueues ==
  ASSUME NEW p, NEW qs, Linked(p, qs)
  PROVE  /\ [q \in Queues |-> Follow(p, q)] = qs
         /\ \A q \in Queues : Follow(p, q) = qs[q]
<1>1. \A q \in Queues : Follow(p, q) = qs[q]
  BY FollowIs DEF Linked
<1>2. qs = [q \in Queues |-> qs[q]]
  BY DEF Linked
<1> QED BY <1>1, <1>2

LEMMA LastNode ==
  ASSUME NEW q, NEW s \in Seq(Task)
  PROVE  LastCell(q, s) = Node(q, s, Len(s))
<1>1. s = << >> <=> Len(s) = 0
  BY EmptySeq
<1> QED BY <1>1 DEF LastCell, Node

\* A cell of one queue is not a cell of another one.
LEMMA CellsDiffer ==
  ASSUME NEW p, NEW qs, Linked(p, qs), NEW q \in Queues, NEW r \in Queues, q # r,
         NEW i \in 0 .. Len(qs[q])
  PROVE  /\ Node(q, qs[q], i) # r
         /\ \A j \in 1 .. Len(qs[r]) : Node(q, qs[q], i) # qs[r][j]
<1>1. qs[q] \in Seq(Task) /\ qs[r] \in Seq(Task)
  BY DEF Linked
<1>2. i # 0 => i \in 1 .. Len(qs[q])
  BY <1>1, Tasks
<1>3. CASE i = 0
  BY <1>1, <1>3, InRange, Apart DEF Node
<1>4. CASE i # 0
  <2>1. Node(q, qs[q], i) \in Range(qs[q]) /\ Node(q, qs[q], i) \in Task
    BY <1>1, <1>2, <1>4, InRange DEF Node
  <2>2. \A j \in 1 .. Len(qs[r]) : qs[r][j] \in Range(qs[r])
    BY <1>1, InRange
  <2> QED BY <2>1, <2>2, Apart DEF Linked
<1> QED BY <1>3, <1>4

\* queue_append of a task that is on no other queue.
LEMMA LinkedEnter ==
  ASSUME NEW p, NEW qs, Linked(p, qs), NEW q \in Queues, NEW t \in Task,
         \A r \in Queues : r # q => t \notin Range(qs[r])
  PROVE  Linked(QueueAppend(p, q, t), Enter(qs, q, t))
<1> DEFINE s == qs[q]
           n == Node(q, s, Len(s))
           a == QueueAppend(p, q, t)
           e == Enter(qs, q, t)
<1>1. /\ p \in Ptrs /\ qs \in [Queues -> Seq(Task)] /\ s \in Seq(Task) /\ IsList(p, q, s)
      /\ \A r \in Queues : qs[r] \in Seq(Task) /\ IsList(p, r, qs[r])
      /\ \A r, w \in Queues : \A x \in Task : x \in Range(qs[r]) /\ x \in Range(qs[w]) => r = w
  BY DEF Linked
<1>2. a = IF t \in Range(s) THEN p ELSE [p EXCEPT ![n] = t, ![t] = Nil]
  BY <1>1, FollowQueues, LastNode DEF QueueAppend
<1>3. e = IF t \in Range(s) THEN qs ELSE [qs EXCEPT ![q] = Append(s, t)]
  BY DEF Enter
<1>4. CASE t \in Range(s)
  BY <1>2, <1>3, <1>4
<1>5. CASE t \notin Range(s)
  <2>1. Len(s) \in Nat /\ Len(s) \in 0 .. Len(s)
    BY <1>1, Tasks
  <2>2. \A i \in 1 .. Len(s) : s[i] # t
    BY <1>1, <1>5, InRange
  <2>3. a = [p EXCEPT ![n] = t, ![t] = Nil]
    BY <1>2, <1>5
  <2>4. IsList(a, q, Append(s, t)) /\ a \in Ptrs
    BY <1>1, <2>2, <2>3, ListAppended
  <2>5. /\ e \in [Queues -> Seq(Task)] /\ e[q] = Append(s, t)
        /\ \A r \in Queues : r # q => e[r] = qs[r]
    BY <1>1, <1>3, <1>5, RangeAppended
  <2> HIDE DEF a, e
  <2>6. ASSUME NEW c \in Cells, c # n, c # t PROVE a[c] = p[c]
    <3>1. p \in [Cells -> Task \cup {Nil}]
      BY <1>1 DEF Ptrs
    <3> HIDE DEF n
    <3> QED BY <2>3, <2>6, <3>1
  <2>7. ASSUME NEW r \in Queues, r # q PROVE IsList(a, r, qs[r])
    <3>1. n # r /\ \A j \in 1 .. Len(qs[r]) : n # qs[r][j]
      BY <2>1, <2>7, CellsDiffer
    <3>2. r \in Cells /\ r # t /\ \A j \in 1 .. Len(qs[r]) : qs[r][j] \in Cells /\ qs[r][j] # t
      BY <1>1, <2>7, InRange, Apart DEF Cells
    <3>3. a[r] = p[r] /\ \A j \in 1 .. Len(qs[r]) : a[qs[r][j]] = p[qs[r][j]]
      BY <2>6, <3>1, <3>2
    <3> QED BY <1>1, <3>3, ListKept
  <2>8. ASSUME NEW r \in Queues PROVE IsList(a, r, e[r])
    BY <2>4, <2>5, <2>7
  <2>9. ASSUME NEW r \in Queues, NEW x \in Task, x \in Range(e[r])
        PROVE  x \in Range(qs[r]) \/ (r = q /\ x = t)
    BY <1>1, <2>5, <2>9, RangeAppended
  <2>10. ASSUME NEW r \in Queues, NEW w \in Queues, NEW x \in Task, x \in Range(e[r]), x \in Range(e[w])
         PROVE  r = w
    <3>1. (x \in Range(qs[r]) \/ (r = q /\ x = t)) /\ (x \in Range(qs[w]) \/ (w = q /\ x = t))
      BY <2>9, <2>10
    <3> QED BY <1>1, <3>1
  <2>11. Linked(a, e)
    BY <2>4, <2>5, <2>8, <2>10 DEF Linked
  <2> QED BY <2>11 DEF a, e
<1> QED BY <1>4, <1>5

\* What is on the queues when the k-th task has left one.
LEMMA LeaveRange ==
  ASSUME NEW p, NEW qs, Linked(p, qs), NEW q \in Queues, NEW k \in 1 .. Len(qs[q])
  PROVE  /\ qs[q][k] \in Task /\ qs[q][k] \in Range(qs[q])
         /\ Leave(qs, q, k) \in [Queues -> Seq(Task)]
         /\ \A r \in Queues, x \in Task :
              x \in Range(Leave(qs, q, k)[r]) <=> x \in Range(qs[r]) /\ x # qs[q][k]
<1> DEFINE s == qs[q]
           e == Leave(qs, q, k)
<1>1. /\ qs \in [Queues -> Seq(Task)] /\ s \in Seq(Task)
      /\ \A r, w \in Queues : \A x \in Task : x \in Range(qs[r]) /\ x \in Range(qs[w]) => r = w
  BY DEF Linked
<1>2. /\ s[k] \in Task /\ s[k] \in Range(s)
      /\ \A i, j \in 1 .. Len(s) : s[i] = s[j] => i = j
  BY <1>1, InRange DEF Linked, IsList
<1>3. /\ e \in [Queues -> Seq(Task)] /\ e[q] = RemovedAt(s, k)
      /\ \A r \in Queues : r # q => e[r] = qs[r]
  BY <1>1, <1>2, RangeRemoved DEF Leave
<1> HIDE DEF e
<1>4. ASSUME NEW r \in Queues, NEW x \in Task
      PROVE  x \in Range(e[r]) <=> x \in Range(qs[r]) /\ x # s[k]
  <2>1. CASE r = q
    BY <1>1, <1>2, <1>3, <2>1, RangeRemoved
  <2>2. CASE r # q
    BY <1>1, <1>2, <1>3, <2>2
  <2> QED BY <2>1, <2>2
<1> QED BY <1>2, <1>3, <1>4 DEF e

\* The pointer to the k-th task of a queue is set to what comes behind the task.
LEMMA LinkedLeave ==
  ASSUME NEW p, NEW qs, Linked(p, qs), NEW q \in Queues, NEW k \in 1 .. Len(qs[q])
  PROVE  Linked([p EXCEPT ![Node(q, qs[q], k - 1)] = p[qs[q][k]]], Leave(qs, q, k))
<1> DEFINE s == qs[q]
           n == Node(q, s, k - 1)
           a == [p EXCEPT ![n] = p[s[k]]]
           e == Leave(qs, q, k)
<1>1. /\ p \in Ptrs /\ qs \in [Queues -> Seq(Task)] /\ s \in Seq(Task) /\ IsList(p, q, s)
      /\ \A r \in Queues : qs[r] \in Seq(Task) /\ IsList(p, r, qs[r])
      /\ \A r, w \in Queues : \A x \in Task : x \in Range(qs[r]) /\ x \in Range(qs[w]) => r = w
  BY DEF Linked
<1>2. Len(s) \in Nat /\ k - 1 \in 0 .. Len(s)
  BY <1>1, Tasks
<1>3. IsList(a, q, RemovedAt(s, k)) /\ a \in Ptrs
  BY <1>1, ListUnlinked
<1>4. /\ e \in [Queues -> Seq(Task)]
      /\ \A r \in Queues, x \in Task : x \in Range(e[r]) <=> x \in Range(qs[r]) /\ x # s[k]
  BY LeaveRange
<1>5. e[q] = RemovedAt(s, k) /\ \A r \in Queues : r # q => e[r] = qs[r]
  BY <1>1 DEF Leave
<1>6. ASSUME NEW c \in Cells, c # n PROVE a[c] = p[c]
  BY <1>1, <1>6 DEF Ptrs
<1> HIDE DEF e, a
<1>7. ASSUME NEW r \in Queues, r # q PROVE IsList(a, r, qs[r])
  <2>1. n # r /\ \A j \in 1 .. Len(qs[r]) : n # qs[r][j]
    BY <1>2, <1>7, CellsDiffer
  <2>2. r \in Cells /\ \A j \in 1 .. Len(qs[r]) : qs[r][j] \in Cells
    BY <1>1, InRange DEF Cells
  <2>3. a[r] = p[r] /\ \A j \in 1 .. Len(qs[r]) : a[qs[r][j]] = p[qs[r][j]]
    BY <1>6, <2>1, <2>2
  <2> QED BY <1>1, <2>3, ListKept
<1>8. ASSUME NEW r \in Queues PROVE IsList(a, r, e[r])
  BY <1>3, <1>5, <1>7
<1>9. Linked(a, e)
  BY <1>1, <1>3, <1>4, <1>8 DEF Linked
<1> QED BY <1>9 DEF a, e

LEMMA EnterRange ==
  ASSUME NEW qs \in [Queues -> Seq(Task)], NEW q \in Queues, NEW t \in Task
  PROVE  \A r \in Queues, x \in Task :
           x \in Range(Enter(qs, q, t)[r]) <=> x \in Range(qs[r]) \/ (r = q /\ x = t)
<1> DEFINE e == Enter(qs, q, t)
<1>1. CASE t \in Range(qs[q])
  BY <1>1 DEF Enter
<1>2. CASE t \notin Range(qs[q])
  <2>1. e[q] = Append(qs[q], t) /\ \A r \in Queues : r # q => e[r] = qs[r]
    BY <1>2 DEF Enter
  <2> HIDE DEF e
  <2>2. ASSUME NEW r \in Queues, NEW x \in Task
        PROVE  x \in Range(e[r]) <=> x \in Range(qs[r]) \/ (r = q /\ x = t)
    BY <2>1, RangeAppended
  <2> QED BY <2>2 DEF e
<1> QED BY <1>1, <1>2

LEMMA HeadIs ==
  ASSUME NEW p, NEW qs, Linked(p, qs), NEW q \in Queues
  PROVE  /\ p[q] = Nil <=> qs[q] = << >>
         /\ p[q] # Nil => 1 \in 1 .. Len(qs[q]) /\ p[q] = qs[q][1] /\ Node(q, qs[q], 0) = q
<1> DEFINE s == qs[q]
<1>1. Len(s) \in Nat /\ s \in Seq(Task) /\ \A i \in 1 .. Len(s) : s[i] \in Task
  BY Tasks DEF Linked
<1>2. p[Node(q, s, 0)] = IF 0 < Len(s) THEN s[0 + 1] ELSE Nil
  BY <1>1 DEF Linked, IsList
<1>3. Node(q, s, 0) = q /\ 0 + 1 = 1
  BY DEF Node
<1>4. CASE Len(s) = 0
  BY <1>1, <1>2, <1>3, <1>4
<1>5. CASE Len(s) # 0
  <2>1. 0 < Len(s) /\ 1 \in 1 .. Len(s) /\ s # << >>
    BY <1>1, <1>5
  <2> QED BY <1>1, <1>2, <1>3, <2>1, Apart
<1> QED BY <1>4, <1>5

\* The pointer that vcpu_remove_from_runqueue looks for is the one before the task.
LEMMA PointsTo ==
  ASSUME NEW p, NEW q, NEW s, IsList(p, q, s), NEW k \in 1 .. Len(s)
  PROVE  (CHOOSE c \in {q} \cup Range(s) : p[c] = s[k]) = Node(q, s, k - 1)
<1>1. /\ Len(s) \in Nat /\ s \in Seq(Task) /\ \A i \in 1 .. Len(s) : s[i] \in Task
      /\ \A i, j \in 1 .. Len(s) : s[i] = s[j] => i = j
      /\ \A i \in 0 .. Len(s) : p[Node(q, s, i)] = IF i < Len(s) THEN s[i + 1] ELSE Nil
  BY Tasks DEF IsList
<1>2. /\ k - 1 \in 0 .. Len(s) /\ k - 1 < Len(s) /\ (k - 1) + 1 = k
      /\ k - 1 # 0 => k - 1 \in 1 .. Len(s)
  BY <1>1
<1>3. Node(q, s, k - 1) \in {q} \cup Range(s) /\ p[Node(q, s, k - 1)] = s[k]
  BY <1>1, <1>2, InRange DEF Node
<1>4. ASSUME NEW c \in {q} \cup Range(s), p[c] = s[k] PROVE c = Node(q, s, k - 1)
  <2>1. PICK i \in 0 .. Len(s) : c = Node(q, s, i)
    <3>1. CASE c = q
      <4>1. 0 \in 0 .. Len(s)
        BY <1>1
      <4> QED BY <3>1, <4>1 DEF Node
    <3>2. CASE c \in Range(s)
      <4>1. PICK i \in 1 .. Len(s) : s[i] = c
        BY <1>1, <3>2, InRange
      <4>2. i \in 0 .. Len(s) /\ i # 0
        BY <1>1
      <4> QED BY <4>1, <4>2 DEF Node
    <3> QED BY <3>1, <3>2
  <2>2. i < Len(s) /\ s[i + 1] = s[k]
    BY <1>1, <1>4, <2>1, Apart
  <2>3. i + 1 \in 1 .. Len(s)
    BY <1>1, <2>2
  <2>4. i + 1 = k
    BY <1>1, <2>2, <2>3
  <2>5. i = k - 1
    BY <1>1, <2>3, <2>4
  <2> QED BY <2>1, <2>5
<1> HIDE DEF Node
<1> QED BY <1>3, <1>4

\* What schedule() does to the queues qs that a handler has left.
DispatchTo(v, qs) ==
  \/ /\ qs[Run(v)] = << >> /\ queue' = qs
     /\ current' = [current EXCEPT ![v] = Nil] /\ tr' = tr
  \/ \E k \in 1 .. Len(qs[Run(v)]) :
       /\ queue' = Leave(qs, Run(v), k)
       /\ current' = [current EXCEPT ![v] = qs[Run(v)][k]]
       /\ tr' = [tr EXCEPT ![v] = qs[Run(v)][k]]

LEMMA Dispatched ==
  ASSUME NEW p, NEW qs, Linked(p, qs), NEW v \in Vcpu, NEW expired, Dispatch(v, p, expired),
         queue' = [q \in Queues |-> Follow(ptr', q)]
  PROVE  Linked(ptr', queue') /\ DispatchTo(v, qs)
<1> DEFINE q == Run(v)
           s == qs[q]
<1>1. q \in Queues
  BY Apart
<1>2. /\ s \in Seq(Task) /\ Follow(p, q) = s /\ IsList(p, q, s)
  BY <1>1, FollowQueues DEF Linked
<1>3. CASE p[q] = Nil
  <2>1. ptr' = p /\ current' = [current EXCEPT ![v] = Nil] /\ tr' = tr
    BY <1>3 DEF Dispatch
  <2>2. queue' = qs /\ s = << >>
    BY <1>1, <1>3, <2>1, FollowQueues, HeadIs
  <2> QED BY <2>1, <2>2 DEF DispatchTo
<1>4. CASE p[q] # Nil
  <2> DEFINE t == Selected(v, p, expired)
  <2>1. /\ ptr' = IF t = p[q] THEN QueueRemoveHead(p, q) ELSE RemoveFromRunqueue(p, q, t)
        /\ current' = [current EXCEPT ![v] = t] /\ tr' = [tr EXCEPT ![v] = t]
    BY <1>4 DEF Dispatch
  <2>2. 1 \in 1 .. Len(s) /\ p[q] = s[1] /\ Node(q, s, 0) = q
    BY <1>1, <1>4, HeadIs
  <2>3. t = p[q] \/ t \in Range(s)
    BY <1>2 DEF Selected
  <2> HIDE DEF t, q
  <2>4. \E k \in 1 .. Len(s) : t = s[k] /\ ptr' = [p EXCEPT ![Node(q, s, k - 1)] = p[s[k]]]
    <3>1. CASE t = p[q]
      <4>1. ptr' = [p EXCEPT ![q] = p[p[q]]] /\ 1 - 1 = 0
        BY <2>1, <3>1 DEF QueueRemoveHead
      <4>2. ptr' = [p EXCEPT ![Node(q, s, 1 - 1)] = p[s[1]]]
        BY <2>2, <4>1
      <4> QED BY <2>2, <3>1, <4>2
    <3>2. CASE t # p[q]
      <4>1. PICK k \in 1 .. Len(s) : s[k] = t
        BY <1>2, <2>3, <3>2, InRange
      <4>2. ptr' = [p EXCEPT ![CHOOSE c \in {q} \cup Range(s) : p[c] = t] = p[t]]
        BY <1>2, <2>1, <3>2 DEF RemoveFromRunqueue
      <4>3. (CHOOSE c \in {q} \cup Range(s) : p[c] = s[k]) = Node(q, s, k - 1)
        BY <1>2, PointsTo
      <4> QED BY <4>1, <4>2, <4>3
    <3> QED BY <3>1, <3>2
  <2>5. PICK k \in 1 .. Len(s) : t = s[k] /\ ptr' = [p EXCEPT ![Node(q, s, k - 1)] = p[s[k]]]
    BY <2>4
  <2>6. Linked(ptr', Leave(qs, q, k))
    <3>1. k \in 1 .. Len(qs[q]) /\ q \in Queues
      BY <1>1, <2>5
    <3>2. Linked([p EXCEPT ![Node(q, qs[q], k - 1)] = p[qs[q][k]]], Leave(qs, q, k))
      BY <3>1, LinkedLeave
    <3> QED BY <2>5, <3>2
  <2>7. queue' = Leave(qs, q, k)
    BY <2>6, FollowQueues
  <2> QED BY <2>1, <2>5, <2>6, <2>7 DEF DispatchTo, q
<1> QED BY <1>3, <1>4

-----------------------------------------------------------------------------
(* Where a task may be.                                                    *)

MayBeOn(q, t, lv, cp) ==
  q = Run(cp[t]) \/ (t \notin Bh /\ (q = Sleep \/ \E pid \in lv : q = Wait(pid)))

\* The tasks lv that exist, on the queues qs or executing as cur says; one task may be
\* loose, on its way from one place to another.
Owned(qs, lv, cp, cur, loose) ==
  /\ \A q \in Queues, t \in Task : t \in Range(qs[q]) => t \in lv /\ MayBeOn(q, t, lv, cp)
  /\ \A v \in Vcpu : cur[v] # Nil =>
       /\ cur[v] \in lv /\ cp[cur[v]] = v
       /\ cur[v] \notin Bh => \A q \in Queues : cur[v] \notin Range(qs[q])
  /\ \A t \in lv \ Bh : \/ t = loose
                        \/ \E q \in Queues : t \in Range(qs[q])
                        \/ \E v \in Vcpu : cur[v] = t

\* The task that VCPU v executes stops.
LEMMA OwnedStop ==
  ASSUME NEW qs, NEW lv, NEW cp, NEW cur \in [Vcpu -> Task \cup {Nil}], NEW v \in Vcpu,
         Owned(qs, lv, cp, cur, Nil), lv \subseteq Task
  PROVE  /\ Owned(qs, lv, cp, [cur EXCEPT ![v] = Nil], cur[v])
         /\ cur[v] # Nil => \A w \in Vcpu : [cur EXCEPT ![v] = Nil][w] # cur[v]
         /\ cur[v] \notin Task \ Bh => Owned(qs, lv, cp, [cur EXCEPT ![v] = Nil], Nil)
<1> DEFINE c == [cur EXCEPT ![v] = Nil]
<1>1. c[v] = Nil /\ \A w \in Vcpu : w # v => c[w] = cur[w]
  OBVIOUS
<1> HIDE DEF c
<1>2. \A w \in Vcpu : c[w] # Nil => c[w] = cur[w] /\ w # v
  BY <1>1
<1>3. \A w \in Vcpu : c[w] # Nil =>
        /\ c[w] \in lv /\ cp[c[w]] = w
        /\ c[w] \notin Bh => \A q \in Queues : c[w] \notin Range(qs[q])
  BY <1>2 DEF Owned
<1>4. \A t \in lv \ Bh : \/ t = cur[v] \/ t = Nil
                         \/ \E q \in Queues : t \in Range(qs[q])
                         \/ \E w \in Vcpu : c[w] = t
  BY <1>1 DEF Owned
<1>5. cur[v] # Nil => \A w \in Vcpu : c[w] # cur[v]
  BY <1>2 DEF Owned
<1>6. Owned(qs, lv, cp, c, cur[v])
  BY <1>3, <1>4, Apart DEF Owned
<1>7. ASSUME cur[v] \notin Task \ Bh PROVE Owned(qs, lv, cp, c, Nil)
  BY <1>3, <1>4, <1>7, Apart DEF Owned
<1> QED BY <1>5, <1>6, <1>7 DEF c

\* A task goes to a queue where it may be.
LEMMA OwnedEnter ==
  ASSUME NEW qs \in [Queues -> Seq(Task)], NEW lv, NEW cp, NEW cur, NEW loose,
         Owned(qs, lv, cp, cur, loose), NEW q \in Queues, NEW t \in Task,
         t \in lv, MayBeOn(q, t, lv, cp), loose = Nil \/ loose = t,
         t \notin Bh => \A v \in Vcpu : cur[v] # t, lv \subseteq Task
  PROVE  Owned(Enter(qs, q, t), lv, cp, cur, Nil)
<1> DEFINE e == Enter(qs, q, t)
<1>1. \A r \in Queues, x \in Task : x \in Range(e[r]) <=> x \in Range(qs[r]) \/ (r = q /\ x = t)
  BY EnterRange
<1> HIDE DEF e
<1>2. \A r \in Queues, x \in Task : x \in Range(e[r]) => x \in lv /\ MayBeOn(r, x, lv, cp)
  BY <1>1 DEF Owned
<1>3. ASSUME NEW v \in Vcpu, cur[v] # Nil
      PROVE  /\ cur[v] \in lv /\ cp[cur[v]] = v
             /\ cur[v] \notin Bh => \A r \in Queues : cur[v] \notin Range(e[r])
  BY <1>1, <1>3 DEF Owned
<1>4. ASSUME NEW x \in lv \ Bh
      PROVE  (\E r \in Queues : x \in Range(e[r])) \/ (\E v \in Vcpu : cur[v] = x)
  <2>1. \/ x = loose \/ (\E r \in Queues : x \in Range(qs[r])) \/ \E v \in Vcpu : cur[v] = x
    BY DEF Owned
  <2>2. x \in Task /\ x # Nil
    BY Apart
  <2> QED BY <1>1, <2>1, <2>2
<1>5. Owned(e, lv, cp, cur, Nil)
  BY <1>2, <1>3, <1>4 DEF Owned
<1> QED BY <1>5 DEF e

\* A task leaves its queue.
LEMMA OwnedLeave ==
  ASSUME NEW p, NEW qs, Linked(p, qs), NEW lv, NEW cp, NEW cur,
         Owned(qs, lv, cp, cur, Nil), NEW q \in Queues, NEW k \in 1 .. Len(qs[q]), lv \subseteq Task
  PROVE  /\ Owned(Leave(qs, q, k), lv, cp, cur, qs[q][k])
         /\ qs[q][k] \in lv /\ MayBeOn(q, qs[q][k], lv, cp)
         /\ qs[q][k] \notin Bh => \A v \in Vcpu : cur[v] # qs[q][k]
<1> DEFINE e == Leave(qs, q, k)
           t == qs[q][k]
<1>1. qs[q] \in Seq(Task)
  BY DEF Linked
<1>2. t \in Task /\ t \in Range(qs[q]) /\ t # Nil
  BY <1>1, InRange, Apart
<1>3. \A r \in Queues, x \in Task : x \in Range(e[r]) <=> x \in Range(qs[r]) /\ x # t
  BY LeaveRange
<1> HIDE DEF e, t
<1>4. t \in lv /\ MayBeOn(q, t, lv, cp)
  BY <1>2 DEF Owned
<1>5. \A r \in Queues, x \in Task : x \in Range(e[r]) => x \in lv /\ MayBeOn(r, x, lv, cp)
  BY <1>3 DEF Owned
<1>6. ASSUME NEW v \in Vcpu, cur[v] # Nil
      PROVE  /\ cur[v] \in lv /\ cp[cur[v]] = v
             /\ cur[v] \notin Bh => \A r \in Queues : cur[v] \notin Range(e[r])
  BY <1>3, <1>6 DEF Owned
<1>7. ASSUME NEW x \in lv \ Bh
      PROVE  x = t \/ (\E r \in Queues : x \in Range(e[r])) \/ (\E v \in Vcpu : cur[v] = x)
  BY <1>3, Apart DEF Owned
<1>8. Owned(e, lv, cp, cur, t)
  BY <1>5, <1>6, <1>7 DEF Owned
<1>9. t \notin Bh => \A v \in Vcpu : cur[v] # t
  BY <1>2 DEF Owned
<1> QED BY <1>4, <1>8, <1>9 DEF e, t

\* A VCPU that executes nothing executes a task of its run queue.
LEMMA OwnedStart ==
  ASSUME NEW p, NEW qs, Linked(p, qs), NEW lv, NEW cp \in [Task -> Vcpu],
         NEW cur \in [Vcpu -> Task \cup {Nil}], Owned(qs, lv, cp, cur, Nil), lv \subseteq Task,
         NEW v \in Vcpu, cur[v] = Nil, NEW k \in 1 .. Len(qs[Run(v)])
  PROVE  Owned(Leave(qs, Run(v), k), lv, cp, [cur EXCEPT ![v] = qs[Run(v)][k]], Nil)
<1> DEFINE q == Run(v)
           e == Leave(qs, q, k)
           t == qs[q][k]
           c == [cur EXCEPT ![v] = t]
<1>1. q \in Queues /\ qs[q] \in Seq(Task)
  BY Apart DEF Linked
<1>2. t \in Task /\ t \in Range(qs[q]) /\ t # Nil
  BY <1>1, InRange, Apart
<1>3. \A r \in Queues, x \in Task : x \in Range(e[r]) <=> x \in Range(qs[r]) /\ x # t
  BY <1>1, LeaveRange
<1>4. Owned(e, lv, cp, cur, t) /\ t \in lv /\ MayBeOn(q, t, lv, cp)
  BY <1>1, OwnedLeave
<1>5. c[v] = t /\ \A w \in Vcpu : w # v => c[w] = cur[w]
  OBVIOUS
<1>6. cp[t] = v
  <2>1. cp[t] \in Vcpu
    BY <1>2
  <2> QED BY <1>4, <2>1, Apart DEF MayBeOn
<1> HIDE DEF e, t, c
<1>7. \A w \in Vcpu : c[w] # Nil =>
        /\ c[w] \in lv /\ cp[c[w]] = w
        /\ c[w] \notin Bh => \A r \in Queues : c[w] \notin Range(e[r])
  BY <1>2, <1>3, <1>4, <1>5, <1>6 DEF Owned
<1>8. \A x \in lv \ Bh : x = Nil \/ (\E r \in Queues : x \in Range(e[r])) \/ (\E w \in Vcpu : c[w] = x)
  BY <1>4, <1>5, Apart DEF Owned
<1>9. Owned(e, lv, cp, c, Nil)
  BY <1>4, <1>7, <1>8 DEF Owned
<1> QED BY <1>9 DEF e, c, t

-----------------------------------------------------------------------------
(* The inductive invariant.                                                *)

Loops == [in : {"no loop", "__exit", "process_sleepqueue"},
          at : Queues \cup Task \cup {Nil}, t : Task \cup {Nil}]

\* __exit runs for a task that executes; process_sleepqueue has the place and the task
\* of a sleeper.
LoopOK(lp, qs, cur) ==
  \/ lp = NoLoop
  \/ /\ lp.in = "__exit" /\ lp.t \in Task \ Bh /\ lp.at = Wait(lp.t)
     /\ \E v \in Vcpu : cur[v] = lp.t
  \/ /\ lp.in = "process_sleepqueue"
     /\ \E k \in 1 .. Len(qs[Sleep]) : lp.t = qs[Sleep][k] /\ lp.at = Node(Sleep, qs[Sleep], k - 1)

Types ==
  /\ Bh \subseteq live /\ live \subseteq Task /\ cpu \in [Task -> Vcpu]
  /\ current \in [Vcpu -> Task \cup {Nil}] /\ tr \in [Vcpu -> Task \cup {Nil}]
  /\ time \in [Task -> Nat] /\ loop \in Loops

LinkInv ==
  /\ Types /\ Linked(ptr, queue) /\ Owned(queue, live, cpu, current, Nil)
  /\ LoopOK(loop, queue, current)

\* The history variable is the queues that the pointers hold.
LEMMA QueueIs ==
  ASSUME NEW qs, Linked(ptr', qs), queue' = [q \in Queues |-> Follow(ptr', q)]
  PROVE  queue' = qs
BY FollowQueues

LEMMA SameNames ==
  /\ Lists!Sleep = Sleep /\ Lists!Queues = Queues
  /\ \A v : Lists!Run(v) = Run(v)
  /\ \A t : Lists!Wait(t) = Wait(t)
BY DEF Lists!Sleep, Sleep, Lists!Queues, Queues, Lists!Run, Run, Lists!Wait, Wait

LEMMA SameEnter ==
  ASSUME NEW qs \in [Queues -> Seq(Task)], NEW q \in Queues, NEW t
  PROVE  Lists!Enter(qs, q, t) = Enter(qs, q, t)
<1>1. Lists!TasksOf(qs[q]) = Range(qs[q])
  BY Tasks DEF Lists!TasksOf
<1> QED BY <1>1 DEF Lists!Enter, Enter

LEMMA SameLeave ==
  ASSUME NEW qs, NEW q, NEW k
  PROVE  [qs EXCEPT ![q] = Lists!Without(@, k)] = Leave(qs, q, k)
BY DEF Lists!Without, Leave, RemovedAt

LEMMA SameDispatch ==
  ASSUME NEW v, NEW qs, DispatchTo(v, qs)
  PROVE  Lists!Dispatch(v, qs)
<1>1. CASE qs[Run(v)] = << >> /\ queue' = qs /\ current' = [current EXCEPT ![v] = Nil]
  BY <1>1, SameNames DEF Lists!Dispatch
<1>2. CASE \E k \in 1 .. Len(qs[Run(v)]) :
             /\ queue' = Leave(qs, Run(v), k)
             /\ current' = [current EXCEPT ![v] = qs[Run(v)][k]]
  <2>1. PICK k \in 1 .. Len(qs[Run(v)]) :
             /\ queue' = Leave(qs, Run(v), k)
             /\ current' = [current EXCEPT ![v] = qs[Run(v)][k]]
    BY <1>2
  <2>2. queue' = [qs EXCEPT ![Run(v)] = Lists!Without(@, k)]
    BY <2>1, SameLeave
  <2> QED BY <2>1, <2>2, SameNames DEF Lists!Dispatch
<1> QED BY <1>1, <1>2 DEF DispatchTo

\* schedule(), when the task that v executed has found its place.
LEMMA DispatchInv ==
  ASSUME Types, NEW p, NEW qs, Linked(p, qs), NEW lv, lv \subseteq Task, NEW v \in Vcpu,
         Owned(qs, lv, cpu, [current EXCEPT ![v] = Nil], Nil), NEW expired,
         Dispatch(v, p, expired), queue' = [q \in Queues |-> Follow(ptr', q)]
  PROVE  /\ Linked(ptr', queue') /\ Owned(queue', lv, cpu, current', Nil)
         /\ current' \in [Vcpu -> Task \cup {Nil}] /\ tr' \in [Vcpu -> Task \cup {Nil}]
         /\ Lists!Dispatch(v, qs)
<1> DEFINE c == [current EXCEPT ![v] = Nil]
<1>1. Linked(ptr', queue') /\ DispatchTo(v, qs)
  BY Dispatched
<1>2. c \in [Vcpu -> Task \cup {Nil}] /\ c[v] = Nil /\ cpu \in [Task -> Vcpu]
  BY DEF Types
<1>3. Lists!Dispatch(v, qs)
  BY <1>1, SameDispatch
<1>4. CASE queue' = qs /\ current' = c /\ tr' = tr
  BY <1>1, <1>2, <1>3, <1>4 DEF Types
<1>5. ASSUME NEW k \in 1 .. Len(qs[Run(v)]), queue' = Leave(qs, Run(v), k),
             current' = [current EXCEPT ![v] = qs[Run(v)][k]], tr' = [tr EXCEPT ![v] = qs[Run(v)][k]]
      PROVE  /\ Owned(queue', lv, cpu, current', Nil)
             /\ current' \in [Vcpu -> Task \cup {Nil}] /\ tr' \in [Vcpu -> Task \cup {Nil}]
  <2>1. qs[Run(v)][k] \in Task
    BY Apart, LeaveRange
  <2>2. current' = [c EXCEPT ![v] = qs[Run(v)][k]]
    BY <1>5 DEF Types
  <2> HIDE DEF c
  <2>3. Owned(Leave(qs, Run(v), k), lv, cpu, [c EXCEPT ![v] = qs[Run(v)][k]], Nil)
    BY <1>2, OwnedStart DEF c
  <2>4. Owned(queue', lv, cpu, current', Nil)
    BY <1>5, <2>2, <2>3
  <2> QED BY <1>5, <2>1, <2>4 DEF Types
<1> QED BY <1>1, <1>3, <1>4, <1>5 DEF DispatchTo

\* The task that v executes goes to a queue where it may be.
LEMMA EnteredInv ==
  ASSUME LinkInv, NEW v \in Vcpu, NEW t, t = current[v], t # Nil, NEW q \in Queues,
         MayBeOn(q, t, live, cpu)
  PROVE  /\ Linked(QueueAppend(ptr, q, t), Enter(queue, q, t))
         /\ Owned(Enter(queue, q, t), live, cpu, [current EXCEPT ![v] = Nil], Nil)
         /\ Lists!Enter(queue, q, t) = Enter(queue, q, t)
<1> DEFINE c == [current EXCEPT ![v] = Nil]
<1>1. /\ current \in [Vcpu -> Task \cup {Nil}] /\ live \subseteq Task /\ cpu \in [Task -> Vcpu]
      /\ Owned(queue, live, cpu, current, Nil) /\ Linked(ptr, queue) /\ queue \in [Queues -> Seq(Task)]
  BY DEF LinkInv, Types, Linked
<1>2. t \in live /\ t \in Task
  BY <1>1 DEF Owned
<1>3. ASSUME NEW r \in Queues, r # q PROVE t \notin Range(queue[r])
  <2>1. CASE t \notin Bh
    BY <1>1, <2>1 DEF Owned
  <2>2. CASE t \in Bh
    BY <1>1, <1>2, <1>3, <2>2 DEF Owned, MayBeOn
  <2> QED BY <2>1, <2>2
<1>4. Linked(QueueAppend(ptr, q, t), Enter(queue, q, t))
  BY <1>1, <1>2, <1>3, LinkedEnter
<1>5. Owned(queue, live, cpu, c, t) /\ \A w \in Vcpu : c[w] # t
  BY <1>1, OwnedStop
<1> HIDE DEF c
<1>6. Owned(Enter(queue, q, t), live, cpu, c, Nil)
  BY <1>1, <1>2, <1>5, OwnedEnter
<1> QED BY <1>1, <1>4, <1>6, SameEnter DEF c

-----------------------------------------------------------------------------
(* Each step keeps the invariant and is a step of TaskQueues.              *)

LEMMA LinkStep ==
  ASSUME Linked(ptr', queue'), Owned(queue', live', cpu', current', Nil), Types',
         LoopOK(loop', queue', current')
  PROVE  LinkInv'
BY DEF LinkInv

LEMMA UsleepInv ==
  ASSUME LinkInv, loop = NoLoop, NEW v \in Vcpu, NEW d \in Durations, NEW expired \in BOOLEAN,
         Usleep(v, d, expired), queue' = [q \in Queues |-> Follow(ptr', q)]
  PROVE  LinkInv' /\ Lists!Leave(v)
<1> DEFINE t == current[v]
           p == QueueAppend(ptr, Sleep, t)
           qs == Enter(queue, Sleep, t)
<1>1. /\ t \in Task \ Bh /\ time' = [time EXCEPT ![t] = d] /\ Dispatch(v, p, expired)
      /\ live' = live /\ cpu' = cpu /\ loop' = loop
  BY DEF Usleep
<1>2. t # Nil /\ Sleep \in Queues /\ MayBeOn(Sleep, t, live, cpu) /\ d \in Nat
  BY <1>1, Apart, LinksAssumption DEF MayBeOn
<1>3. /\ Linked(p, qs) /\ Owned(qs, live, cpu, [current EXCEPT ![v] = Nil], Nil)
      /\ Lists!Enter(queue, Sleep, t) = qs
  BY <1>2, EnteredInv
<1>4. Types
  BY DEF LinkInv
<1> HIDE DEF p, qs
<1>5. /\ Linked(ptr', queue') /\ Owned(queue', live, cpu, current', Nil)
      /\ current' \in [Vcpu -> Task \cup {Nil}] /\ tr' \in [Vcpu -> Task \cup {Nil}]
      /\ Lists!Dispatch(v, qs)
  <2>1. live \subseteq Task
    BY <1>4 DEF Types
  <2> QED BY <1>1, <1>3, <1>4, <2>1, DispatchInv
<1>6. Types'
  BY <1>1, <1>2, <1>4, <1>5 DEF Types
<1>7. LinkInv'
  BY <1>1, <1>5, <1>6, LinkStep DEF LoopOK
<1>8. Lists!Leave(v)
  BY <1>1, <1>2, <1>3, <1>5, SameNames DEF Lists!Leave
<1> QED BY <1>7, <1>8

LEMMA WaitpidInv ==
  ASSUME LinkInv, loop = NoLoop, NEW v \in Vcpu, NEW pid \in Task, NEW expired \in BOOLEAN,
         Waitpid(v, pid, expired), queue' = [q \in Queues |-> Follow(ptr', q)]
  PROVE  LinkInv' /\ Lists!Leave(v)
<1> DEFINE t == current[v]
           p == QueueAppend(ptr, Wait(pid), t)
           qs == Enter(queue, Wait(pid), t)
<1>1. /\ t \in Task \ Bh /\ pid \in live /\ Dispatch(v, p, expired)
      /\ live' = live /\ cpu' = cpu /\ loop' = loop /\ time' = time
  BY DEF Waitpid
<1>2. t # Nil /\ Wait(pid) \in Queues /\ MayBeOn(Wait(pid), t, live, cpu)
  BY <1>1, Apart DEF MayBeOn
<1>3. /\ Linked(p, qs) /\ Owned(qs, live, cpu, [current EXCEPT ![v] = Nil], Nil)
      /\ Lists!Enter(queue, Wait(pid), t) = qs
  BY <1>2, EnteredInv
<1>4. Types
  BY DEF LinkInv
<1> HIDE DEF p, qs
<1>5. /\ Linked(ptr', queue') /\ Owned(queue', live, cpu, current', Nil)
      /\ current' \in [Vcpu -> Task \cup {Nil}] /\ tr' \in [Vcpu -> Task \cup {Nil}]
      /\ Lists!Dispatch(v, qs)
  <2>1. live \subseteq Task
    BY <1>4 DEF Types
  <2> QED BY <1>1, <1>3, <1>4, <2>1, DispatchInv
<1>6. Types'
  BY <1>1, <1>4, <1>5 DEF Types
<1>7. LinkInv'
  BY <1>1, <1>5, <1>6, LinkStep DEF LoopOK
<1>8. Lists!Leave(v)
  BY <1>1, <1>2, <1>3, <1>5, SameNames DEF Lists!Leave
<1> QED BY <1>7, <1>8

LEMMA YieldInv ==
  ASSUME LinkInv, loop = NoLoop, NEW v \in Vcpu, NEW expired \in BOOLEAN,
         Yield(v, expired), queue' = [q \in Queues |-> Follow(ptr', q)]
  PROVE  LinkInv' /\ Lists!Leave(v)
<1> DEFINE t == current[v]
           q == Run(cpu[t])
           p == QueueAppend(ptr, q, t)
           qs == Enter(queue, q, t)
<1>1. /\ t # Nil /\ Dispatch(v, p, expired)
      /\ live' = live /\ cpu' = cpu /\ loop' = loop /\ time' = time
  BY DEF Yield, Wakeup
<1>2. Types
  BY DEF LinkInv
<1>3. q \in Queues /\ MayBeOn(q, t, live, cpu)
  <2>1. cpu[t] \in Vcpu
    BY <1>1, <1>2 DEF Types
  <2> QED BY <2>1, Apart DEF MayBeOn
<1>4. /\ Linked(p, qs) /\ Owned(qs, live, cpu, [current EXCEPT ![v] = Nil], Nil)
      /\ Lists!Enter(queue, q, t) = qs
  BY <1>1, <1>3, EnteredInv
<1> HIDE DEF p, qs
<1>5. /\ Linked(ptr', queue') /\ Owned(queue', live, cpu, current', Nil)
      /\ current' \in [Vcpu -> Task \cup {Nil}] /\ tr' \in [Vcpu -> Task \cup {Nil}]
      /\ Lists!Dispatch(v, qs)
  <2>1. live \subseteq Task
    BY <1>2 DEF Types
  <2> QED BY <1>1, <1>2, <1>4, <2>1, DispatchInv
<1>6. Types'
  BY <1>1, <1>2, <1>5 DEF Types
<1>7. LinkInv'
  BY <1>1, <1>5, <1>6, LinkStep DEF LoopOK
<1>8. Lists!Leave(v)
  BY <1>1, <1>4, <1>5, SameNames DEF Lists!Leave, Lists!Wakeup
<1> QED BY <1>7, <1>8

\* A bottom half that has no more to do, or a VCPU that executes nothing.
LEMMA JustDispatchInv ==
  ASSUME LinkInv, loop = NoLoop, NEW v \in Vcpu, current[v] \notin Task \ Bh, NEW expired \in BOOLEAN,
         Dispatch(v, ptr, expired), live' = live, cpu' = cpu, time' = time, loop' = loop,
         queue' = [q \in Queues |-> Follow(ptr', q)]
  PROVE  LinkInv' /\ Lists!Dispatch(v, queue)
<1>1. Types /\ Linked(ptr, queue) /\ Owned(queue, live, cpu, current, Nil) /\ live \subseteq Task
  BY DEF LinkInv, Types
<1>2. Owned(queue, live, cpu, [current EXCEPT ![v] = Nil], Nil)
  BY <1>1, OwnedStop DEF Types
<1>3. /\ Linked(ptr', queue') /\ Owned(queue', live, cpu, current', Nil)
      /\ current' \in [Vcpu -> Task \cup {Nil}] /\ tr' \in [Vcpu -> Task \cup {Nil}]
      /\ Lists!Dispatch(v, queue)
  BY <1>1, <1>2, DispatchInv
<1>4. Types'
  BY <1>1, <1>3 DEF Types
<1> QED BY <1>3, <1>4, LinkStep DEF LoopOK

LEMMA JobCompletionInv ==
  ASSUME LinkInv, loop = NoLoop, NEW v \in Vcpu, NEW expired \in BOOLEAN,
         JobCompletion(v, expired), queue' = [q \in Queues |-> Follow(ptr', q)]
  PROVE  LinkInv' /\ Lists!Leave(v)
<1>1. /\ current[v] \in Bh /\ Dispatch(v, ptr, expired)
      /\ live' = live /\ cpu' = cpu /\ loop' = loop /\ time' = time
  BY DEF JobCompletion
<1>2. LinkInv' /\ Lists!Dispatch(v, queue)
  BY <1>1, JustDispatchInv
<1>3. current[v] # Nil
  BY <1>1, LinksAssumption
<1> QED BY <1>1, <1>2, <1>3 DEF Lists!Leave

LEMMA IdleScheduleInv ==
  ASSUME LinkInv, loop = NoLoop, NEW v \in Vcpu,
         IdleSchedule(v), queue' = [q \in Queues |-> Follow(ptr', q)]
  PROVE  LinkInv' /\ Lists!Resume(v)
<1>1. /\ current[v] = Nil
      /\ live' = live /\ cpu' = cpu /\ loop' = loop /\ time' = time
  BY DEF IdleSchedule
<1>2. PICK expired \in BOOLEAN : Dispatch(v, ptr, expired)
  BY DEF IdleSchedule
<1>3. LinkInv' /\ Lists!Dispatch(v, queue)
  BY <1>1, <1>2, Apart, JustDispatchInv
<1> QED BY <1>1, <1>3 DEF Lists!Resume

\* The links of a task that is on no queue are cleared.
LEMMA LinkedCleared ==
  ASSUME NEW p, NEW qs, Linked(p, qs), NEW t \in Task, \A q \in Queues : t \notin Range(qs[q]),
         qs[Wait(t)] = << >>
  PROVE  Linked([p EXCEPT ![t] = Nil, ![Wait(t)] = Nil], qs)
<1> DEFINE a == [p EXCEPT ![t] = Nil, ![Wait(t)] = Nil]
<1>1. /\ p \in [Cells -> Task \cup {Nil}] /\ p[Nil] = Nil /\ qs \in [Queues -> Seq(Task)]
      /\ \A q \in Queues : IsList(p, q, qs[q])
  BY DEF Linked, Ptrs
<1>2. Wait(t) \in Queues /\ p[Wait(t)] = Nil
  BY Apart, HeadIs
<1>3. /\ t \in Cells /\ Wait(t) \in Cells /\ Nil \in Cells /\ t # Nil /\ \A q \in Queues : q \in Cells /\ q # t
  BY <1>2, Apart DEF Cells
<1>4. /\ a \in [Cells -> Task \cup {Nil}]
      /\ \A x \in Cells : x # t => a[x] = p[x]
  BY <1>1, <1>2, <1>3
<1> HIDE DEF a
<1>5. a \in Ptrs
  BY <1>1, <1>3, <1>4 DEF Ptrs
<1>6. ASSUME NEW q \in Queues PROVE IsList(a, q, qs[q])
  <2>1. \A i \in 1 .. Len(qs[q]) : qs[q][i] \in Cells /\ qs[q][i] # t
    BY <1>1, InRange DEF Cells
  <2>2. a[q] = p[q] /\ \A i \in 1 .. Len(qs[q]) : a[qs[q][i]] = p[qs[q][i]]
    BY <1>3, <1>4, <2>1
  <2> QED BY <1>1, <2>2, ListKept
<1>7. Linked(a, qs)
  BY <1>5, <1>6 DEF Linked
<1> QED BY <1>7 DEF a

LEMMA ForkInv ==
  ASSUME LinkInv, loop = NoLoop, NEW v \in Vcpu, NEW child \in Task, NEW c \in Vcpu,
         Fork(v, child, c), queue' = [q \in Queues |-> Follow(ptr', q)]
  PROVE  LinkInv' /\ Lists!Create(child, c)
<1> DEFINE p == [ptr EXCEPT ![child] = Nil, ![Wait(child)] = Nil]
           qs == Enter(queue, Run(c), child)
           lv == live \cup {child}
           cp == [cpu EXCEPT ![child] = c]
<1>1. /\ child \notin live /\ live' = lv /\ cpu' = cp /\ ptr' = QueueAppend(p, Run(c), child)
      /\ time' = [time EXCEPT ![child] = 0] /\ current' = current /\ tr' = tr /\ loop' = loop
  BY DEF Fork
<1>2. /\ Types /\ Linked(ptr, queue) /\ Owned(queue, live, cpu, current, Nil)
      /\ queue \in [Queues -> Seq(Task)] /\ child \notin Bh /\ Run(c) \in Queues
      /\ lv \subseteq Task /\ cp \in [Task -> Vcpu] /\ cp[child] = c
      /\ \A t \in live : t # child /\ t \in Task /\ cp[t] = cpu[t]
  BY <1>1, Apart DEF LinkInv, Linked, Types
<1>3. \A q \in Queues : child \notin Range(queue[q])
  BY <1>1, <1>2 DEF Owned
<1>4. queue[Wait(child)] = << >>
  <2>1. Wait(child) \in Queues /\ queue[Wait(child)] \in Seq(Task)
    BY <1>2, Apart
  <2>2. ASSUME NEW t \in Task, t \in Range(queue[Wait(child)]) PROVE FALSE
    <3>1. t \in live /\ MayBeOn(Wait(child), t, live, cpu)
      BY <1>2, <2>1, <2>2 DEF Owned
    <3>2. cpu[t] \in Vcpu /\ \A pid \in live : pid \in Task /\ pid # child
      BY <1>2 DEF Types
    <3> QED BY <3>1, <3>2, Apart DEF MayBeOn
  <2>3. 1 \notin 1 .. Len(queue[Wait(child)])
    BY <2>1, <2>2, InRange
  <2> QED BY <1>2, <2>1, <2>3, HeadIs
<1>5. Linked(p, queue)
  BY <1>2, <1>3, <1>4, LinkedCleared
<1> HIDE DEF p, lv, cp
<1>6. Linked(ptr', qs)
  BY <1>1, <1>2, <1>3, <1>5, LinkedEnter
<1>7. Owned(queue, lv, cp, current, child)
  <2>1. ASSUME NEW q \in Queues, NEW t \in Task, t \in Range(queue[q])
        PROVE  t \in lv /\ MayBeOn(q, t, lv, cp)
    <3>1. t \in live /\ MayBeOn(q, t, live, cpu) /\ cp[t] = cpu[t]
      BY <1>2, <2>1 DEF Owned
    <3> QED BY <3>1 DEF MayBeOn, lv
  <2>2. \A w \in Vcpu : current[w] # Nil =>
          /\ current[w] \in lv /\ cp[current[w]] = w
          /\ current[w] \notin Bh => \A q \in Queues : current[w] \notin Range(queue[q])
    BY <1>2 DEF Owned, lv
  <2>3. \A t \in lv \ Bh : \/ t = child
                           \/ \E q \in Queues : t \in Range(queue[q])
                           \/ \E w \in Vcpu : current[w] = t
    <3>1. ASSUME NEW t \in lv \ Bh, t # child
          PROVE  (\E q \in Queues : t \in Range(queue[q])) \/ \E w \in Vcpu : current[w] = t
      <4>1. t \in live \ Bh /\ t # Nil
        BY <1>2, <3>1, Apart DEF lv
      <4> QED BY <1>2, <4>1 DEF Owned
    <3> QED BY <3>1
  <2> QED BY <2>1, <2>2, <2>3 DEF Owned
<1>8. child \in lv /\ MayBeOn(Run(c), child, lv, cp) /\ \A w \in Vcpu : current[w] # child
  BY <1>1, <1>2, Apart DEF MayBeOn, lv, Owned
<1>9. Owned(qs, lv, cp, current, Nil)
  BY <1>2, <1>7, <1>8, OwnedEnter
<1>10. queue' = qs
  BY <1>6, QueueIs
<1>11. Types'
  BY <1>1, <1>2 DEF Types, lv
<1>12. LinkInv'
  BY <1>1, <1>6, <1>9, <1>10, <1>11, LinkStep DEF LoopOK
<1>13. queue' = [queue EXCEPT ![Run(c)] = Append(@, child)]
  BY <1>2, <1>3, <1>10 DEF Enter
<1> QED BY <1>1, <1>12, <1>13, SameNames DEF Lists!Create, lv, cp

LEMMA InterruptInv ==
  ASSUME LinkInv, loop = NoLoop, NEW t \in Bh, Interrupt(t),
         queue' = [q \in Queues |-> Follow(ptr', q)]
  PROVE  LinkInv' /\ Lists!Wake
<1> DEFINE q == Run(cpu[t])
           qs == Enter(queue, q, t)
<1>1. /\ ptr' = QueueAppend(ptr, q, t) /\ live' = live /\ cpu' = cpu /\ current' = current
      /\ tr' = tr /\ time' = time /\ loop' = loop
  BY DEF Interrupt, Wakeup
<1>2. /\ Types /\ Linked(ptr, queue) /\ Owned(queue, live, cpu, current, Nil)
      /\ queue \in [Queues -> Seq(Task)] /\ t \in live /\ live \subseteq Task /\ t \in Task
  BY LinksAssumption DEF LinkInv, Linked, Types
<1>3. q \in Queues /\ MayBeOn(q, t, live, cpu)
  <2>1. cpu[t] \in Vcpu
    BY <1>2 DEF Types
  <2> QED BY <2>1, Apart DEF MayBeOn
<1>4. \A r \in Queues : r # q => t \notin Range(queue[r])
  BY <1>2 DEF Owned, MayBeOn
<1> HIDE DEF q
<1>5. Linked(ptr', qs)
  BY <1>1, <1>2, <1>3, <1>4, LinkedEnter
<1>6. Owned(qs, live, cpu, current, Nil)
  BY <1>2, <1>3, OwnedEnter
<1>7. queue' = qs
  BY <1>5, QueueIs
<1>8. Types'
  BY <1>1, <1>2 DEF Types
<1>9. LinkInv'
  BY <1>1, <1>5, <1>6, <1>7, <1>8, LinkStep DEF LoopOK
<1>10. queue' = Lists!Wakeup(queue, t)
  BY <1>2, <1>3, <1>7, SameEnter, SameNames DEF Lists!Wakeup, q
<1> QED BY <1>1, <1>9, <1>10 DEF Lists!Wake

LEMMA ExitInv ==
  ASSUME LinkInv, NEW v \in Vcpu, Exit(v), queue' = [q \in Queues |-> Follow(ptr', q)]
  PROVE  LinkInv' /\ UNCHANGED <<queue, live, cpu, current, time>>
<1> DEFINE t == current[v]
<1>1. /\ t \in Task \ Bh /\ loop' = [in |-> "__exit", at |-> Wait(t), t |-> t]
      /\ ptr' = ptr /\ live' = live /\ cpu' = cpu /\ current' = current /\ tr' = tr /\ time' = time
  BY DEF Exit
<1>2. Types /\ Linked(ptr, queue) /\ Owned(queue, live, cpu, current, Nil)
  BY DEF LinkInv
<1>3. Linked(ptr', queue)
  BY <1>1, <1>2
<1>4. queue' = queue
  BY <1>3, QueueIs
<1>5. loop' \in Loops
  BY <1>1, Apart DEF Loops
<1>6. Types'
  BY <1>1, <1>2, <1>5 DEF Types
<1>7. LoopOK(loop', queue', current')
  BY <1>1 DEF LoopOK
<1>8. LinkInv'
  BY <1>1, <1>2, <1>3, <1>4, <1>6, <1>7, LinkStep
<1> QED BY <1>1, <1>4, <1>8

Unlinked(p, q, s, k) == [p EXCEPT ![Node(q, s, k - 1)] = p[s[k]]]
Moved(q, k) == Enter(Leave(queue, q, k), Run(cpu[queue[q][k]]), queue[q][k])

\* wakeup of the k-th task of a queue, which leaves it.
LEMMA MovedInv ==
  ASSUME LinkInv, NEW q \in Queues, NEW k \in 1 .. Len(queue[q]), NEW t, t = queue[q][k]
  PROVE  /\ t \in Task /\ Linked(Unlinked(ptr, q, queue[q], k), Leave(queue, q, k))
         /\ Linked(QueueAppend(Unlinked(ptr, q, queue[q], k), Run(cpu[t]), t), Moved(q, k))
         /\ Owned(Moved(q, k), live, cpu, current, Nil)
         /\ Moved(q, k) = Lists!Wakeup([queue EXCEPT ![q] = Lists!Without(@, k)], t)
<1> DEFINE p == Unlinked(ptr, q, queue[q], k)
           qs == Moved(q, k)
           ls == Leave(queue, q, k)
           r == Run(cpu[t])
<1>1. /\ Types /\ Linked(ptr, queue) /\ Owned(queue, live, cpu, current, Nil) /\ live \subseteq Task
  BY DEF LinkInv, Types
<1>2. /\ t \in Task /\ ls \in [Queues -> Seq(Task)]
      /\ \A w \in Queues, x \in Task : x \in Range(ls[w]) <=> x \in Range(queue[w]) /\ x # t
  BY <1>1, LeaveRange
<1>3. Linked(p, ls)
  BY <1>1, LinkedLeave DEF Unlinked
<1>4. /\ Owned(ls, live, cpu, current, t) /\ t \in live
      /\ t \notin Bh => \A v \in Vcpu : current[v] # t
  BY <1>1, OwnedLeave
<1>5. r \in Queues /\ MayBeOn(r, t, live, cpu)
  <2>1. cpu[t] \in Vcpu
    BY <1>1, <1>2 DEF Types
  <2> QED BY <2>1, Apart DEF MayBeOn
<1>6. ls = [queue EXCEPT ![q] = Lists!Without(@, k)]
  BY SameLeave
<1>7. qs = Enter(ls, r, t)
  BY DEF Moved
<1> HIDE DEF ls, r, p, qs
<1>8. Linked(QueueAppend(p, r, t), qs)
  BY <1>2, <1>3, <1>5, <1>7, LinkedEnter
<1>9. Owned(qs, live, cpu, current, Nil)
  BY <1>1, <1>2, <1>4, <1>5, <1>7, OwnedEnter
<1>10. qs = Lists!Wakeup(ls, t)
  BY <1>2, <1>5, <1>7, SameEnter, SameNames DEF Lists!Wakeup, r
<1> QED BY <1>2, <1>3, <1>6, <1>8, <1>9, <1>10 DEF ls, r, p, qs

LEMMA ExitLoop ==
  ASSUME LinkInv, loop.in = "__exit"
  PROVE  /\ loop.t \in Task \ Bh /\ loop.at = Wait(loop.t)
         /\ \E v \in Vcpu : current[v] = loop.t
<1>1. LoopOK(loop, queue, current)
  BY DEF LinkInv
<1>2. NoLoop.in = "no loop" /\ "no loop" # "__exit" /\ "process_sleepqueue" # "__exit"
  BY DEF NoLoop
<1> QED BY <1>1, <1>2 DEF LoopOK

LEMMA WakeWaiterInv ==
  ASSUME LinkInv, loop.in = "__exit", WakeWaiter, queue' = [q \in Queues |-> Follow(ptr', q)]
  PROVE  LinkInv' /\ Lists!Wake
<1> DEFINE q == loop.at
           t == ptr[q]
           p == [ptr EXCEPT ![q] = ptr[t]]
           qs == Moved(q, 1)
<1>1. /\ t # Nil /\ ptr' = QueueAppend(p, Run(cpu[t]), t)
      /\ live' = live /\ cpu' = cpu /\ current' = current /\ tr' = tr /\ time' = time /\ loop' = loop
  BY DEF WakeWaiter, Wakeup, QueueRemoveHead
<1>2. PICK v \in Vcpu : current[v] = loop.t /\ loop.t \in Task \ Bh /\ q = Wait(loop.t)
  BY ExitLoop
<1>3. Types /\ Linked(ptr, queue) /\ q \in Queues /\ current[v] # Nil
  BY <1>2, Apart DEF LinkInv
<1>4. 1 \in 1 .. Len(queue[q]) /\ t = queue[q][1] /\ Node(q, queue[q], 0) = q /\ queue[q] # << >>
  BY <1>1, <1>3, HeadIs
<1>5. /\ Linked(QueueAppend(p, Run(cpu[t]), t), qs) /\ Owned(qs, live, cpu, current, Nil)
      /\ qs = Lists!Wakeup([queue EXCEPT ![q] = Lists!Without(@, 1)], t)
  <2>1. 1 - 1 = 0
    OBVIOUS
  <2>2. p = [ptr EXCEPT ![q] = ptr[t]]
    OBVIOUS
  <2> HIDE DEF q, t, p
  <2>3. p = Unlinked(ptr, q, queue[q], 1)
    BY <1>4, <2>1, <2>2 DEF Unlinked
  <2> QED BY <1>3, <1>4, <2>3, MovedInv
<1>6. queue' = qs /\ Linked(ptr', qs)
  BY <1>1, <1>5, QueueIs
<1>7. Types'
  BY <1>1, <1>3 DEF Types
<1>8. LoopOK(loop', queue', current')
  BY <1>1, <1>2 DEF LoopOK
<1> HIDE DEF qs, t, p
<1>9. LinkInv'
  BY <1>1, <1>5, <1>6, <1>7, <1>8, LinkStep
<1>10. queue' = Lists!Wakeup([queue EXCEPT ![q] = Lists!Without(@, 1)], queue[q][1])
  BY <1>4, <1>5, <1>6
<1>11. q = Lists!Wait(current[v])
  BY <1>2, SameNames
<1> HIDE DEF q
<1>12. Lists!Wake
  BY <1>1, <1>3, <1>4, <1>10, <1>11 DEF Lists!Wake
<1> QED BY <1>9, <1>12

LEMMA FinishExitInv ==
  ASSUME LinkInv, loop.in = "__exit", NEW expired \in BOOLEAN, FinishExit(expired),
         queue' = [q \in Queues |-> Follow(ptr', q)]
  PROVE  LinkInv' /\ \E v \in Vcpu : Lists!Exit(v)
<1> DEFINE t == loop.t
           lv == live \ {t}
<1>1. /\ ptr[loop.at] = Nil /\ live' = lv /\ loop' = NoLoop /\ cpu' = cpu /\ time' = time
  BY DEF FinishExit
<1>2. PICK v \in Vcpu : current[v] = t /\ Dispatch(v, ptr, expired)
  BY DEF FinishExit
<1>3. t \in Task \ Bh /\ loop.at = Wait(t)
  BY ExitLoop
<1>4. /\ Types /\ Linked(ptr, queue) /\ Owned(queue, live, cpu, current, Nil) /\ queue \in [Queues -> Seq(Task)]
      /\ current \in [Vcpu -> Task \cup {Nil}] /\ live \subseteq Task /\ cpu \in [Task -> Vcpu] /\ t # Nil
  BY <1>3, Apart DEF LinkInv, Types, Linked
<1>5. Wait(t) \in Queues /\ queue[Wait(t)] = << >>
  <2>1. Wait(t) \in Queues
    BY <1>3, Apart
  <2>2. ptr[Wait(t)] = Nil
    BY <1>1, <1>3
  <2> QED BY <1>4, <2>1, <2>2, HeadIs
<1> DEFINE c == [current EXCEPT ![v] = Nil]
<1>6. Owned(queue, live, cpu, c, t) /\ \A w \in Vcpu : c[w] # t
  BY <1>2, <1>4, OwnedStop, ZenonT(40)
<1> HIDE DEF c, t, lv
<1>7. \A q \in Queues : t \notin Range(queue[q])
  BY <1>2, <1>3, <1>4 DEF Owned
<1>8. Owned(queue, lv, cpu, c, Nil)
  <2>1. ASSUME NEW q \in Queues, NEW x \in Task, x \in Range(queue[q])
        PROVE  x \in lv /\ MayBeOn(q, x, lv, cpu)
    <3>1. x \in live /\ MayBeOn(q, x, live, cpu) /\ x # t
      BY <1>6, <1>7, <2>1 DEF Owned
    <3>2. q # Wait(t)
      <4>1. Range(<< >>) = {}
        BY DEF Range
      <4> QED BY <1>5, <2>1, <4>1
    <3> QED BY <3>1, <3>2 DEF MayBeOn, lv
  <2>2. \A w \in Vcpu : c[w] # Nil =>
          /\ c[w] \in lv /\ cpu[c[w]] = w
          /\ c[w] \notin Bh => \A q \in Queues : c[w] \notin Range(queue[q])
    BY <1>6 DEF Owned, lv
  <2>3. \A x \in lv \ Bh : (\E q \in Queues : x \in Range(queue[q])) \/ \E w \in Vcpu : c[w] = x
    BY <1>6 DEF Owned, lv
  <2> QED BY <2>1, <2>2, <2>3 DEF Owned
<1>9. lv \subseteq Task /\ Bh \subseteq lv
  BY <1>3, <1>4 DEF lv, Types
<1>10. /\ Linked(ptr', queue') /\ Owned(queue', lv, cpu, current', Nil)
       /\ current' \in [Vcpu -> Task \cup {Nil}] /\ tr' \in [Vcpu -> Task \cup {Nil}]
       /\ Lists!Dispatch(v, queue)
  BY <1>2, <1>4, <1>8, <1>9, DispatchInv DEF c
<1>11. Types'
  <2>1. NoLoop \in Loops
    BY DEF NoLoop, Loops
  <2> QED BY <1>1, <1>4, <1>9, <1>10, <2>1 DEF Types
<1>12. LinkInv'
  BY <1>1, <1>10, <1>11, LinkStep DEF LoopOK
<1>13. Lists!Exit(v)
  BY <1>1, <1>2, <1>4, <1>5, <1>10, SameNames DEF Lists!Exit, lv
<1> QED BY <1>12, <1>13

\* A tick: the walk along the sleep queue begins with its first task.
LEMMA TimerInv ==
  ASSUME LinkInv, Timer, queue' = [q \in Queues |-> Follow(ptr', q)]
  PROVE  LinkInv' /\ Lists!Tick
<1> DEFINE tm == [t \in Task |-> IF time[t] > 0 THEN time[t] - 1 ELSE 0]
<1>1. /\ time' = tm /\ ptr' = ptr /\ live' = live /\ cpu' = cpu /\ current' = current /\ tr' = tr
      /\ loop' = IF ptr[Sleep] = Nil THEN NoLoop
                 ELSE [in |-> "process_sleepqueue", at |-> Sleep, t |-> ptr[Sleep]]
  BY DEF Timer
<1>2. Types /\ Linked(ptr, queue) /\ Owned(queue, live, cpu, current, Nil)
  BY DEF LinkInv
<1>3. tm \in [Task -> Nat]
  BY <1>2 DEF Types
<1> HIDE DEF tm
<1>4. Linked(ptr', queue)
  BY <1>1, <1>2
<1>5. queue' = queue
  BY <1>4, QueueIs
<1>6. loop' \in Loops /\ LoopOK(loop', queue, current)
  <2>1. CASE ptr[Sleep] = Nil
    BY <1>1, <2>1 DEF NoLoop, Loops, LoopOK
  <2>2. CASE ptr[Sleep] # Nil
    <3>1. /\ Sleep \in Queues /\ 1 \in 1 .. Len(queue[Sleep]) /\ ptr[Sleep] = queue[Sleep][1]
          /\ Node(Sleep, queue[Sleep], 0) = Sleep /\ 1 - 1 = 0
      <4>1. Sleep \in Queues /\ 1 - 1 = 0
        BY Apart
      <4>2. /\ 1 \in 1 .. Len(queue[Sleep]) /\ ptr[Sleep] = queue[Sleep][1]
            /\ Node(Sleep, queue[Sleep], 0) = Sleep
        BY <1>2, <2>2, <4>1, HeadIs, SMTT(60)
      <4> QED BY <4>1, <4>2, Zenon
    <3>2. queue[Sleep][1] \in Task
      BY <1>2, <3>1, LeaveRange
    <3>3. loop' = [in |-> "process_sleepqueue", at |-> Sleep, t |-> queue[Sleep][1]]
      BY <1>1, <2>2, <3>1
    <3>4. loop' \in Loops
      BY <3>1, <3>2, <3>3 DEF Loops
    <3>5. loop'.in = "process_sleepqueue" /\ loop'.at = Sleep /\ loop'.t = queue[Sleep][1]
      BY <3>3
    <3>6. loop'.t = queue[Sleep][1] /\ loop'.at = Node(Sleep, queue[Sleep], 1 - 1)
      BY <3>1, <3>5
    <3> QED BY <3>1, <3>4, <3>5, <3>6 DEF LoopOK
  <2> QED BY <2>1, <2>2
<1>7. Types'
  BY <1>1, <1>2, <1>3, <1>6 DEF Types
<1>8. LinkInv'
  BY <1>1, <1>2, <1>4, <1>5, <1>6, <1>7, LinkStep
<1>9. Lists!Tick
  BY <1>1, <1>5 DEF Lists!Tick, tm
<1> QED BY <1>8, <1>9

\* process_sleepqueue wakes up a task before it unlinks it: the pointers are those of a
\* task that has left the sleep queue first.
LEMMA WakeThenUnlink ==
  ASSUME NEW p, NEW qs, Linked(p, qs), NEW q \in Queues, NEW r \in Queues, r # q,
         NEW k \in 1 .. Len(qs[q]), NEW t, t = qs[q][k], NEW at, at = Node(q, qs[q], k - 1)
  PROVE  [QueueAppend(p, r, t) EXCEPT ![at] = p[t]] = QueueAppend(Unlinked(p, q, qs[q], k), r, t)
<1> DEFINE u == Unlinked(p, q, qs[q], k)
           end == Node(r, qs[r], Len(qs[r]))
<1>1. /\ p \in Ptrs /\ qs \in [Queues -> Seq(Task)] /\ IsList(p, q, qs[q])
      /\ qs[q] \in Seq(Task) /\ qs[r] \in Seq(Task)
  BY DEF Linked
<1>2. t \in Task /\ t \in Range(qs[q]) /\ Linked(u, Leave(qs, q, k))
  BY LeaveRange, LinkedLeave DEF Unlinked
<1>3. t \notin Range(qs[r]) /\ Leave(qs, q, k)[r] = qs[r]
  BY <1>1, <1>2 DEF Linked, Leave
<1>4. Follow(p, r) = qs[r] /\ Follow(u, r) = qs[r]
  BY <1>2, <1>3, FollowQueues
<1>5. LastCell(r, qs[r]) = end
  BY <1>1, LastNode
<1>6. k \in Nat /\ Len(qs[q]) \in Nat /\ Len(qs[r]) \in Nat /\ k - 1 \in 0 .. Len(qs[q])
      /\ (k - 1 # 0 => k - 1 \in 1 .. Len(qs[q])) /\ k - 1 # k
  BY <1>1, Tasks
<1>7. at # end
  <2>1. at # r /\ \A j \in 1 .. Len(qs[r]) : at # qs[r][j]
    BY <1>6, CellsDiffer
  <2>2. end = r \/ (Len(qs[r]) \in 1 .. Len(qs[r]) /\ end = qs[r][Len(qs[r])])
    BY <1>6 DEF Node
  <2> QED BY <2>1, <2>2
<1>8. at # t
  <2>1. CASE k - 1 = 0
    BY <1>2, <2>1, Apart DEF Node
  <2>2. CASE k - 1 # 0
    BY <1>1, <1>6, <2>2 DEF Node, IsList
  <2> QED BY <2>1, <2>2
<1>9. /\ QueueAppend(p, r, t) = [p EXCEPT ![end] = t, ![t] = Nil]
      /\ QueueAppend(u, r, t) = [u EXCEPT ![end] = t, ![t] = Nil]
  BY <1>3, <1>4, <1>5 DEF QueueAppend
<1>10. u = [p EXCEPT ![at] = p[t]]
  BY DEF Unlinked
<1> HIDE DEF u, end
<1>11. [[p EXCEPT ![end] = t, ![t] = Nil] EXCEPT ![at] = p[t]]
         = [[p EXCEPT ![at] = p[t]] EXCEPT ![end] = t, ![t] = Nil]
  BY <1>1, <1>7, <1>8 DEF Ptrs
<1> QED BY <1>9, <1>10, <1>11 DEF u

\* The walk goes on with the j-th sleeper.
LEMMA NextInv ==
  ASSUME LinkInv, loop.in = "process_sleepqueue", NEW at, NEW next, NextSleeper(at, next),
         Linked(ptr', queue'), NEW s, s = queue'[Sleep], NEW j \in Nat,
         next # Nil => j \in 1 .. Len(s) /\ next = s[j] /\ at = Node(Sleep, s, j - 1)
  PROVE  loop' \in Loops /\ LoopOK(loop', queue', current')
<1>1. CASE next = Nil
  BY <1>1 DEF NextSleeper, NoLoop, Loops, LoopOK
<1>2. CASE next # Nil
  <2>1. /\ s \in Seq(Task) /\ IsList(ptr', Sleep, s) /\ j \in 1 .. Len(s) /\ next = s[j]
        /\ at = Node(Sleep, s, j - 1) /\ Len(s) \in Nat /\ s[j] \in Task
    BY <1>2, Apart, Tasks DEF Linked
  <2>2. j - 1 \in 0 .. Len(s) /\ j - 1 < Len(s) /\ (j - 1) + 1 = j /\ (j - 1 # 0 => j - 1 \in 1 .. Len(s))
    <3>1. \A n \in Nat : j \in 1 .. n =>
            j - 1 \in 0 .. n /\ j - 1 < n /\ (j - 1) + 1 = j /\ (j - 1 # 0 => j - 1 \in 1 .. n)
      OBVIOUS
    <3>2. Len(s) \in Nat /\ j \in 1 .. Len(s)
      BY <2>1
    <3> QED BY <3>1, <3>2
  <2>3. ptr'[at] = s[j]
    BY <2>1, <2>2 DEF IsList
  <2>4. at \in Queues \cup Task
    BY <2>1, <2>2, Tasks, Apart DEF Node
  <2>5. loop \in Loops /\ loop' = [loop EXCEPT !.at = at, !.t = s[j]]
    BY <1>2, <2>3 DEF NextSleeper, LinkInv, Types
  <2>6. loop' \in Loops /\ loop'.in = "process_sleepqueue" /\ loop'.at = at /\ loop'.t = s[j]
    BY <2>1, <2>4, <2>5 DEF Loops
  <2> QED BY <2>1, <2>6 DEF LoopOK
<1> QED BY <1>1, <1>2

\* process_sleepqueue looks at one sleeper.
LEMMA ExamineInv ==
  ASSUME LinkInv, loop.in = "process_sleepqueue", Examine,
         queue' = [q \in Queues |-> Follow(ptr', q)]
  PROVE  LinkInv' /\ (Lists!Wake \/ UNCHANGED <<queue, live, cpu, current, time>>)
<1> DEFINE s == queue[Sleep]
           t == loop.t
           at == loop.at
           next == ptr[t]
<1>1. Types /\ Linked(ptr, queue) /\ Owned(queue, live, cpu, current, Nil) /\ LoopOK(loop, queue, current)
  BY DEF LinkInv
<1>2. live' = live /\ cpu' = cpu /\ current' = current /\ tr' = tr /\ time' = time
  BY DEF Examine
<1>3. PICK k \in 1 .. Len(s) : t = s[k] /\ at = Node(Sleep, s, k - 1)
  <2>1. NoLoop.in = "no loop" /\ "no loop" # "process_sleepqueue" /\ "__exit" # "process_sleepqueue"
    BY DEF NoLoop
  <2> QED BY <1>1, <2>1 DEF LoopOK
<1>4. /\ Sleep \in Queues /\ s \in Seq(Task) /\ IsList(ptr, Sleep, s) /\ Len(s) \in Nat /\ k \in Nat
      /\ t \in Task
  <2>1. Sleep \in Queues
    BY Apart
  <2>2. s \in Seq(Task) /\ IsList(ptr, Sleep, s)
    BY <1>1, <2>1 DEF Linked
  <2>3. Len(s) \in Nat /\ \A i \in 1 .. Len(s) : s[i] \in Task
    BY <2>2, Tasks
  <2>4. k \in Nat /\ t \in Task
    BY <1>3, <2>3
  <2> QED BY <2>1, <2>2, <2>3, <2>4
<1>5. /\ k \in 0 .. Len(s) /\ k - 1 \in 0 .. Len(s) /\ k - 1 < Len(s) /\ (k - 1) + 1 = k /\ k # 0
      /\ k - 1 # 0 => k - 1 \in 1 .. Len(s) - 1 /\ k - 1 < k
      /\ (k + 1) - 1 = k
  BY <1>3, <1>4
<1>6. ptr[at] = t /\ next = IF k < Len(s) THEN s[k + 1] ELSE Nil
  <2>1. /\ ptr[Node(Sleep, s, k - 1)] = IF k - 1 < Len(s) THEN s[(k - 1) + 1] ELSE Nil
        /\ ptr[Node(Sleep, s, k)] = IF k < Len(s) THEN s[k + 1] ELSE Nil
    BY <1>4, <1>5 DEF IsList
  <2> QED BY <1>3, <1>5, <2>1 DEF Node
<1>7. next # Nil => k < Len(s) /\ k \in 1 .. Len(s) - 1 /\ k + 1 \in 1 .. Len(s) /\ next = s[k + 1]
  BY <1>4, <1>5, <1>6
<1>8. CASE time[t] = 0
  <2> DEFINE qs == Moved(Sleep, k)
             r == Run(cpu[t])
             u == Unlinked(ptr, Sleep, s, k)
  <2>1. ptr' = [QueueAppend(ptr, r, t) EXCEPT ![at] = next] /\ NextSleeper(at, next)
    BY <1>6, <1>8 DEF Examine, Wakeup
  <2>2. cpu[t] \in Vcpu /\ r \in Queues /\ r # Sleep
    BY <1>1, <1>4, Apart DEF Types
  <2>3. ptr' = QueueAppend(u, r, t)
    <3>1. [QueueAppend(ptr, r, t) EXCEPT ![at] = ptr[t]] = QueueAppend(u, r, t)
      <4>1. /\ Linked(ptr, queue) /\ Sleep \in Queues /\ r \in Queues /\ r # Sleep
            /\ k \in 1 .. Len(queue[Sleep]) /\ t = queue[Sleep][k] /\ at = Node(Sleep, queue[Sleep], k - 1)
        BY <1>1, <1>3, <1>4, <2>2
      <4> HIDE DEF r, t, at
      <4> QED BY <4>1, WakeThenUnlink, SMTT(60)
    <3> QED BY <2>1, <3>1, Zenon
  <2>4. /\ Linked(QueueAppend(u, r, t), qs) /\ Owned(qs, live, cpu, current, Nil)
        /\ qs = Lists!Wakeup([queue EXCEPT ![Sleep] = Lists!Without(@, k)], t)
    BY <1>3, <1>4, MovedInv
  <2>5. qs = Enter(Leave(queue, Sleep, k), r, t)
    BY <1>3 DEF Moved
  <2> HIDE DEF qs, u
  <2>6. Linked(ptr', qs) /\ queue' = qs
    BY <2>3, <2>4, QueueIs
  <2>7. queue'[Sleep] = RemovedAt(s, k)
    <3>1. Leave(queue, Sleep, k) \in [Queues -> Seq(Task)]
      BY <1>1, <1>3, <1>4, LeaveRange
    <3>2. queue \in [Queues -> Seq(Task)]
      BY <1>1 DEF Linked
    <3>3. Leave(queue, Sleep, k)[Sleep] = RemovedAt(s, k)
      BY <1>4, <3>2 DEF Leave
    <3> HIDE DEF r
    <3> QED BY <1>4, <2>2, <2>5, <2>6, <3>1, <3>3 DEF Enter
  <2> DEFINE w == RemovedAt(s, k)
  <2>8. Len(w) = Len(s) - 1 /\ \A i \in 1 .. Len(s) - 1 : w[i] = IF i < k THEN s[i] ELSE s[i + 1]
    BY <1>3, <1>4, Removing
  <2> HIDE DEF w
  <2>9. Node(Sleep, w, k - 1) = at
    BY <1>3, <1>5, <2>8 DEF Node
  <2>10. next # Nil => k \in 1 .. Len(w) /\ next = w[k] /\ at = Node(Sleep, w, k - 1)
    <3>1. ~(k < k)
      BY <1>4
    <3> QED BY <1>7, <2>8, <2>9, <3>1
  <2>11. loop' \in Loops /\ LoopOK(loop', queue', current')
    <3>1. w = queue'[Sleep]
      BY <2>7 DEF w
    <3> HIDE DEF at, next
    <3> QED BY <1>4, <2>1, <2>6, <2>10, <3>1, NextInv
  <2>12. Types'
    BY <1>1, <1>2, <2>11 DEF Types
  <2>13. LinkInv'
    BY <1>2, <2>4, <2>6, <2>11, <2>12, LinkStep
  <2>14. time[s[k]] = 0 /\ queue' = Lists!Wakeup([queue EXCEPT ![Sleep] = Lists!Without(@, k)], s[k])
    BY <1>3, <1>8, <2>4, <2>6
  <2>15. Lists!Wake
    BY <1>2, <1>3, <2>14, SameNames DEF Lists!Wake
  <2> QED BY <2>13, <2>15
<1>9. CASE time[t] # 0
  <2>1. ptr' = ptr /\ NextSleeper(t, next)
    BY <1>9 DEF Examine
  <2>2. Linked(ptr', queue) /\ queue' = queue
    BY <1>1, <2>1, QueueIs
  <2>3. t = Node(Sleep, s, k)
    BY <1>3, <1>5 DEF Node
  <2>4. next # Nil => k + 1 \in 1 .. Len(s) /\ next = s[k + 1] /\ t = Node(Sleep, s, (k + 1) - 1)
    BY <1>5, <1>7, <2>3
  <2>5. loop' \in Loops /\ LoopOK(loop', queue', current')
    <3>1. s = queue'[Sleep] /\ k + 1 \in Nat
      BY <1>4, <2>2
    <3>2. PICK j \in Nat : j = k + 1
      BY <3>1
    <3>3. next # Nil => j \in 1 .. Len(s) /\ next = s[j] /\ t = Node(Sleep, s, j - 1)
      BY <2>4, <3>2
    <3> HIDE DEF s, t, next
    <3> QED BY <2>1, <2>2, <3>1, <3>3, NextInv
  <2>6. Types'
    BY <1>1, <1>2, <2>5 DEF Types
  <2>7. LinkInv'
    BY <1>1, <1>2, <2>2, <2>5, <2>6, LinkStep
  <2> QED BY <1>2, <2>2, <2>7
<1> QED BY <1>8, <1>9

-----------------------------------------------------------------------------
(* The invariant holds, and every step is a step of TaskQueues.            *)

LEMMA LinkInit ==
  ASSUME Init
  PROVE  LinkInv /\ Lists!Init
<1>1. /\ live = Bh \cup {Shell} /\ cpu = InitCpu /\ tr = [v \in Vcpu |-> Nil]
      /\ current = [v \in Vcpu |-> IF v = InitCpu[Shell] THEN Shell ELSE Nil]
      /\ ptr = [c \in Cells |-> Nil] /\ time = [t \in Task |-> 0]
      /\ loop = NoLoop /\ queue = [q \in Queues |-> << >>]
  BY DEF Init, Cells
<1>2. Bh \subseteq Task /\ Shell \in Task \ Bh /\ InitCpu \in [Task -> Vcpu] /\ Nil \notin Task
  BY LinksAssumption
<1>3. << >> \in Seq(Task) /\ Len(<< >>) = 0 /\ Range(<< >>) = {}
  BY DEF Range
<1>4. Types
  <2>1. NoLoop \in Loops
    BY DEF NoLoop, Loops
  <2>2. tr \in [Vcpu -> Task \cup {Nil}] /\ time \in [Task -> Nat] /\ cpu \in [Task -> Vcpu]
    BY <1>1, <1>2
  <2>3. current \in [Vcpu -> Task \cup {Nil}]
    BY <1>1, <1>2
  <2> QED BY <1>1, <1>2, <2>1, <2>2, <2>3 DEF Types
<1>5. queue \in [Queues -> Seq(Task)] /\ \A q \in Queues : queue[q] = << >>
  BY <1>1, <1>3
<1>6. Linked(ptr, queue)
  <2>1. ptr \in Ptrs /\ \A q \in Queues : ptr[q] = Nil
    BY <1>1 DEF Ptrs, Cells
  <2>2. ASSUME NEW q \in Queues PROVE IsList(ptr, q, << >>)
    <3>1. /\ \A i \in 1 .. 0 : FALSE
          /\ \A i \in 0 .. 0 : i = 0 /\ ~(i < 0)
      OBVIOUS
    <3> QED BY <1>3, <2>1, <3>1 DEF IsList, Node
  <2> QED BY <1>3, <1>5, <2>1, <2>2 DEF Linked
<1>7. Owned(queue, live, cpu, current, Nil)
  <2>1. InitCpu[Shell] \in Vcpu /\ current[InitCpu[Shell]] = Shell
    BY <1>1, <1>2
  <2>2. \A v \in Vcpu : current[v] # Nil => current[v] = Shell /\ v = InitCpu[Shell]
    BY <1>1
  <2>3. \A q \in Queues, t \in Task : t \notin Range(queue[q])
    BY <1>3, <1>5
  <2>4. \A v \in Vcpu : current[v] # Nil =>
          /\ current[v] \in live /\ cpu[current[v]] = v
          /\ current[v] \notin Bh => \A q \in Queues : current[v] \notin Range(queue[q])
    BY <1>1, <1>2, <2>2, <2>3
  <2>5. \A t \in live \ Bh : \E v \in Vcpu : current[v] = t
    BY <1>1, <2>1
  <2> QED BY <2>3, <2>4, <2>5 DEF Owned
<1>8. LinkInv
  BY <1>1, <1>4, <1>6, <1>7 DEF LinkInv, LoopOK
<1>9. Lists!Init
  <2>1. current \in [Vcpu -> live \cup {Nil}] /\ live \subseteq Task /\ cpu \in [Task -> Vcpu]
    BY <1>1, <1>2
  <2> QED BY <1>1, <2>1, SameNames DEF Lists!Init
<1> QED BY <1>8, <1>9

LEMMA LinkNext ==
  ASSUME LinkInv, [Next]_vars
  PROVE  LinkInv' /\ [Lists!Next]_<<queue, live, cpu, current, time>>
<1> DEFINE Up == queue' = [q \in Queues |-> Follow(ptr', q)]
           Done == LinkInv' /\ [Lists!Next]_<<queue, live, cpu, current, time>>
<1>1. CASE Exiting
  <2>1. loop.in = "__exit" /\ Up /\ (WakeWaiter \/ \E expired \in BOOLEAN : FinishExit(expired))
    BY <1>1 DEF Exiting, Continue
  <2>2. CASE WakeWaiter
    BY <2>1, <2>2, WakeWaiterInv DEF Lists!Next
  <2>3. CASE \E expired \in BOOLEAN : FinishExit(expired)
    BY <2>1, <2>3, FinishExitInv DEF Lists!Next
  <2> QED BY <2>1, <2>2, <2>3
<1>2. CASE Sleepers
  <2>1. loop.in = "process_sleepqueue" /\ Up /\ Examine
    BY <1>2 DEF Sleepers, Continue
  <2>2. LinkInv' /\ (Lists!Wake \/ UNCHANGED <<queue, live, cpu, current, time>>)
    BY <2>1, ExamineInv
  <2> QED BY <2>2 DEF Lists!Next
<1>3. CASE Handler(Timer)
  <2>1. Up /\ Timer
    BY <1>3 DEF Handler
  <2> QED BY <2>1, TimerInv DEF Lists!Next
<1>4. ASSUME NEW t \in Bh, Handler(Interrupt(t)) PROVE Done
  <2>1. loop = NoLoop /\ Up /\ Interrupt(t)
    BY <1>4 DEF Handler
  <2> QED BY <2>1, InterruptInv DEF Lists!Next
<1>5. ASSUME NEW v \in Vcpu, Handler(IdleSchedule(v)) PROVE Done
  <2>1. loop = NoLoop /\ Up /\ IdleSchedule(v)
    BY <1>5 DEF Handler
  <2> QED BY <2>1, IdleScheduleInv DEF Lists!Next
<1>6. ASSUME NEW v \in Vcpu, Handler(Exit(v)) PROVE Done
  <2>1. Up /\ Exit(v)
    BY <1>6 DEF Handler
  <2> QED BY <2>1, ExitInv
<1>7. ASSUME NEW v \in Vcpu, NEW expired \in BOOLEAN, Handler(Leaves(v, expired)) PROVE Done
  <2>1. loop = NoLoop /\ Up /\ Leaves(v, expired)
    BY <1>7 DEF Handler
  <2>2. LinkInv' /\ Lists!Leave(v)
    <3>1. CASE Yield(v, expired)
      BY <2>1, <3>1, YieldInv
    <3>2. CASE JobCompletion(v, expired)
      BY <2>1, <3>2, JobCompletionInv
    <3>3. CASE \E d \in Durations : Usleep(v, d, expired)
      BY <2>1, <3>3, UsleepInv
    <3>4. CASE \E pid \in Task : Waitpid(v, pid, expired)
      BY <2>1, <3>4, WaitpidInv
    <3> QED BY <2>1, <3>1, <3>2, <3>3, <3>4 DEF Leaves
  <2> QED BY <2>2 DEF Lists!Next
<1>8. ASSUME NEW v \in Vcpu, NEW child \in Task, NEW c \in Vcpu, Handler(Fork(v, child, c)) PROVE Done
  <2>1. loop = NoLoop /\ Up /\ Fork(v, child, c)
    BY <1>8 DEF Handler
  <2> QED BY <2>1, ForkInv DEF Lists!Next
<1>9. CASE UNCHANGED vars
  <2>1. /\ ptr' = ptr /\ live' = live /\ cpu' = cpu /\ current' = current /\ tr' = tr /\ time' = time
        /\ loop' = loop /\ queue' = queue
    BY <1>9 DEF vars
  <2>2. LinkInv'
    BY <2>1 DEF LinkInv, Types
  <2> QED BY <2>1, <2>2
<1> QED BY <1>1, <1>2, <1>3, <1>4, <1>5, <1>6, <1>7, <1>8, <1>9 DEF Next

-----------------------------------------------------------------------------
(* Theorems                                                                *)

LEMMA LinkAlways == Spec => []LinkInv
<1>1. Init => LinkInv
  BY LinkInit
<1>2. LinkInv /\ [Next]_vars => LinkInv'
  BY LinkNext
<1> QED BY <1>1, <1>2, PTL DEF Spec

\* For any number of tasks and VCPUs, the lists that share the link tssp->next behave
\* like separate queues: every operation of sched.c, sleep.c and vcpu.c and every
\* system call that blocks implements its operation on sequences.
THEOREM LinksImplementQueues == Spec => LinksAreQueues
<1>1. Init => LinkInv /\ Lists!Init
  BY LinkInit
<1>2. LinkInv /\ [Next]_vars => LinkInv' /\ [Lists!Next]_<<queue, live, cpu, current, time>>
  BY LinkNext
<1> QED BY <1>1, <1>2, PTL DEF Spec, LinksAreQueues, Lists!Spec

\* The state has its type, and every list ends and has no task twice: the loops of
\* queue_append, vcpu_remove_from_runqueue and process_sleepqueue terminate.
THEOREM ListsEnd == Spec => []TypeOK
<1>1. LinkInv => TypeOK
  <2> SUFFICES ASSUME LinkInv PROVE TypeOK
    OBVIOUS
  <2>1. Types /\ Linked(ptr, queue)
    BY DEF LinkInv
  <2>2. ptr \in [Queues \cup Task \cup {Nil} -> Task \cup {Nil}]
    BY <2>1 DEF Linked, Ptrs, Cells
  <2>3. ASSUME NEW q \in Queues PROVE IsInjective(queue[q])
    <3>1. queue[q] \in Seq(Task) /\ \A i, j \in 1 .. Len(queue[q]) : queue[q][i] = queue[q][j] => i = j
      BY <2>1 DEF Linked, IsList
    <3>2. DOMAIN queue[q] = 1 .. Len(queue[q])
      BY <3>1, Tasks
    <3> QED BY <3>1, <3>2 DEF IsInjective
  <2> QED BY <2>1, <2>2, <2>3 DEF TypeOK, Types, Loops
<1> QED BY <1>1, LinkAlways, PTL

\* No task is lost or on two queues: one that exists executes, or is on its run queue,
\* on the sleep queue or on the wait queue of a task that has yet to exit.
THEOREM TasksAreKept == Spec => []NoTaskLost
<1>1. LinkInv => NoTaskLost
  <2> SUFFICES ASSUME LinkInv, NEW t \in live
               PROVE  LET on == {q \in Queues : On(q, t)} IN
                      /\ on \subseteq {Run(cpu[t]), Sleep} \cup {Wait(pid) : pid \in live}
                      /\ \A q, r \in on : q = r
                      /\ t \notin Bh => (on = {} <=> Executes(t))
    BY DEF NoTaskLost
  <2> DEFINE on == {q \in Queues : On(q, t)}
  <2>1. t \in Task /\ t # Nil /\ Linked(ptr, queue) /\ Owned(queue, live, cpu, current, Nil)
    BY Apart DEF LinkInv, Types
  <2>2. on \subseteq {Run(cpu[t]), Sleep} \cup {Wait(pid) : pid \in live}
    BY <2>1 DEF On, Owned, MayBeOn
  <2>3. \A q, r \in on : q = r
    BY <2>1 DEF On, Linked
  <2>4. t \notin Bh => (on = {} <=> Executes(t))
    BY <2>1 DEF On, Owned, Executes
  <2> QED BY <2>2, <2>3, <2>4
<1> QED BY <1>1, LinkAlways, PTL

-----------------------------------------------------------------------------
(* The sleep queue.                                                        *)

LEMMA DispatchKeepsSleep ==
  ASSUME NEW qs \in [Queues -> Seq(Task)], NEW v \in Vcpu, Lists!Dispatch(v, qs)
  PROVE  queue'[Sleep] = qs[Sleep]
<1>1. Lists!Run(v) # Sleep /\ Sleep \in Queues
  BY Apart, SameNames
<1> QED BY <1>1 DEF Lists!Dispatch

LEMMA EnterKeepsSleep ==
  ASSUME NEW qs \in [Queues -> Seq(Task)], NEW q \in Queues, NEW t \in Task
  PROVE  /\ Lists!Enter(qs, q, t) \in [Queues -> Seq(Task)]
         /\ \A x \in Task : x \in Range(qs[Sleep]) => x \in Range(Lists!Enter(qs, q, t)[Sleep])
<1>1. Lists!Enter(qs, q, t) = Enter(qs, q, t)
  BY SameEnter
<1>2. Enter(qs, q, t) \in [Queues -> Seq(Task)]
  BY RangeAppended DEF Enter
<1> QED BY <1>1, <1>2, EnterRange, Apart

LEMMA SleepStep ==
  ASSUME LinkInv, Lists!Next, NEW t \in Task, t \in Range(queue[Sleep]), t \notin Range(queue'[Sleep])
  PROVE  time'[t] = 0
<1>1. /\ queue \in [Queues -> Seq(Task)] /\ Linked(ptr, queue) /\ live \subseteq Task /\ cpu \in [Task -> Vcpu]
      /\ current \in [Vcpu -> Task \cup {Nil}] /\ Bh \subseteq Task
  BY DEF LinkInv, Linked, Types
<1>2. Sleep \in Queues /\ Lists!Sleep = Sleep
  BY Apart, SameNames
<1>3. CASE Lists!Wake
  <2>1. CASE \E i \in 1 .. Len(queue[Sleep]) :
               /\ time[queue[Sleep][i]] = 0 /\ time' = time
               /\ queue' = Lists!Wakeup([queue EXCEPT ![Sleep] = Lists!Without(@, i)], queue[Sleep][i])
    <3>1. PICK i \in 1 .. Len(queue[Sleep]) :
               /\ time[queue[Sleep][i]] = 0 /\ time' = time
               /\ queue' = Lists!Wakeup([queue EXCEPT ![Sleep] = Lists!Without(@, i)], queue[Sleep][i])
      BY <2>1
    <3> DEFINE x == queue[Sleep][i]
               ls == Leave(queue, Sleep, i)
    <3>2. x \in Task /\ ls \in [Queues -> Seq(Task)] /\ (t # x => t \in Range(ls[Sleep]))
      BY <1>1, <1>2, LeaveRange
    <3>3. queue' = Lists!Enter(ls, Run(cpu[x]), x) /\ Run(cpu[x]) \in Queues
      BY <1>1, <3>1, <3>2, SameLeave, SameNames, Apart DEF Lists!Wakeup
    <3>4. time[x] = 0 /\ time' = time
      BY <3>1
    <3> HIDE DEF x, ls
    <3>5. t \notin Range(ls[Sleep])
      BY <3>2, <3>3, EnterKeepsSleep
    <3> QED BY <3>2, <3>4, <3>5
  <2>2. CASE \E v \in Vcpu :
               /\ current[v] # Nil /\ queue[Wait(current[v])] # << >>
               /\ queue' = Lists!Wakeup([queue EXCEPT ![Wait(current[v])] = Lists!Without(@, 1)],
                                        queue[Wait(current[v])][1])
    <3>1. PICK v \in Vcpu :
               /\ current[v] # Nil /\ queue[Wait(current[v])] # << >>
               /\ queue' = Lists!Wakeup([queue EXCEPT ![Wait(current[v])] = Lists!Without(@, 1)],
                                        queue[Wait(current[v])][1])
      BY <2>2
    <3> DEFINE q == Wait(current[v])
               x == queue[q][1]
               ls == Leave(queue, q, 1)
    <3>2. q \in Queues /\ q # Sleep /\ queue[q] # << >>
      BY <1>1, <3>1, Apart
    <3> HIDE DEF q
    <3>3. 1 \in 1 .. Len(queue[q])
      BY <1>1, <3>2, HeadIs
    <3>4. x \in Task /\ ls \in [Queues -> Seq(Task)]
      BY <1>1, <3>2, <3>3, LeaveRange
    <3>5. ls[Sleep] = queue[Sleep]
      BY <1>1, <1>2, <3>2 DEF Leave
    <3>6. queue' = Lists!Enter(ls, Run(cpu[x]), x) /\ Run(cpu[x]) \in Queues
      BY <1>1, <3>1, <3>4, SameLeave, SameNames, Apart DEF Lists!Wakeup, q
    <3> HIDE DEF x, ls
    <3> QED BY <3>4, <3>5, <3>6, EnterKeepsSleep
  <2>3. CASE \E x \in Bh : queue' = Lists!Wakeup(queue, x)
    <3>1. PICK x \in Bh : queue' = Lists!Wakeup(queue, x)
      BY <2>3
    <3>2. x \in Task /\ queue' = Lists!Enter(queue, Run(cpu[x]), x) /\ Run(cpu[x]) \in Queues
      BY <1>1, <3>1, SameNames, Apart DEF Lists!Wakeup
    <3> QED BY <1>1, <3>2, EnterKeepsSleep
  <2>4. CASE \E i \in 1 .. Len(queue[Lists!Sleep]) :
               /\ time[queue[Lists!Sleep][i]] = 0
               /\ queue' = Lists!Wakeup([queue EXCEPT ![Lists!Sleep] = Lists!Without(@, i)], queue[Lists!Sleep][i])
    <3>1. time' = time
      BY <1>3 DEF Lists!Wake
    <3> QED BY <1>2, <2>1, <2>4, <3>1
  <2>5. CASE \E v \in Vcpu :
               /\ current[v] # Nil /\ queue[Lists!Wait(current[v])] # << >>
               /\ queue' = Lists!Wakeup([queue EXCEPT ![Lists!Wait(current[v])] = Lists!Without(@, 1)],
                                        queue[Lists!Wait(current[v])][1])
    <3>1. PICK v \in Vcpu :
               /\ current[v] # Nil /\ queue[Lists!Wait(current[v])] # << >>
               /\ queue' = Lists!Wakeup([queue EXCEPT ![Lists!Wait(current[v])] = Lists!Without(@, 1)],
                                        queue[Lists!Wait(current[v])][1])
      BY <2>5
    <3>2. Lists!Wait(current[v]) = Wait(current[v])
      BY SameNames
    <3> QED BY <2>2, <3>1, <3>2
  <2> QED BY <1>3, <2>3, <2>4, <2>5 DEF Lists!Wake
<1>4. CASE Lists!Tick
  BY <1>4 DEF Lists!Tick
<1>5. ASSUME NEW v \in Vcpu, NEW qs \in [Queues -> Seq(Task)], t \in Range(qs[Sleep]), Lists!Dispatch(v, qs)
      PROVE  FALSE
  BY <1>5, DispatchKeepsSleep
<1>6. ASSUME NEW v \in Vcpu, Lists!Leave(v) PROVE FALSE
  <2>1. current[v] \in Task
    BY <1>1, <1>6 DEF Lists!Leave
  <2>2. \A q \in Queues : ~ Lists!Dispatch(v, Lists!Enter(queue, q, current[v]))
    BY <1>1, <1>5, <2>1, EnterKeepsSleep
  <2>3. ~ Lists!Dispatch(v, queue)
    BY <1>1, <1>5
  <2>4. Run(cpu[current[v]]) \in Queues /\ \A pid \in live : Wait(pid) \in Queues
    BY <1>1, <2>1, Apart
  <2> QED BY <1>2, <1>6, <2>2, <2>3, <2>4, SameNames DEF Lists!Leave, Lists!Wakeup
<1>7. ASSUME NEW v \in Vcpu, Lists!Exit(v) \/ Lists!Resume(v) PROVE FALSE
  BY <1>1, <1>5, <1>7 DEF Lists!Exit, Lists!Resume
<1>8. ASSUME NEW v \in Vcpu, NEW x \in Task, Lists!Create(x, v) PROVE FALSE
  <2>1. queue' = [queue EXCEPT ![Run(v)] = Append(@, x)] /\ Run(v) # Sleep
    BY <1>8, SameNames, Apart DEF Lists!Create
  <2> QED BY <1>1, <1>2, <2>1
<1> QED BY <1>3, <1>4, <1>6, <1>7, <1>8 DEF Lists!Next

\* process_sleepqueue takes a task off the sleep queue only when the time it asked for
\* in sched_usleep has passed, and nothing else takes it off.
THEOREM SleepersSleep == Spec => SleepsLongEnough
<1>1. LinkInv /\ [Next]_vars =>
        [\A t \in Task : On(Sleep, t) /\ ~On(Sleep, t)' => time'[t] = 0]_vars
  <2> SUFFICES ASSUME LinkInv, [Next]_vars, NEW t \in Task, On(Sleep, t), ~On(Sleep, t)'
               PROVE  time'[t] = 0
    OBVIOUS
  <2>1. t \in Range(queue[Sleep]) /\ t \notin Range(queue'[Sleep])
    BY DEF On
  <2>2. [Lists!Next]_<<queue, live, cpu, current, time>>
    BY LinkNext
  <2> QED BY <2>1, <2>2, SleepStep
<1> QED BY <1>1, LinkAlways, PTL DEF Spec, SleepsLongEnough
=============================================================================
