----------------------------- MODULE SyncProof -----------------------------
(***************************************************************************)
(* Theorems about semaphores, circular buffers and the log buffer, for     *)
(* every number of tasks, units, slots and cells.                          *)
(***************************************************************************)
EXTENDS MCSync, SequenceTheorems, TLAPS

\* queue_append keeps a wait queue free of repetitions.
LEMMA EnqueueLemma ==
  ASSUME NEW S, NEW q \in Seq(S), NEW x \in S
  PROVE  /\ Enqueue(q, x) \in Seq(S)
         /\ Range(Enqueue(q, x)) = Range(q) \cup {x}
         /\ IsInjective(q) => IsInjective(Enqueue(q, x))
<1>1. CASE x \in Range(q)
  BY <1>1 DEF Enqueue
<1>2. CASE x \notin Range(q)
  <2> DEFINE r == Append(q, x)
  <2>1. Enqueue(q, x) = r
    BY <1>2 DEF Enqueue
  <2>2. r \in Seq(S) /\ Len(r) = Len(q) + 1 /\ r[Len(q) + 1] = x
    OBVIOUS
  <2>3. \A i \in 1 .. Len(q) : r[i] = q[i]
    OBVIOUS
  <2>4. DOMAIN r = 1 .. Len(q) + 1 /\ DOMAIN q = 1 .. Len(q) /\ Len(q) \in Nat
    BY <2>2
  <2> HIDE DEF r
  <2>5. Range(r) = Range(q) \cup {x}
    BY <2>2, <2>3, <2>4 DEF Range
  <2>6. IsInjective(q) => IsInjective(r)
    BY <1>2, <2>2, <2>3, <2>4 DEF Range, IsInjective
  <2> QED BY <2>1, <2>2, <2>5, <2>6
<1> QED BY <1>1, <1>2

LEMMA EmptyRange == Range(<< >>) = {} /\ IsInjective(<< >>)
BY DEF Range, IsInjective

-----------------------------------------------------------------------------
(* Semaphores.  The three invariants are inductive together: a sleeper is   *)
(* on the wait queue, so a signal leaves no sleeper, and units only become  *)
(* fewer between two signals.                                               *)

\* The helpers of both modules are the same.
LEMMA SemHelpers ==
  /\ Sem!Range(<< >>) = {} /\ Sem!IsInjective(<< >>)
  /\ \A q \in Seq(Tasks) : Sem!Range(q) \subseteq Tasks
  /\ \A q \in Seq(Tasks), t \in Tasks :
       /\ Sem!Enqueue(q, t) \in Seq(Tasks)
       /\ Sem!Range(Sem!Enqueue(q, t)) = Sem!Range(q) \cup {t}
       /\ Sem!IsInjective(q) => Sem!IsInjective(Sem!Enqueue(q, t))
<1>1. \A q : Sem!Range(q) = Range(q) /\ (Sem!IsInjective(q) <=> IsInjective(q))
  BY DEF Sem!Range, Range, Sem!IsInjective, IsInjective
<1>2. \A q, t : Sem!Enqueue(q, t) = Enqueue(q, t)
  BY <1>1 DEF Sem!Enqueue, Enqueue
<1>3. \A q \in Seq(Tasks) : Range(q) \subseteq Tasks
  BY DEF Range
<1> QED BY <1>1, <1>2, <1>3, EnqueueLemma, EmptyRange

SemInv == Sem!TypeOK /\ Sem!NoLostWakeup /\ Sem!SleepsOnlyWithoutUnits

LEMMA SemInit == Sem!Init => SemInv
<1> SUFFICES ASSUME Sem!Init PROVE SemInv
  OBVIOUS
<1>1. Sem!TypeOK
  BY SyncAssumption, SemHelpers DEF Sem!Init, Sem!TypeOK
<1>2. \A t \in Tasks : ~Sem!Asleep(t)
  BY DEF Sem!Init, Sem!Asleep
<1> QED BY <1>1, <1>2 DEF SemInv, Sem!NoLostWakeup, Sem!SleepsOnlyWithoutUnits

LEMMA NeedsAreUnits == SemInv => \A t \in Tasks : need[t] \in Nat
<1>1. Amounts \cup {0} \subseteq Nat
  BY SyncAssumption
<1> QED BY <1>1 DEF SemInv, Sem!TypeOK

\* The locked region of semaphore_wait.
LEMMA SemTest ==
  ASSUME SemInv, NEW t \in Tasks, Sem!Test(t)
  PROVE  SemInv'
<1>1. CASE s >= need[t]
  <2>1. /\ s' = s - need[t] /\ spc' = [spc EXCEPT ![t] = "out"]
        /\ UNCHANGED <<waitqueue, need, timed, sready>>
    BY <1>1 DEF Sem!Test
  <2>2. need[t] \in Nat
    BY NeedsAreUnits
  <2>3. Sem!TypeOK'
    BY <1>1, <2>1, <2>2, SyncAssumption DEF SemInv, Sem!TypeOK
  <2>4. \A u \in Tasks : Sem!Asleep(u)' => Sem!Asleep(u)
    BY <2>1 DEF SemInv, Sem!TypeOK, Sem!Asleep
  <2>5. Sem!NoLostWakeup'
    BY <2>1, <2>4 DEF SemInv, Sem!NoLostWakeup
  <2>6. \A u \in Tasks : need[u] \in Nat
    BY NeedsAreUnits
  <2>7. Sem!SleepsOnlyWithoutUnits'
    BY <2>1, <2>2, <2>4, <2>6, SyncAssumption DEF SemInv, Sem!SleepsOnlyWithoutUnits, Sem!TypeOK
  <2> QED BY <2>3, <2>5, <2>7 DEF SemInv
<1>2. CASE ~(s >= need[t])
  <2>1. /\ waitqueue' = Sem!Enqueue(waitqueue, t) /\ spc' = [spc EXCEPT ![t] = "blocking"]
        /\ UNCHANGED <<s, need, timed, sready>>
    BY <1>2 DEF Sem!Test
  <2>2. /\ waitqueue' \in Seq(Tasks) /\ Sem!IsInjective(waitqueue')
        /\ Sem!Range(waitqueue') = Sem!Range(waitqueue) \cup {t}
    BY <2>1, SemHelpers DEF SemInv, Sem!TypeOK
  <2>3. Sem!TypeOK'
    BY <2>1, <2>2 DEF SemInv, Sem!TypeOK
  <2>4. \A u \in Tasks : Sem!Asleep(u)' => u = t \/ Sem!Asleep(u)
    BY <2>1 DEF SemInv, Sem!TypeOK, Sem!Asleep
  <2>5. Sem!NoLostWakeup'
    BY <2>2, <2>4 DEF SemInv, Sem!NoLostWakeup
  <2>6. s < need[t]
    BY <1>2, NeedsAreUnits, SyncAssumption DEF SemInv, Sem!TypeOK
  <2>7. Sem!SleepsOnlyWithoutUnits'
    BY <2>1, <2>4, <2>6 DEF SemInv, Sem!SleepsOnlyWithoutUnits
  <2> QED BY <2>3, <2>5, <2>7 DEF SemInv
<1> QED BY <1>1, <1>2

\* semaphore_signal leaves nobody asleep.
LEMMA SemSignal ==
  ASSUME SemInv, NEW n \in Amounts, Sem!Signal(n)
  PROVE  SemInv'
<1>1. /\ s' = IF s + n > MaxUnits THEN MaxUnits ELSE s + n
      /\ sready' = sready \cup Sem!Range(waitqueue) /\ waitqueue' = << >>
      /\ UNCHANGED <<spc, need, timed>>
  BY DEF Sem!Signal
<1>2. Sem!Range(waitqueue) \subseteq Tasks
  BY SemHelpers DEF SemInv, Sem!TypeOK
<1>3. s' \in 0 .. MaxUnits
  BY <1>1, SyncAssumption DEF SemInv, Sem!TypeOK
<1>4. Sem!TypeOK'
  BY <1>1, <1>2, <1>3, SemHelpers DEF SemInv, Sem!TypeOK
<1>5. \A u \in Tasks : ~Sem!Asleep(u)'
  BY <1>1 DEF SemInv, Sem!NoLostWakeup, Sem!Asleep
<1> QED BY <1>4, <1>5 DEF SemInv, Sem!NoLostWakeup, Sem!SleepsOnlyWithoutUnits

LEMMA SemNext == SemInv /\ [Sem!Next]_svars => SemInv'
<1> SUFFICES ASSUME SemInv, [Sem!Next]_svars PROVE SemInv'
  OBVIOUS
<1>1. CASE UNCHANGED svars
  BY <1>1 DEF svars, SemInv, Sem!TypeOK, Sem!NoLostWakeup, Sem!SleepsOnlyWithoutUnits, Sem!Asleep
<1>2. ASSUME NEW t \in Tasks, NEW n \in Amounts, NEW timeout \in BOOLEAN, Sem!Wait(t, n, timeout)
      PROVE  SemInv'
  <2>1. Sem!TypeOK'
    BY <1>2 DEF SemInv, Sem!TypeOK, Sem!Wait
  <2>2. \A u \in Tasks : Sem!Asleep(u)' => Sem!Asleep(u) /\ need'[u] = need[u]
    BY <1>2 DEF SemInv, Sem!TypeOK, Sem!Wait, Sem!Asleep
  <2> QED
    BY <1>2, <2>1, <2>2 DEF SemInv, Sem!Wait, Sem!NoLostWakeup, Sem!SleepsOnlyWithoutUnits
<1>3. ASSUME NEW t \in Tasks, Sem!Block(t) \/ Sem!Dispatch(t)
      PROVE  SemInv'
  <2>1. Sem!TypeOK'
    BY <1>3 DEF SemInv, Sem!TypeOK, Sem!Block, Sem!Dispatch
  <2>2. \A u \in Tasks : Sem!Asleep(u)' => Sem!Asleep(u)
    BY <1>3 DEF SemInv, Sem!TypeOK, Sem!Block, Sem!Dispatch, Sem!Asleep
  <2>3. UNCHANGED <<s, waitqueue, need>>
    BY <1>3 DEF Sem!Block, Sem!Dispatch
  <2> QED
    BY <2>1, <2>2, <2>3 DEF SemInv, Sem!NoLostWakeup, Sem!SleepsOnlyWithoutUnits
<1> QED
  BY <1>1, <1>2, <1>3, SemTest, SemSignal DEF Sem!Next, Sem!Step

-----------------------------------------------------------------------------
(* Circular buffers.                                                        *)

\* A position at most one lap after a slot.
LEMMA WrapAround ==
  ASSUME NEW n \in Nat \ {0}, NEW p \in 0 .. n - 1, NEW k \in 0 .. n
  PROVE  /\ (p + k) % n = IF p + k < n THEN p + k ELSE p + k - n
         /\ (p + k) % n \in 0 .. n - 1
<1>1. CASE p + k < n
  <2>1. \A x \in 0 .. n - 1 : x % n = x
    OBVIOUS
  <2> QED BY <1>1, <2>1
<1>2. CASE p + k >= n
  <2>1. \A x \in n .. 2 * n - 1 : x % n = x - n
    OBVIOUS
  <2> QED BY <1>2, <2>1
<1> QED BY <1>1, <1>2

\* The pointers move on with the count.
LEMMA PointersMove ==
  ASSUME NEW r \in Slots, NEW c \in 0 .. num_elts
  PROVE  /\ Advance(r) \in Slots
         /\ c # num_elts => Advance((r + c) % num_elts) = (r + (c + 1)) % num_elts
         /\ c # 0 => (Advance(r) + (c - 1)) % num_elts = (r + c) % num_elts
<1>1. num_elts \in Nat \ {0} /\ r \in 0 .. num_elts - 1
  BY CircularAssumption DEF Slots
<1>2. \A k \in 0 .. num_elts : (r + k) % num_elts = IF r + k < num_elts THEN r + k ELSE r + k - num_elts
  BY <1>1, WrapAround
<1>3. Advance(r) \in 0 .. num_elts - 1
  BY <1>1 DEF Advance
<1>4. c # num_elts => Advance((r + c) % num_elts) = (r + (c + 1)) % num_elts
  BY <1>1, <1>2 DEF Advance
<1>5. ASSUME c # 0 PROVE (Advance(r) + (c - 1)) % num_elts = (r + c) % num_elts
  <2>1. c - 1 \in 0 .. num_elts
    BY <1>1, <1>5
  <2>2. (Advance(r) + (c - 1)) % num_elts = IF Advance(r) + (c - 1) < num_elts
          THEN Advance(r) + (c - 1) ELSE Advance(r) + (c - 1) - num_elts
    BY <1>1, <1>3, <2>1, WrapAround
  <2> QED BY <1>1, <1>2, <1>5, <2>2 DEF Advance
<1> QED BY <1>3, <1>4, <1>5 DEF Slots

RingInv == TypeOK /\ SleepsOnlyIfMust

LEMMA OperationsLemma ==
  /\ NoOp \in Operations
  /\ \A o \in Operations : /\ o.kind \in {"insert", "remove"} /\ o.elt \in Elements \cup {Refused}
                           /\ o.kind = "insert" => o.elt \in Elements
BY DEF Operations, NoOp

LEMMA RingInit == Init => RingInv
<1> SUFFICES ASSUME Init PROVE RingInv
  OBVIOUS
<1>1. TypeOK
  BY CircularAssumption, OperationsLemma, WrapAround DEF Init, TypeOK, Slots
<1>2. \A t \in Tasks : ~Asleep(t)
  BY DEF Init, Asleep
<1> QED BY <1>1, <1>2 DEF RingInv, SleepsOnlyIfMust

\* circular_insert with room wakes up every remover.
LEMMA RingInsert ==
  ASSUME RingInv, NEW t \in Tasks, pc[t] = "test", op[t].kind = "insert", Insert(t)
  PROVE  RingInv'
<1>1. op[t] \in Operations /\ op[t].elt \in Elements /\ Range(rem_waitq) \subseteq Tasks
  BY OperationsLemma DEF RingInv, TypeOK, Range
<1>2. insert_ptr' \in Slots /\ insert_ptr' = (remove_ptr' + cur_count') % num_elts
  BY PointersMove DEF RingInv, TypeOK, Insert
<1>3. cur_count' \in 0 .. num_elts
  BY CircularAssumption DEF RingInv, TypeOK, Insert
<1>4. last' \in Tasks \X (Elements \cup {Refused}) /\ op' \in [Tasks -> Operations]
  BY <1>1, OperationsLemma DEF RingInv, TypeOK, Insert, Return
<1>5. TypeOK'
  BY <1>1, <1>2, <1>3, <1>4 DEF RingInv, TypeOK, Insert, Return
<1>6. \A u \in Tasks : ~Asleep(u)'
  <2> SUFFICES ASSUME NEW u \in Tasks, Asleep(u)' PROVE FALSE
    OBVIOUS
  <2>1. Asleep(u) /\ u \notin Range(rem_waitq)
    BY DEF Asleep, Insert, Return, RingInv, TypeOK
  <2>2. cur_count = num_elts
    BY <2>1 DEF RingInv, SleepsOnlyIfMust
  <2> QED BY <2>2 DEF Insert
<1> QED BY <1>5, <1>6 DEF RingInv, SleepsOnlyIfMust

\* circular_remove of an element wakes up every inserter.
LEMMA RingRemove ==
  ASSUME RingInv, NEW t \in Tasks, pc[t] = "test", op[t].kind = "remove", Remove(t)
  PROVE  RingInv'
<1>1. Range(ins_waitq) \subseteq Tasks
  BY DEF RingInv, TypeOK, Range
<1>2. remove_ptr' \in Slots /\ insert_ptr' = (remove_ptr' + cur_count') % num_elts
  BY PointersMove DEF RingInv, TypeOK, Remove
<1>3. cur_count' \in 0 .. num_elts
  BY CircularAssumption DEF RingInv, TypeOK, Remove
<1>4. last' \in Tasks \X (Elements \cup {Refused}) /\ op' \in [Tasks -> Operations]
  BY OperationsLemma DEF RingInv, TypeOK, Remove, Return
<1>5. TypeOK'
  BY <1>1, <1>2, <1>3, <1>4 DEF RingInv, TypeOK, Remove, Return
<1>6. \A u \in Tasks : ~Asleep(u)'
  <2> SUFFICES ASSUME NEW u \in Tasks, Asleep(u)' PROVE FALSE
    OBVIOUS
  <2>1. Asleep(u) /\ u \notin Range(ins_waitq)
    BY DEF Asleep, Remove, Return, RingInv, TypeOK
  <2>2. cur_count = 0
    BY <2>1 DEF RingInv, SleepsOnlyIfMust
  <2> QED BY <2>2 DEF Remove
<1> QED BY <1>5, <1>6 DEF RingInv, SleepsOnlyIfMust

\* An operation that has to wait queues up; one that may not is refused.
LEMMA RingWait ==
  ASSUME RingInv, NEW t \in Tasks, pc[t] = "test",
         \/ op[t].kind = "insert" /\ InsertFull(t)
         \/ op[t].kind = "remove" /\ RemoveEmpty(t)
  PROVE  RingInv'
<1>1. CASE op[t].kind = "insert" /\ InsertFull(t) /\ op[t].nowait
  <2>1. TypeOK'
    BY <1>1, OperationsLemma DEF RingInv, TypeOK, InsertFull, Return
  <2>2. \A u \in Tasks : Asleep(u)' => Asleep(u) /\ op'[u] = op[u]
    BY <1>1 DEF RingInv, TypeOK, InsertFull, Return, Asleep
  <2> QED BY <1>1, <2>1, <2>2 DEF RingInv, SleepsOnlyIfMust, InsertFull
<1>2. CASE op[t].kind = "insert" /\ InsertFull(t) /\ ~op[t].nowait
  <2>1. /\ ins_waitq' = Enqueue(ins_waitq, t) /\ pc' = [pc EXCEPT ![t] = "blocking"]
        /\ UNCHANGED <<ring, insert_ptr, remove_ptr, cur_count, rem_waitq, op, last, ready>>
    BY <1>2 DEF InsertFull
  <2>2. ins_waitq' \in Seq(Tasks) /\ Range(ins_waitq') = Range(ins_waitq) \cup {t}
    BY <2>1, EnqueueLemma DEF RingInv, TypeOK
  <2>3. TypeOK'
    BY <2>1, <2>2 DEF RingInv, TypeOK
  <2>4. \A u \in Tasks : Asleep(u)' => u = t \/ Asleep(u)
    BY <2>1 DEF RingInv, TypeOK, Asleep
  <2>5. cur_count = num_elts
    BY <1>2 DEF InsertFull
  <2> QED BY <1>2, <2>1, <2>2, <2>3, <2>4, <2>5 DEF RingInv, SleepsOnlyIfMust
<1>3. CASE op[t].kind = "remove" /\ RemoveEmpty(t)
  <2>1. rem_waitq' \in Seq(Tasks) /\ Range(rem_waitq') = Range(rem_waitq) \cup {t}
    BY <1>3, EnqueueLemma DEF RingInv, TypeOK, RemoveEmpty
  <2>2. TypeOK'
    BY <1>3, <2>1 DEF RingInv, TypeOK, RemoveEmpty
  <2>3. \A u \in Tasks : Asleep(u)' => u = t \/ Asleep(u)
    BY <1>3 DEF RingInv, TypeOK, RemoveEmpty, Asleep
  <2> QED BY <1>3, <2>1, <2>2, <2>3 DEF RingInv, SleepsOnlyIfMust, RemoveEmpty
<1> QED BY <1>1, <1>2, <1>3

LEMMA RingNext == RingInv /\ [Next]_vars => RingInv'
<1> SUFFICES ASSUME RingInv, [Next]_vars PROVE RingInv'
  OBVIOUS
<1>1. CASE UNCHANGED vars
  BY <1>1 DEF vars, RingInv, TypeOK, SleepsOnlyIfMust, Asleep
<1>2. ASSUME NEW t \in Tasks, NEW o \in Operations, Call(t, o)
      PROVE  RingInv'
  <2>1. TypeOK'
    BY <1>2 DEF RingInv, TypeOK, Call
  <2>2. \A u \in Tasks : Asleep(u)' => Asleep(u) /\ op'[u] = op[u]
    BY <1>2 DEF RingInv, TypeOK, Call, Asleep
  <2> QED BY <1>2, <2>1, <2>2 DEF RingInv, SleepsOnlyIfMust, Call
<1>3. ASSUME NEW t \in Tasks, Block(t) \/ Dispatch(t)
      PROVE  RingInv'
  <2>1. TypeOK'
    BY <1>3 DEF RingInv, TypeOK, Block, Dispatch
  <2>2. \A u \in Tasks : Asleep(u)' => Asleep(u)
    BY <1>3 DEF RingInv, TypeOK, Block, Dispatch, Asleep
  <2>3. UNCHANGED <<cur_count, ins_waitq, rem_waitq, op>>
    BY <1>3 DEF Block, Dispatch
  <2> QED BY <2>1, <2>2, <2>3 DEF RingInv, SleepsOnlyIfMust
<1> QED
  BY <1>1, <1>2, <1>3, RingInsert, RingRemove, RingWait DEF Next, Step, Test

\* The slots in use, from the oldest element on.
Contents == [i \in 1 .. cur_count |-> ring[(remove_ptr + i - 1) % num_elts]]

LEMMA ContentsType ==
  ASSUME TypeOK
  PROVE  /\ Contents \in Seq(Elements \cup {Refused}) /\ Len(Contents) = cur_count
         /\ \A i \in 1 .. cur_count : /\ (remove_ptr + i - 1) % num_elts \in Slots
                                      /\ Contents[i] = ring[(remove_ptr + i - 1) % num_elts]
<1>1. ASSUME NEW i \in 1 .. cur_count PROVE (remove_ptr + i - 1) % num_elts \in Slots
  <2>1. i - 1 \in 0 .. num_elts /\ remove_ptr + i - 1 = remove_ptr + (i - 1)
    BY CircularAssumption DEF TypeOK, Slots
  <2> QED BY <2>1, CircularAssumption, WrapAround DEF TypeOK, Slots
<1>2. cur_count \in Nat
  BY CircularAssumption DEF TypeOK
<1>3. Contents \in [1 .. cur_count -> Elements \cup {Refused}]
  BY <1>1 DEF TypeOK, Contents
<1>4. Contents \in Seq(Elements \cup {Refused}) /\ Len(Contents) = cur_count
  BY <1>2, <1>3, IsASeq, LenProperties
<1> QED BY <1>1, <1>4 DEF Contents

\* An insertion writes the first slot that is not in use.
LEMMA InsertAppends ==
  ASSUME RingInv, NEW t \in Tasks, op[t].kind = "insert", Insert(t)
  PROVE  Contents' = Append(Contents, op[t].elt)
<1> USE DEF RingInv
<1>1. /\ num_elts \in Nat \ {0} /\ remove_ptr \in 0 .. num_elts - 1
      /\ cur_count \in 0 .. num_elts - 1
      /\ insert_ptr = (remove_ptr + cur_count) % num_elts /\ insert_ptr \in Slots
      /\ ring' = [ring EXCEPT ![insert_ptr] = op[t].elt]
      /\ cur_count' = cur_count + 1 /\ remove_ptr' = remove_ptr
  BY CircularAssumption DEF TypeOK, Slots, Insert
<1>2. \A k \in 0 .. num_elts : (remove_ptr + k) % num_elts =
        IF remove_ptr + k < num_elts THEN remove_ptr + k ELSE remove_ptr + k - num_elts
  BY <1>1, WrapAround
<1>3. ASSUME NEW i \in 1 .. cur_count
      PROVE  ring'[(remove_ptr + i - 1) % num_elts] = Contents[i]
  <2>1. i - 1 \in 0 .. num_elts /\ remove_ptr + i - 1 = remove_ptr + (i - 1)
    BY <1>1
  <2>2. (remove_ptr + i - 1) % num_elts # insert_ptr
    BY <1>1, <1>2, <2>1
  <2>3. (remove_ptr + i - 1) % num_elts \in Slots /\ Contents[i] = ring[(remove_ptr + i - 1) % num_elts]
    BY ContentsType
  <2> QED BY <1>1, <2>2, <2>3 DEF TypeOK
<1>4. ring'[(remove_ptr + (cur_count + 1) - 1) % num_elts] = op[t].elt
  <2>1. remove_ptr + (cur_count + 1) - 1 = remove_ptr + cur_count
    BY <1>1
  <2> QED BY <1>1, <2>1 DEF TypeOK
<1>5. Contents' = [i \in 1 .. cur_count + 1 |-> ring'[(remove_ptr + i - 1) % num_elts]]
  BY <1>1 DEF Contents
<1>6. Contents \in Seq(Elements \cup {Refused}) /\ Len(Contents) = cur_count
  BY ContentsType
<1>7. op[t].elt \in Elements \cup {Refused}
  BY OperationsLemma DEF TypeOK
<1> DEFINE q == Append(Contents, op[t].elt)
<1>8. /\ q = [i \in 1 .. cur_count + 1 |-> q[i]] /\ q[cur_count + 1] = op[t].elt
      /\ \A i \in 1 .. cur_count : q[i] = Contents[i]
  BY <1>1, <1>6, <1>7
<1> HIDE DEF q
<1>9. \A i \in 1 .. cur_count + 1 : ring'[(remove_ptr + i - 1) % num_elts] = q[i]
  <2> TAKE i \in 1 .. cur_count + 1
  <2>1. i = cur_count + 1 \/ i \in 1 .. cur_count
    BY <1>1
  <2> QED BY <1>3, <1>4, <1>8, <2>1
<1>10. Contents' = q
  BY <1>5, <1>8, <1>9
<1> QED BY <1>10 DEF q

\* A removal reads the oldest element and leaves the others.
LEMMA RemoveTakesHead ==
  ASSUME RingInv, NEW t \in Tasks, Remove(t)
  PROVE  /\ Contents # << >> /\ Head(Contents) = ring[remove_ptr]
         /\ Contents' = Tail(Contents)
<1> USE DEF RingInv
<1>1. /\ num_elts \in Nat \ {0} /\ remove_ptr \in 0 .. num_elts - 1
      /\ cur_count \in 1 .. num_elts
      /\ remove_ptr' = Advance(remove_ptr) /\ cur_count' = cur_count - 1 /\ ring' = ring
  BY CircularAssumption DEF TypeOK, Slots, Remove
<1>2. Contents \in Seq(Elements \cup {Refused}) /\ Len(Contents) = cur_count
  BY ContentsType
<1>3. Contents[1] = ring[remove_ptr]
  <2>1. remove_ptr + 1 - 1 = remove_ptr
    BY <1>1
  <2>2. remove_ptr % num_elts = remove_ptr
    BY <1>1
  <2> QED BY <1>1, <2>1, <2>2, ContentsType, SMTT(60)
<1>4. Contents' = [i \in 1 .. cur_count - 1 |-> ring[(Advance(remove_ptr) + i - 1) % num_elts]]
  BY <1>1 DEF Contents
<1>5. ASSUME NEW i \in 1 .. cur_count - 1
      PROVE  ring[(Advance(remove_ptr) + i - 1) % num_elts] = Contents[i + 1]
  <2>1. /\ i \in 0 .. num_elts /\ i # 0 /\ i + 1 \in 1 .. cur_count
        /\ Advance(remove_ptr) \in Int
        /\ Advance(remove_ptr) + i - 1 = Advance(remove_ptr) + (i - 1)
        /\ remove_ptr + (i + 1) - 1 = remove_ptr + i
    BY <1>1 DEF Advance
  <2>2. (Advance(remove_ptr) + (i - 1)) % num_elts = (remove_ptr + i) % num_elts
    BY <1>1, <2>1, PointersMove DEF Slots
  <2> QED BY <2>1, <2>2, ContentsType
<1> DEFINE q == Tail(Contents)
<1>6. q = [i \in 1 .. cur_count - 1 |-> q[i]] /\ \A i \in 1 .. cur_count - 1 : q[i] = Contents[i + 1]
  <2>1. /\ q \in Seq(Elements \cup {Refused}) /\ Len(q) = cur_count - 1
        /\ \A i \in 1 .. cur_count - 1 : q[i] = Contents[i + 1]
    BY <1>1, <1>2, HeadTailProperties
  <2>2. q \in [1 .. cur_count - 1 -> Elements \cup {Refused}]
    BY <2>1, LenProperties
  <2> QED BY <2>1, <2>2
<1> HIDE DEF q
<1>7. Contents' = q
  BY <1>4, <1>5, <1>6
<1>8. Contents # << >> /\ Head(Contents) = Contents[1]
  BY <1>1, <1>2
<1> QED BY <1>3, <1>7, <1>8 DEF q

\* Every step of a circular buffer is a step of a bounded queue, or none.
LEMMA RingStepIsFifoStep ==
  RingInv /\ [Next]_vars => [Fifo!Next]_<<Contents, last>>
<1> SUFFICES ASSUME RingInv, [Next]_vars PROVE [Fifo!Next]_<<Contents, last>>
  OBVIOUS
<1>1. CASE UNCHANGED <<ring, remove_ptr, cur_count, last>>
  BY <1>1 DEF Contents
<1>2. ASSUME NEW t \in Tasks, op[t].kind = "insert", Insert(t)
      PROVE  Fifo!Next
  <2>1. Len(Contents) < num_elts
    BY <1>2, ContentsType, CircularAssumption DEF RingInv, TypeOK, Insert
  <2>2. PICK e \in Elements : op[t].elt = e
    BY <1>2, OperationsLemma DEF RingInv, TypeOK
  <2>3. Fifo!Insert(t, e)
    BY <1>2, <2>1, <2>2, InsertAppends DEF Fifo!Insert, Contents, Insert, Return
  <2> QED BY <2>3 DEF Fifo!Next
<1>3. ASSUME NEW t \in Tasks, Remove(t)
      PROVE  Fifo!Next
  <2>1. Fifo!Remove(t)
    BY <1>3, RemoveTakesHead DEF Fifo!Remove, Contents, Remove, Return
  <2> QED BY <2>1 DEF Fifo!Next
<1>4. ASSUME NEW t \in Tasks, InsertFull(t), op[t].nowait
      PROVE  Fifo!Next
  <2>1. Len(Contents) = num_elts
    BY <1>4, ContentsType DEF RingInv, InsertFull
  <2>2. Fifo!Refuse(t)
    BY <1>4, <2>1 DEF Fifo!Refuse, Contents, InsertFull, Return
  <2> QED BY <2>2 DEF Fifo!Next
<1>5. ASSUME NEW t \in Tasks, Step(t) \/ \E o \in Operations : Call(t, o)
      PROVE  \/ UNCHANGED <<ring, remove_ptr, cur_count, last>>
             \/ op[t].kind = "insert" /\ Insert(t)
             \/ Remove(t)
             \/ InsertFull(t) /\ op[t].nowait
  BY <1>5 DEF Step, Test, Call, Block, Dispatch, InsertFull, RemoveEmpty
<1>6. CASE UNCHANGED vars
  BY <1>1, <1>6 DEF vars
<1> QED BY <1>1, <1>2, <1>3, <1>4, <1>5, <1>6 DEF Next

LEMMA RingInitIsFifoInit == Init => Fifo!Init
BY DEF Init, Fifo!Init

-----------------------------------------------------------------------------
(* The log buffer.  Each side of it relies on what the other leaves alone   *)
(* between its two steps: logger_putc on the room it found, logger_getc on  *)
(* the character it read.                                                   *)

Size == LOGGER_BUF_SIZE

LogInv ==
  /\ Log!TypeOK /\ head # tail
  /\ putting # Refused => logger_buf[head] = putting /\ Log!After(head) # tail
  /\ getting # Refused => logger_buf[Log!After(tail)] = getting /\ Log!After(tail) # head

\* Positions in the buffer without the remainders.
LEMMA AfterLemma ==
  ASSUME NEW i \in 0 .. Size - 1
  PROVE  /\ Log!After(i) = IF i = Size - 1 THEN 0 ELSE i + 1
         /\ Log!After(i) \in 0 .. Size - 1
<1>1. Size \in Nat \ {0} /\ 1 \in 0 .. Size
  BY SyncAssumption DEF Size
<1>2. (i + 1) % Size = IF i + 1 < Size THEN i + 1 ELSE i + 1 - Size
  BY <1>1, WrapAround
<1> QED BY <1>1, <1>2 DEF Log!After, Size

\* The number of characters between a tail and a head.
Gap(h, t) == (h + Size - Log!After(t)) % Size

LEMMA GapLemma ==
  ASSUME NEW h \in 0 .. Size - 1, NEW t \in 0 .. Size - 1, h # t
  PROVE  /\ Gap(h, t) = IF h > t THEN h - t - 1 ELSE h - t - 1 + Size
         /\ Gap(h, t) \in 0 .. Size - 2
<1>1. Size \in Nat \ {0}
  BY SyncAssumption DEF Size
<1>2. Log!After(t) = IF t = Size - 1 THEN 0 ELSE t + 1
  BY AfterLemma
<1> DEFINE k == Size - Log!After(t)
<1>3. k \in 0 .. Size /\ h + Size - Log!After(t) = h + k
  BY <1>1, <1>2
<1>4. Gap(h, t) = (h + k) % Size
  BY <1>3 DEF Gap
<1>5. k = IF t = Size - 1 THEN Size ELSE Size - t - 1
  BY <1>1, <1>2
<1> HIDE DEF k
<1>6. (h + k) % Size = IF h + k < Size THEN h + k ELSE h + k - Size
  BY <1>1, <1>3, WrapAround
<1> QED BY <1>1, <1>4, <1>5, <1>6

LEMMA LogInit == Log!Init => LogInv
<1> SUFFICES ASSUME Log!Init PROVE LogInv
  OBVIOUS
<1>1. head \in Log!Cells /\ tail \in Log!Cells /\ head # tail
  BY SyncAssumption DEF Log!Init, Log!Cells
<1>2. Log!TypeOK
  BY <1>1 DEF Log!Init, Log!TypeOK
<1> QED BY <1>1, <1>2 DEF LogInv, Log!Init

LEMMA LogNext == LogInv /\ [Log!Next]_logvars => LogInv'
<1> SUFFICES ASSUME LogInv, [Log!Next]_logvars PROVE LogInv'
  OBVIOUS
<1>0. /\ head \in 0 .. Size - 1 /\ tail \in 0 .. Size - 1 /\ Size \in Nat
      /\ Log!Cells = 0 .. Size - 1
  BY SyncAssumption DEF LogInv, Log!TypeOK, Log!Cells, Size
<1>1. CASE UNCHANGED logvars
  BY <1>1 DEF logvars, LogInv, Log!TypeOK, Log!After
<1>2. CASE Log!StartThread
  BY <1>2 DEF Log!StartThread, LogInv, Log!TypeOK
<1>3. ASSUME NEW c \in Elements, Log!Put(c)
      PROVE  LogInv'
  <2>1. CASE Log!Full(Log!After(head))
    BY <1>3, <2>1 DEF Log!Put, LogInv, Log!TypeOK
  <2>2. CASE ~Log!Full(Log!After(head))
    <3>1. /\ logger_buf' = [logger_buf EXCEPT ![head] = c] /\ putting' = c
          /\ UNCHANGED <<head, tail, dropped, llast, logger_running, getting>>
      BY <1>3, <2>2 DEF Log!Put
    <3>2. Log!TypeOK'
      BY <3>1 DEF LogInv, Log!TypeOK
    <3>3. logger_buf'[head'] = putting' /\ Log!After(head') # tail'
      BY <2>2, <3>1 DEF LogInv, Log!TypeOK, Log!Full
    <3>4. getting' # Refused => logger_buf'[Log!After(tail')] = getting' /\ Log!After(tail') # head'
      BY <1>0, <3>1, AfterLemma DEF LogInv, Log!TypeOK
    <3> QED BY <3>1, <3>2, <3>3, <3>4 DEF LogInv
  <2> QED BY <2>1, <2>2
<1>4. CASE Log!Publish
  <2>1. Log!TypeOK'
    BY <1>0, <1>4, AfterLemma DEF Log!Publish, LogInv, Log!TypeOK
  <2>2. /\ head' = Log!After(head) /\ putting' = Refused
        /\ UNCHANGED <<logger_buf, tail, getting>> /\ Log!After(head) # tail
    BY <1>4 DEF Log!Publish, LogInv
  <2>3. Log!After(tail) # Log!After(head)
    BY <1>0, AfterLemma DEF LogInv
  <2> QED BY <2>1, <2>2, <2>3 DEF LogInv
<1>5. CASE Log!Get
  <2>1. Log!TypeOK'
    BY <1>0, <1>5, AfterLemma DEF Log!Get, LogInv, Log!TypeOK
  <2> QED BY <1>5, <2>1 DEF Log!Get, LogInv
<1>6. CASE Log!Taken
  <2>1. Log!TypeOK'
    BY <1>0, <1>6, AfterLemma DEF Log!Taken, LogInv, Log!TypeOK
  <2>2. /\ tail' = Log!After(tail) /\ getting' = Refused
        /\ UNCHANGED <<logger_buf, head, putting>> /\ Log!After(tail) # head
    BY <1>6 DEF Log!Taken, LogInv
  <2>3. Log!After(head) # Log!After(tail)
    BY <1>0, AfterLemma DEF LogInv
  <2> QED BY <2>1, <2>2, <2>3 DEF LogInv
<1>7. CASE Log!Report
  BY <1>7 DEF Log!Report, LogInv, Log!TypeOK
<1> QED BY <1>1, <1>2, <1>3, <1>4, <1>5, <1>6, <1>7 DEF Log!Next

\* The characters between tail and head.
Logged == [i \in 1 .. Log!Waiting |-> logger_buf[(tail + i) % Size]]

\* The cell of the i-th of them.
LEMMA CellLemma ==
  ASSUME NEW p \in 0 .. Size - 1, NEW i \in 1 .. Size - 1
  PROVE  /\ (p + i) % Size = IF p + i < Size THEN p + i ELSE p + i - Size
         /\ (p + i) % Size \in 0 .. Size - 1
<1>1. Size \in Nat \ {0} /\ i \in 0 .. Size
  BY SyncAssumption DEF Size
<1> QED BY <1>1, WrapAround

LEMMA LoggedType ==
  ASSUME LogInv
  PROVE  /\ Size \in Nat /\ Size >= 2 /\ Log!Cells = 0 .. Size - 1
         /\ head \in 0 .. Size - 1 /\ tail \in 0 .. Size - 1
         /\ Log!Waiting \in 0 .. Size - 2
         /\ Log!Waiting = IF head > tail THEN head - tail - 1 ELSE head - tail - 1 + Size
         /\ Logged \in Seq(Elements \cup {Refused}) /\ Len(Logged) = Log!Waiting
         /\ \A i \in 1 .. Log!Waiting : Logged[i] = logger_buf[(tail + i) % Size]
<1>1. /\ head \in 0 .. Size - 1 /\ tail \in 0 .. Size - 1 /\ Size \in Nat /\ Size >= 2
      /\ Log!Cells = 0 .. Size - 1
  BY SyncAssumption DEF LogInv, Log!TypeOK, Log!Cells, Size
<1>2. Log!Waiting = Gap(head, tail)
  BY DEF Log!Waiting, Gap, Size
<1>3. /\ Gap(head, tail) = IF head > tail THEN head - tail - 1 ELSE head - tail - 1 + Size
      /\ Gap(head, tail) \in 0 .. Size - 2
  BY <1>1, GapLemma DEF LogInv
<1>4. \A i \in 1 .. Log!Waiting : (tail + i) % Size \in Log!Cells
  BY <1>1, <1>2, <1>3, CellLemma
<1>5. Logged \in [1 .. Log!Waiting -> Elements \cup {Refused}]
  BY <1>4 DEF LogInv, Log!TypeOK, Logged
<1>6. Logged \in Seq(Elements \cup {Refused}) /\ Len(Logged) = Log!Waiting
  BY <1>1, <1>2, <1>3, <1>5, IsASeq, LenProperties
<1> QED BY <1>1, <1>2, <1>3, <1>6 DEF Logged

\* What logger_putc stores is not between tail and head yet.
LEMMA PutIsInvisible ==
  ASSUME LogInv, NEW c \in Elements, Log!Put(c)
  PROVE  Logged' = Logged
<1>1. CASE UNCHANGED logger_buf
  BY <1>1 DEF Log!Put, Logged, Log!Waiting, Log!After
<1>2. CASE logger_buf' = [logger_buf EXCEPT ![head] = c]
  <2> DEFINE w == Log!Waiting
  <2>1. UNCHANGED <<head, tail>> /\ Log!Waiting' = w
    BY DEF Log!Put, Log!Waiting, Log!After
  <2>2. /\ Size \in Nat /\ Size >= 2 /\ head \in 0 .. Size - 1 /\ tail \in 0 .. Size - 1
        /\ w \in 0 .. Size - 2 /\ Log!Cells = 0 .. Size - 1
        /\ w = IF head > tail THEN head - tail - 1 ELSE head - tail - 1 + Size
    BY LoggedType
  <2> HIDE DEF w
  <2>3. ASSUME NEW i \in 1 .. w
        PROVE  logger_buf'[(tail + i) % Size] = logger_buf[(tail + i) % Size]
    <3>1. i \in 1 .. Size - 1
      BY <2>2
    <3>2. /\ (tail + i) % Size = IF tail + i < Size THEN tail + i ELSE tail + i - Size
          /\ (tail + i) % Size \in Log!Cells
      BY <2>2, <3>1, CellLemma
    <3>3. (tail + i) % Size # head
      BY <2>2, <3>2
    <3> QED BY <1>2, <3>2, <3>3 DEF LogInv, Log!TypeOK
  <2> QED BY <2>1, <2>3 DEF Logged, w
<1> QED BY <1>1, <1>2 DEF Log!Put

\* Moving head adds the character stored before.
LEMMA PublishAppends ==
  ASSUME LogInv, Log!Publish
  PROVE  Len(Logged) < Size - 2 /\ Logged' = Append(Logged, putting)
<1> DEFINE w == Log!Waiting
<1>1. /\ head' = Log!After(head) /\ UNCHANGED <<logger_buf, tail>>
      /\ logger_buf[head] = putting /\ Log!After(head) # tail /\ head # tail
      /\ putting \in Elements \cup {Refused}
  BY DEF Log!Publish, LogInv, Log!TypeOK
<1>2. /\ Size \in Nat /\ Size >= 2 /\ head \in 0 .. Size - 1 /\ tail \in 0 .. Size - 1
      /\ w \in 0 .. Size - 2 /\ Log!Cells = 0 .. Size - 1
      /\ w = IF head > tail THEN head - tail - 1 ELSE head - tail - 1 + Size
  BY LoggedType
<1>3. /\ Log!After(head) = IF head = Size - 1 THEN 0 ELSE head + 1
      /\ Log!After(head) \in 0 .. Size - 1
  BY <1>2, AfterLemma
<1>4. Log!Waiting' = Gap(Log!After(head), tail)
  BY <1>1 DEF Log!Waiting, Gap, Size, Log!After
<1>5. Gap(Log!After(head), tail) = IF Log!After(head) > tail THEN Log!After(head) - tail - 1
        ELSE Log!After(head) - tail - 1 + Size
  BY <1>1, <1>2, <1>3, GapLemma
<1> HIDE DEF w
<1>6. Log!Waiting' = w + 1 /\ w + 1 <= Size - 2
  BY <1>1, <1>2, <1>3, <1>4, <1>5
<1>7. (tail + (w + 1)) % Size = head
  <2>1. w + 1 \in 1 .. Size - 1
    BY <1>2
  <2>2. (tail + (w + 1)) % Size = IF tail + (w + 1) < Size THEN tail + (w + 1) ELSE tail + (w + 1) - Size
    BY <1>2, <2>1, CellLemma
  <2> QED BY <1>1, <1>2, <2>2
<1>8. Logged' = [i \in 1 .. w + 1 |-> logger_buf[(tail + i) % Size]]
  BY <1>1, <1>6 DEF Logged, Size
<1>9. /\ Logged \in Seq(Elements \cup {Refused}) /\ Len(Logged) = w
      /\ \A i \in 1 .. w : Logged[i] = logger_buf[(tail + i) % Size]
  BY LoggedType DEF w
<1> DEFINE q == Append(Logged, putting)
<1>10. /\ q \in Seq(Elements \cup {Refused}) /\ Len(q) = w + 1 /\ q[w + 1] = putting
       /\ \A i \in 1 .. w : q[i] = Logged[i]
  BY <1>1, <1>9, AppendProperties
<1>11. q = [i \in 1 .. w + 1 |-> q[i]]
  BY <1>10, LenProperties
<1> HIDE DEF q
<1>12. ASSUME NEW i \in 1 .. w + 1 PROVE logger_buf[(tail + i) % Size] = q[i]
  <2>1. i = w + 1 \/ i \in 1 .. w
    BY <1>2
  <2> QED BY <1>1, <1>7, <1>9, <1>10, <2>1
<1>13. Logged' = q
  BY <1>8, <1>11, <1>12
<1> QED BY <1>2, <1>6, <1>9, <1>13 DEF q

\* Moving tail drops the character read before, which is the oldest.
LEMMA TakenIsHead ==
  ASSUME LogInv, Log!Taken
  PROVE  Logged # << >> /\ Head(Logged) = getting /\ Logged' = Tail(Logged)
<1> DEFINE w == Log!Waiting
           next == Log!After(tail)
<1>1. /\ tail' = next /\ UNCHANGED <<logger_buf, head>>
      /\ logger_buf[next] = getting /\ next # head /\ head # tail
  BY DEF Log!Taken, LogInv
<1>2. /\ Size \in Nat /\ Size >= 2 /\ head \in 0 .. Size - 1 /\ tail \in 0 .. Size - 1
      /\ w \in 0 .. Size - 2
      /\ w = IF head > tail THEN head - tail - 1 ELSE head - tail - 1 + Size
  BY LoggedType
<1>3. next = (IF tail = Size - 1 THEN 0 ELSE tail + 1) /\ next \in 0 .. Size - 1
  BY <1>2, AfterLemma
<1>4. Log!Waiting' = Gap(head, next)
  BY <1>1 DEF Log!Waiting, Gap, Size, Log!After
<1>5. (tail + 1) % Size = next
  BY DEF Log!After, Size
<1> HIDE DEF next
<1>6. Gap(head, next) = IF head > next THEN head - next - 1 ELSE head - next - 1 + Size
  BY <1>1, <1>2, <1>3, GapLemma
<1> HIDE DEF w
<1>7. Log!Waiting' = w - 1 /\ w >= 1
  BY <1>1, <1>2, <1>3, <1>4, <1>6
<1>8. Logged' = [i \in 1 .. w - 1 |-> logger_buf[(next + i) % Size]]
  BY <1>1, <1>7 DEF Logged, Size
<1>9. /\ Logged \in Seq(Elements \cup {Refused}) /\ Len(Logged) = w
      /\ \A i \in 1 .. w : Logged[i] = logger_buf[(tail + i) % Size]
  BY LoggedType DEF w
<1>10. ASSUME NEW i \in 1 .. w - 1
       PROVE  logger_buf[(next + i) % Size] = Logged[i + 1]
  <2>1. i \in 1 .. Size - 1 /\ i + 1 \in 1 .. Size - 1 /\ i + 1 \in 1 .. w
    BY <1>2, <1>7
  <2>2. (tail + (i + 1)) % Size = IF tail + (i + 1) < Size THEN tail + (i + 1) ELSE tail + (i + 1) - Size
    BY <1>2, <2>1, CellLemma
  <2>3. (next + i) % Size = IF next + i < Size THEN next + i ELSE next + i - Size
    BY <1>3, <2>1, CellLemma
  <2>4. (next + i) % Size = (tail + (i + 1)) % Size
    BY <1>2, <1>3, <2>1, <2>2, <2>3
  <2> QED BY <1>9, <2>1, <2>4
<1>11. Logged[1] = getting
  BY <1>1, <1>2, <1>5, <1>7, <1>9
<1> DEFINE q == Tail(Logged)
<1>12. Logged # << >> /\ Head(Logged) = Logged[1]
  BY <1>2, <1>7, <1>9
<1>13. /\ q \in Seq(Elements \cup {Refused}) /\ Len(q) = w - 1
       /\ \A i \in 1 .. w - 1 : q[i] = Logged[i + 1]
  BY <1>9, <1>12, HeadTailProperties
<1>14. q = [i \in 1 .. w - 1 |-> q[i]]
  BY <1>13, LenProperties
<1> HIDE DEF q
<1>15. Logged' = q
  BY <1>8, <1>10, <1>13, <1>14
<1> QED BY <1>11, <1>12, <1>15 DEF q

\* Every step of the log buffer is a step of a bounded queue, or none.
LEMMA LogStepIsFifoStep ==
  LogInv /\ [Log!Next]_logvars => [Log!Fifo!Next]_<<Logged, llast>>
<1> SUFFICES ASSUME LogInv, [Log!Next]_logvars PROVE [Log!Fifo!Next]_<<Logged, llast>>
  OBVIOUS
<1>1. CASE UNCHANGED <<logger_buf, head, tail, llast>>
  BY <1>1 DEF Logged, Log!Waiting, Log!After
<1>2. ASSUME NEW c \in Elements, Log!Put(c)
      PROVE  [Log!Fifo!Next]_<<Logged, llast>>
  <2>1. Logged' = Logged
    BY <1>2, PutIsInvisible
  <2>2. CASE UNCHANGED llast
    BY <2>1, <2>2
  <2>3. CASE Log!Full(Log!After(head)) /\ llast' = <<"putc", Refused>>
    <3>1. Log!Waiting = Size - 2
      <4>1. /\ Size \in Nat /\ Size >= 2 /\ head \in 0 .. Size - 1 /\ tail \in 0 .. Size - 1
            /\ Log!Waiting = IF head > tail THEN head - tail - 1 ELSE head - tail - 1 + Size
        BY LoggedType
      <4>2. tail = IF head = Size - 1 THEN 0 ELSE head + 1
        BY <2>3, <4>1, AfterLemma DEF Log!Full
      <4> QED BY <4>1, <4>2
    <3>2. Log!Fifo!Refuse("putc")
      BY <2>1, <2>3, <3>1, LoggedType DEF Log!Fifo!Refuse, Logged, Size
    <3> QED BY <3>2 DEF Log!Fifo!Next
  <2> QED BY <1>2, <2>2, <2>3 DEF Log!Put
<1>3. CASE Log!Publish
  <2>1. PICK e \in Elements : putting = e
    BY <1>3 DEF Log!Publish, LogInv, Log!TypeOK
  <2>2. Log!Fifo!Insert("putc", e)
    BY <1>3, <2>1, PublishAppends DEF Log!Fifo!Insert, Log!Publish, Logged, Size
  <2> QED BY <2>2 DEF Log!Fifo!Next
<1>4. CASE Log!Taken
  <2>1. Log!Fifo!Remove("getc")
    BY <1>4, TakenIsHead DEF Log!Fifo!Remove, Log!Taken, Logged, Size
  <2> QED BY <2>1 DEF Log!Fifo!Next
<1>5. CASE Log!StartThread \/ Log!Get \/ Log!Report
  BY <1>1, <1>5 DEF Log!StartThread, Log!Get, Log!Report
<1>6. CASE UNCHANGED logvars
  BY <1>1, <1>6 DEF logvars
<1> QED BY <1>2, <1>3, <1>4, <1>5, <1>6 DEF Log!Next

LEMMA LogInitIsFifoInit == LogInv /\ Log!Init => Log!Fifo!Init
<1> SUFFICES ASSUME LogInv, Log!Init PROVE Log!Fifo!Init
  OBVIOUS
<1>1. Log!Waiting = 0
  BY LoggedType DEF Log!Init, Size
<1> QED BY <1>1 DEF Log!Init, Log!Fifo!Init

-----------------------------------------------------------------------------
(* The components together: none of them changes another's state.           *)

SyncInv == SemInv /\ RingInv /\ LogInv

LEMMA ComponentSteps ==
  [MCNext]_allvars => [Sem!Next]_svars /\ [Next]_vars /\ [Log!Next]_logvars
<1> SUFFICES ASSUME [MCNext]_allvars
             PROVE  [Sem!Next]_svars /\ [Next]_vars /\ [Log!Next]_logvars
  OBVIOUS
<1>1. CASE UNCHANGED allvars
  BY <1>1 DEF allvars
<1>2. CASE SemDoes(Sem!Next)
  BY <1>2 DEF SemDoes
<1>3. CASE RingDoes(Next)
  BY <1>3 DEF RingDoes
<1>4. CASE LogDoes(Log!Next)
  BY <1>4 DEF LogDoes
<1> QED BY <1>1, <1>2, <1>3, <1>4 DEF MCNext

LEMMA SyncInvariance == MCSpec => []SyncInv
<1>1. MCInit => SyncInv
  BY SemInit, RingInit, LogInit DEF MCInit, SyncInv
<1>2. SyncInv /\ [MCNext]_allvars => SyncInv'
  BY ComponentSteps, SemNext, RingNext, LogNext DEF SyncInv
<1> QED BY <1>1, <1>2, PTL DEF MCSpec

\* Semaphores, circular buffers and the log buffer keep their types: the units
\* stay between 0 and the maximum, the wait queues hold no task twice, and the
\* pointers of the buffers stay inside them and agree with the count.
THEOREM TypesCorrect == MCSpec => []TypesOK
<1>1. SyncInv => TypesOK
  BY DEF SyncInv, SemInv, RingInv, LogInv, TypesOK
<1> QED BY <1>1, SyncInvariance, PTL

\* semaphore_wait loses no wakeup, however many tasks wait and signal, for
\* whatever amounts and maximum.
THEOREM WakeupsAreKept == MCSpec => []NoLostWakeup
<1>1. SyncInv => NoLostWakeup
  BY DEF SyncInv, SemInv, NoLostWakeup
<1> QED BY <1>1, SyncInvariance, PTL

\* No task sleeps in semaphore_wait, circular_insert or circular_remove next to
\* what it waits for.
THEOREM SleepersMustSleep == MCSpec => []SleepsOnlyIfNeeded
<1>1. SyncInv => SleepsOnlyIfNeeded
  BY DEF SyncInv, SemInv, RingInv, SleepsOnlyIfNeeded
<1> QED BY <1>1, SyncInvariance, PTL

\* circular.c and logger.c implement bounded first-in first-out queues, whatever
\* the number of slots, and of tasks that use them at once.
THEOREM BuffersAreFifo == MCSpec => AreFifo
<1>1. MCInit => Fifo!Init /\ Log!Fifo!Init
  BY RingInitIsFifoInit, LogInit, LogInitIsFifoInit DEF MCInit
<1>2. SyncInv /\ [MCNext]_allvars =>
        [Fifo!Next]_<<[i \in 1 .. cur_count |-> ring[(remove_ptr + i - 1) % num_elts]], last>>
  BY ComponentSteps, RingStepIsFifoStep DEF SyncInv, Contents
<1>3. SyncInv /\ [MCNext]_allvars =>
        [Log!Fifo!Next]_<<[i \in 1 .. Log!Waiting |-> logger_buf[(tail + i) % LOGGER_BUF_SIZE]], llast>>
  BY ComponentSteps, LogStepIsFifoStep DEF SyncInv, Logged, Size
<1> QED
  BY <1>1, <1>2, <1>3, SyncInvariance, PTL
  DEF MCSpec, AreFifo, IsFifo, Fifo!Spec, Log!LogIsFifo, Log!Fifo!Spec
=============================================================================
