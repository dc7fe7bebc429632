------------------------------ MODULE Circular ------------------------------
(***************************************************************************)
(* Circular buffers (kernel/util/circular.c): a ring of num_elts slots, an *)
(* insertion and a removal position, and a wait queue for each side.  As   *)
(* in Semaphore, what happens under c->lock is one step, and a task that   *)
(* has to wait executes until it calls schedule().                         *)
(***************************************************************************)
EXTENDS Integers, Sequences, Functions

CONSTANTS Tasks,     \* tasks and interrupt handlers that use the buffer
          Elements,  \* what is stored
          num_elts,  \* number of slots
          Refused    \* the result -1, also the contents of an unused slot

ASSUME CircularAssumption == num_elts \in Nat \ {0} /\ Refused \notin Elements

VARIABLES
  ring,          \* contents of the slots
  insert_ptr, remove_ptr,  \* slot numbers
  cur_count,
  ins_waitq, rem_waitq,
  pc,            \* "out", or where a task is in an operation
  op,            \* [kind, elt, nowait]: the operation of a task
  last,          \* history: <<task, element>> of the last operation that returned
  ready          \* tasks woken up and not yet dispatched

vars == <<ring, insert_ptr, remove_ptr, cur_count, ins_waitq, rem_waitq, pc, op, last, ready>>

Slots == 0 .. num_elts - 1

Operations ==
  [kind : {"insert"}, elt : Elements, nowait : BOOLEAN]
    \cup [kind : {"remove"}, elt : {Refused}, nowait : {FALSE}]

NoOp == [kind |-> "remove", elt |-> Refused, nowait |-> FALSE]

\* circular_init
Init ==
  /\ ring = [i \in Slots |-> Refused]
  /\ insert_ptr = 0 /\ remove_ptr = 0 /\ cur_count = 0
  /\ ins_waitq = << >> /\ rem_waitq = << >>
  /\ pc = [t \in Tasks |-> "out"]
  /\ op = [t \in Tasks |-> NoOp]
  /\ last = << >>
  /\ ready = {}

\* circular_insert, circular_insert_nowait or circular_remove is entered.
Call(t, o) ==
  /\ pc[t] = "out"
  /\ pc' = [pc EXCEPT ![t] = "test"]
  /\ op' = [op EXCEPT ![t] = o]
  /\ UNCHANGED <<ring, insert_ptr, remove_ptr, cur_count, ins_waitq, rem_waitq, last, ready>>

\* The pointer to the next slot.
Advance(p) == IF p + 1 >= num_elts THEN 0 ELSE p + 1

Enqueue(q, t) == IF t \in Range(q) THEN q ELSE Append(q, t)

Return(t, result) ==
  /\ pc' = [pc EXCEPT ![t] = "out"]
  /\ op' = [op EXCEPT ![t] = NoOp]
  /\ last' = <<t, result>>

\* generic_circular_insert finds room.
Insert(t) ==
  /\ cur_count # num_elts
  /\ ring' = [ring EXCEPT ![insert_ptr] = op[t].elt]
  /\ insert_ptr' = Advance(insert_ptr)
  /\ cur_count' = cur_count + 1
  /\ ready' = ready \cup Range(rem_waitq)
  /\ rem_waitq' = << >>
  /\ Return(t, op[t].elt)
  /\ UNCHANGED <<remove_ptr, ins_waitq>>

InsertFullOverwrites(t) ==
  /\ cur_count = num_elts
  /\ IF op[t].nowait
     THEN /\ ring' = [ring EXCEPT ![insert_ptr] = op[t].elt]
          /\ Return(t, op[t].elt) /\ UNCHANGED ins_waitq
     ELSE /\ pc' = [pc EXCEPT ![t] = "blocking"]
          /\ ins_waitq' = Enqueue(ins_waitq, t)
          /\ UNCHANGED <<ring, op, last>>
  /\ UNCHANGED <<insert_ptr, remove_ptr, cur_count, rem_waitq, ready>>

\* generic_circular_insert finds the buffer full, and waits unless told not to.
InsertFull(t) ==
  /\ cur_count = num_elts
  /\ IF op[t].nowait
     THEN Return(t, Refused) /\ UNCHANGED ins_waitq
     ELSE /\ pc' = [pc EXCEPT ![t] = "blocking"]
          /\ ins_waitq' = Enqueue(ins_waitq, t)
          /\ UNCHANGED <<op, last>>
  /\ UNCHANGED <<ring, insert_ptr, remove_ptr, cur_count, rem_waitq, ready>>

RemoveWakesOne(t) ==
  /\ cur_count # 0
  /\ remove_ptr' = Advance(remove_ptr)
  /\ cur_count' = cur_count - 1
  /\ ready' = ready \cup (IF ins_waitq = << >> THEN {} ELSE {Head(ins_waitq)})
  /\ ins_waitq' = IF ins_waitq = << >> THEN << >> ELSE Tail(ins_waitq)
  /\ Return(t, ring[remove_ptr])
  /\ UNCHANGED <<ring, insert_ptr, rem_waitq>>

\* generic_circular_remove finds an element.
Remove(t) ==
  /\ cur_count # 0
  /\ remove_ptr' = Advance(remove_ptr)
  /\ cur_count' = cur_count - 1
  /\ ready' = ready \cup Range(ins_waitq)
  /\ ins_waitq' = << >>
  /\ Return(t, ring[remove_ptr])
  /\ UNCHANGED <<ring, insert_ptr, rem_waitq>>

\* generic_circular_remove finds the buffer empty (no caller asks it not to wait).
RemoveEmpty(t) ==
  /\ cur_count = 0
  /\ pc' = [pc EXCEPT ![t] = "blocking"]
  /\ rem_waitq' = Enqueue(rem_waitq, t)
  /\ UNCHANGED <<ring, insert_ptr, remove_ptr, cur_count, ins_waitq, op, last, ready>>

\* One iteration of the operation of t under c->lock.
Test(t) ==
  /\ pc[t] = "test"
  /\ \/ op[t].kind = "insert" /\ (Insert(t) \/ InsertFull(t))
     \/ op[t].kind = "remove" /\ (Remove(t) \/ RemoveEmpty(t))

\* schedule() of a task that has to wait.
Block(t) ==
  /\ pc[t] = "blocking"
  /\ pc' = [pc EXCEPT ![t] = "blocked"]
  /\ UNCHANGED <<ring, insert_ptr, remove_ptr, cur_count, ins_waitq, rem_waitq, op, last, ready>>

\* The scheduler dispatches a task that was woken up; it tests again.
Dispatch(t) ==
  /\ pc[t] = "blocked" /\ t \in ready
  /\ ready' = ready \ {t}
  /\ pc' = [pc EXCEPT ![t] = "test"]
  /\ UNCHANGED <<ring, insert_ptr, remove_ptr, cur_count, ins_waitq, rem_waitq, op, last>>

Step(t) == Test(t) \/ Block(t) \/ Dispatch(t)

Next == \E t \in Tasks : (\E o \in Operations : Call(t, o)) \/ Step(t)

Spec == Init /\ [][Next]_vars

\* Tasks go on executing and the scheduler dispatches every task that is ready.
FairSpec == Spec /\ \A t \in Tasks : WF_vars(Step(t))

-----------------------------------------------------------------------------
\* Type invariant: the pointers stay inside the buffer and the count matches them.
TypeOK ==
  /\ ring \in [Slots -> Elements \cup {Refused}]
  /\ insert_ptr \in Slots /\ remove_ptr \in Slots /\ cur_count \in 0 .. num_elts
  /\ insert_ptr = (remove_ptr + cur_count) % num_elts
  /\ ins_waitq \in Seq(Tasks) /\ rem_waitq \in Seq(Tasks)
  /\ pc \in [Tasks -> {"out", "test", "blocking", "blocked"}]
  /\ op \in [Tasks -> Operations]
  /\ last \in {<< >>} \cup (Tasks \X (Elements \cup {Refused}))
  /\ ready \subseteq Tasks

Asleep(t) == pc[t] \in {"blocking", "blocked"} /\ t \notin ready

\* An inserter sleeps only while the buffer is full and a remover only while it is
\* empty; either is on the wait queue that the other side empties.
SleepsOnlyIfMust ==
  \A t \in Tasks : Asleep(t) =>
    IF op[t].kind = "insert" THEN cur_count = num_elts /\ t \in Range(ins_waitq)
                             ELSE cur_count = 0 /\ t \in Range(rem_waitq)

\* The buffer is a bounded first-in first-out queue: elements come out once, in
\* the order they went in, and an insertion is refused only when it is full.
Fifo == INSTANCE BoundedFifo WITH
          Capacity <- num_elts,
          fifo <- [i \in 1 .. cur_count |-> ring[(remove_ptr + i - 1) % num_elts]]

IsFifo == Fifo!Spec

\* No operation waits for ever while it could complete.
NotStuck ==
  \A t \in Tasks :
    /\ ~<>[](pc[t] # "out" /\ op[t].kind = "insert" /\ cur_count < num_elts)
    /\ ~<>[](pc[t] # "out" /\ op[t].kind = "remove" /\ cur_count > 0)
=============================================================================
