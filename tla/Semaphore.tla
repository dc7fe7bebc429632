----------------------------- MODULE Semaphore -----------------------------
(***************************************************************************)
(* Counting semaphores (kernel/smp/semaphore.c).  What a function does     *)
(* between taking and releasing sem->lock is one step; a waiter that finds *)
(* too few units is on the wait queue but still executing until it calls   *)
(* schedule(), so a signal may wake it up before it has stopped.           *)
(***************************************************************************)
EXTENDS Integers, Sequences, Functions

CONSTANTS Tasks,      \* tasks that use the semaphore
          MaxUnits,   \* sem->max
          InitUnits,  \* initial value
          Amounts     \* numbers of units that are waited for and signalled

VARIABLES
  s,          \* sem->s
  waitqueue,  \* sem->waitqueue
  pc,         \* where a task is in semaphore_wait, "out" when it is elsewhere
  need,       \* the units a task waits for
  timed,      \* the wait was given a timeout
  ready       \* tasks woken up and not yet dispatched

vars == <<s, waitqueue, pc, need, timed, ready>>

Init ==
  /\ s = InitUnits
  /\ waitqueue = << >>
  /\ pc = [t \in Tasks |-> "out"]
  /\ need = [t \in Tasks |-> 0]
  /\ timed = [t \in Tasks |-> FALSE]
  /\ ready = {}

\* semaphore_wait is entered; the timeout is a parameter nothing reads.
Wait(t, n, timeout) ==
  /\ pc[t] = "out"
  /\ pc' = [pc EXCEPT ![t] = "test"]
  /\ need' = [need EXCEPT ![t] = n]
  /\ timed' = [timed EXCEPT ![t] = timeout]
  /\ UNCHANGED <<s, waitqueue, ready>>

\* queue_append: a task is not queued twice.
Enqueue(q, t) == IF t \in Range(q) THEN q ELSE Append(q, t)

TestForgetsQueue(t) ==
  /\ pc[t] = "test"
  /\ IF s >= need[t]
     THEN s' = s - need[t] /\ pc' = [pc EXCEPT ![t] = "out"]
     ELSE UNCHANGED s /\ pc' = [pc EXCEPT ![t] = "blocking"]
  /\ UNCHANGED <<waitqueue, need, timed, ready>>

TestTakesTooMany(t) ==
  /\ pc[t] = "test"
  /\ IF s > 0
     THEN s' = s - need[t] /\ pc' = [pc EXCEPT ![t] = "out"] /\ UNCHANGED waitqueue
     ELSE UNCHANGED s /\ pc' = [pc EXCEPT ![t] = "blocking"]
                      /\ waitqueue' = Enqueue(waitqueue, t)
  /\ UNCHANGED <<need, timed, ready>>

\* The locked region of semaphore_wait.
Test(t) ==
  /\ pc[t] = "test"
  /\ IF s >= need[t]
     THEN s' = s - need[t] /\ pc' = [pc EXCEPT ![t] = "out"] /\ UNCHANGED waitqueue
     ELSE UNCHANGED s /\ pc' = [pc EXCEPT ![t] = "blocking"]
                      /\ waitqueue' = Enqueue(waitqueue, t)
  /\ UNCHANGED <<need, timed, ready>>

\* schedule() of a waiter: it stops executing.
Block(t) ==
  /\ pc[t] = "blocking"
  /\ pc' = [pc EXCEPT ![t] = "blocked"]
  /\ UNCHANGED <<s, waitqueue, need, timed, ready>>

\* The scheduler dispatches a task that was woken up; it tests again.
Dispatch(t) ==
  /\ pc[t] = "blocked" /\ t \in ready
  /\ ready' = ready \ {t}
  /\ pc' = [pc EXCEPT ![t] = "test"]
  /\ UNCHANGED <<s, waitqueue, need, timed>>

SignalWakesStopped(n) ==
  /\ s' = IF s + n > MaxUnits THEN MaxUnits ELSE s + n
  /\ ready' = ready \cup {t \in Range(waitqueue) : pc[t] = "blocked"}
  /\ waitqueue' = << >>
  /\ UNCHANGED <<pc, need, timed>>

\* semaphore_signal: units beyond the maximum are lost, all waiters are woken up.
Signal(n) ==
  /\ s' = IF s + n > MaxUnits THEN MaxUnits ELSE s + n
  /\ ready' = ready \cup Range(waitqueue)
  /\ waitqueue' = << >>
  /\ UNCHANGED <<pc, need, timed>>

Step(t) == Test(t) \/ Block(t) \/ Dispatch(t)

Next ==
  \/ \E t \in Tasks, n \in Amounts, timeout \in BOOLEAN : Wait(t, n, timeout)
  \/ \E t \in Tasks : Step(t)
  \/ \E n \in Amounts : Signal(n)

Spec == Init /\ [][Next]_vars

\* A task that executes goes on executing, and the scheduler dispatches every
\* task that is ready.
FairSpec == Spec /\ \A t \in Tasks : WF_vars(Step(t))

-----------------------------------------------------------------------------
\* Type invariant: the number of units stays between 0 and the maximum, and the
\* wait queue holds no task twice.
TypeOK ==
  /\ s \in 0 .. MaxUnits
  /\ waitqueue \in Seq(Tasks) /\ IsInjective(waitqueue)
  /\ pc \in [Tasks -> {"out", "test", "blocking", "blocked"}]
  /\ need \in [Tasks -> Amounts \cup {0}]
  /\ timed \in [Tasks -> BOOLEAN]
  /\ ready \subseteq Tasks

Asleep(t) == pc[t] \in {"blocking", "blocked"} /\ t \notin ready

\* A task that is going to sleep or asleep in semaphore_wait is on the wait queue,
\* where the next signal finds it, even if the signal comes between its release of
\* sem->lock and its call of schedule().
NoLostWakeup == \A t \in Tasks : Asleep(t) => t \in Range(waitqueue)

\* No task sleeps while the semaphore has the units it waits for, although the
\* waiters wait for different amounts and compete for what a signal brings.
SleepsOnlyWithoutUnits == \A t \in Tasks : Asleep(t) => s < need[t]

\* A waiter does not wait for ever while there are enough units for it.
ServedIfAvailable == \A t \in Tasks : ~<>[](pc[t] # "out" /\ s >= need[t])

\* "timeout: millisec, (-1) for indefinite": a wait with a timeout returns.
TimedWaitReturns == \A t \in Tasks : (pc[t] # "out" /\ timed[t]) ~> pc[t] = "out"
=============================================================================
