----------------------------- MODULE TaskLinks -----------------------------
(***************************************************************************)
(* The task lists of the kernel as they are stored: a queue is a variable  *)
(* that holds its first task, and every task has one link, tssp->next, for *)
(* whatever queue it is on (kernel/sched/sched.c, sleep.c, vcpu.c and the  *)
(* system calls of interrupt_handler.c that block).  All of it runs under  *)
(* the kernel lock: a handler is one step up to its schedule(), except for *)
(* the loops that wake up tasks, one step for each task, during which      *)
(* nobody else gets the lock.                                              *)
(*                                                                         *)
(* A VCPU that is scheduled with a non-empty run queue runs a task of it:  *)
(* budgets are the subject of SporadicServer and IoServer, VCPUs that      *)
(* share a physical CPU that of VcpuSched.                                 *)
(***************************************************************************)
EXTENDS Integers, Sequences, Functions

CONSTANTS Task,       \* task selectors
          MaxTasks,   \* descriptors of the GDT that are left for tasks
          Bh,         \* tasks that are woken up by interrupts (bottom halves)
          Shell,      \* the first task
          Vcpu,       \* VCPUs
          InitCpu,    \* tssp->cpu of the first tasks
          Durations,  \* sleeping times, in timer ticks
          Nil         \* selector 0

VARIABLES
  ptr,      \* every list pointer: the heads of the queues, and tssp->next
  live,     \* tasks with a descriptor in the GDT
  cpu,      \* tssp->cpu
  current,  \* the task that executes on a VCPU, or Nil
  tr,       \* vcpu->tr
  time,     \* tssp->time, relative to the clock
  loop,     \* the loop that the holder of the kernel lock is in
  queue     \* history: the queues, read off the pointers

vars == <<ptr, live, cpu, current, tr, time, loop, queue>>

\* The pointers are called by the queue or the task they belong to.
Run(v) == [list |-> "run", of |-> v]
Wait(t) == [list |-> "wait", of |-> t]
Sleep == [list |-> "sleep", of |-> Nil]
Queues == {Run(v) : v \in Vcpu} \cup {Wait(t) : t \in Task} \cup {Sleep}

\* No more than MaxTasks tasks are different, and the head of a queue is not a task.
ASSUME LinksAssumption ==
  /\ MaxTasks \in Nat /\ \A s \in [1 .. MaxTasks + 1 -> Task] : ~IsInjective(s)
  /\ Nil \notin Task /\ Durations \subseteq Nat
  /\ Bh \subseteq Task /\ Shell \in Task \ Bh /\ InitCpu \in [Task -> Vcpu]
  /\ Queues \cap (Task \cup {Nil}) = {}

NoLoop == [in |-> "no loop", at |-> Nil, t |-> Nil]

-----------------------------------------------------------------------------
(* Lists.  Each operator maps the pointers p before a call to those after. *)

\* The tasks found by following the links from q; a cycle shows as a repetition.
Follow(p, q) ==
  LET max == MaxTasks + 1
      nth[n \in 0 .. max] == IF n = 0 THEN q ELSE p[nth[n - 1]]
      length == CHOOSE n \in 0 .. max : \A m \in 1 .. max : m <= n <=> nth[m] # Nil
  IN  [n \in 1 .. length |-> nth[n]]

\* The end of a list s that starts at q, where the loop of queue_append stops.
LastCell(q, s) == IF s = <<>> THEN q ELSE s[Len(s)]

QueueAppendKeepsLink(p, q, t) ==
  IF t \in Range(Follow(p, q)) THEN p ELSE [p EXCEPT ![LastCell(q, Follow(p, q))] = t]

QueueAppendTwice(p, q, t) == [p EXCEPT ![LastCell(q, Follow(p, q))] = t, ![t] = Nil]

\* queue_append: the pointer at the end of the list is set, unless t is on it.
QueueAppend(p, q, t) ==
  IF t \in Range(Follow(p, q)) THEN p
  ELSE [p EXCEPT ![LastCell(q, Follow(p, q))] = t, ![t] = Nil]

QueueRemoveHead(p, q) == [p EXCEPT ![q] = p[p[q]]]

\* vcpu_remove_from_runqueue, for a task that is on the queue.
RemoveFromRunqueue(p, q, t) ==
  LET at == CHOOSE c \in {q} \cup Range(Follow(p, q)) : p[c] = t IN [p EXCEPT ![at] = p[t]]

Wakeup(p, t) == QueueAppend(p, Run(cpu[t]), t)

-----------------------------------------------------------------------------
(* schedule() on VCPU v, after a handler has left the pointers p.          *)

\* vcpu_internal_schedule: go on with vcpu->tr during its quantum if it is on the
\* run queue, or take the first task.
Selected(v, p, expired) ==
  IF ~expired /\ tr[v] \in Range(Follow(p, Run(v))) THEN tr[v] ELSE p[Run(v)]

Dispatch(v, after, expired) ==
  \E p \in {after} :
    IF p[Run(v)] = Nil
    THEN ptr' = p /\ current' = [current EXCEPT ![v] = Nil] /\ UNCHANGED tr
    ELSE LET t == Selected(v, p, expired) IN
         /\ ptr' = IF t = p[Run(v)] THEN QueueRemoveHead(p, Run(v))
                   ELSE RemoveFromRunqueue(p, Run(v), t)
         /\ current' = [current EXCEPT ![v] = t]
         /\ tr' = [tr EXCEPT ![v] = t]

-----------------------------------------------------------------------------
(* Handlers                                                                *)

\* sched_usleep
Usleep(v, d, expired) ==
  LET t == current[v] IN
  /\ t \in Task \ Bh
  /\ time' = [time EXCEPT ![t] = d]
  /\ Dispatch(v, QueueAppend(ptr, Sleep, t), expired)
  /\ UNCHANGED <<live, cpu, loop>>

\* _waitpid of a task that exists; otherwise it returns without a change.
Waitpid(v, pid, expired) ==
  /\ current[v] \in Task \ Bh /\ pid \in live
  /\ Dispatch(v, QueueAppend(ptr, Wait(pid), current[v]), expired)
  /\ UNCHANGED <<live, cpu, time, loop>>

\* The current task goes back on its run queue (_interrupt3e, _sched_setparam).
Yield(v, expired) ==
  /\ current[v] # Nil
  /\ Dispatch(v, Wakeup(ptr, current[v]), expired)
  /\ UNCHANGED <<live, cpu, time, loop>>

\* iovcpu_job_completion: a bottom half blocks without being on a queue.
JobCompletion(v, expired) ==
  /\ current[v] \in Bh
  /\ Dispatch(v, ptr, expired)
  /\ UNCHANGED <<live, cpu, time, loop>>

\* An idle VCPU is scheduled.
IdleSchedule(v) ==
  /\ current[v] = Nil /\ ptr[Run(v)] # Nil
  /\ \E expired \in BOOLEAN : Dispatch(v, ptr, expired)
  /\ UNCHANGED <<live, cpu, time, loop>>

\* _fork, with the VCPU that vcpu_wakeup or the caller binds the child to; its TSS
\* is cleared.
Fork(v, child, c) ==
  /\ current[v] \in Task \ Bh /\ child \notin live
  /\ live' = live \cup {child}
  /\ cpu' = [cpu EXCEPT ![child] = c]
  /\ ptr' = QueueAppend([ptr EXCEPT ![child] = Nil, ![Wait(child)] = Nil], Run(c), child)
  /\ time' = [time EXCEPT ![child] = 0]
  /\ UNCHANGED <<current, tr, loop>>

\* iovcpu_job_wakeup by an interrupt, whatever its bottom half is doing.
Interrupt(t) ==
  /\ ptr' = Wakeup(ptr, t)
  /\ UNCHANGED <<live, cpu, current, tr, time, loop>>

-----------------------------------------------------------------------------
(* __exit wakes up the tasks that wait for it.                             *)

Exit(v) ==
  /\ current[v] \in Task \ Bh
  /\ loop' = [in |-> "__exit", at |-> Wait(current[v]), t |-> current[v]]
  /\ UNCHANGED <<ptr, live, cpu, current, tr, time>>

WakeWaiter ==
  /\ ptr[loop.at] # Nil
  /\ ptr' = Wakeup(QueueRemoveHead(ptr, loop.at), ptr[loop.at])
  /\ UNCHANGED <<live, cpu, current, tr, time, loop>>

ExitForgetsWaiters(expired) ==
  /\ live' = live \ {loop.t}
  /\ \E v \in Vcpu : current[v] = loop.t /\ Dispatch(v, ptr, expired)
  /\ loop' = NoLoop
  /\ UNCHANGED <<cpu, time>>

\* Its TSS is released, and another task is scheduled.
FinishExit(expired) ==
  /\ ptr[loop.at] = Nil
  /\ live' = live \ {loop.t}
  /\ \E v \in Vcpu : current[v] = loop.t /\ Dispatch(v, ptr, expired)
  /\ loop' = NoLoop
  /\ UNCHANGED <<cpu, time>>

-----------------------------------------------------------------------------
(* _timer: a tick has passed; process_sleepqueue.  In the loop, `at' is the *)
(* pointer q of the code and `t' the task that tssp points to.              *)

Timer ==
  /\ time' = [t \in Task |-> IF time[t] > 0 THEN time[t] - 1 ELSE 0]
  /\ loop' = IF ptr[Sleep] = Nil THEN NoLoop
             ELSE [in |-> "process_sleepqueue", at |-> Sleep, t |-> ptr[Sleep]]
  /\ UNCHANGED <<ptr, live, cpu, current, tr>>

\* The sleeper after the one that was examined.
NextSleeper(at, next) ==
  loop' = IF next = Nil THEN NoLoop ELSE [loop EXCEPT !.at = at, !.t = ptr'[at]]

ExamineTooEarly ==
  LET next == ptr[loop.t] IN
  /\ IF time[loop.t] <= 1
     THEN /\ ptr' = [Wakeup(ptr, ptr[loop.at]) EXCEPT ![loop.at] = next]
          /\ NextSleeper(loop.at, next)
     ELSE /\ UNCHANGED ptr
          /\ NextSleeper(loop.t, next)
  /\ UNCHANGED <<live, cpu, current, tr, time>>

ExamineAfterWakeup ==
  LET woken == Wakeup(ptr, ptr[loop.at]) IN
  /\ IF time[loop.t] = 0
     THEN /\ ptr' = [woken EXCEPT ![loop.at] = woken[loop.t]]
          /\ NextSleeper(loop.at, woken[loop.t])
     ELSE /\ UNCHANGED ptr
          /\ NextSleeper(loop.t, ptr[loop.t])
  /\ UNCHANGED <<live, cpu, current, tr, time>>

\* The link is read before wakeup overwrites it.
Examine ==
  LET next == ptr[loop.t] IN
  /\ IF time[loop.t] = 0
     THEN /\ ptr' = [Wakeup(ptr, ptr[loop.at]) EXCEPT ![loop.at] = next]
          /\ NextSleeper(loop.at, next)
     ELSE /\ UNCHANGED ptr
          /\ NextSleeper(loop.t, next)
  /\ UNCHANGED <<live, cpu, current, tr, time>>

-----------------------------------------------------------------------------
Init ==
  /\ live = Bh \cup {Shell}
  /\ cpu = InitCpu
  /\ current = [v \in Vcpu |-> IF v = InitCpu[Shell] THEN Shell ELSE Nil]
  /\ tr = [v \in Vcpu |-> Nil]
  /\ ptr = [c \in Queues \cup Task \cup {Nil} |-> Nil]
  /\ time = [t \in Task |-> 0]
  /\ loop = NoLoop
  /\ queue = [q \in Queues |-> << >>]

\* The kernel lock is free when a handler starts; the history variable is brought up
\* to date when it ends.
Handler(A) == loop = NoLoop /\ A /\ queue' = [q \in Queues |-> Follow(ptr', q)]

Continue(A) == A /\ queue' = [q \in Queues |-> Follow(ptr', q)]

Leaves(v, expired) ==
  \/ Yield(v, expired) \/ JobCompletion(v, expired)
  \/ \E d \in Durations : Usleep(v, d, expired)
  \/ \E pid \in Task : Waitpid(v, pid, expired)

Exiting ==
  /\ loop.in = "__exit"
  /\ Continue(WakeWaiter \/ \E expired \in BOOLEAN : FinishExit(expired))

Sleepers == loop.in = "process_sleepqueue" /\ Continue(Examine)

Next ==
  \/ Exiting \/ Sleepers
  \/ Handler(Timer)
  \/ \E t \in Bh : Handler(Interrupt(t))
  \/ \E v \in Vcpu :
       \/ Handler(IdleSchedule(v)) \/ Handler(Exit(v))
       \/ \E expired \in BOOLEAN : Handler(Leaves(v, expired))
       \/ \E child \in Task, c \in Vcpu : Handler(Fork(v, child, c))

Spec == Init /\ [][Next]_vars

\* Handlers complete, timer ticks keep coming, an idle VCPU with a task is scheduled,
\* and a task that executes is preempted after its quantum.
FairSpec ==
  /\ Spec /\ WF_vars(Exiting) /\ WF_vars(Sleepers) /\ SF_vars(Handler(Timer))
  /\ \A v \in Vcpu : SF_vars(Handler(IdleSchedule(v))) /\ SF_vars(Handler(Yield(v, TRUE)))

-----------------------------------------------------------------------------
(* Properties                                                              *)

\* Type invariant; every list ends and has no task twice, so that the loops over the
\* lists terminate.
TypeOK ==
  /\ ptr \in [Queues \cup Task \cup {Nil} -> Task \cup {Nil}]
  /\ \A q \in Queues : IsInjective(queue[q])
  /\ live \subseteq Task
  /\ cpu \in [Task -> Vcpu]
  /\ current \in [Vcpu -> Task \cup {Nil}] /\ tr \in [Vcpu -> Task \cup {Nil}]
  /\ time \in [Task -> Nat]
  /\ loop \in [in : {"no loop", "__exit", "process_sleepqueue"},
               at : Queues \cup Task \cup {Nil}, t : Task \cup {Nil}]

Executes(t) == \E v \in Vcpu : current[v] = t
On(q, t) == t \in Range(queue[q])

\* A task that exists executes or is on one queue: the run queue of its VCPU, the sleep
\* queue or the wait queue of a task that has yet to exit.  Only a bottom half can be
\* on no queue, or on its run queue while it executes.
NoTaskLost ==
  \A t \in live :
    LET on == {q \in Queues : On(q, t)} IN
    /\ on \subseteq {Run(cpu[t]), Sleep} \cup {Wait(pid) : pid \in live}
    /\ \A q, r \in on : q = r
    /\ t \notin Bh => (on = {} <=> Executes(t))

\* A task leaves the sleep queue only when the time it asked for has passed, in
\* whatever order the sleepers came and however many of them are due.
SleepsLongEnough == [][\A t \in Task : On(Sleep, t) /\ ~On(Sleep, t)' => time'[t] = 0]_vars

\* The lists linked through tssp->next behave like separate sequences: each operation
\* changes the queues it is meant to change, and keeps the others.
Lists == INSTANCE TaskQueues

LinksAreQueues == Lists!Spec

\* A task that sleeps or is runnable is executed after some time.
EventuallyRuns ==
  \A t \in Task : (On(Sleep, t) \/ \E v \in Vcpu : On(Run(v), t)) ~> Executes(t)
=============================================================================
