------------------------------ MODULE VcpuSched ------------------------------
(***************************************************************************)
(* The two-level scheduler of kernel/sched/vcpu.c: tasks are bound to      *)
(* virtual CPUs, virtual CPUs to physical CPUs.  vcpu_schedule picks, on   *)
(* one physical CPU, the highest priority VCPU with budget and then a task *)
(* of its run queue; vcpu_wakeup puts a task, and its VCPU, back on their  *)
(* queues.  Both run under the kernel lock, so each is one step.           *)
(*                                                                         *)
(* Budgets and clocks are abstracted here: `has' is the set of VCPUs that  *)
(* vcpu_schedule finds with b > 0 after update_replenishments, `expired'   *)
(* says whether the quantum of the VCPU's current task has run out.        *)
(* SporadicServer and IoServer compute the budgets as the code does.       *)
(***************************************************************************)
EXTENDS Integers, Sequences, SequencesExt

CONSTANTS Task,       \* task selectors
          Pcpu,       \* physical CPUs
          Boot,       \* the bootstrap PCPU
          Shell,      \* tss[0], the task the bootstrap PCPU starts
          NumVcpus,   \* NUM_VCPUS
          MainVcpu,   \* the VCPUs of type MAIN_VCPU, the others are IO_VCPU
          home,       \* v->cpu, the PCPU each VCPU is placed on
          Period,     \* the values v->T may take
          InitT,      \* the initial v->T
          NoTask, Idle, NoVcpu, Unbound

Vcpu == 0 .. NumVcpus - 1

ASSUME NumVcpusAssumption == NumVcpus \in Nat /\ NumVcpus > 1
ASSUME MainVcpuAssumption == MainVcpu \subseteq Vcpu /\ MainVcpu # {}
ASSUME PlacementAssumption == home \in [Vcpu -> Pcpu]
ASSUME PeriodAssumption == Period \subseteq Nat \ {0} /\ InitT \in [Vcpu -> Period]
ASSUME BootAssumption == Boot \in Pcpu /\ Shell \in Task
ASSUME NullAssumption == /\ NoTask \notin Task /\ Idle \notin Task /\ Idle # NoTask
                         /\ NoVcpu \notin Vcpu /\ Unbound \notin Vcpu

VARIABLES
  live,               \* tasks with a TSS descriptor in the GDT
  cpu,                \* tssp->cpu: the VCPU of a task, Unbound for 0xFF
  next_vcpu_binding,  \* the static counter of vcpu_wakeup
  str,                \* the task in the task register of each PCPU
  handler,            \* what each PCPU is doing with the kernel lock
  vcpu_queue,         \* per PCPU: its runnable VCPUs
  vcpu_current,       \* per PCPU: the VCPU it runs, or NULL
  runqueue,           \* per VCPU: its runnable tasks
  tr,                 \* per VCPU: the task last selected
  started,            \* per VCPU: next_schedule # 0
  runnable, running,  \* per VCPU flags
  T                   \* per VCPU: its period, hence its priority

taskVars == <<live, cpu, next_vcpu_binding>>
vcpuVars == <<vcpu_queue, vcpu_current, runqueue, tr, started, runnable, running, T>>
vars == <<taskVars, str, handler, vcpuVars>>

-----------------------------------------------------------------------------
(* Queues: the linked lists of tasks (tssp->next) and of VCPUs (v->next).   *)

AppendTwice(q, x) == Append(q, x)

\* queue_append, vcpu_queue_append: at the tail, unless already there.
QueueAppend(q, x) == IF x \in Range(q) THEN q ELSE Append(q, x)

UnlinkHeadOnly(q, x) == IF q # << >> /\ Head(q) = x THEN Tail(q) ELSE q

\* vcpu_remove_from_runqueue, and the unlinking of *vnext in vcpu_schedule.
Unlink(q, x) ==
  IF x \in Range(q)
  THEN RemoveAt(q, CHOOSE i \in DOMAIN q : q[i] = x /\ \A j \in 1 .. i - 1 : q[j] # x)
  ELSE q

\* vcpu_in_runqueue: reaching the end of the list answers TRUE for task 0.
InRunqueue(v, t) == t \in Range(runqueue[v]) \/ t = NoTask

-----------------------------------------------------------------------------
(* The kernel lock.  A PCPU is in "user" when it does not hold the lock and *)
(* interrupts can be taken, in "kernel" while it holds it, in "resched"     *)
(* when it holds it and its code runs into schedule() without unlocking.    *)

KernelUnlocked == \A p \in Pcpu : handler[p] = "user"

LockKernel(p) ==
  /\ KernelUnlocked
  /\ handler' = [handler EXCEPT ![p] = "kernel"]
  /\ UNCHANGED <<taskVars, str, vcpuVars>>

UnlockKernel(p) ==
  /\ handler[p] = "kernel"
  /\ handler' = [handler EXCEPT ![p] = "user"]
  /\ UNCHANGED <<taskVars, str, vcpuVars>>

-----------------------------------------------------------------------------
(* vcpu_wakeup                                                              *)

\* The do-while of vcpu_wakeup: the first Main VCPU from n on, cyclically.
NextMain(n) ==
  LET reach(d) == (n + d) % NumVcpus
      d0 == CHOOSE d \in Vcpu : /\ reach(d) \in MainVcpu
                                /\ \A e \in 0 .. d - 1 : reach(e) \notin MainVcpu
  IN  reach(d0)

VcpuOf(t) == IF cpu[t] = Unbound THEN NextMain(next_vcpu_binding) ELSE cpu[t]

BindNoWrap(t) ==
  /\ cpu' = [cpu EXCEPT ![t] = VcpuOf(t)]
  /\ next_vcpu_binding' = IF cpu[t] = Unbound THEN next_vcpu_binding + 1 ELSE next_vcpu_binding

Bind(t) ==
  /\ cpu' = [cpu EXCEPT ![t] = VcpuOf(t)]
  /\ next_vcpu_binding' = IF cpu[t] = Unbound THEN (VcpuOf(t) + 1) % NumVcpus
                          ELSE next_vcpu_binding

EnqueueUnlessRunning(v) ==
  /\ vcpu_queue' = IF running[v] THEN vcpu_queue
                   ELSE [vcpu_queue EXCEPT ![home[v]] = QueueAppend(@, v)]
  /\ runnable' = [runnable EXCEPT ![v] = TRUE]

\* The VCPU goes on the queue of its own PCPU, not of the one that wakes it.
EnqueueVcpu(v) ==
  /\ vcpu_queue' = [vcpu_queue EXCEPT ![home[v]] = QueueAppend(@, v)]
  /\ runnable' = [runnable EXCEPT ![v] = TRUE]

Wakeup(t) ==
  LET v == VcpuOf(t) IN
  /\ Bind(t)
  /\ runqueue' = [runqueue EXCEPT ![v] = QueueAppend(@, t)]
  /\ EnqueueVcpu(v)
  /\ UNCHANGED <<live, str, vcpu_current, tr, started, running>>

\* A task other than the ones running is woken: from a wait queue, by an
\* interrupt, or as a new child of fork.
WakeOther(p, t) ==
  /\ handler[p] # "user" /\ t \in live /\ \A q \in Pcpu : str[q] # t
  /\ Wakeup(t)
  /\ UNCHANGED <<handler, T>>

\* iovcpu_job_wakeup: an I/O VCPU inherits the period of its client first.
InheritT(v, period) ==
  IF v \notin MainVcpu /\ (period < T[v] \/ ~(running[v] \/ runnable[v]))
  THEN [T EXCEPT ![v] = period] ELSE T

JobWakeup(p, t, period) ==
  /\ handler[p] # "user" /\ t \in live /\ cpu[t] # Unbound /\ \A q \in Pcpu : str[q] # t
  /\ T' = InheritT(cpu[t], period)
  /\ Wakeup(t)
  /\ UNCHANGED handler

\* The interrupted or yielding task goes back on its run queue, and the
\* handler then calls schedule (_interrupt3e, _sched_setparam).
Yield(p) ==
  /\ handler[p] = "kernel" /\ str[p] \in Task
  /\ Wakeup(str[p])
  /\ handler' = [handler EXCEPT ![p] = "resched"]
  /\ UNCHANGED T

-----------------------------------------------------------------------------
(* vcpu_schedule                                                            *)

\* The scan of the PCPU's queue: the first VCPU of least period with budget.
IsPick(q, has, i) ==
  /\ i \in DOMAIN q /\ q[i] \in has
  /\ \A j \in DOMAIN q : q[j] \in has => IF j < i THEN T[q[i]] < T[q[j]]
                                                  ELSE T[q[i]] <= T[q[j]]

\* vcpu_internal_schedule: keep v->tr until its quantum expires, or take the
\* next task of the run queue.
KeepsTask(v, expired) == started[v] /\ ~expired /\ InRunqueue(v, tr[v])

NextTask(v, expired) ==
  IF KeepsTask(v, expired) THEN tr[v]
  ELSE IF runqueue[v] = << >> THEN NoTask ELSE Head(runqueue[v])

ScheduleForgetsTask(v, expired) ==
  /\ runqueue' = [runqueue EXCEPT ![v] = Unlink(@, NextTask(v, expired))]
  /\ started' = [started EXCEPT ![v] = TRUE]
  /\ tr' = IF KeepsTask(v, expired) \/ ~started[v]
           THEN [tr EXCEPT ![v] = NextTask(v, expired)] ELSE tr

SchedulePopsHead(v, expired) ==
  /\ tr' = [tr EXCEPT ![v] = NextTask(v, expired)]
  /\ runqueue' = [runqueue EXCEPT ![v] = Tail(@)]
  /\ started' = [started EXCEPT ![v] = TRUE]

InternalSchedule(v, expired) ==
  /\ tr' = [tr EXCEPT ![v] = NextTask(v, expired)]
  /\ runqueue' = [runqueue EXCEPT ![v] = Unlink(@, NextTask(v, expired))]
  /\ started' = [started EXCEPT ![v] = TRUE]

NeverStopsRunning(old, new) == running' = [v \in Vcpu |-> v = new \/ running[v]]

\* Mark the VCPU `new' as running instead of `old' (either may be NULL).
SwitchRunning(old, new) ==
  running' = [v \in Vcpu |-> v = new \/ (v # old /\ running[v])]

RunIdle(p) ==
  /\ vcpu_current' = [vcpu_current EXCEPT ![p] = NoVcpu]
  /\ SwitchRunning(vcpu_current[p], NoVcpu)
  /\ str' = [str EXCEPT ![p] = Idle]
  /\ UNCHANGED <<vcpu_queue, runqueue, tr, started, runnable>>

\* If no task was selected the PCPU idles, but v is marked running all the same.
RunVcpu(p, v, expired) ==
  LET next == NextTask(v, expired) IN
  /\ InternalSchedule(v, expired)
  /\ IF runqueue'[v] = << >>
     THEN /\ vcpu_queue' = [vcpu_queue EXCEPT ![p] = Unlink(@, v)]
          /\ runnable' = [runnable EXCEPT ![v] = FALSE]
     ELSE UNCHANGED <<vcpu_queue, runnable>>
  /\ vcpu_current' = [vcpu_current EXCEPT ![p] = IF next = NoTask THEN NoVcpu ELSE v]
  /\ SwitchRunning(vcpu_current[p], v)
  /\ str' = [str EXCEPT ![p] = IF next = NoTask THEN Idle ELSE next]

Dispatch(p, has, expired) ==
  \/ /\ \A i \in DOMAIN vcpu_queue[p] : vcpu_queue[p][i] \notin has
     /\ RunIdle(p)
  \/ \E i \in DOMAIN vcpu_queue[p] :
       /\ IsPick(vcpu_queue[p], has, i)
       /\ RunVcpu(p, vcpu_queue[p][i], expired)

\* The switched-to task resumes inside the kernel and still holds the lock.
Schedule(p, has, expired) ==
  /\ handler[p] # "user"
  /\ Dispatch(p, has, expired)
  /\ handler' = [handler EXCEPT ![p] = "kernel"]
  /\ UNCHANGED <<taskVars, T>>

-----------------------------------------------------------------------------
(* Tasks                                                                    *)

\* duplicate_TSS takes a free selector and leaves the task unbound; callers
\* that place a kernel thread set tssp->cpu themselves.
CreateTask(p, t, c) ==
  /\ handler[p] = "kernel" /\ t \notin live
  /\ live' = live \cup {t}
  /\ cpu' = [cpu EXCEPT ![t] = c]
  /\ UNCHANGED <<next_vcpu_binding, str, handler, vcpuVars>>

ExitKeepsTask(p) ==
  /\ handler[p] = "kernel" /\ str[p] \in Task
  /\ live' = live \ {str[p]}
  /\ handler' = [handler EXCEPT ![p] = "resched"]
  /\ UNCHANGED <<cpu, next_vcpu_binding, str, vcpuVars>>

\* __exit: the selector is freed and loaded no more; schedule follows.
ExitTask(p) ==
  /\ handler[p] = "kernel" /\ str[p] \in Task
  /\ live' = live \ {str[p]}
  /\ str' = [str EXCEPT ![p] = NoTask]
  /\ handler' = [handler EXCEPT ![p] = "resched"]
  /\ UNCHANGED <<cpu, next_vcpu_binding, vcpuVars>>

\* _atapi_drive_read_sector: the running task moves itself to an I/O VCPU,
\* which takes the period of the task's Main VCPU, or back.
MigrateSelf(p, v) ==
  /\ handler[p] = "kernel" /\ str[p] \in Task /\ cpu[str[p]] \in Vcpu
  /\ cpu' = [cpu EXCEPT ![str[p]] = v]
  /\ T' = IF v \in MainVcpu THEN T ELSE [T EXCEPT ![v] = T[cpu[str[p]]]]
  /\ handler' = [handler EXCEPT ![p] = "resched"]
  /\ UNCHANGED <<live, next_vcpu_binding, str, vcpu_queue, vcpu_current, runqueue,
                 tr, started, runnable, running>>

-----------------------------------------------------------------------------
Init ==
  /\ live = {Shell}
  /\ cpu = [t \in Task |-> IF t = Shell THEN 0 ELSE Unbound]
  /\ next_vcpu_binding = 1
  /\ str = [p \in Pcpu |-> IF p = Boot THEN Shell ELSE Idle]
  /\ handler = [p \in Pcpu |-> "user"]
  /\ vcpu_queue = [p \in Pcpu |-> << >>]
  /\ vcpu_current = [p \in Pcpu |-> NoVcpu]
  /\ runqueue = [v \in Vcpu |-> << >>]
  /\ tr = [v \in Vcpu |-> NoTask]
  /\ started = [v \in Vcpu |-> FALSE]
  /\ runnable = [v \in Vcpu |-> FALSE]
  /\ running = [v \in Vcpu |-> FALSE]
  /\ T = InitT

Step(p) ==
  \/ LockKernel(p)
  \/ UnlockKernel(p)
  \/ Yield(p)
  \/ ExitTask(p)
  \/ \E t \in Task : WakeOther(p, t)
  \/ \E t \in Task, period \in Period : JobWakeup(p, t, period)
  \/ \E t \in Task, c \in Vcpu \cup {Unbound} : CreateTask(p, t, c)
  \/ \E v \in Vcpu : MigrateSelf(p, v)
  \/ \E has \in SUBSET Vcpu, expired \in BOOLEAN : Schedule(p, has, expired)

Next == \E p \in Pcpu : Step(p)

Spec == Init /\ [][Next]_vars

-----------------------------------------------------------------------------
(* Properties                                                               *)

\* Every variable keeps its type (the fields of struct vcpu and quest_tss).
TypeOK ==
  /\ live \subseteq Task
  /\ cpu \in [Task -> Vcpu \cup {Unbound}]
  /\ next_vcpu_binding \in Vcpu
  /\ str \in [Pcpu -> Task \cup {Idle, NoTask}]
  /\ handler \in [Pcpu -> {"user", "kernel", "resched"}]
  /\ vcpu_queue \in [Pcpu -> Seq(Vcpu)]
  /\ vcpu_current \in [Pcpu -> Vcpu \cup {NoVcpu}]
  /\ runqueue \in [Vcpu -> Seq(Task)]
  /\ tr \in [Vcpu -> Task \cup {NoTask}]
  /\ started \in [Vcpu -> BOOLEAN]
  /\ runnable \in [Vcpu -> BOOLEAN]
  /\ running \in [Vcpu -> BOOLEAN]
  /\ T \in [Vcpu -> Period]

Queued(t) == \E v \in Vcpu : t \in Range(runqueue[v])

\* check_run_invariants (vcpu.c), read per PCPU: the VCPU a PCPU calls current
\* is marked running, and a VCPU marked running is current on its own PCPU.
RunningIsCurrent ==
  \A v \in Vcpu, p \in Pcpu :
    vcpu_current[p] = v <=> (running[v] /\ home[v] = p)

\* check_run_invariants: the runnable flag, presence on the queue of the VCPU's
\* own PCPU, and having a task to run are the same thing, whatever sequence of
\* wakeups, preemptions, migrations and exits came before.  So vcpu_schedule
\* never picks a VCPU without a task, and never misses one that has some.
RunnableIsQueued ==
  \A v \in Vcpu, p \in Pcpu :
    /\ runnable[v] <=> runqueue[v] # << >>
    /\ v \in Range(vcpu_queue[p]) <=> (runnable[v] /\ home[v] = p)

\* A PCPU that has a current VCPU executes that VCPU's selected task (or has
\* just unloaded it in __exit): the time slice is charged to the right VCPU.
CurrentRunsItsTask ==
  \A p \in Pcpu : vcpu_current[p] \in Vcpu =>
    /\ tr[vcpu_current[p]] \in Task
    /\ str[p] \in {tr[vcpu_current[p]], NoTask}

\* No task executes on two PCPUs at once, although tasks move between VCPUs
\* that live on different PCPUs (ATAPI reads) while being woken by others.
NoTaskRunsTwice ==
  \A p, q \in Pcpu : p # q /\ str[p] = str[q] => str[p] \in {Idle, NoTask}

\* All the queues share the single link tssp->next: a task sits on one run
\* queue at most, once, that of the VCPU it is bound to, and not while it
\* executes, except between its re-queueing and the schedule() that follows.
OneRunqueue ==
  /\ \A v \in Vcpu : IsInjective(runqueue[v])
  /\ \A v \in Vcpu : \A t \in Range(runqueue[v]) : cpu[t] = v
  /\ \A p \in Pcpu : Queued(str[p]) => handler[p] = "resched"

\* A task whose descriptor __exit has cleared is on no run queue and loaded
\* nowhere: lookup_TSS is never applied to a dead selector.
OnlyLiveTasks ==
  /\ \A v \in Vcpu : Range(runqueue[v]) \subseteq live
  /\ \A p \in Pcpu : str[p] \in Task => str[p] \in live

\* Theorem Preservation of docs/vcpu.tex: a runnable task stays runnable or
\* runs after the step; no wakeup is ever lost by schedule, exit or migration.
KeepsRunnable == \A t \in Task : Queued(t) => Queued(t)' \/ \E p \in Pcpu : str'[p] = t

Preservation == [][KeepsRunnable]_vars

\* The assertions of check_run_invariants exactly as the code evaluates them,
\* against the queue and the current VCPU of the PCPU that calls schedule.
CheckRunInvariants ==
  \A p \in Pcpu : handler[p] # "user" =>
    /\ vcpu_current[p] # NoVcpu => running[vcpu_current[p]]
    /\ \A v \in Vcpu : /\ running[v] => v = vcpu_current[p]
                       /\ runnable[v] <=> v \in Range(vcpu_queue[p])
=============================================================================
