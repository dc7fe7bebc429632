--------------------------- MODULE SporadicServer ---------------------------
(***************************************************************************)
(* One Main VCPU (kernel/sched/vcpu.c) under an arbitrary mix of other     *)
(* VCPUs: any time may pass before vcpu_schedule picks it, preempts it or  *)
(* finds it blocked, and before vcpu_wakeup unblocks it.  A timeslice may  *)
(* exceed the budget by `late' units, because the timer interrupt waits    *)
(* for the kernel lock or the timer is coarser than the clock, and a       *)
(* handler may read the clock again up to `late' units after it started.   *)
(***************************************************************************)
EXTENDS Replenishment

CONSTANTS C, T,      \* capacity and period, in clock units
          Lateness,  \* how late the timer of a machine may be
          MaxTime    \* bound: the horizon of the clock

ASSUME ServerAssumption ==
  /\ C \in Nat \ {0} /\ T \in Nat /\ C <= T
  /\ Lateness \subseteq Nat /\ MaxTime \in Nat \ {0}

VARIABLES
  late,      \* bound on the overrun of a timeslice, and on the skew of the clock in a handler
  now,       \* the time stamp counter
  s,         \* the budget: queue of replenishments, usage and b
  running,   \* v->running
  runnable,  \* v->runnable: on the queue of its PCPU
  tprev,     \* pcpu_tprev: when the current timeslice began
  mark,      \* history: start of an observation window, 0 before it
  served,    \* history: execution time in the window, up to the last timeslice
  missed     \* history: the PCPU was overloaded, the VCPU waited too long

vars == <<late, now, s, running, runnable, tprev, mark, served, missed>>

Maximum(x, y) == IF x > y THEN x ELSE y

\* vcpu_init adds one replenishment of C at the time of initialisation.
Init ==
  /\ late \in Lateness
  /\ now = 1 /\ tprev = 1
  /\ s = [Q |-> << [t |-> 1, b |-> C] >>, usage |-> 0, b |-> 0]
  /\ running = FALSE /\ runnable = FALSE
  /\ mark = 0 /\ served = 0 /\ missed = FALSE

\* Left waiting: the head replenishment can no longer be consumed within T of its time.
WaitsTooLong == runnable /\ ~running /\ now + Capacity(s, now) > s.Q[1].t + T

\* The timer ends a timeslice at most `late' after the budget is used up.
InSlice(clk) == running => clk - tprev <= s.b + late

Tick ==
  /\ now < MaxTime
  /\ InSlice(now + 1)
  /\ now' = now + 1
  /\ UNCHANGED <<s, running, runnable, tprev, mark, served>>

\* vcpu_schedule as this VCPU sees it: its timeslice ends if it is current;
\* the scan skips it, or refreshes it, or refreshes and picks it, when
\* it stays on the queue only if it has more tasks to run.  The handler reads
\* the clock at `now' and its hooks read it at clk.
Schedule(clk, verdict, more) ==
  LET ended == IF running THEN EndTimeslice(s, T, now - tprev, runnable, clk) ELSE s
  IN  /\ running \/ runnable
      /\ verdict # "skipped" => runnable
      /\ s' = IF verdict = "skipped" THEN ended ELSE Update(ended, clk)
      /\ verdict = "picked" => s'.b > 0
      /\ running' = (verdict = "picked")
      /\ runnable' = IF verdict = "picked" THEN more ELSE runnable
      /\ tprev' = now
      /\ now' = clk
      /\ served' = IF mark = 0 \/ ~running THEN served ELSE served + now - Maximum(mark, tprev)
      /\ UNCHANGED mark

\* vcpu_wakeup of a task of the VCPU: unblock if it was blocked, then update.
\* A preempted task is woken up in this way before vcpu_schedule runs.
WakeUp(clk) ==
  /\ InSlice(clk)
  /\ s' = Update(IF runnable \/ running THEN s ELSE Unblock(s, clk), clk)
  /\ runnable' = TRUE
  /\ now' = clk
  /\ UNCHANGED <<running, tprev, mark, served>>

\* An observation window may begin at any time.
Observe ==
  /\ mark = 0
  /\ mark' = now
  /\ UNCHANGED <<now, s, running, runnable, tprev, served>>

Next ==
  /\ \/ Tick
     \/ Observe
     \/ \E clk \in now .. now + late :
          /\ clk <= MaxTime
          /\ \/ \E verdict \in {"skipped", "refreshed", "picked"}, more \in BOOLEAN :
                  Schedule(clk, verdict, more)
             \/ WakeUp(clk)
  /\ missed' = (missed \/ WaitsTooLong')
  /\ UNCHANGED late

Spec == Init /\ [][Next]_vars

-----------------------------------------------------------------------------
Replenishments == [t : Nat, b : Nat]

\* Type invariant: the queue of replenishments is never empty (the hooks read
\* its head unconditionally) and never outgrows MAX_REPL, and the budget the
\* scheduler sees is between 0 and C.
TypeOK ==
  /\ late \in Lateness
  /\ now \in 1 .. MaxTime /\ tprev \in 1 .. now
  /\ DOMAIN s = {"Q", "usage", "b"}
  /\ s.Q \in Seq(Replenishments) /\ Len(s.Q) \in 1 .. MAX_REPL
  /\ s.usage \in Nat /\ s.b \in 0 .. C
  /\ running \in BOOLEAN /\ runnable \in BOOLEAN
  /\ mark \in 0 .. now /\ served \in Nat /\ missed \in BOOLEAN

\* The replenishments of a Main VCPU always add up to its capacity C, however
\* timeslices end and however full the queue is: repl_queue_add drops nothing
\* (the assertion "vcpu replenishments out of whack" of check_run_invariants,
\* and the comment of split_check).
BudgetConserved == Total(s.Q) = C

\* After every handler the usage is less than the head replenishment, so that
\* the unsigned differences of split_check and unblock_check never wrap and the
\* loop of budget_check ends, and no replenishment is empty.
NoUnderflow == s.usage < s.Q[1].b /\ \A i \in DOMAIN s.Q : s.Q[i].b > 0

\* The queue of replenishments is ordered by time, as main_vcpu_next_event and
\* repl_queue_add take it to be.
Ordered == \A i \in 1 .. Len(s.Q) - 1 : s.Q[i].t <= s.Q[i + 1].t

\* With a punctual timer nothing is ever postponed past its successors.
OrderedIfPunctual == late = 0 => Ordered

\* A VCPU that is out of budget is never left waiting more than one period for
\* its head replenishment, even after it overran its budget.
ReplenishedWithinPeriod == s.Q[1].t <= now + T

Executed == served + IF running THEN now - Maximum(mark, tprev) ELSE 0

CeilDiv(x, y) == (x + y - 1) \div y

\* Temporal isolation: from any moment on, a Main VCPU is given at most C per
\* period that begins or ends in the window, plus one late timer and one clock
\* reading; so the other VCPUs never lose more than its utilisation.  (Provided the VCPU is not kept
\* waiting so long that a replenishment is consumed more than T after its time.)
WindowBound ==
  mark > 0 /\ ~missed => Executed <= CeilDiv(now - mark + T - 1, T) * C + late + late
=============================================================================
