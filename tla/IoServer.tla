------------------------------ MODULE IoServer ------------------------------
(***************************************************************************)
(* One I/O VCPU (kernel/sched/vcpu.c, the bandwidth-preserving server with *)
(* inherited priority): a bandwidth Unum/Uden, one pending replenishment r *)
(* and an eligibility time e.  Each job it serves may lower its period T   *)
(* to that of the Main VCPU the job is for.  As in SporadicServer, the     *)
(* other VCPUs delay and preempt it arbitrarily and timers may be late.    *)
(***************************************************************************)
EXTENDS Integers

CONSTANTS
  Unum, Uden,   \* utilisation: the C and T of init_params
  Periods,      \* periods of the Main VCPUs that request jobs
  Late,         \* bound on the overrun of a timeslice
  Skew,         \* bound on the time between two readings of the clock by a handler
  MaxTime       \* bound: the horizon of the clock

\* Every period is worth some budget: otherwise a replenishment would be empty.
ASSUME IoAssumption ==
  /\ Unum \in Nat \ {0} /\ Uden \in Nat /\ Unum <= Uden
  /\ Periods \subseteq Nat /\ \A p \in Periods : p * Unum >= Uden
  /\ Late \in Nat /\ Skew \in 0 .. Late /\ MaxTime \in Nat \ {0}

VARIABLES
  now,                \* the time stamp counter
  T,                  \* v->T, inherited
  v,                  \* v->b, v->usage, v->io.e, v->io.r.t (0: none), v->io.r.b, v->io.budgeted
  running, runnable,  \* v->running, v->runnable
  tprev,              \* pcpu_tprev
  mark, served, missed   \* history, as in SporadicServer

vars == <<now, T, v, running, runnable, tprev, mark, served, missed>>

Maximum(x, y) == IF x > y THEN x ELSE y

\* The budget of one replenishment at period t.
Cmax(t) == (t * Unum) \div Uden

\* vcpu_init, with the C and T of init_params in clock units.
Init ==
  /\ now = 1 /\ tprev = 1 /\ T = Uden
  /\ v = [b |-> Unum, usage |-> 0, e |-> 0, rt |-> 0, rb |-> 0, budgeted |-> FALSE]
  /\ running = FALSE /\ runnable = FALSE
  /\ mark = 0 /\ served = 0 /\ missed = FALSE

-----------------------------------------------------------------------------
(* The hooks                                                                *)

UpdateAccumulates(w, tcur) ==
  IF w.rt # 0 /\ w.rt <= tcur THEN [w EXCEPT !.b = @ + w.rb, !.rt = 0] ELSE w

UpdateKeepsPending(w, tcur) == IF w.rt # 0 /\ w.rt <= tcur THEN [w EXCEPT !.b = w.rb] ELSE w

\* io_vcpu_update_replenishments
Update(w, tcur) ==
  IF w.rt # 0 /\ w.rt <= tcur THEN [w EXCEPT !.b = w.rb, !.rt = 0] ELSE w

EligibleAtOnce(w, used) ==
  [b |-> 0, usage |-> 0, e |-> w.e, rt |-> w.e, rb |-> IF w.rt = 0 THEN Cmax(T) ELSE w.rb,
   budgeted |-> w.budgeted /\ runnable]

AdvanceKeepsUsage(w, used) ==
  LET e == w.e + (used * Uden) \div Unum
  IN  [b |-> 0, usage |-> used, e |-> e, rt |-> e, rb |-> IF w.rt = 0 THEN Cmax(T) ELSE w.rb,
       budgeted |-> w.budgeted /\ runnable]

AdvanceKeepsBudgeted(w, used) ==
  LET e == w.e + (used * Uden) \div Unum
  IN  [b |-> 0, usage |-> 0, e |-> e, rt |-> e, rb |-> IF w.rt = 0 THEN Cmax(T) ELSE w.rb,
       budgeted |-> w.budgeted]

\* The block of io_vcpu_end_timeslice for a VCPU that blocked or is exhausted:
\* its usage moves the eligibility time on, and that is when it is replenished.
Advance(w, used) ==
  LET e == w.e + (used * Uden) \div Unum
  IN  [b |-> 0, usage |-> 0, e |-> e, rt |-> e, rb |-> IF w.rt = 0 THEN Cmax(T) ELSE w.rb,
       budgeted |-> w.budgeted /\ runnable]

\* io_vcpu_end_timeslice
EndTimeslice(w, delta) ==
  LET b == Maximum(w.b - delta, 0)
  IN  IF runnable /\ b > 0
      THEN [w EXCEPT !.b = b, !.usage = @ + delta]
      ELSE Advance(w, w.usage + delta)

\* io_vcpu_unblock at period t: time spent blocked earns no budget.
Unblock(w, t, clk) ==
  LET e == IF ~w.budgeted /\ w.e < clk THEN clk ELSE w.e
  IN  [b |-> w.b, usage |-> w.usage, e |-> e,
       rt |-> IF w.rt = 0 /\ ~w.budgeted THEN e ELSE w.rt,
       rb |-> IF w.rt = 0 /\ w.budgeted THEN w.rb ELSE Cmax(t),
       budgeted |-> TRUE]

-----------------------------------------------------------------------------
(* The handlers                                                             *)

\* Left waiting: the budget can no longer be consumed within T of its time.
WaitsTooLong == runnable /\ ~running /\ v.b > 0 /\ now + v.b > v.e + T

InSlice(clk) == running => clk - tprev <= v.b + Late

Tick ==
  /\ now < MaxTime
  /\ InSlice(now + 1)
  /\ now' = now + 1
  /\ UNCHANGED <<T, v, running, runnable, tprev, mark, served>>

\* vcpu_schedule as this VCPU sees it (see SporadicServer): the hooks of an I/O
\* VCPU use the time the handler read first.
Schedule(verdict, more) ==
  LET ended == IF running THEN EndTimeslice(v, now - tprev) ELSE v
  IN  /\ running \/ runnable
      /\ verdict # "skipped" => runnable
      /\ v' = IF verdict = "skipped" THEN ended ELSE Update(ended, now)
      /\ verdict = "picked" => v'.b > 0
      /\ running' = (verdict = "picked")
      /\ runnable' = IF verdict = "picked" THEN more ELSE runnable
      /\ tprev' = now
      /\ served' = IF mark = 0 \/ ~running THEN served ELSE served + now - Maximum(mark, tprev)
      /\ UNCHANGED <<now, T, mark>>

\* iovcpu_job_wakeup: the period of an idle VCPU is replaced, that of an active
\* one only lowered.
Inherit(t) == IF t < T \/ ~(running \/ runnable) THEN t ELSE T

\* iovcpu_job_wakeup on behalf of a VCPU of period t, and the vcpu_wakeup it
\* calls: unblock the VCPU if it was blocked, then update it.
JobWakeup(t, clk) ==
  /\ InSlice(clk)
  /\ T' = Inherit(t)
  /\ v' = Update(IF runnable \/ running THEN v ELSE Unblock(v, T', now), clk)
  /\ runnable' = TRUE
  /\ now' = clk
  /\ UNCHANGED <<running, tprev, mark, served>>

\* An observation window may begin at any time.
Observe ==
  /\ mark = 0
  /\ mark' = now
  /\ UNCHANGED <<now, T, v, running, runnable, tprev, served>>

Next ==
  /\ \/ Tick
     \/ Observe
     \/ \E verdict \in {"skipped", "refreshed", "picked"}, more \in BOOLEAN :
          Schedule(verdict, more)
     \/ \E t \in Periods, clk \in now .. now + Skew : clk <= MaxTime /\ JobWakeup(t, clk)
  /\ missed' = (missed \/ WaitsTooLong')

Spec == Init /\ [][Next]_vars

-----------------------------------------------------------------------------
LongestPeriod == CHOOSE p \in Periods \cup {Uden} : \A q \in Periods \cup {Uden} : q <= p

\* Type invariant: the fields of an I/O VCPU; budget and replenishment are
\* never more than some period is worth.
TypeOK ==
  /\ now \in 1 .. MaxTime /\ tprev \in 1 .. now
  /\ T \in Periods \cup {Uden}
  /\ v \in [b : Nat, usage : Nat, e : Nat, rt : Nat, rb : Nat, budgeted : BOOLEAN]
  /\ \E p \in Periods \cup {Uden} : v.b <= Cmax(p)
  /\ \E p \in Periods \cup {Uden} : v.rb <= Cmax(p)
  /\ running \in BOOLEAN /\ runnable \in BOOLEAN
  /\ mark \in 0 .. now /\ served \in Nat /\ missed \in BOOLEAN

\* An I/O VCPU with work to do has budget or a replenishment on the way, never
\* both and never neither: jobs that arrive before, during and after a timeslice
\* neither starve it nor replenish it twice.
BudgetOrReplenishment ==
  running \/ runnable => (v.b > 0 <=> v.rt = 0) /\ (v.rt # 0 => v.rb > 0)

\* A blocked I/O VCPU that has served a job carries no budget, no uncharged usage
\* and no `budgeted' mark into its next job; so io_vcpu_unblock, which is called
\* for blocked VCPUs only, always finds the mark reset.
IdleIsReset ==
  ~running /\ ~runnable /\ v.e > 0 => ~v.budgeted /\ v.b = 0 /\ v.usage = 0

\* A replenishment is never further away than the longest inherited period, and
\* the time that pays for one overrun.
ReplenishedWithinPeriod == v.rt <= now + LongestPeriod + (Late * Uden) \div Unum

\* What IO-VCPU-update-budget of the design document ensures: the budget is at
\* most what the current period is worth.
BudgetWithinCmax == v.b <= Cmax(T)

Executed == served + IF running THEN now - Maximum(mark, tprev) ELSE 0

\* Temporal isolation: from any moment on, jobs take at most the bandwidth
\* Unum/Uden of the I/O VCPU over the window extended by two periods, and one
\* late timer, whatever periods they bring along.  (Provided the VCPU is not
\* kept waiting beyond its period.)
BandwidthBound ==
  mark > 0 /\ ~missed =>
    Executed * Uden <= Unum * (now - mark + 2 * LongestPeriod) + Late * Uden
=============================================================================
