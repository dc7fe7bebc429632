--------------------------- MODULE Replenishment ---------------------------
(***************************************************************************)
(* The budget of a Main VCPU (kernel/sched/vcpu.c): a queue of             *)
(* replenishments [t, b] from head to tail, the usage of the head one and  *)
(* the budget b shown to the scheduler, as a record s = [Q, usage, b].     *)
(* Every hook reads the clock itself; `clk' is that reading, T the period. *)
(***************************************************************************)
EXTENDS Integers, Sequences, SequencesExt

CONSTANT MAX_REPL  \* length limit of the queue

ASSUME MaxReplAssumption == MAX_REPL \in Nat /\ MAX_REPL > 1

InsertBackwards(q, r) ==
  LET i == SelectInSeq(q, LAMBDA x : x.t <= r.t)
  IN  InsertAt(q, IF i = 0 THEN Len(q) + 1 ELSE i, r)

\* Before the first replenishment that is not earlier.
InsertByTime(q, r) ==
  LET i == SelectInSeq(q, LAMBDA x : x.t >= r.t)
  IN  InsertAt(q, IF i = 0 THEN Len(q) + 1 ELSE i, r)

\* repl_queue_add: a full queue drops the new replenishment.
Add(q, r) == IF Len(q) < MAX_REPL THEN InsertByTime(q, r) ELSE q

CapacityIgnoresTime(s, clk) == s.Q[1].b - s.usage

\* capacity: what is left of the head, once its time has come.
Capacity(s, clk) == IF s.Q[1].t > clk THEN 0 ELSE s.Q[1].b - s.usage

\* The head is absorbed by the replenishment that follows it, from time t on.
MergeHead(q, t) == << [t |-> t, b |-> q[1].b + q[2].b] >> \o SubSeq(q, 3, Len(q))

\* What the replenishments of a queue add up to.
Total(q) ==
  LET sum[n \in 0 .. Len(q)] == IF n = 0 THEN 0 ELSE sum[n - 1] + q[n].b IN sum[Len(q)]

\* main_vcpu_update_replenishments
Update(s, clk) == [s EXCEPT !.b = IF Capacity(s, clk) > 0 THEN Capacity(s, clk) ELSE 0]

-----------------------------------------------------------------------------
(* end_timeslice                                                            *)

ExhaustChargesTwice(s, T) ==
  [s EXCEPT !.usage = @ - s.Q[1].b,
            !.Q = Add(Tail(@), [t |-> s.Q[1].t + T + s.usage, b |-> s.Q[1].b])]

\* The head is used up and comes back one period after its time.
ExhaustOnce(s, T) ==
  [s EXCEPT !.usage = @ - s.Q[1].b,
            !.Q = Add(Tail(@), [t |-> s.Q[1].t + T, b |-> s.Q[1].b])]

\* The while loop of budget_check: used up replenishments come back T later.
\* Each round consumes some usage, so usage bounds the number of rounds.
Exhaust(s, T) ==
  LET round[n \in 0 .. s.usage] ==
        IF n = 0 THEN s
        ELSE LET r == round[n - 1] IN IF r.Q[1].b <= r.usage THEN ExhaustOnce(r, T) ELSE r
  IN  round[s.usage]

\* The usage left is overrun: it postpones the head, which may reach the next.
Overrun(s) ==
  LET t == s.Q[1].t + s.usage
  IN  IF s.usage = 0 THEN s
      ELSE IF Len(s.Q) > 1 /\ t + s.Q[1].b >= s.Q[2].t
           THEN [s EXCEPT !.Q = MergeHead(@, t)]
           ELSE [s EXCEPT !.Q[1].t = t]

NoBudgetCheck(s, T, clk) == s

BudgetCheck(s, T, clk) ==
  IF Capacity(s, clk) <= 0 THEN Overrun(Exhaust(s, T)) ELSE s

SplitForgetsUsage(s, T, clk) ==
  IF s.usage > 0 /\ s.Q[1].t <= clk
  THEN [s EXCEPT !.Q[1].b = @ - s.usage, !.usage = 0] ELSE s

SplitIgnoresLimit(s, T, clk) ==
  IF s.usage > 0 /\ s.Q[1].t <= clk
  THEN [s EXCEPT !.Q = InsertByTime([s.Q EXCEPT ![1].b = @ - s.usage],
                                    [t |-> s.Q[1].t + T, b |-> s.usage]),
                 !.usage = 0]
  ELSE s

\* split_check: the used part of the head comes back T later; a full queue
\* first passes the remnant on to the next replenishment.
SplitCheck(s, T, clk) ==
  LET remnant == s.Q[1].b - s.usage
      q == IF Len(s.Q) = MAX_REPL THEN [Tail(s.Q) EXCEPT ![1].b = @ + remnant]
           ELSE [s.Q EXCEPT ![1].b = remnant]
  IN  IF s.usage > 0 /\ s.Q[1].t <= clk
      THEN [s EXCEPT !.Q = Add(q, [t |-> q[1].t + T, b |-> s.usage]), !.usage = 0]
      ELSE s

\* main_vcpu_end_timeslice after delta time units, blocked unless runnable.
EndTimeslice(s, T, delta, runnable, clk) ==
  LET used == BudgetCheck([s EXCEPT !.usage = @ + delta], T, clk)
  IN  Update(IF runnable THEN used ELSE SplitCheck(used, T, clk), clk)

-----------------------------------------------------------------------------
(* unblock                                                                  *)

\* unblock_check: the head becomes available from now on, and swallows the
\* replenishments that arrive before it could be used up.
Unblock(s, clk) ==
  LET step(q) == IF Len(q) > 1 /\ q[2].t <= clk + q[1].b - s.usage THEN MergeHead(q, clk) ELSE q
      merged[n \in 0 .. Len(s.Q)] ==
        IF n = 0 THEN [s.Q EXCEPT ![1].t = clk] ELSE step(merged[n - 1])
  IN  IF Capacity(s, clk) > 0 THEN [s EXCEPT !.Q = merged[Len(s.Q)]] ELSE s
=============================================================================
