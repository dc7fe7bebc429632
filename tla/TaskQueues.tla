----------------------------- MODULE TaskQueues -----------------------------
(***************************************************************************)
(* What the task lists of the kernel are meant to be: the run queues, the  *)
(* sleep queue and the wait queue of every task as sequences, and tasks    *)
(* that move between them.  Module TaskLinks implements them with the      *)
(* links tssp->next.                                                       *)
(***************************************************************************)
EXTENDS Integers, Sequences

CONSTANTS Task, Bh, Vcpu, Nil, Durations

VARIABLES
  queue,    \* the contents of every queue
  live,     \* tasks that exist
  cpu,      \* the VCPU of a task
  current,  \* the task that executes on a VCPU, or Nil
  time      \* ticks a sleeper still has to sleep

Run(v) == [list |-> "run", of |-> v]
Wait(t) == [list |-> "wait", of |-> t]
Sleep == [list |-> "sleep", of |-> Nil]
Queues == {Run(v) : v \in Vcpu} \cup {Wait(t) : t \in Task} \cup {Sleep}

TasksOf(s) == {s[i] : i \in 1 .. Len(s)}
Without(s, i) == SubSeq(s, 1, i - 1) \o SubSeq(s, i + 1, Len(s))

Enter(qs, q, t) == IF t \in TasksOf(qs[q]) THEN qs ELSE [qs EXCEPT ![q] = Append(@, t)]

Wakeup(qs, t) == Enter(qs, Run(cpu[t]), t)

\* VCPU v executes a task of its run queue, if there is one.
Dispatch(v, qs) ==
  \/ /\ qs[Run(v)] = << >>
     /\ queue' = qs
     /\ current' = [current EXCEPT ![v] = Nil]
  \/ \E i \in 1 .. Len(qs[Run(v)]) :
       /\ queue' = [qs EXCEPT ![Run(v)] = Without(@, i)]
       /\ current' = [current EXCEPT ![v] = qs[Run(v)][i]]

Init ==
  /\ live \subseteq Task
  /\ cpu \in [Task -> Vcpu]
  /\ current \in [Vcpu -> live \cup {Nil}]
  /\ queue = [q \in Queues |-> << >>]
  /\ time = [t \in Task |-> 0]

\* The task of v goes to sleep, waits for another one, goes back on its run queue or,
\* if an interrupt will wake it up, just stops.
Leave(v) ==
  LET t == current[v] IN
  /\ t # Nil
  /\ \/ /\ \/ \E pid \in live : Dispatch(v, Enter(queue, Wait(pid), t))
           \/ Dispatch(v, Wakeup(queue, t))
           \/ t \in Bh /\ Dispatch(v, queue)
        /\ UNCHANGED time
     \/ /\ Dispatch(v, Enter(queue, Sleep, t))
        /\ \E d \in Durations : time' = [time EXCEPT ![t] = d]
  /\ UNCHANGED <<live, cpu>>

\* A task exits when nobody waits for it any more.
Exit(v) ==
  /\ current[v] # Nil /\ queue[Wait(current[v])] = << >>
  /\ live' = live \ {current[v]}
  /\ Dispatch(v, queue)
  /\ UNCHANGED <<cpu, time>>

Resume(v) ==
  /\ current[v] = Nil
  /\ Dispatch(v, queue)
  /\ UNCHANGED <<live, cpu, time>>

Create(t, v) ==
  /\ t \notin live
  /\ live' = live \cup {t}
  /\ cpu' = [cpu EXCEPT ![t] = v]
  /\ queue' = [queue EXCEPT ![Run(v)] = Append(@, t)]
  /\ time' = [time EXCEPT ![t] = 0]
  /\ UNCHANGED current

\* A sleeper whose time is up, the first of the tasks that wait for an executing task,
\* or a task woken up by an interrupt goes to its run queue.
Wake ==
  /\ \/ \E i \in 1 .. Len(queue[Sleep]) :
          LET t == queue[Sleep][i] IN
          /\ time[t] = 0
          /\ queue' = Wakeup([queue EXCEPT ![Sleep] = Without(@, i)], t)
     \/ \E v \in Vcpu :
          LET q == Wait(current[v]) IN
          /\ current[v] # Nil /\ queue[q] # << >>
          /\ queue' = Wakeup([queue EXCEPT ![q] = Without(@, 1)], queue[q][1])
     \/ \E t \in Bh : queue' = Wakeup(queue, t)
  /\ UNCHANGED <<live, cpu, current, time>>

Tick ==
  /\ time' = [t \in Task |-> IF time[t] > 0 THEN time[t] - 1 ELSE 0]
  /\ UNCHANGED <<queue, live, cpu, current>>

Next ==
  \/ Wake \/ Tick
  \/ \E v \in Vcpu : Leave(v) \/ Exit(v) \/ Resume(v) \/ \E t \in Task : Create(t, v)

Spec == Init /\ [][Next]_<<queue, live, cpu, current, time>>
=============================================================================
