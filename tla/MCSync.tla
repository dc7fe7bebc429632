------------------------------- MODULE MCSync -------------------------------
(***************************************************************************)
(* Semaphores, circular buffers and the log buffer, on small instances.    *)
(* They do not share state, so a behaviour exercises one of them, chosen   *)
(* at the start, and leaves the other two alone.                           *)
(***************************************************************************)
EXTENDS Circular

CONSTANTS MaxUnits, InitUnits, Amounts, LOGGER_BUF_SIZE, t1, t2, t3, a, b

\* A semaphore starts with at most its maximum; the log buffer has the two cells
\* that are never used.
ASSUME SyncAssumption ==
  /\ MaxUnits \in Nat /\ InitUnits \in 0 .. MaxUnits /\ Amounts \subseteq Nat
  /\ LOGGER_BUF_SIZE \in Nat /\ LOGGER_BUF_SIZE >= 2

MCTasks == {t1, t2, t3}
MCElements == {a, b}

VARIABLES
  which,
  s, waitqueue, spc, need, timed, sready,
  logger_buf, head, tail, dropped, logger_running, putting, getting, llast

Sem == INSTANCE Semaphore WITH pc <- spc, ready <- sready
Log == INSTANCE Logger WITH Chars <- Elements, Nothing <- Refused, last <- llast

svars == <<s, waitqueue, spc, need, timed, sready>>
logvars == <<logger_buf, head, tail, dropped, logger_running, putting, getting, llast>>
allvars == <<which, vars, svars, logvars>>

MCInit == which \in {"sem", "ring", "log"} /\ Init /\ Sem!Init /\ Log!Init

SemDoes(A) == which = "sem" /\ A /\ UNCHANGED <<which, vars, logvars>>
RingDoes(A) == which = "ring" /\ A /\ UNCHANGED <<which, svars, logvars>>
LogDoes(A) == which = "log" /\ A /\ UNCHANGED <<which, vars, svars>>

MCNext == SemDoes(Sem!Next) \/ RingDoes(Next) \/ LogDoes(Log!Next)

\* A task that executes goes on executing, and the scheduler dispatches every
\* task that is ready.
MCSpec ==
  /\ MCInit /\ [][MCNext]_allvars
  /\ \A t \in Tasks : WF_allvars(SemDoes(Sem!Step(t))) /\ WF_allvars(RingDoes(Step(t)))

-----------------------------------------------------------------------------
\* Type invariant: each component keeps its type.
TypesOK == TypeOK /\ Sem!TypeOK /\ Log!TypeOK

\* A task that goes to sleep in semaphore_wait is where the next signal finds
\* it: see Semaphore.
NoLostWakeup == Sem!NoLostWakeup

\* Nobody sleeps next to the units (semaphore_wait) or to the room or the
\* element (circular_insert, circular_remove) it waits for.
SleepsOnlyIfNeeded == Sem!SleepsOnlyWithoutUnits /\ SleepsOnlyIfMust

\* circular.c and logger.c are bounded first-in first-out queues.
AreFifo == IsFifo /\ Log!LogIsFifo

\* No operation on a semaphore or a circular buffer waits for ever while it
\* could complete.
NobodyStuck == Sem!ServedIfAvailable /\ NotStuck
=============================================================================
