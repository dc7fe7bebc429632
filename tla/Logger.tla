------------------------------- MODULE Logger -------------------------------
(***************************************************************************)
(* The kernel's log buffer (util/logger.c).  Kernel code that holds the    *)
(* kernel lock puts characters in; the logger thread takes them out with   *)
(* no lock at all.  So every access to head and tail is a step.            *)
(***************************************************************************)
EXTENDS Naturals, Sequences

CONSTANTS
  Chars,
  LOGGER_BUF_SIZE,
  Nothing            \* no character; also the result of a put that is dropped

VARIABLES
  logger_buf, head, tail, dropped,
  logger_running,
  putting,           \* the character logger_putc has stored and not made visible
  getting,           \* the character logger_getc has read and not released
  last               \* history: <<who, character>> of the last put or get

vars == <<logger_buf, head, tail, dropped, logger_running, putting, getting, last>>

Cells == 0 .. LOGGER_BUF_SIZE - 1
After(i) == (i + 1) % LOGGER_BUF_SIZE

Init ==
  /\ logger_buf = [i \in Cells |-> Nothing]
  /\ head = 0 /\ tail = LOGGER_BUF_SIZE - 1
  /\ dropped = FALSE /\ logger_running = FALSE
  /\ putting = Nothing /\ getting = Nothing
  /\ last = << >>

\* logger_thread begins; until then logger_putc writes to the serial port.
StartThread ==
  /\ ~logger_running
  /\ logger_running' = TRUE
  /\ UNCHANGED <<logger_buf, head, tail, dropped, putting, getting, last>>

FullTooLate(i) == head = tail

\* logger_putc finds no room when the next head is i.
Full(i) == i = tail

\* logger_putc tests for room; it drops the character or stores it ...
Put(c) ==
  /\ logger_running /\ putting = Nothing
  /\ IF Full(After(head))
     THEN /\ dropped' = TRUE /\ last' = <<"putc", Nothing>>
          /\ UNCHANGED <<logger_buf, putting>>
     ELSE /\ logger_buf' = [logger_buf EXCEPT ![head] = c]
          /\ putting' = c
          /\ UNCHANGED <<dropped, last>>
  /\ UNCHANGED <<head, tail, logger_running, getting>>

\* ... and then moves head.
Publish ==
  /\ putting # Nothing
  /\ head' = After(head)
  /\ last' = <<"putc", putting>>
  /\ putting' = Nothing
  /\ UNCHANGED <<logger_buf, tail, dropped, logger_running, getting>>

\* logger_getc finds a character and reads it ...
Get ==
  /\ logger_running /\ getting = Nothing
  /\ After(tail) # head
  /\ getting' = logger_buf[After(tail)]
  /\ UNCHANGED <<logger_buf, head, tail, dropped, logger_running, putting, last>>

\* ... and then moves tail; the thread prints it.
Taken ==
  /\ getting # Nothing
  /\ tail' = After(tail)
  /\ last' = <<"getc", getting>>
  /\ getting' = Nothing
  /\ UNCHANGED <<logger_buf, head, dropped, logger_running, putting>>

\* logger_thread reports that characters were dropped.
Report ==
  /\ dropped /\ getting = Nothing
  /\ dropped' = FALSE
  /\ UNCHANGED <<logger_buf, head, tail, logger_running, putting, getting, last>>

Next == StartThread \/ (\E c \in Chars : Put(c)) \/ Publish \/ Get \/ Taken \/ Report

Spec == Init /\ [][Next]_vars

-----------------------------------------------------------------------------
\* Type invariant.
TypeOK ==
  /\ logger_buf \in [Cells -> Chars \cup {Nothing}]
  /\ head \in Cells /\ tail \in Cells
  /\ dropped \in BOOLEAN /\ logger_running \in BOOLEAN
  /\ {putting, getting} \subseteq Chars \cup {Nothing}
  /\ last \in {<< >>} \cup ({"putc", "getc"} \X (Chars \cup {Nothing}))

\* Characters wait between tail and head; two cells are always unused.
Waiting == (head + LOGGER_BUF_SIZE - After(tail)) % LOGGER_BUF_SIZE

\* The log buffer is a bounded first-in first-out queue although its two sides
\* share no lock: the serial port gets every character once and in order,
\* except those dropped when LOGGER_BUF_SIZE - 2 are waiting.
Fifo == INSTANCE BoundedFifo WITH
          Tasks <- {"putc", "getc"}, Elements <- Chars,
          Capacity <- LOGGER_BUF_SIZE - 2, Refused <- Nothing,
          fifo <- [i \in 1 .. Waiting |-> logger_buf[(tail + i) % LOGGER_BUF_SIZE]]

LogIsFifo == Fifo!Spec
=============================================================================
