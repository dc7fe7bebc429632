-------------------------------- MODULE Umsc --------------------------------
(***************************************************************************)
(* Reading sectors from a USB mass-storage device (drivers/usb/umsc.c).  A *)
(* reader leaves its request in globals and wakes the driver's thread,     *)
(* which makes the transfer, clears umsc_cur_task and wakes the reader.    *)
(* The reader then copies the sector out of the buffer all requests share. *)
(* The thread lets go of the kernel lock only inside the transfer.         *)
(***************************************************************************)
EXTENDS Naturals, FiniteSets

CONSTANTS
  Clients,       \* tasks that read
  Blocks,        \* sectors
  MaxRequests    \* bound: reads begun

NoOne == 0       \* no task, and no sector

ASSUME UmscAssumption == NoOne \notin Clients \cup Blocks /\ MaxRequests \in Nat

VARIABLES
  umsc_cur_task, umsc_lba, umsc_waitq,
  umsc_buf,      \* the sector in the shared buffer; NoOne while it is written
  umsc_ready,    \* clients that are runnable
  job,           \* the thread: asleep, ready, or in a transfer
  stage,         \* where a client is: out, queued, waiting
  block,         \* the sector it asked for
  copied,        \* the sector it copied
  overtaken,     \* history: a client's transfer is over and another request was accepted
  requests       \* reads begun

uvars == <<umsc_cur_task, umsc_lba, umsc_waitq, umsc_buf, umsc_ready, job,
           stage, block, copied, overtaken, requests>>

UInit ==
  /\ umsc_cur_task = NoOne /\ umsc_lba = NoOne /\ umsc_waitq = {} /\ umsc_buf = NoOne
  /\ umsc_ready = {} /\ job = "asleep"
  /\ stage = [t \in Clients |-> "out"]
  /\ block = [t \in Clients |-> NoOne] /\ copied = [t \in Clients |-> NoOne]
  /\ overtaken = [t \in Clients |-> FALSE]
  /\ requests = 0

-----------------------------------------------------------------------------
\* umsc_read_sector from the test of its loop on: queue up, or leave the
\* request and wake the thread.
Request(t, sector, ready) ==
  /\ umsc_ready' = ready
  /\ \/ /\ umsc_cur_task # NoOne
        /\ umsc_waitq' = umsc_waitq \cup {t}
        /\ stage' = [stage EXCEPT ![t] = "queued"]
        /\ UNCHANGED <<umsc_cur_task, umsc_lba, job, overtaken>>
     \/ /\ umsc_cur_task = NoOne
        /\ umsc_cur_task' = t /\ umsc_lba' = sector
        /\ job' = "ready"
        /\ stage' = [stage EXCEPT ![t] = "waiting"]
        /\ overtaken' = [u \in Clients |-> u # t /\ (overtaken[u] \/ stage[u] = "waiting")]
        /\ UNCHANGED umsc_waitq

UReadSector(t, sector) ==
  /\ stage[t] = "out" /\ requests < MaxRequests
  /\ Request(t, sector, umsc_ready)
  /\ block' = [block EXCEPT ![t] = sector]
  /\ requests' = requests + 1
  /\ UNCHANGED <<umsc_buf, copied>>

Requeue(t) ==
  /\ stage[t] = "queued" /\ t \in umsc_ready
  /\ Request(t, block[t], umsc_ready \ {t})
  /\ UNCHANGED <<umsc_buf, block, copied, requests>>

\* The thread begins the transfer, which sleeps in the host controller driver.
BeginTransfer ==
  /\ job = "ready"
  /\ IF umsc_cur_task = NoOne
     THEN job' = "asleep" /\ UNCHANGED umsc_buf
     ELSE job' = "transfer" /\ umsc_buf' = NoOne
  /\ UNCHANGED <<umsc_cur_task, umsc_lba, umsc_waitq, umsc_ready, stage, block,
                 copied, overtaken, requests>>

\* The transfer ends, well or with an error that leaves the buffer unfinished.
EndOfTransfer ==
  /\ job = "transfer"
  /\ umsc_buf' \in {umsc_lba, NoOne}
  /\ umsc_ready' = umsc_ready \cup {umsc_cur_task}
  /\ umsc_cur_task' = NoOne
  /\ job' = "asleep"
  /\ UNCHANGED <<umsc_lba, umsc_waitq, stage, block, copied, overtaken, requests>>

\* The reader is back from schedule(): copy, wake the queue, return.
CopyKeepsQueue(t) ==
  /\ stage[t] = "waiting" /\ t \in umsc_ready
  /\ copied' = [copied EXCEPT ![t] = umsc_buf]
  /\ umsc_ready' = umsc_ready \ {t}
  /\ stage' = [stage EXCEPT ![t] = "out"]
  /\ UNCHANGED <<umsc_cur_task, umsc_lba, umsc_waitq, umsc_buf, job, block, overtaken, requests>>

Copy(t) ==
  /\ stage[t] = "waiting" /\ t \in umsc_ready
  /\ copied' = [copied EXCEPT ![t] = umsc_buf]
  /\ umsc_ready' = (umsc_ready \ {t}) \cup umsc_waitq
  /\ umsc_waitq' = {}
  /\ stage' = [stage EXCEPT ![t] = "out"]
  /\ UNCHANGED <<umsc_cur_task, umsc_lba, umsc_buf, job, block, overtaken, requests>>

UStep(t) == Requeue(t) \/ Copy(t)

UNext ==
  \/ \E t \in Clients : UStep(t) \/ \E sector \in Blocks : UReadSector(t, sector)
  \/ BeginTransfer \/ EndOfTransfer

USpec == UInit /\ [][UNext]_uvars

-----------------------------------------------------------------------------
\* Type invariant.
UTypeOK ==
  /\ umsc_cur_task \in Clients \cup {NoOne}
  /\ {umsc_lba, umsc_buf} \subseteq Blocks \cup {NoOne}
  /\ umsc_waitq \subseteq Clients /\ umsc_ready \subseteq Clients
  /\ job \in {"asleep", "ready", "transfer"}
  /\ stage \in [Clients -> {"out", "queued", "waiting"}]
  /\ block \in [Clients -> Blocks \cup {NoOne}] /\ copied \in [Clients -> Blocks \cup {NoOne}]
  /\ overtaken \in [Clients -> BOOLEAN]
  /\ requests \in 0..MaxRequests

\* A read (umsc.c:208) returns the sector its caller asked for, or what a
\* failed transfer left, unless another request was accepted between the end
\* of its transfer and its copy.
UmscReadsOwnSector ==
  \A t \in Clients :
    stage[t] = "out" /\ ~overtaken[t] => copied[t] \in {block[t], NoOne}
=============================================================================
