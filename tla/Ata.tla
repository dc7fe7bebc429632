-------------------------------- MODULE Ata --------------------------------
(***************************************************************************)
(* Reading sectors through the ATA/ATAPI driver (drivers/ata/ata.c).  A    *)
(* reader owns the controller from ata_grab to ata_release, sleeps until   *)
(* the interrupt handler wakes the owner, and then polls the status with   *)
(* the kernel lock held, once for an ATA disk and twice for a CD-ROM.      *)
(*                                                                         *)
(* The kernel lock makes what a task does up to its next schedule() one    *)
(* action, except that a poll waits for the device: `poller' holds the     *)
(* lock then, and neither tasks nor the interrupt handler can get in.      *)
(*                                                                         *)
(* The device is taken to do what the code waits for: it refuses a command *)
(* at once or completes it, with one interrupt for every wait.             *)
(***************************************************************************)
EXTENDS Naturals, FiniteSets

CONSTANTS
  Readers,   \* tasks
  Lba,       \* sectors
  CdRom,     \* those on the CD-ROM; the others are on a hard disk
  MaxReads   \* bound: reads begun

None == 0    \* no task, and no sector

ASSUME AtaAssumption == None \notin Readers \cup Lba /\ MaxReads \in Nat

VARIABLES
  ata_current_task, ata_waitqueue,
  ata_ready,  \* tasks of the driver that are runnable
  poller,     \* the task that polls with the kernel lock held
  at,         \* where a reader is: out, grab, wait, poll, wait2, poll2
  lba,        \* the sector a reader asked for
  got,        \* what it read: the sector, or None for an error
  reads,      \* reads begun
  drive,      \* the device: [state, lba]
  irq         \* the interrupt is pending

tvars == <<ata_current_task, ata_waitqueue, ata_ready, poller, at, lba, got, reads, drive, irq>>

TInit ==
  /\ ata_current_task = None /\ ata_waitqueue = {} /\ ata_ready = {} /\ poller = None
  /\ at = [t \in Readers |-> "out"]
  /\ lba = [t \in Readers |-> None] /\ got = [t \in Readers |-> None]
  /\ reads = 0
  /\ drive = [state |-> "idle", lba |-> None] /\ irq = FALSE

-----------------------------------------------------------------------------
Goto(t, place) == at' = [at EXCEPT ![t] = place]

\* ata_release and the return of the read; the caller of Release says who is ready.
ReleaseForgetsWaiters(t, ready) ==
  /\ ata_ready' = ready
  /\ ata_waitqueue' = {} /\ ata_current_task' = None
  /\ poller' = None /\ Goto(t, "out")

Release(t, ready) ==
  /\ ata_ready' = ready \cup ata_waitqueue
  /\ ata_waitqueue' = {} /\ ata_current_task' = None
  /\ poller' = None /\ Goto(t, "out")

\* The command for the sector is sent and the owner goes to sleep.
Command(t, sector, ready) ==
  /\ ata_current_task' = t
  /\ drive' = [state |-> "busy", lba |-> sector]
  /\ ata_ready' = ready /\ Goto(t, "wait")
  /\ UNCHANGED <<ata_waitqueue, poller, got>>

\* A CD-ROM may refuse the PACKET command: the read fails at once.
Refused(t, sector, ready) ==
  /\ sector \in CdRom
  /\ Release(t, ready)
  /\ got' = [got EXCEPT ![t] = None]
  /\ UNCHANGED drive

\* ata_grab, from the test of its loop on.
Grab(t, sector, ready) ==
  \/ /\ ata_current_task # None
     /\ ata_waitqueue' = ata_waitqueue \cup {t}
     /\ ata_ready' = ready /\ Goto(t, "grab")
     /\ UNCHANGED <<ata_current_task, poller, got, drive>>
  \/ ata_current_task = None /\ (Command(t, sector, ready) \/ Refused(t, sector, ready))

ReadSector(t, sector) ==
  /\ poller = None /\ at[t] = "out" /\ reads < MaxReads
  /\ Grab(t, sector, ata_ready)
  /\ lba' = [lba EXCEPT ![t] = sector]
  /\ reads' = reads + 1
  /\ UNCHANGED irq

\* A woken waiter tests again; RegrabOnce is ata_grab with an if for its while.
RegrabOnce(t) ==
  /\ poller = None /\ at[t] = "grab" /\ t \in ata_ready
  /\ Command(t, lba[t], ata_ready \ {t})
  /\ UNCHANGED <<lba, reads, irq>>

Regrab(t) ==
  /\ poller = None /\ at[t] = "grab" /\ t \in ata_ready
  /\ Grab(t, lba[t], ata_ready \ {t})
  /\ UNCHANGED <<lba, reads, irq>>

\* The owner was woken and polls: for DRQ, or for the end of the transfer.
Poll(t) ==
  /\ poller = None /\ at[t] \in {"wait", "wait2"} /\ t \in ata_ready
  /\ ata_ready' = ata_ready \ {t}
  /\ poller' = t
  /\ Goto(t, IF at[t] = "wait" THEN "poll" ELSE "poll2")
  /\ UNCHANGED <<ata_current_task, ata_waitqueue, lba, got, reads, drive, irq>>

\* DRQ is set: read the data; a CD-ROM sends a second interrupt for the end.
ReadData(t) ==
  /\ at[t] = "poll" /\ drive.state = "data"
  /\ got' = [got EXCEPT ![t] = drive.lba]
  /\ \/ /\ lba[t] \notin CdRom
        /\ drive' = [drive EXCEPT !.state = "idle"]
        /\ Release(t, ata_ready)
     \/ /\ lba[t] \in CdRom
        /\ drive' = [drive EXCEPT !.state = "ending"]
        /\ poller' = None /\ Goto(t, "wait2")
        /\ UNCHANGED <<ata_current_task, ata_waitqueue, ata_ready>>
  /\ UNCHANGED <<lba, reads, irq>>

\* BSY and DRQ are clear.
EndTransfer(t) ==
  /\ at[t] = "poll2" /\ drive.state = "idle"
  /\ Release(t, ata_ready)
  /\ UNCHANGED <<lba, got, reads, drive, irq>>

\* ata_irq_handler wakes the owner, if there is one.
IrqHandler ==
  /\ irq /\ poller = None
  /\ irq' = FALSE
  /\ ata_ready' = ata_ready \cup ({ata_current_task} \ {None})
  /\ UNCHANGED <<ata_current_task, ata_waitqueue, poller, at, lba, got, reads, drive>>

\* The device has the data, or has ended the transfer, and interrupts.
Device ==
  /\ drive.state \in {"busy", "ending"}
  /\ drive' = [drive EXCEPT !.state = IF @ = "busy" THEN "data" ELSE "idle"]
  /\ irq' = TRUE
  /\ UNCHANGED <<ata_current_task, ata_waitqueue, ata_ready, poller, at, lba, got, reads>>

TStep(t) == Regrab(t) \/ Poll(t) \/ ReadData(t) \/ EndTransfer(t)

TNext ==
  \/ \E t \in Readers : TStep(t) \/ \E sector \in Lba : ReadSector(t, sector)
  \/ IrqHandler \/ Device

TSpec == TInit /\ [][TNext]_tvars

-----------------------------------------------------------------------------
\* Type invariant.
TTypeOK ==
  /\ ata_current_task \in Readers \cup {None} /\ poller \in Readers \cup {None}
  /\ ata_waitqueue \subseteq Readers /\ ata_ready \subseteq Readers
  /\ at \in [Readers -> {"out", "grab", "wait", "poll", "wait2", "poll2"}]
  /\ lba \in [Readers -> Lba \cup {None}] /\ got \in [Readers -> Lba \cup {None}]
  /\ reads \in 0..MaxReads
  /\ drive \in [state : {"idle", "busy", "data", "ending"}, lba : Lba \cup {None}]
  /\ irq \in BOOLEAN

\* A read that returns (ata.c:263, 598) gives the sector its caller asked for
\* or an error, no task sends a command while another's is in progress, and "if
\* an ATA IRQ comes in" (ata.c:88) the owner does wait for it and is not
\* runnable already.
AtaReadsOwnSector ==
  /\ \A t \in Readers : at[t] = "out" => got[t] \in {lba[t], None}
  /\ \A t \in Readers : at[t] \in {"wait", "poll", "wait2", "poll2"} =>
        ata_current_task = t /\ drive.lba = lba[t]
  /\ irq /\ poller = None /\ ata_current_task # None =>
        at[ata_current_task] \in {"wait", "wait2"} /\ ata_current_task \notin ata_ready
=============================================================================
