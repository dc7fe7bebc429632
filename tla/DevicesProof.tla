---------------------------- MODULE DevicesProof ----------------------------
(***************************************************************************)
(* Theorems about the disk drivers, for every number of readers and        *)
(* sectors, and about the loader that starts the drivers, for any modules. *)
(***************************************************************************)
EXTENDS MCDevices, Loader, TLAPS

(* The ATA driver.  The handshake between the owner of the controller, the  *)
(* device and the interrupt handler: where the owner is determines what the *)
(* device does, and an owner that waits for data the device has already     *)
(* is about to be woken, once.                                              *)

Owning == {"wait", "poll", "wait2", "poll2"}

Handshake(t) ==
  /\ drive.lba = lba[t]
  /\ at[t] = "wait" => drive.state \in {"busy", "data"}
  /\ at[t] = "wait2" => drive.state \in {"ending", "idle"} /\ got[t] = lba[t]
  /\ at[t] = "poll" => drive.state = "data"
  /\ at[t] = "poll2" => drive.state = "idle" /\ got[t] = lba[t]
  /\ at[t] \in {"poll", "poll2"} \/ drive.state \in {"busy", "ending"} => ~irq /\ t \notin ata_ready
  /\ ~(irq /\ t \in ata_ready)

Ownership ==
  /\ \A t \in Readers : at[t] \in Owning <=> ata_current_task = t
  /\ \A t \in Readers : at[t] \in {"poll", "poll2"} <=> poller = t
  /\ ata_current_task = None => drive.state = "idle" /\ ~irq
  /\ \A t \in Readers : ata_current_task = t => Handshake(t)

\* Only waiters are on the queue, and nobody is woken twice.
Waiters ==
  /\ \A t \in ata_waitqueue : at[t] = "grab" /\ t \notin ata_ready
  /\ \A t \in ata_ready : at[t] \in {"grab", "wait", "wait2"}

Answers == \A t \in Readers : at[t] = "out" => got[t] \in {lba[t], None}

AtaInv == TTypeOK /\ Ownership /\ Waiters /\ Answers

LEMMA AtaInit == TInit => AtaInv
<1> SUFFICES ASSUME TInit PROVE AtaInv
  OBVIOUS
<1>1. /\ drive \in [state : {"idle", "busy", "data", "ending"}, lba : Lba \cup {None}]
      /\ drive.state = "idle"
  BY DEF TInit
<1>2. reads \in 0 .. MaxReads
  BY AtaAssumption DEF TInit
<1>3. TTypeOK
  BY <1>1, <1>2 DEF TInit, TTypeOK
<1> QED
  BY <1>1, <1>3, AtaAssumption DEF TInit, AtaInv, Ownership, Waiters, Answers, Owning

\* ata_grab: the caller queues up, or sends its command as the only owner, or
\* is refused and leaves the controller free.
LEMMA GrabInv ==
  ASSUME AtaInv, NEW t \in Readers, NEW sector \in Lba \cup {None},
         at[t] \in {"out", "grab"}, t \notin ata_waitqueue, poller = None,
         Grab(t, sector, ata_ready \ {t}),
         lba' = [lba EXCEPT ![t] = sector], irq' = irq, reads' \in 0 .. MaxReads
  PROVE  AtaInv'
<1> USE DEF AtaInv
<1>0. ata_current_task # t /\ None \notin Readers
  BY AtaAssumption DEF Ownership, Owning
<1>1. CASE /\ ata_current_task # None
           /\ ata_waitqueue' = ata_waitqueue \cup {t}
           /\ ata_ready' = ata_ready \ {t} /\ Goto(t, "grab")
           /\ UNCHANGED <<ata_current_task, poller, got, drive>>
  <2>1. TTypeOK'
    BY <1>1 DEF TTypeOK, Goto
  <2>2. /\ \A u \in Readers : u # t => at'[u] = at[u] /\ lba'[u] = lba[u]
        /\ at'[t] = "grab"
    BY <1>1 DEF TTypeOK, Goto
  <2>3. Ownership'
    BY <1>0, <1>1, <2>2 DEF Ownership, Handshake, Owning
  <2>4. Waiters'
    BY <1>1, <2>2 DEF Waiters, TTypeOK
  <2>5. Answers'
    BY <1>1, <2>2 DEF Answers
  <2> QED BY <2>1, <2>3, <2>4, <2>5
<1>2. CASE ata_current_task = None /\ Command(t, sector, ata_ready \ {t})
  <2>1. /\ ata_current_task' = t /\ drive' = [state |-> "busy", lba |-> sector]
        /\ ata_ready' = ata_ready \ {t} /\ at' = [at EXCEPT ![t] = "wait"]
        /\ UNCHANGED <<ata_waitqueue, poller, got>> /\ ~irq'
    BY <1>2 DEF Command, Goto, Ownership
  <2>2. TTypeOK' /\ drive'.state = "busy" /\ drive'.lba = sector
    BY <2>1 DEF TTypeOK
  <2>3. /\ \A u \in Readers : u # t => at'[u] = at[u] /\ lba'[u] = lba[u] /\ at[u] \notin Owning
        /\ at'[t] = "wait" /\ lba'[t] = sector
    BY <1>0, <1>2, <2>1 DEF TTypeOK, Ownership
  <2>4. Handshake(t)'
    BY <2>1, <2>2, <2>3 DEF Handshake
  <2>5. Ownership'
    BY <1>0, <2>1, <2>3, <2>4 DEF Ownership, Owning
  <2>6. Waiters'
    BY <2>1, <2>3 DEF Waiters, TTypeOK
  <2>7. Answers'
    BY <2>1, <2>3 DEF Answers
  <2> QED BY <2>2, <2>5, <2>6, <2>7
<1>3. CASE ata_current_task = None /\ Refused(t, sector, ata_ready \ {t})
  <2>1. /\ ata_ready' = (ata_ready \ {t}) \cup ata_waitqueue
        /\ ata_waitqueue' = {} /\ ata_current_task' = None
        /\ poller' = None /\ at' = [at EXCEPT ![t] = "out"]
        /\ got' = [got EXCEPT ![t] = None] /\ drive' = drive
    BY <1>3 DEF Refused, Release, Goto
  <2>2. TTypeOK'
    BY <2>1 DEF TTypeOK
  <2>3. /\ \A u \in Readers : u # t => at'[u] = at[u] /\ lba'[u] = lba[u] /\ got'[u] = got[u]
        /\ \A u \in Readers : at[u] \notin Owning
        /\ at'[t] = "out" /\ got'[t] = None
    BY <1>0, <1>3, <2>1 DEF TTypeOK, Ownership
  <2>4. Ownership'
    BY <1>0, <1>3, <2>1, <2>3 DEF Ownership, Owning
  <2>5. Waiters'
    BY <2>1, <2>3 DEF Waiters, TTypeOK
  <2>6. Answers'
    BY <2>3 DEF Answers
  <2> QED BY <2>2, <2>4, <2>5, <2>6
<1> QED BY <1>1, <1>2, <1>3 DEF Grab

\* The owner polls: it holds the kernel lock, so no interrupt comes in.
LEMMA PollInv ==
  ASSUME AtaInv, NEW t \in Readers, Poll(t)
  PROVE  AtaInv'
<1> USE DEF AtaInv
<1>1. /\ at[t] \in {"wait", "wait2"} /\ t \in ata_ready /\ ata_ready' = ata_ready \ {t}
      /\ poller = None /\ poller' = t
      /\ at' = [at EXCEPT ![t] = IF at[t] = "wait" THEN "poll" ELSE "poll2"]
      /\ UNCHANGED <<ata_current_task, ata_waitqueue, lba, got, reads, drive, irq>>
  BY DEF Poll, Goto
<1>2. ata_current_task = t /\ Handshake(t) /\ None \notin Readers
  BY <1>1, AtaAssumption DEF Ownership, Owning
<1>3. TTypeOK'
  BY <1>1 DEF TTypeOK
<1>4. /\ \A u \in Readers : u # t => at'[u] = at[u]
      /\ at'[t] = IF at[t] = "wait" THEN "poll" ELSE "poll2"
  BY <1>1 DEF TTypeOK
<1>5. Handshake(t)'
  BY <1>1, <1>2, <1>4 DEF Handshake, TTypeOK
<1>6. Ownership'
  BY <1>1, <1>2, <1>4, <1>5 DEF Ownership, Owning
<1>7. Waiters'
  BY <1>1, <1>4 DEF Waiters, TTypeOK
<1>8. Answers'
  BY <1>1, <1>4 DEF Answers
<1> QED BY <1>3, <1>6, <1>7, <1>8

\* The data are read: of the sector the owner asked for, because the device
\* works for nobody else.
LEMMA ReadDataInv ==
  ASSUME AtaInv, NEW t \in Readers, ReadData(t)
  PROVE  AtaInv'
<1> USE DEF AtaInv
<1>1. /\ at[t] = "poll" /\ drive.state = "data" /\ got' = [got EXCEPT ![t] = drive.lba]
      /\ UNCHANGED <<lba, reads, irq>>
  BY DEF ReadData
<1>2. /\ ata_current_task = t /\ poller = t /\ None \notin Readers
      /\ drive.lba = lba[t] /\ ~irq /\ t \notin ata_ready
  BY <1>1, AtaAssumption DEF Ownership, Handshake, Owning
<1>3. got' \in [Readers -> Lba \cup {None}] /\ got'[t] = lba[t] /\ \A u \in Readers \ {t} : got'[u] = got[u]
  BY <1>1, <1>2 DEF TTypeOK
<1>4. CASE drive' = [drive EXCEPT !.state = "idle"] /\ Release(t, ata_ready)
  <2>1. /\ ata_ready' = ata_ready \cup ata_waitqueue
        /\ ata_waitqueue' = {} /\ ata_current_task' = None
        /\ poller' = None /\ at' = [at EXCEPT ![t] = "out"]
    BY <1>4 DEF Release, Goto
  <2>2. drive' \in [state : {"idle", "busy", "data", "ending"}, lba : Lba \cup {None}] /\ drive'.state = "idle"
    BY <1>4 DEF TTypeOK
  <2>3. TTypeOK'
    BY <1>1, <1>3, <2>1, <2>2 DEF TTypeOK
  <2>4. /\ \A u \in Readers : u # t => at'[u] = at[u] /\ at[u] \notin Owning
        /\ at'[t] = "out"
    BY <1>2, <2>1 DEF TTypeOK, Ownership
  <2>5. Ownership'
    BY <1>1, <1>2, <2>1, <2>2, <2>4 DEF Ownership, Owning
  <2>6. Waiters'
    BY <1>1, <1>2, <2>1, <2>4 DEF Waiters, TTypeOK
  <2>7. Answers'
    BY <1>1, <1>3, <2>4 DEF Answers
  <2> QED BY <2>3, <2>5, <2>6, <2>7
<1>5. CASE /\ drive' = [drive EXCEPT !.state = "ending"]
           /\ poller' = None /\ Goto(t, "wait2")
           /\ UNCHANGED <<ata_current_task, ata_waitqueue, ata_ready>>
  <2>1. /\ drive' \in [state : {"idle", "busy", "data", "ending"}, lba : Lba \cup {None}]
        /\ drive'.state = "ending" /\ drive'.lba = drive.lba
    BY <1>5 DEF TTypeOK
  <2>2. TTypeOK'
    BY <1>1, <1>3, <1>5, <2>1 DEF TTypeOK, Goto
  <2>3. (\A u \in Readers : u # t => at'[u] = at[u]) /\ at'[t] = "wait2"
    BY <1>5 DEF TTypeOK, Goto
  <2>4. Handshake(t)'
    BY <1>1, <1>2, <1>3, <1>5, <2>1, <2>3 DEF Handshake
  <2>5. Ownership'
    BY <1>2, <1>5, <2>3, <2>4 DEF Ownership, Owning
  <2>6. Waiters'
    BY <1>1, <1>2, <1>5, <2>3 DEF Waiters, TTypeOK
  <2>7. Answers'
    BY <1>1, <1>3, <2>3 DEF Answers
  <2> QED BY <2>2, <2>5, <2>6, <2>7
<1> QED BY <1>4, <1>5 DEF ReadData

LEMMA EndTransferInv ==
  ASSUME AtaInv, NEW t \in Readers, EndTransfer(t)
  PROVE  AtaInv'
<1> USE DEF AtaInv
<1>1. /\ at[t] = "poll2" /\ ata_ready' = ata_ready \cup ata_waitqueue
      /\ ata_waitqueue' = {} /\ ata_current_task' = None
      /\ poller' = None /\ at' = [at EXCEPT ![t] = "out"]
      /\ UNCHANGED <<lba, got, reads, drive, irq>>
  BY DEF EndTransfer, Release, Goto
<1>2. /\ ata_current_task = t /\ None \notin Readers
      /\ drive.state = "idle" /\ got[t] = lba[t] /\ ~irq /\ t \notin ata_ready
  BY <1>1, AtaAssumption DEF Ownership, Handshake, Owning
<1>3. TTypeOK'
  BY <1>1 DEF TTypeOK
<1>4. /\ \A u \in Readers : u # t => at'[u] = at[u] /\ at[u] \notin Owning
      /\ at'[t] = "out"
  BY <1>1, <1>2 DEF TTypeOK, Ownership
<1>5. Ownership'
  BY <1>1, <1>2, <1>4, Zenon DEF Ownership, Owning
<1>6. Waiters'
  BY <1>1, <1>2, <1>4 DEF Waiters, TTypeOK
<1>7. Answers'
  BY <1>1, <1>2, <1>4 DEF Answers
<1> QED BY <1>3, <1>5, <1>6, <1>7

\* The interrupt finds its owner asleep; the device interrupts once per wait.
LEMMA IrqInv ==
  ASSUME AtaInv, IrqHandler
  PROVE  AtaInv'
<1> USE DEF AtaInv
<1>1. /\ irq /\ poller = None /\ ~irq' /\ irq' \in BOOLEAN
      /\ ata_ready' = ata_ready \cup ({ata_current_task} \ {None})
      /\ UNCHANGED <<ata_current_task, ata_waitqueue, poller, at, lba, got, reads, drive>>
  BY DEF IrqHandler
<1>2. PICK t \in Readers : ata_current_task = t
  BY <1>1 DEF TTypeOK, Ownership
<1>3. ata_ready' = ata_ready \cup {t} /\ at[t] \in {"wait", "wait2"} /\ Handshake(t) /\ poller # t
  BY <1>1, <1>2, AtaAssumption DEF Ownership, Owning
<1>4. TTypeOK'
  BY <1>1, <1>3 DEF TTypeOK
<1>5. Handshake(t)'
  BY <1>1, <1>3 DEF Handshake
<1>6. Ownership'
  BY <1>1, <1>2, <1>5, AtaAssumption DEF Ownership
<1>7. Waiters'
  BY <1>1, <1>3 DEF Waiters, TTypeOK
<1>8. Answers'
  BY <1>1 DEF Answers
<1> QED BY <1>4, <1>6, <1>7, <1>8

LEMMA DeviceInv ==
  ASSUME AtaInv, Device
  PROVE  AtaInv'
<1> USE DEF AtaInv
<1>1. /\ drive.state \in {"busy", "ending"} /\ irq' = TRUE
      /\ drive' = [drive EXCEPT !.state = IF drive.state = "busy" THEN "data" ELSE "idle"]
      /\ UNCHANGED <<ata_current_task, ata_waitqueue, ata_ready, poller, at, lba, got, reads>>
  BY DEF Device
<1>2. /\ drive' \in [state : {"idle", "busy", "data", "ending"}, lba : Lba \cup {None}]
      /\ drive'.state = IF drive.state = "busy" THEN "data" ELSE "idle"
      /\ drive'.lba = drive.lba
  BY <1>1 DEF TTypeOK
<1>3. PICK t \in Readers : ata_current_task = t
  BY <1>1 DEF TTypeOK, Ownership
<1>4. Handshake(t) /\ at[t] \in Owning
  BY <1>3 DEF Ownership
<1>5. TTypeOK'
  BY <1>1, <1>2 DEF TTypeOK
<1>6. Handshake(t)'
  BY <1>1, <1>2, <1>4 DEF Handshake, Owning
<1>7. Ownership'
  BY <1>1, <1>3, <1>6, AtaAssumption DEF Ownership
<1>8. Waiters' /\ Answers'
  BY <1>1 DEF Waiters, Answers
<1> QED BY <1>5, <1>7, <1>8

LEMMA AtaNext == AtaInv /\ [TNext]_tvars => AtaInv'
<1> SUFFICES ASSUME AtaInv, [TNext]_tvars PROVE AtaInv'
  OBVIOUS
<1>1. CASE UNCHANGED tvars
  BY <1>1 DEF tvars, AtaInv, TTypeOK, Ownership, Handshake, Waiters, Answers
<1>2. ASSUME NEW t \in Readers, NEW sector \in Lba, ReadSector(t, sector)
      PROVE  AtaInv'
  <2>1. t \notin ata_ready /\ t \notin ata_waitqueue /\ at[t] = "out"
    BY <1>2 DEF ReadSector, AtaInv, Waiters
  <2>2. ata_ready \ {t} = ata_ready
    BY <2>1
  <2>3. reads' \in 0 .. MaxReads
    BY <1>2, AtaAssumption DEF ReadSector, AtaInv, TTypeOK
  <2> QED BY <1>2, <2>1, <2>2, <2>3, GrabInv DEF ReadSector
<1>3. ASSUME NEW t \in Readers, Regrab(t)
      PROVE  AtaInv'
  <2>1. t \notin ata_waitqueue /\ at[t] = "grab" /\ lba[t] \in Lba \cup {None}
    BY <1>3 DEF Regrab, AtaInv, Waiters, TTypeOK
  <2>2. PICK sector \in Lba \cup {None} : sector = lba[t]
    BY <2>1
  <2>3. lba' = [lba EXCEPT ![t] = sector]
    BY <1>3, <2>2 DEF Regrab, AtaInv, TTypeOK
  <2>4. Grab(t, sector, ata_ready \ {t})
    BY <1>3, <2>2 DEF Regrab
  <2>5. reads' \in 0 .. MaxReads /\ poller = None /\ irq' = irq
    BY <1>3 DEF Regrab, AtaInv, TTypeOK
  <2> QED BY <2>1, <2>3, <2>4, <2>5, GrabInv
<1> QED
  BY <1>1, <1>2, <1>3, PollInv, ReadDataInv, EndTransferInv, IrqInv, DeviceInv DEF TNext, TStep
-----------------------------------------------------------------------------
(* The USB mass-storage driver.  While a request is in the globals they hold *)
(* the sector of the client that waits for it; once its transfer is over,    *)
(* the buffer holds that sector until another request is accepted.           *)

InGlobals ==
  /\ umsc_cur_task # NoOne =>
       /\ stage[umsc_cur_task] = "waiting" /\ umsc_cur_task \notin umsc_ready
       /\ umsc_lba = block[umsc_cur_task]
  /\ job = "transfer" => umsc_cur_task # NoOne

InBuffer ==
  \A t \in Clients : stage[t] = "waiting" /\ t # umsc_cur_task =>
    /\ umsc_cur_task # NoOne => overtaken[t]
    /\ ~overtaken[t] => umsc_buf \in {block[t], NoOne}

QueuedClients ==
  /\ \A t \in umsc_waitq : stage[t] = "queued" /\ t \notin umsc_ready
  /\ \A t \in umsc_ready : stage[t] # "out"

UmscInv == UTypeOK /\ InGlobals /\ InBuffer /\ QueuedClients /\ UmscReadsOwnSector

LEMMA UmscInit == UInit => UmscInv
<1> SUFFICES ASSUME UInit PROVE UmscInv
  OBVIOUS
<1>1. requests \in 0 .. MaxRequests
  BY UmscAssumption DEF UInit
<1>2. UTypeOK
  BY <1>1 DEF UInit, UTypeOK
<1> QED
  BY <1>2, UmscAssumption DEF UmscInv, UInit, InGlobals, InBuffer, QueuedClients, UmscReadsOwnSector

\* The loop of umsc_read_sector, entered or woken.
LEMMA RequestInv ==
  ASSUME UmscInv, NEW t \in Clients, NEW sector \in Blocks \cup {NoOne},
         stage[t] \in {"out", "queued"}, t \notin umsc_waitq, Request(t, sector, umsc_ready \ {t}),
         block' = [block EXCEPT ![t] = sector], requests' \in 0 .. MaxRequests,
         UNCHANGED <<umsc_buf, copied>>
  PROVE  UmscInv'
<1> USE DEF UmscInv
<1>1. /\ umsc_ready' = umsc_ready \ {t} /\ block'[t] = sector
      /\ \A u \in Clients \ {t} : block'[u] = block[u]
      /\ block' \in [Clients -> Blocks \cup {NoOne}]
  BY DEF Request, UTypeOK
<1>2. CASE /\ umsc_cur_task # NoOne
           /\ umsc_waitq' = umsc_waitq \cup {t}
           /\ stage' = [stage EXCEPT ![t] = "queued"]
           /\ UNCHANGED <<umsc_cur_task, umsc_lba, job, overtaken>>
  <2>1. UTypeOK'
    BY <1>1, <1>2 DEF UTypeOK
  <2>2. stage'[t] = "queued" /\ \A u \in Clients \ {t} : stage'[u] = stage[u]
    BY <1>2 DEF UTypeOK
  <2>3. umsc_cur_task \in Clients /\ umsc_cur_task # t
    BY <1>2 DEF UTypeOK, InGlobals
  <2>4. InGlobals'
    BY <1>1, <1>2, <2>2, <2>3 DEF InGlobals
  <2>5. InBuffer'
    BY <1>1, <1>2, <2>2 DEF InBuffer
  <2>6. QueuedClients'
    BY <1>1, <1>2, <2>2 DEF QueuedClients, UTypeOK
  <2>7. UmscReadsOwnSector'
    BY <1>1, <1>2, <2>2 DEF UmscReadsOwnSector
  <2> QED BY <2>1, <2>4, <2>5, <2>6, <2>7
<1>3. CASE /\ umsc_cur_task = NoOne
           /\ umsc_cur_task' = t /\ umsc_lba' = sector
           /\ job' = "ready"
           /\ stage' = [stage EXCEPT ![t] = "waiting"]
           /\ overtaken' = [u \in Clients |-> u # t /\ (overtaken[u] \/ stage[u] = "waiting")]
           /\ UNCHANGED umsc_waitq
  <2>0. overtaken' \in [Clients -> BOOLEAN]
    BY <1>3 DEF UTypeOK
  <2>1. UTypeOK'
    BY <1>1, <1>3, <2>0 DEF UTypeOK
  <2>2. stage'[t] = "waiting" /\ \A u \in Clients \ {t} : stage'[u] = stage[u]
    BY <1>3 DEF UTypeOK
  <2>3. t # NoOne
    BY UmscAssumption
  <2>4. InGlobals'
    BY <1>1, <1>3, <2>2, <2>3 DEF InGlobals
  <2>5. InBuffer'
    BY <1>1, <1>3, <2>2 DEF InBuffer
  <2>6. QueuedClients'
    BY <1>1, <1>3, <2>2 DEF QueuedClients, UTypeOK
  <2>7. UmscReadsOwnSector'
    BY <1>1, <1>3, <2>2 DEF UmscReadsOwnSector
  <2> QED BY <2>1, <2>4, <2>5, <2>6, <2>7
<1> QED BY <1>2, <1>3 DEF Request

LEMMA BeginTransferInv ==
  ASSUME UmscInv, BeginTransfer
  PROVE  UmscInv'
<1> USE DEF UmscInv
<1>1. /\ job' \in {"asleep", "transfer"} /\ (job' = "transfer" => umsc_cur_task # NoOne)
      /\ umsc_buf' \in {umsc_buf, NoOne}
      /\ UNCHANGED <<umsc_cur_task, umsc_lba, umsc_waitq, umsc_ready, stage, block,
                     copied, overtaken, requests>>
  BY DEF BeginTransfer
<1>2. UTypeOK'
  BY <1>1 DEF UTypeOK
<1>3. InGlobals' /\ QueuedClients' /\ UmscReadsOwnSector'
  BY <1>1 DEF InGlobals, QueuedClients, UmscReadsOwnSector
<1>4. InBuffer'
  BY <1>1 DEF InBuffer
<1> QED BY <1>2, <1>3, <1>4

\* Everybody else who waits was overtaken when this request was accepted.
LEMMA EndOfTransferInv ==
  ASSUME UmscInv, EndOfTransfer
  PROVE  UmscInv'
<1> USE DEF UmscInv
<1>1. /\ umsc_buf' \in {umsc_lba, NoOne}
      /\ umsc_ready' = umsc_ready \cup {umsc_cur_task}
      /\ umsc_cur_task' = NoOne /\ job' = "asleep"
      /\ UNCHANGED <<umsc_lba, umsc_waitq, stage, block, copied, overtaken, requests>>
  BY DEF EndOfTransfer
<1>2. PICK t \in Clients : umsc_cur_task = t
  BY DEF EndOfTransfer, UTypeOK, InGlobals
<1>3. t # NoOne /\ stage[t] = "waiting" /\ umsc_lba = block[t]
  BY <1>2, UmscAssumption DEF InGlobals
<1>4. UTypeOK'
  BY <1>1, <1>2 DEF UTypeOK
<1>5. InGlobals' /\ UmscReadsOwnSector'
  BY <1>1 DEF InGlobals, UmscReadsOwnSector
<1>6. InBuffer'
  BY <1>1, <1>2, <1>3 DEF InBuffer
<1>7. QueuedClients'
  BY <1>1, <1>2, <1>3 DEF QueuedClients
<1> QED BY <1>4, <1>5, <1>6, <1>7

LEMMA CopyInv ==
  ASSUME UmscInv, NEW t \in Clients, Copy(t)
  PROVE  UmscInv'
<1> USE DEF UmscInv
<1>1. /\ stage[t] = "waiting" /\ t \in umsc_ready
      /\ copied' = [copied EXCEPT ![t] = umsc_buf]
      /\ umsc_ready' = (umsc_ready \ {t}) \cup umsc_waitq
      /\ umsc_waitq' = {}
      /\ stage' = [stage EXCEPT ![t] = "out"]
      /\ UNCHANGED <<umsc_cur_task, umsc_lba, umsc_buf, job, block, overtaken, requests>>
  BY DEF Copy
<1>2. /\ stage'[t] = "out" /\ copied'[t] = umsc_buf
      /\ \A u \in Clients \ {t} : stage'[u] = stage[u] /\ copied'[u] = copied[u]
  BY <1>1 DEF UTypeOK
<1>3. umsc_cur_task # t
  BY <1>1, UmscAssumption DEF InGlobals
<1>4. UTypeOK'
  BY <1>1 DEF UTypeOK
<1>5. InGlobals'
  BY <1>1, <1>2, <1>3 DEF InGlobals, UTypeOK, QueuedClients
<1>6. InBuffer'
  BY <1>1, <1>2 DEF InBuffer
<1>7. QueuedClients'
  BY <1>1, <1>2 DEF QueuedClients, UTypeOK
<1>8. UmscReadsOwnSector'
  BY <1>1, <1>2, <1>3 DEF UmscReadsOwnSector, InBuffer
<1> QED BY <1>4, <1>5, <1>6, <1>7, <1>8

LEMMA UmscNext == UmscInv /\ [UNext]_uvars => UmscInv'
<1> SUFFICES ASSUME UmscInv, [UNext]_uvars PROVE UmscInv'
  OBVIOUS
<1>1. CASE UNCHANGED uvars
  BY <1>1 DEF uvars, UmscInv, UTypeOK, InGlobals, InBuffer, QueuedClients, UmscReadsOwnSector
<1>2. ASSUME NEW t \in Clients, NEW sector \in Blocks, UReadSector(t, sector)
      PROVE  UmscInv'
  <2>1. stage[t] = "out" /\ t \notin umsc_ready /\ t \notin umsc_waitq
    BY <1>2 DEF UReadSector, UmscInv, QueuedClients
  <2>2. umsc_ready \ {t} = umsc_ready
    BY <2>1
  <2>3. requests' \in 0 .. MaxRequests
    BY <1>2, UmscAssumption DEF UReadSector, UmscInv, UTypeOK
  <2> QED BY <1>2, <2>1, <2>2, <2>3, RequestInv DEF UReadSector
<1>3. ASSUME NEW t \in Clients, Requeue(t)
      PROVE  UmscInv'
  <2>1. stage[t] = "queued" /\ t \notin umsc_waitq
    BY <1>3 DEF Requeue, UmscInv, QueuedClients
  <2>2. PICK sector \in Blocks \cup {NoOne} : sector = block[t]
    BY DEF UmscInv, UTypeOK
  <2>3. block' = [block EXCEPT ![t] = sector]
    BY <1>3, <2>2 DEF Requeue, UmscInv, UTypeOK
  <2>4. Request(t, sector, umsc_ready \ {t})
    BY <1>3, <2>2 DEF Requeue
  <2>5. requests' \in 0 .. MaxRequests /\ UNCHANGED <<umsc_buf, copied>>
    BY <1>3 DEF Requeue, UmscInv, UTypeOK
  <2> QED BY <2>1, <2>3, <2>4, <2>5, RequestInv
<1> QED
  BY <1>1, <1>2, <1>3, CopyInv, BeginTransferInv, EndOfTransferInv DEF UNext, UStep
-----------------------------------------------------------------------------
\* Whatever tasks, devices and interrupts do, a disk read gives the sector its
\* caller asked for (ata_drive_read_sector, _atapi_drive_read_sector,
\* umsc_read_sector), an interrupt of the ATA controller finds its owner
\* waiting for it, and no command is sent while another is in progress.
THEOREM ReadsAreExact == Spec => []ReadsOwnSector
<1>1. Init => AtaInv /\ UmscInv
  BY AtaInit, UmscInit DEF Init
<1>2. AtaInv /\ UmscInv /\ [Next]_vars => (AtaInv /\ UmscInv)'
  <2>1. [Next]_vars => [TNext]_tvars /\ [UNext]_uvars
    BY DEF Next, vars, AtaDoes, UmscDoes, DhcpDoes
  <2> QED BY <2>1, AtaNext, UmscNext
<1>3. AtaInv => AtaReadsOwnSector
  BY DEF AtaInv, AtaReadsOwnSector, TTypeOK, Ownership, Handshake, Owning, Answers
<1>4. AtaInv /\ UmscInv => ReadsOwnSector
  BY <1>3 DEF UmscInv, ReadsOwnSector
<1> QED BY <1>1, <1>2, <1>4, PTL DEF Spec

-----------------------------------------------------------------------------
(* The loader.                                                             *)

Activations == [mod : Module, depi : Nat, success : BOOLEAN, todo : Seq(Module)]

\* The modules that the dependency an activation is at can be met by.
Alternatives(a) == IF a.depi \in DOMAIN deps[a.mod] THEN Range(deps[a.mod][a.depi]) ELSE {}

\* A dependency that has been tried: it is met, and every alternative that can be
\* loaded is.
WasTried(d, ld) == Range(d) \cap ld # {} /\ Range(d) \cap Loadable \subseteq ld

\* An activation of module_load_i, where ld is loaded and callee holds the module, if any,
\* that it called module_load_i for.  An alternative that is not to be tried any
\* more is loaded, and then success is set, or cannot be loaded.
Active(a, callee, ld) ==
  /\ a \in Activations /\ a.depi >= 1 /\ a.mod \notin ld
  /\ \A i \in DOMAIN deps[a.mod] : i < a.depi => WasTried(deps[a.mod][i], ld)
  /\ callee \subseteq Alternatives(a) /\ Range(a.todo) \subseteq Alternatives(a)
  /\ a.success => Alternatives(a) \cap ld # {}
  /\ \A m \in Alternatives(a) :
       m \in Range(a.todo) \/ m \in callee \/ m \notin Loadable \/ (a.success /\ m \in ld)

Callee(st, k) == IF k = 1 THEN {} ELSE {st[k - 1].mod}

StackInv(st, ld) ==
  /\ st \in Seq(Activations)
  /\ \A k \in 1 .. Len(st) : Active(st[k], Callee(st, k), ld)
  /\ \A j, k \in 1 .. Len(st) : st[j].mod = st[k].mod => j = k

LInv ==
  /\ deps \in [Module -> Seq(Seq(Module))] /\ Acyclic(deps) /\ works \subseteq Module
  /\ loaded \subseteq Loadable /\ next \in 1 .. Count + 1
  /\ StackInv(stack, loaded)
  /\ \A m \in Module : m < next =>
       m \in loaded \/ m \notin Loadable \/ (stack # << >> /\ stack[Len(stack)].mod = m)

\* Loadable is a fixed point.
LEMMA LoadableIn ==
  ASSUME NEW m \in works, m \in Module, Met(m, Loadable)
  PROVE  m \in Loadable
<1> SUFFICES ASSUME NEW S \in SUBSET Module, Closed(S) PROVE m \in S
  BY DEF Loadable
<1>1. Loadable \subseteq S
  BY DEF Loadable
<1>2. Met(m, S)
  BY <1>1 DEF Met
<1> QED BY <1>2 DEF Closed

LEMMA LoadableOut ==
  ASSUME works \subseteq Module, NEW m \in Loadable
  PROVE  m \in works /\ Met(m, Loadable)
<1> DEFINE S == {x \in works : Met(x, Loadable)}
<1>1. S \subseteq Loadable /\ S \in SUBSET Module
  BY LoadableIn
<1>2. ASSUME NEW x \in works, Met(x, S) PROVE Met(x, Loadable)
  BY <1>1, <1>2 DEF Met
<1>3. Closed(S)
  BY <1>2 DEF Closed
<1>4. m \in S
  BY <1>1, <1>3 DEF Loadable
<1> QED BY <1>4

\* Loading another module keeps an activation as it should be.
LEMMA ActiveMore ==
  ASSUME NEW a, NEW callee, NEW ld, Active(a, callee, ld), NEW m, m # a.mod
  PROVE  Active(a, callee, ld \cup {m})
BY DEF Active, WasTried

\* A stack with its first activation replaced, and one with another on top.
LEMMA NewTop ==
  ASSUME NEW A, NEW st \in Seq(A), st # << >>, NEW a \in A
  PROVE  /\ << a >> \o Tail(st) \in Seq(A) /\ Len(<< a >> \o Tail(st)) = Len(st)
         /\ Len(st) \in Nat /\ Len(st) >= 1
         /\ (<< a >> \o Tail(st))[1] = a
         /\ \A k \in 2 .. Len(st) : (<< a >> \o Tail(st))[k] = st[k]
<1>1. /\ Len(st) \in Nat /\ Len(st) >= 1 /\ Tail(st) \in Seq(A) /\ Len(Tail(st)) = Len(st) - 1
      /\ \A k \in 1 .. Len(st) - 1 : Tail(st)[k] = st[k + 1]
  OBVIOUS
<1> DEFINE t == Tail(st)
<1> HIDE DEF t
<1>2. /\ << a >> \o t \in Seq(A) /\ Len(<< a >> \o t) = 1 + Len(t)
      /\ (<< a >> \o t)[1] = a
      /\ \A k \in 2 .. 1 + Len(t) : (<< a >> \o t)[k] = t[k - 1]
  BY <1>1 DEF t
<1>3. ASSUME NEW k \in 2 .. Len(st) PROVE (<< a >> \o t)[k] = st[k]
  <2>1. k - 1 \in 1 .. Len(st) - 1 /\ k \in 2 .. 1 + Len(t) /\ (k - 1) + 1 = k
    BY <1>1 DEF t
  <2> QED BY <1>1, <1>2, <2>1 DEF t
<1> QED BY <1>1, <1>2, <1>3 DEF t

LEMMA Pushed ==
  ASSUME NEW A, NEW st \in Seq(A), NEW a \in A
  PROVE  /\ << a >> \o st \in Seq(A) /\ Len(<< a >> \o st) = Len(st) + 1 /\ Len(st) \in Nat
         /\ (<< a >> \o st)[1] = a
         /\ \A k \in 2 .. Len(st) + 1 : (<< a >> \o st)[k] = st[k - 1]
OBVIOUS

LEMMA HeadAndTail ==
  ASSUME NEW A, NEW q \in Seq(A), q # << >>
  PROVE  /\ Head(q) \in A /\ Head(q) = q[1] /\ Tail(q) \in Seq(A) /\ Range(q) \subseteq A
         /\ Range(q) = {Head(q)} \cup Range(Tail(q))
<1>1. /\ Len(q) \in Nat /\ Len(q) >= 1 /\ Tail(q) \in Seq(A) /\ Len(Tail(q)) = Len(q) - 1
      /\ \A k \in 1 .. Len(q) - 1 : Tail(q)[k] = q[k + 1]
      /\ Head(q) = q[1] /\ \A k \in 1 .. Len(q) : q[k] \in A
  OBVIOUS
<1>2. Range(q) = {q[k] : k \in 1 .. Len(q)}
  BY DEF Range
<1>3. Range(Tail(q)) = {Tail(q)[k] : k \in 1 .. Len(q) - 1}
  BY <1>1 DEF Range
<1> DEFINE t == Tail(q)
<1> HIDE DEF t
<1>4. ASSUME NEW k \in 1 .. Len(q) PROVE k = 1 \/ (k - 1 \in 1 .. Len(q) - 1 /\ t[k - 1] = q[k])
  <2>1. k = 1 \/ (k - 1 \in 1 .. Len(q) - 1 /\ (k - 1) + 1 = k)
    BY <1>1
  <2> QED BY <1>1, <2>1 DEF t
<1>5. ASSUME NEW k \in 1 .. Len(q) - 1 PROVE k + 1 \in 1 .. Len(q) /\ t[k] = q[k + 1]
  BY <1>1 DEF t
<1>6. Range(q) \subseteq {q[1]} \cup Range(t)
  BY <1>2, <1>3, <1>4 DEF t
<1>7. {q[1]} \cup Range(t) \subseteq Range(q)
  BY <1>1, <1>2, <1>3, <1>5 DEF t
<1> QED BY <1>1, <1>2, <1>6, <1>7 DEF t

\* An activation that begins to try a dependency.
LEMMA FreshActive ==
  ASSUME LInv, NEW m \in Module, NEW ld, m \notin ld, NEW i \in Nat, i >= 1,
         \A j \in DOMAIN deps[m] : j < i => WasTried(deps[m][j], ld)
  PROVE  Active(Activation(m, i), {}, ld) /\ Activation(m, i).mod = m
<1> DEFINE a == Activation(m, i)
<1>1. /\ a.mod = m /\ a.depi = i /\ a.success = FALSE
      /\ a.todo = IF i \in DOMAIN deps[m] THEN deps[m][i] ELSE << >>
  BY DEF Activation
<1>2. deps[m] \in Seq(Seq(Module))
  BY DEF LInv
<1>3. a.todo \in Seq(Module)
  BY <1>1, <1>2, SMTT(60)
<1>4. a \in Activations
  BY <1>3 DEF Activation, Activations
<1>5. Range(a.todo) = Alternatives(a)
  <2>1. Range(<< >>) = {}
    BY DEF Range
  <2> HIDE DEF a
  <2>2. CASE i \in DOMAIN deps[m]
    BY <1>1, <2>2 DEF Alternatives
  <2>3. CASE i \notin DOMAIN deps[m]
    BY <1>1, <2>1, <2>3 DEF Alternatives
  <2> QED BY <2>2, <2>3
<1> HIDE DEF a
<1> QED BY <1>1, <1>4, <1>5 DEF Active, a

\* A module is never loaded for itself: the modules that are being loaded each
\* depend on the one that was called for, and dependencies have no cycle.
LEMMA LoopFree ==
  ASSUME LInv, stack # << >>, NEW m \in Alternatives(stack[1]), NEW j \in 1 .. Len(stack)
  PROVE  stack[j].mod # m
<1> SUFFICES ASSUME stack[j].mod = m PROVE FALSE
  OBVIOUS
<1> DEFINE S == {stack[k].mod : k \in 1 .. j}
<1>1. Len(stack) \in Nat /\ \A k \in 1 .. Len(stack) : Active(stack[k], Callee(stack, k), loaded)
  BY DEF LInv, StackInv
<1>2. \A k \in 1 .. j : k \in 1 .. Len(stack)
  BY <1>1
<1>3. \A k \in 1 .. j : stack[k].mod \in Module
  BY <1>1, <1>2 DEF Active, Activations
<1>4. S \in SUBSET Module /\ m \in S
  BY <1>3
<1>5. S \in (SUBSET Module) \ {{}}
  BY <1>4
<1>6. PICK x \in S : \A i \in DOMAIN deps[x] : Range(deps[x][i]) \cap S = {}
  <2> HIDE DEF S
  <2>1. Acyclic(deps)
    BY DEF LInv
  <2> QED BY <1>5, <2>1 DEF Acyclic
<1>7. PICK k \in 1 .. j : x = stack[k].mod
  BY <1>6
<1>8. Alternatives(stack[k]) \cap S = {}
  BY <1>6, <1>7 DEF Alternatives
<1>9. CASE k = 1
  BY <1>4, <1>8, <1>9
<1>10. CASE k # 1
  <2>1. k - 1 \in 1 .. j
    BY <1>10
  <2>2. stack[k - 1].mod \in S
    BY <2>1
  <2>3. stack[k - 1].mod \in Alternatives(stack[k])
    BY <1>1, <1>2, <1>10 DEF Active, Callee
  <2> QED BY <1>8, <2>2, <2>3
<1> QED BY <1>9, <1>10

\* The activation on top goes on with another dependency or alternative.
LEMMA TopReplaced ==
  ASSUME NEW st, NEW ld, StackInv(st, ld), st # << >>,
         NEW a, Active(a, {}, ld), a.mod = st[1].mod
  PROVE  /\ StackInv(<< a >> \o Tail(st), ld)
         /\ << a >> \o Tail(st) # << >>
         /\ (<< a >> \o Tail(st))[Len(<< a >> \o Tail(st))].mod = st[Len(st)].mod
<1> DEFINE r == << a >> \o Tail(st)
<1>0. a \in Activations /\ st \in Seq(Activations)
  BY DEF Active, StackInv
<1>1. /\ r \in Seq(Activations) /\ Len(r) = Len(st) /\ Len(st) \in Nat /\ Len(st) >= 1 /\ r[1] = a
      /\ \A k \in 2 .. Len(st) : r[k] = st[k]
  BY <1>0, NewTop
<1> HIDE DEF r
<1>2. ASSUME NEW k \in 1 .. Len(st) PROVE r[k].mod = st[k].mod
  <2>1. k = 1 \/ k \in 2 .. Len(st)
    BY <1>1
  <2> QED BY <1>1, <2>1
<1>3. ASSUME NEW k \in 1 .. Len(st) PROVE Active(r[k], Callee(r, k), ld)
  <2>1. CASE k = 1
    BY <1>1, <2>1 DEF Callee
  <2>2. CASE k # 1
    <3>1. k \in 2 .. Len(st) /\ k - 1 \in 1 .. Len(st)
      BY <1>1, <2>2
    <3>2. r[k] = st[k] /\ Callee(r, k) = Callee(st, k)
      BY <1>1, <1>2, <2>2, <3>1 DEF Callee
    <3> QED BY <3>2 DEF StackInv
  <2> QED BY <2>1, <2>2
<1>4. StackInv(r, ld)
  BY <1>1, <1>2, <1>3 DEF StackInv
<1>5. r # << >> /\ r[Len(r)].mod = st[Len(st)].mod
  BY <1>1, <1>2
<1> QED BY <1>4, <1>5 DEF r

\* Another module is to be loaded first.
LEMMA TopPushed ==
  ASSUME NEW st, NEW ld, st \in Seq(Activations), st # << >>,
         NEW a, Active(a, {}, ld),
         \A k \in 1 .. Len(st) : st[k].mod # a.mod,
         \A k \in 1 .. Len(st) :
           Active(st[k], IF k = 1 THEN {a.mod} ELSE {st[k - 1].mod}, ld),
         \A j, k \in 1 .. Len(st) : st[j].mod = st[k].mod => j = k
  PROVE  /\ StackInv(<< a >> \o st, ld)
         /\ << a >> \o st # << >>
         /\ (<< a >> \o st)[Len(<< a >> \o st)].mod = st[Len(st)].mod
<1> DEFINE r == << a >> \o st
<1>0. a \in Activations /\ Len(st) \in Nat /\ Len(st) >= 1
  BY SMTT(60) DEF Active
<1>1. /\ r \in Seq(Activations) /\ Len(r) = Len(st) + 1 /\ r[1] = a
      /\ \A k \in 2 .. Len(st) + 1 : r[k] = st[k - 1]
  BY <1>0, Pushed, SMTT(60)
<1> HIDE DEF r
<1>2. ASSUME NEW k \in 1 .. Len(r) PROVE k = 1 \/ (k \in 2 .. Len(st) + 1 /\ k - 1 \in 1 .. Len(st))
  BY <1>0, <1>1
<1>3. ASSUME NEW k \in 1 .. Len(r) PROVE Active(r[k], Callee(r, k), ld)
  <2>1. CASE k = 1
    BY <1>1, <2>1 DEF Callee
  <2>2. CASE k # 1
    <3>1. r[k] = st[k - 1] /\ k - 1 \in 1 .. Len(st)
      BY <1>1, <1>2, <2>2
    <3>2. CASE k = 2
      <4>1. k - 1 = 1 /\ Callee(r, k) = {a.mod}
        BY <1>1, <3>2 DEF Callee
      <4> QED BY <3>1, <4>1
    <3>3. CASE k # 2
      <4>1. k - 1 \in 2 .. Len(st) + 1 /\ k - 1 # 1 /\ (k - 1) - 1 \in 1 .. Len(st)
        BY <1>0, <1>1, <2>2, <3>3
      <4>2. Callee(r, k) = {st[(k - 1) - 1].mod}
        BY <1>1, <2>2, <4>1 DEF Callee
      <4> QED BY <3>1, <4>1, <4>2
    <3> QED BY <3>2, <3>3
  <2> QED BY <2>1, <2>2
<1>4. ASSUME NEW j \in 1 .. Len(r), NEW k \in 1 .. Len(r), r[j].mod = r[k].mod PROVE j = k
  <2>1. CASE j = 1
    BY <1>1, <1>2, <1>4, <2>1
  <2>2. CASE k = 1
    BY <1>1, <1>2, <1>4, <2>2
  <2>3. CASE j # 1 /\ k # 1
    <3>1. j - 1 \in 1 .. Len(st) /\ k - 1 \in 1 .. Len(st) /\ r[j] = st[j - 1] /\ r[k] = st[k - 1]
      BY <1>1, <1>2, <2>3
    <3>2. j - 1 = k - 1
      BY <1>4, <3>1
    <3> QED BY <3>2, <1>1
  <2> QED BY <2>1, <2>2, <2>3
<1>5. StackInv(r, ld)
  BY <1>1, <1>3, <1>4 DEF StackInv
<1>6. r # << >> /\ r[Len(r)].mod = st[Len(st)].mod
  <2>1. Len(st) + 1 \in 2 .. Len(st) + 1 /\ (Len(st) + 1) - 1 = Len(st)
    BY <1>0
  <2> QED BY <1>0, <1>1, <2>1
<1> QED BY <1>5, <1>6 DEF r

\* module_load_i returns, with the module loaded or known not to be loadable.
LEMMA Returned ==
  ASSUME LInv, stack # << >>, NEW result \in BOOLEAN, NEW ld,
         result => ld = loaded \cup {stack[1].mod},
         ~result => ld = loaded /\ stack[1].mod \notin Loadable,
         Return(result, Tail(stack))
  PROVE  /\ StackInv(stack', ld)
         /\ \/ Len(stack) = 1 /\ stack' = << >>
            \/ stack' # << >> /\ stack'[Len(stack')].mod = stack[Len(stack)].mod
<1> DEFINE rest == Tail(stack)
           m == stack[1].mod
           b == [rest[1] EXCEPT !.success = @ \/ result]
           r == << b >> \o Tail(rest)
<1>1. /\ stack \in Seq(Activations) /\ Len(stack) \in Nat /\ Len(stack) >= 1
      /\ \A k \in 1 .. Len(stack) : Active(stack[k], Callee(stack, k), loaded)
      /\ \A j, k \in 1 .. Len(stack) : stack[j].mod = stack[k].mod => j = k
  BY SMTT(60) DEF LInv, StackInv
<1>2. /\ rest \in Seq(Activations) /\ Len(rest) = Len(stack) - 1
      /\ \A k \in 1 .. Len(stack) - 1 : rest[k] = stack[k + 1]
  BY <1>1
<1>0. ASSUME NEW a, NEW callee, Active(a, callee, loaded), a.mod # m PROVE Active(a, callee, ld)
  <2>1. ld = loaded \/ ld = loaded \cup {m}
    OBVIOUS
  <2>2. Active(a, callee, loaded \cup {m})
    BY <1>0, ActiveMore
  <2> QED BY <1>0, <2>1, <2>2
<1>3. CASE rest = << >>
  <2>0. Len(rest) = 0
    <3> HIDE DEF rest
    <3> QED BY <1>3
  <2>1. stack' = << >> /\ Len(stack) = 1
    <3>1. stack' = rest
      BY <1>3 DEF Return
    <3> HIDE DEF rest
    <3> QED BY <1>1, <1>2, <1>3, <2>0, <3>1
  <2>2. StackInv(<< >>, ld)
    BY DEF StackInv
  <2> QED BY <2>1, <2>2
<1>4. CASE rest # << >>
  <2>1. stack' = r /\ Head(rest) = rest[1]
    BY <1>2, <1>4, HeadAndTail DEF Return
  <2> HIDE DEF rest
  <2>2. Len(rest) >= 1 /\ rest[1] = stack[2] /\ rest[1] \in Activations /\ Len(rest) \in Nat /\ Len(stack) >= 2
    BY <1>1, <1>2, <1>4
  <2>3. /\ b \in Activations /\ b.mod = rest[1].mod /\ b.depi = rest[1].depi /\ b.todo = rest[1].todo
        /\ b.success = (rest[1].success \/ result)
    BY <2>2 DEF Activations
  <2> HIDE DEF b
  <2>4. /\ r \in Seq(Activations) /\ Len(r) = Len(rest) /\ r[1] = b
        /\ \A k \in 2 .. Len(rest) : r[k] = rest[k]
    BY <1>2, <1>4, <2>3, NewTop
  <2> HIDE DEF r
  <2>5. ASSUME NEW k \in 1 .. Len(r)
        PROVE  r[k].mod = stack[k + 1].mod /\ k + 1 \in 1 .. Len(stack) /\ k + 1 # 1
    <3>1. k \in 1 .. Len(stack) - 1 /\ k + 1 \in 1 .. Len(stack) /\ k + 1 # 1
      BY <1>1, <1>2, <2>4
    <3>2. k = 1 \/ k \in 2 .. Len(rest)
      BY <2>4
    <3>3. CASE k = 1
      <4>1. 1 + 1 = 2
        OBVIOUS
      <4> QED BY <2>2, <2>3, <2>4, <3>1, <3>3, <4>1
    <3>4. CASE k \in 2 .. Len(rest)
      BY <1>2, <2>4, <3>1, <3>4
    <3> QED BY <3>1, <3>2, <3>3, <3>4
  <2>6. ASSUME NEW k \in 1 .. Len(r) PROVE r[k].mod # m
    BY <1>1, <2>5
  <2>7. Active(b, {}, ld)
    <3>1. Active(rest[1], {m}, loaded)
      <4>1. Callee(stack, 2) = {m} /\ 2 \in 1 .. Len(stack)
        BY <1>1, <2>2 DEF Callee
      <4> QED BY <1>1, <2>2, <4>1
    <3>2. m # rest[1].mod
      <4>1. 1 \in 1 .. Len(stack) /\ 2 \in 1 .. Len(stack)
        BY <1>1, <2>2
      <4> QED BY <1>1, <2>2, <4>1
    <3>3. Alternatives(b) = Alternatives(rest[1])
      BY <2>3 DEF Alternatives
    <3>4. Active(rest[1], {m}, ld)
      BY <1>0, <3>1, <3>2
    <3>5. m \notin Loadable \/ (result /\ m \in ld)
      OBVIOUS
    <3>6. result => m \in ld
      OBVIOUS
    <3> HIDE DEF m
    <3>7. /\ result => b.success
          /\ rest[1].success => b.success
          /\ b.success => rest[1].success \/ result
      BY <2>3
    <3>8. b.success => Alternatives(b) \cap ld # {}
      BY <3>3, <3>4, <3>6, <3>7 DEF Active
    <3>9. ASSUME NEW x \in Alternatives(b)
          PROVE  x \in Range(b.todo) \/ x \notin Loadable \/ (b.success /\ x \in ld)
      BY <2>3, <3>3, <3>4, <3>5, <3>7 DEF Active
    <3> QED BY <2>3, <3>3, <3>4, <3>8, <3>9 DEF Active
  <2>8. ASSUME NEW k \in 1 .. Len(r) PROVE Active(r[k], Callee(r, k), ld)
    <3>1. CASE k = 1
      BY <2>4, <2>7, <3>1 DEF Callee
    <3>2. CASE k # 1
      <4>1. k \in 2 .. Len(rest) /\ k \in 1 .. Len(stack) - 1 /\ k - 1 \in 1 .. Len(r) /\ (k - 1) + 1 = k
            /\ (k + 1) - 1 = k
        <5>1. Len(r) = Len(rest) /\ Len(rest) = Len(stack) - 1 /\ Len(rest) \in Nat /\ k \in Nat
          BY <1>1, <1>2, <2>2, <2>4
        <5> QED BY <3>2, <5>1
      <4>2. r[k] = stack[k + 1] /\ k + 1 \in 1 .. Len(stack) /\ k + 1 # 1
        BY <1>2, <2>4, <2>5, <4>1
      <4>3. Callee(r, k) = {stack[k].mod}
        BY <2>5, <3>2, <4>1 DEF Callee
      <4>4. Callee(stack, k + 1) = {stack[k].mod}
        BY <4>1, <4>2 DEF Callee
      <4>5. Active(r[k], Callee(r, k), loaded)
        BY <1>1, <4>2, <4>3, <4>4
      <4>6. r[k].mod # m
        BY <2>6
      <4> QED BY <1>0, <4>5, <4>6
    <3> QED BY <3>1, <3>2
  <2>9. ASSUME NEW j \in 1 .. Len(r), NEW k \in 1 .. Len(r), r[j].mod = r[k].mod PROVE j = k
    <3>1. j + 1 = k + 1
      BY <1>1, <2>5, <2>9
    <3> QED BY <3>1
  <2>10. StackInv(r, ld)
    BY <2>4, <2>8, <2>9 DEF StackInv
  <2>11. r # << >> /\ r[Len(r)].mod = stack[Len(stack)].mod
    <3>1. Len(r) \in 1 .. Len(r) /\ Len(r) + 1 = Len(stack)
      BY <1>1, <1>2, <2>2, <2>4
    <3> QED BY <2>2, <2>4, <2>5, <3>1
  <2> QED BY <2>1, <2>10, <2>11
<1> QED BY <1>3, <1>4

\* What is left to show of a step of the loader.
LEMMA LoaderStep ==
  ASSUME LInv, deps' = deps, works' = works,
         StackInv(stack', loaded'), loaded' \subseteq Loadable, next' \in 1 .. Count + 1,
         \A m \in Module : m < next' =>
           m \in loaded' \/ m \notin Loadable \/ (stack' # << >> /\ stack'[Len(stack')].mod = m)
  PROVE  LInv'
<1>1. Loadable' = Loadable
  BY DEF Loadable, Closed, Met
<1>2. StackInv(stack, loaded)'
  BY <1>1 DEF StackInv, Active, WasTried, Alternatives, Callee
<1>3. /\ deps' \in [Module -> Seq(Seq(Module))] /\ Acyclic(deps') /\ works' \subseteq Module
      /\ loaded' \subseteq Loadable'
  BY <1>1 DEF LInv
<1>4. \A m \in Module : m < next' =>
        m \in loaded' \/ m \notin Loadable' \/ (stack' # << >> /\ stack'[Len(stack')].mod = m)
  BY <1>1
<1> QED BY <1>2, <1>3, <1>4 DEF LInv

LEMMA LoadAllInv ==
  ASSUME LInv, LoadAll, deps' = deps, works' = works
  PROVE  LInv'
<1>1. /\ stack = << >> /\ next <= Count /\ next' = next + 1 /\ loaded' = loaded
      /\ stack' = IF next \in loaded THEN <<>> ELSE << Activation(next, 1) >>
  BY DEF LoadAll
<1>2. next \in Module /\ next \in Nat /\ next' \in 1 .. Count + 1 /\ loaded \subseteq Loadable
  BY <1>1, LoaderAssumption DEF LInv, Module
<1>3. ASSUME NEW m \in Module, m < next' PROVE m = next \/ m \in loaded \/ m \notin Loadable
  <2>1. m = next \/ m < next
    BY <1>1, <1>2, <1>3 DEF Module
  <2> QED BY <1>1, <2>1 DEF LInv
<1>4. CASE next \in loaded
  <2>1. stack' = << >> /\ StackInv(<< >>, loaded)
    BY <1>1, <1>4 DEF StackInv
  <2> QED BY <1>1, <1>2, <1>3, <1>4, <2>1, LoaderStep
<1>5. CASE next \notin loaded
  <2> DEFINE a == Activation(next, 1)
  <2>1. Active(a, {}, loaded) /\ a.mod = next
    <3>1. \A j \in DOMAIN deps[next] : ~(j < 1)
      BY <1>2 DEF LInv
    <3> QED BY <1>2, <1>5, <3>1, FreshActive, SMTT(60)
  <2> HIDE DEF a
  <2>2. stack' = << a >> /\ a \in Activations
    BY <1>1, <1>5, <2>1 DEF Active, a
  <2>3. /\ << a >> \in Seq(Activations) /\ Len(<< a >>) = 1 /\ << a >>[1] = a /\ << a >> # << >>
    BY <2>2
  <2>4. StackInv(<< a >>, loaded)
    BY <2>1, <2>3 DEF StackInv, Callee
  <2>5. stack' # << >> /\ stack'[Len(stack')].mod = next
    BY <2>1, <2>2, <2>3
  <2> QED BY <1>1, <1>2, <1>3, <2>2, <2>4, <2>5, LoaderStep
<1> QED BY <1>4, <1>5

LEMMA TryNextInv ==
  ASSUME LInv, TryNext, deps' = deps, works' = works
  PROVE  LInv'
<1> DEFINE c == stack[1]
           m == Head(c.todo)
           top == [c EXCEPT !.todo = Tail(@), !.success = @ \/ m \in loaded]
           rest == << top >> \o Tail(stack)
           a == Activation(m, 1)
<1>1. /\ stack # << >> /\ stack \in Seq(Activations) /\ Len(stack) \in Nat /\ Len(stack) >= 1
      /\ \A k \in 1 .. Len(stack) : Active(stack[k], Callee(stack, k), loaded)
      /\ \A j, k \in 1 .. Len(stack) : stack[j].mod = stack[k].mod => j = k
  BY SMTT(60) DEF LInv, StackInv, TryNext
<1>2. Current = c
  BY <1>1, HeadAndTail DEF Current
<1>3. /\ c.todo # << >> /\ loaded' = loaded /\ next' = next
      /\ stack' = IF m \in loaded THEN rest ELSE << a >> \o rest
  BY <1>2 DEF TryNext
<1>4. Active(c, {}, loaded) /\ c \in Activations
  <2>1. 1 \in 1 .. Len(stack) /\ Callee(stack, 1) = {}
    BY <1>1 DEF Callee
  <2> QED BY <1>1, <2>1 DEF Active
<1>5. /\ c.todo \in Seq(Module) /\ m \in Module /\ Tail(c.todo) \in Seq(Module)
      /\ Range(c.todo) = {m} \cup Range(Tail(c.todo)) /\ m \in Alternatives(c)
  <2>1. c.todo \in Seq(Module)
    BY <1>4 DEF Activations
  <2>2. /\ m \in Module /\ Tail(c.todo) \in Seq(Module)
        /\ Range(c.todo) = {m} \cup Range(Tail(c.todo))
    BY <1>3, <2>1, HeadAndTail
  <2> HIDE DEF c, m
  <2> QED BY <1>4, <2>1, <2>2 DEF Active
<1> HIDE DEF c, m
<1>6. /\ top \in Activations /\ top.mod = c.mod /\ top.depi = c.depi /\ top.todo = Tail(c.todo)
      /\ c.success => top.success
      /\ m \in loaded => top.success
      /\ top.success => c.success \/ m \in loaded
  BY <1>4, <1>5 DEF Activations
<1> HIDE DEF top
<1>7. Alternatives(top) = Alternatives(c)
  BY <1>6 DEF Alternatives
<1>8. top.success => Alternatives(top) \cap loaded # {}
  BY <1>4, <1>5, <1>6, <1>7 DEF Active
<1>9. ASSUME NEW callee, callee \subseteq {m}, m \in callee \/ m \in loaded
      PROVE  Active(top, callee, loaded)
  <2>1. ASSUME NEW x \in Alternatives(top)
        PROVE  x \in Range(top.todo) \/ x \in callee \/ x \notin Loadable \/ (top.success /\ x \in loaded)
    BY <1>4, <1>5, <1>6, <1>7, <1>9 DEF Active
  <2>2. callee \subseteq Alternatives(top) /\ Range(top.todo) \subseteq Alternatives(top)
    BY <1>4, <1>5, <1>6, <1>7, <1>9 DEF Active
  <2> QED BY <1>4, <1>6, <1>8, <2>1, <2>2 DEF Active
<1>10. next' \in 1 .. Count + 1 /\ loaded' \subseteq Loadable
  BY <1>3 DEF LInv
<1>11. SUFFICES /\ StackInv(stack', loaded)
                /\ stack' # << >> /\ stack'[Len(stack')].mod = stack[Len(stack)].mod
  <2>1. \A x \in Module : x < next' =>
          x \in loaded' \/ x \notin Loadable \/ (stack' # << >> /\ stack'[Len(stack')].mod = x)
    BY <1>3, <1>11 DEF LInv
  <2> QED BY <1>3, <1>10, <1>11, <2>1, LoaderStep
<1>12. CASE m \in loaded
  <2>1. Active(top, {}, loaded) /\ top.mod = stack[1].mod
    BY <1>6, <1>9, <1>12 DEF c
  <2>2. StackInv(stack, loaded)
    BY DEF LInv
  <2>3. StackInv(rest, loaded) /\ rest # << >> /\ rest[Len(rest)].mod = stack[Len(stack)].mod
    BY <1>1, <2>1, <2>2, TopReplaced
  <2> QED BY <1>3, <1>12, <2>3
<1>13. CASE m \notin loaded
  <2>1. /\ rest \in Seq(Activations) /\ Len(rest) = Len(stack) /\ rest[1] = top
        /\ \A k \in 2 .. Len(stack) : rest[k] = stack[k]
    BY <1>1, <1>6, NewTop, SMTT(60)
  <2> HIDE DEF rest
  <2>2. Active(a, {}, loaded) /\ a.mod = m
    <3>1. \A j \in DOMAIN deps[m] : ~(j < 1)
      BY <1>5, SMTT(60) DEF LInv
    <3> QED BY <1>5, <1>13, <3>1, FreshActive, SMTT(60)
  <2> HIDE DEF a
  <2>3. ASSUME NEW k \in 1 .. Len(rest) PROVE rest[k].mod = stack[k].mod
    <3>1. k = 1 \/ k \in 2 .. Len(stack)
      BY <1>1, <2>1
    <3> QED BY <1>6, <2>1, <3>1 DEF c
  <2>4. ASSUME NEW k \in 1 .. Len(rest) PROVE rest[k].mod # a.mod
    <3>1. stack[k].mod # m
      BY <1>1, <1>5, <2>1, LoopFree DEF c
    <3> QED BY <2>2, <2>3, <3>1
  <2>5. ASSUME NEW k \in 1 .. Len(rest)
        PROVE  Active(rest[k], IF k = 1 THEN {a.mod} ELSE {rest[k - 1].mod}, loaded)
    <3>1. CASE k = 1
      <4>1. Active(top, {m}, loaded)
        BY <1>9
      <4> QED BY <2>1, <2>2, <3>1, <4>1
    <3>2. CASE k # 1
      <4>1. k \in 2 .. Len(stack) /\ k - 1 \in 1 .. Len(rest) /\ k \in 1 .. Len(stack)
        BY <1>1, <2>1, <3>2
      <4>2. rest[k] = stack[k] /\ Callee(stack, k) = {rest[k - 1].mod}
        BY <2>1, <2>3, <3>2, <4>1 DEF Callee
      <4> QED BY <1>1, <3>2, <4>1, <4>2
    <3> QED BY <3>1, <3>2
  <2>6. \A j, k \in 1 .. Len(rest) : rest[j].mod = rest[k].mod => j = k
    BY <1>1, <2>1, <2>3
  <2>7. rest # << >> /\ rest[Len(rest)].mod = stack[Len(stack)].mod
    BY <1>1, <2>1, <2>3
  <2> DEFINE r == << a >> \o rest
  <2>8. StackInv(r, loaded) /\ r # << >> /\ r[Len(r)].mod = rest[Len(rest)].mod
    BY <2>1, <2>2, <2>4, <2>5, <2>6, <2>7, TopPushed
  <2> QED BY <1>3, <1>13, <2>7, <2>8
<1> QED BY <1>12, <1>13

\* The activation on top, by the name the model gives it.
LEMMA CurrentIs ==
  ASSUME LInv, stack # << >>
  PROVE  /\ Current = stack[1] /\ Active(stack[1], {}, loaded) /\ stack[1] \in Activations
         /\ Len(stack) \in Nat /\ Len(stack) >= 1 /\ StackInv(stack, loaded)
<1>1. stack \in Seq(Activations) /\ StackInv(stack, loaded)
  BY DEF LInv, StackInv
<1>2. Current = stack[1] /\ Len(stack) \in Nat /\ Len(stack) >= 1
  BY <1>1, HeadAndTail DEF Current
<1>3. 1 \in 1 .. Len(stack) /\ Callee(stack, 1) = {}
  BY <1>2 DEF Callee
<1> QED BY <1>1, <1>2, <1>3 DEF StackInv, Active

\* A return keeps what is known of the modules that module_load_all went through.
LEMMA ReturnStep ==
  ASSUME LInv, stack # << >>, deps' = deps, works' = works, next' = next,
         NEW result \in BOOLEAN,
         result => loaded' = loaded \cup {stack[1].mod} /\ stack[1].mod \in Loadable,
         ~result => loaded' = loaded /\ stack[1].mod \notin Loadable,
         Return(result, Tail(stack))
  PROVE  LInv'
<1>1. /\ StackInv(stack', loaded')
      /\ \/ Len(stack) = 1 /\ stack' = << >>
         \/ stack' # << >> /\ stack'[Len(stack')].mod = stack[Len(stack)].mod
  BY Returned
<1>2. loaded' \subseteq Loadable /\ next' \in 1 .. Count + 1 /\ loaded \subseteq loaded'
  BY DEF LInv
<1>3. stack[1].mod \in loaded' \/ stack[1].mod \notin Loadable
  OBVIOUS
<1>4. ASSUME NEW m \in Module, m < next'
      PROVE  m \in loaded' \/ m \notin Loadable \/ (stack' # << >> /\ stack'[Len(stack')].mod = m)
  <2>1. m \in loaded \/ m \notin Loadable \/ stack[Len(stack)].mod = m
    BY <1>4 DEF LInv
  <2> QED BY <1>1, <1>2, <1>3, <2>1
<1> QED BY <1>1, <1>2, <1>4, LoaderStep

LEMMA NextDependencyInv ==
  ASSUME LInv, NextDependency, deps' = deps, works' = works
  PROVE  LInv'
<1> DEFINE c == stack[1]
           a == Activation(c.mod, c.depi + 1)
<1>1. /\ stack # << >> /\ Current = c /\ Active(c, {}, loaded) /\ c \in Activations
      /\ StackInv(stack, loaded)
  BY CurrentIs DEF NextDependency
<1>2. /\ c.todo = << >> /\ c.depi \in DOMAIN deps[c.mod] /\ loaded' = loaded /\ next' = next
      /\ IF c.success THEN stack' = << a >> \o Tail(stack) ELSE Return(FALSE, Tail(stack))
  BY <1>1 DEF NextDependency
<1>3. c.mod \in Module /\ c.depi \in Nat /\ c.depi >= 1 /\ c.mod \notin loaded
  BY <1>1 DEF Active, Activations
<1>4. Alternatives(c) = Range(deps[c.mod][c.depi]) /\ Range(c.todo) = {}
  <2>1. Alternatives(c) = Range(deps[c.mod][c.depi])
    BY <1>2 DEF Alternatives
  <2>2. Range(<< >>) = {}
    BY DEF Range
  <2> QED BY <1>2, <2>1, <2>2
<1>5. \A m \in Alternatives(c) : m \notin Loadable \/ (c.success /\ m \in loaded)
  BY <1>1, <1>4 DEF Active
<1>6. CASE c.success
  <2>1. WasTried(deps[c.mod][c.depi], loaded)
    BY <1>1, <1>4, <1>5, <1>6 DEF Active, WasTried
  <2>2. ASSUME NEW j \in DOMAIN deps[c.mod], j < c.depi + 1 PROVE WasTried(deps[c.mod][j], loaded)
    <3>1. deps[c.mod] \in Seq(Seq(Module))
      BY <1>3 DEF LInv
    <3>2. j \in Nat
      BY <3>1, SMTT(60)
    <3>3. j = c.depi \/ j < c.depi
      BY <1>3, <2>2, <3>2
    <3> QED BY <1>1, <2>1, <3>3 DEF Active
  <2>3. Active(a, {}, loaded) /\ a.mod = c.mod
    <3>1. c.depi + 1 \in Nat /\ c.depi + 1 >= 1
      BY <1>3
    <3> QED BY <1>3, <2>2, <3>1, FreshActive
  <2> HIDE DEF a
  <2> DEFINE r == << a >> \o Tail(stack)
  <2>4. StackInv(r, loaded) /\ r # << >> /\ r[Len(r)].mod = stack[Len(stack)].mod
    BY <1>1, <2>3, TopReplaced
  <2>5. stack' = r
    BY <1>2, <1>6
  <2>6. next' \in 1 .. Count + 1 /\ loaded' \subseteq Loadable
    BY <1>2 DEF LInv
  <2> HIDE DEF r
  <2>7. \A x \in Module : x < next' =>
          x \in loaded' \/ x \notin Loadable \/ (stack' # << >> /\ stack'[Len(stack')].mod = x)
    BY <1>2, <2>4, <2>5 DEF LInv
  <2> QED BY <1>2, <2>4, <2>5, <2>6, <2>7, LoaderStep
<1>7. CASE ~c.success
  <2>1. c.mod \notin Loadable
    <3> SUFFICES ASSUME c.mod \in Loadable PROVE FALSE
      OBVIOUS
    <3>1. works \subseteq Module
      BY DEF LInv
    <3>2. Met(c.mod, Loadable)
      BY <3>1, LoadableOut
    <3>3. Range(deps[c.mod][c.depi]) \cap Loadable # {}
      BY <1>2, <3>2 DEF Met
    <3> QED BY <1>4, <1>5, <1>7, <3>3
  <2>2. Return(FALSE, Tail(stack)) /\ FALSE \in BOOLEAN
    BY <1>2, <1>7
  <2> QED BY <1>1, <1>2, <2>1, <2>2, ReturnStep
<1> QED BY <1>6, <1>7

\* When every dependency was tried, all of them are met.
LEMMA DependenciesMet ==
  ASSUME LInv, AllTried
  PROVE  \A i \in DOMAIN deps[stack[1].mod] : WasTried(deps[stack[1].mod][i], loaded)
<1> DEFINE c == stack[1]
<1>1. stack # << >> /\ c.depi \notin DOMAIN deps[c.mod] /\ Active(c, {}, loaded) /\ c \in Activations
  BY CurrentIs DEF AllTried
<1>2. c.mod \in Module /\ c.depi \in Nat /\ c.depi >= 1
  BY <1>1 DEF Active, Activations
<1>3. deps[c.mod] \in Seq(Seq(Module))
  BY <1>2 DEF LInv
<1>4. ASSUME NEW i \in DOMAIN deps[c.mod] PROVE i < c.depi
  BY <1>1, <1>2, <1>3, SMTT(60)
<1> QED BY <1>1, <1>4 DEF Active

LEMMA CallInitInv ==
  ASSUME LInv, CallInit, deps' = deps, works' = works
  PROVE  LInv'
<1> DEFINE c == stack[1]
<1>1. stack # << >> /\ Current = c /\ c.mod \in Module
  BY CurrentIs DEF CallInit, AllTried, Activations
<1>2. /\ loaded' = loaded \cup ({c.mod} \cap works) /\ next' = next
      /\ Return(c.mod \in works, Tail(stack))
  BY <1>1 DEF CallInit
<1>3. CASE c.mod \in works
  <2>1. \A i \in DOMAIN deps[c.mod] : WasTried(deps[c.mod][i], loaded)
    BY DependenciesMet DEF CallInit
  <2>2. Met(c.mod, Loadable)
    BY <2>1 DEF Met, WasTried, LInv
  <2>3. c.mod \in Loadable
    BY <1>1, <1>3, <2>2, LoadableIn
  <2>4. loaded' = loaded \cup {c.mod}
    BY <1>2, <1>3
  <2>5. (c.mod \in works) = TRUE
    BY <1>3
  <2>6. Return(TRUE, Tail(stack))
    BY <1>2, <2>5
  <2> QED BY <1>1, <1>2, <2>3, <2>4, <2>6, ReturnStep
<1>4. CASE c.mod \notin works
  <2>1. c.mod \notin Loadable
    BY <1>4, LoadableOut DEF LInv
  <2>2. loaded' = loaded
    BY <1>2, <1>4
  <2>3. (c.mod \in works) = FALSE
    BY <1>4
  <2>4. Return(FALSE, Tail(stack))
    BY <1>2, <2>3
  <2> QED BY <1>1, <1>2, <2>1, <2>2, <2>4, ReturnStep
<1> QED BY <1>3, <1>4

LEMMA LoaderInit == LInit => LInv
<1> SUFFICES ASSUME LInit PROVE LInv
  OBVIOUS
<1>1. loaded = {} /\ next = 1 /\ stack = << >>
  BY DEF LInit
<1>2. deps \in [Module -> Seq(Seq(Module))] /\ Acyclic(deps) /\ works \subseteq Module
  <2>1. deps \in [Module -> BoundedSeq(Dependency, MaxDependencies)] /\ Acyclic(deps) /\ works \subseteq Module
    BY DEF LInit
  <2>2. ASSUME NEW S, NEW n \in Nat, NEW q \in BoundedSeq(S, n) PROVE q \in Seq(S)
    <3>1. PICK k \in 0 .. n : q \in [1 .. k -> S]
      BY <2>2 DEF BoundedSeq, SeqOf
    <3> QED BY <3>1
  <2>3. ASSUME NEW d \in Dependency PROVE d \in Seq(Module)
    <3>1. d \in BoundedSeq(Module, Count) /\ Count \in Nat
      BY <2>3, LoaderAssumption DEF Dependency
    <3> QED BY <2>2, <3>1
  <2>4. ASSUME NEW m \in Module PROVE deps[m] \in Seq(Seq(Module))
    <3>1. deps[m] \in Seq(Dependency)
      BY <2>1, <2>2, LoaderAssumption
    <3> QED BY <2>3, <3>1
  <2> QED BY <2>1, <2>4
<1>3. StackInv(<< >>, {})
  BY DEF StackInv
<1>4. next \in 1 .. Count + 1 /\ \A m \in Module : ~(m < next)
  BY <1>1, LoaderAssumption DEF Module
<1> QED BY <1>1, <1>2, <1>3, <1>4 DEF LInv

LEMMA LoaderNext == LInv /\ [LNext]_lvars => LInv'
<1> SUFFICES ASSUME LInv, [LNext]_lvars PROVE LInv'
  OBVIOUS
<1>1. LNext \/ UNCHANGED lvars
  OBVIOUS
<1>2. CASE LNext
  <2>1. deps' = deps /\ works' = works
    BY <1>2 DEF LNext
  <2>2. CASE LoadAll
    BY <2>1, <2>2, LoadAllInv
  <2>3. CASE TryNext
    BY <2>1, <2>3, TryNextInv
  <2>4. CASE NextDependency
    BY <2>1, <2>4, NextDependencyInv
  <2>5. CASE CallInit
    BY <2>1, <2>5, CallInitInv
  <2> QED BY <1>2, <2>2, <2>3, <2>4, <2>5 DEF LNext
<1>3. CASE UNCHANGED lvars
  <2>1. deps' = deps /\ works' = works /\ loaded' = loaded /\ next' = next /\ stack' = stack
    BY <1>3 DEF lvars
  <2>2. StackInv(stack', loaded') /\ loaded' \subseteq Loadable /\ next' \in 1 .. Count + 1
    BY <2>1 DEF LInv
  <2>3. \A m \in Module : m < next' =>
          m \in loaded' \/ m \notin Loadable \/ (stack' # << >> /\ stack'[Len(stack')].mod = m)
    BY <2>1 DEF LInv
  <2> QED BY <2>1, <2>2, <2>3, LoaderStep
<1> QED BY <1>1, <1>2, <1>3

\* For any number of modules and any dependencies without a cycle: module_load_i
\* calls init() only when the dependencies of the module are met and every alternative
\* that can be loaded is, once; and module_load_all loads exactly the modules that can
\* be, whatever the order of the list and whichever of them fail.
THEOREM LoadOrder == LSpec => []LoadsAfterDependencies
<1>1. LInv => LoadsAfterDependencies
  <2> SUFFICES ASSUME LInv PROVE LoadsAfterDependencies
    OBVIOUS
  <2>1. ASSUME AllTried
        PROVE  /\ Met(Current.mod, loaded) /\ Current.mod \notin loaded
               /\ \A i \in DOMAIN deps[Current.mod] :
                    Range(deps[Current.mod][i]) \cap Loadable \subseteq loaded
    <3>1. Current = stack[1] /\ Active(stack[1], {}, loaded)
      BY <2>1, CurrentIs DEF AllTried
    <3>2. \A i \in DOMAIN deps[stack[1].mod] : WasTried(deps[stack[1].mod][i], loaded)
      BY <2>1, DependenciesMet
    <3> QED BY <3>1, <3>2 DEF Met, WasTried, Active
  <2>2. ASSUME stack = << >>, next > Count PROVE loaded = Loadable
    <3>1. ASSUME NEW m \in Loadable PROVE m \in loaded
      <4>1. m \in Module
        BY DEF Loadable
      <4>2. m < next
        BY <2>2, <4>1, LoaderAssumption DEF Module, LInv
      <4> QED BY <2>2, <4>1, <4>2 DEF LInv
    <3> QED BY <3>1 DEF LInv
  <2> QED BY <2>1, <2>2 DEF LoadsAfterDependencies, LInv
<1> QED BY <1>1, LoaderInit, LoaderNext, PTL DEF LSpec
=============================================================================
