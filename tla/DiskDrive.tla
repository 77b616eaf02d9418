------------------------------ MODULE DiskDrive ------------------------------
(***************************************************************************)
(* The disk drive's buffer manager and the parallel interface it lives on: *)
(* dd/dd_controller.c, rcp/pi/pi_controller.c and the write of             *)
(* cart/cart_rom.c.  The program starts a transfer of one or two blocks;   *)
(* sector by sector the drive fills, or writes back, its buffer, and the   *)
(* end of the program's DMA on that buffer makes it go on to the next.     *)
(* Positions count the places of a track, BlockLength to a block: the      *)
(* sectors, the C2 sectors and the gap.                                    *)
(***************************************************************************)
EXTENDS Naturals, RcpData

VARIABLES
    pi,         \* PI_STATUS_REG: "DMA_BUSY", "IO_BUSY", "ERROR", "INTERRUPT"
    piInts,     \* PI_INT events queued
    addr,       \* PI_CART_ADDR_REG: in the sector buffer "ds", the "c2" buffer, the "rom"
    mi,         \* lines of MI_INTR_REG
    drive,      \* the registers dd_update_bm works on, and what it wrote
    bmWrite,    \* bm_write
    bad,        \* the track is the one a retail drive cannot read
    resetHeld,  \* bm_reset_held
    seen,       \* the flags the program has read from DD_ASIC_CMD_STATUS
    armed,      \* it has set the address of a DMA it has not started
    plan,       \* history: the first place and the number of blocks asked for
    moved,      \* history: sectors the program has moved
    lost        \* history: an NMI came into the middle of a DMA

piVars == <<pi, piInts, addr, mi>>
program == <<seen, armed, plan, moved, lost>>
vars == <<piVars, drive, bmWrite, bad, resetHeld, program>>

BlockLength == Sectors + C2Sectors + 1
Places == 0 .. (2 * BlockLength - 1)
Block(p) == p \div BlockLength
Sector(p) == p % BlockLength
Other(p) == (1 - Block(p)) * BlockLength

NoPlan == [first |-> 0, blocks |-> 0]

(* The place of the n-th sector of the transfer, from 0.                   *)
Nth(n) == IF n < Sectors THEN plan.first + n ELSE Other(plan.first) + n - Sectors

(* status: DD_ASIC_BM_STATUS_CTL; cur: DD_ASIC_CUR_SECTOR; flags:          *)
(* DD_ASIC_CMD_STATUS; ip3: the bit of Cause; buf: the place whose sector  *)
(* is in ds_buf; written: pairs of a place and the sector it was given.    *)
Init ==
    /\ pi = {} /\ piInts = 0 /\ addr = "rom" /\ mi = {}
    /\ drive = [status |-> {}, cur |-> 0, flags |-> {}, ip3 |-> FALSE,
                buf |-> 0, written |-> {}]
    /\ bmWrite = FALSE /\ bad = FALSE /\ resetHeld = FALSE
    /\ seen = {} /\ armed = FALSE
    /\ plan = NoPlan /\ moved = 0 /\ lost = FALSE

Running(d) == "RUNNING" \in d.status
Idle == pi \cap {"DMA_BUSY", "IO_BUSY"} = {}

-----------------------------------------------------------------------------
(* dd_update_bm.                                                           *)

(* It goes on to another place, asking for what is needed there.           *)
At(d, place, wants) == [d EXCEPT !.cur = place, !.flags = @ \cup wants]

(* The block is over: the other one follows from that place, or none.      *)
BlockDone(d, next, stay, wants) ==
    IF "BLOCK" \in d.status
    THEN [At(d, next, wants) EXCEPT !.status = @ \ {"BLOCK"}]
    ELSE [At(d, stay, {}) EXCEPT !.status = @ \ {"RUNNING"}]

WriteSector(d) == [d EXCEPT !.written = @ \cup {<<d.cur - 1, d.buf>>}]

Write(d) ==
    LET s == Sector(d.cur)
    IN  CASE s = 0                  -> At(d, d.cur + 1, {"DATA_RQ"})
          [] s \in 1 .. Sectors - 1 -> At(WriteSector(d), d.cur + 1, {"DATA_RQ"})
          [] s = Sectors            -> BlockDone(WriteSector(d), Other(d.cur) + 1,
                                                 d.cur + 1, {"DATA_RQ"})
          [] OTHER                  -> d

(* Mutant: the second block begins as it does for a write.                 *)
ReadLikeWrite(d) ==
    LET s == Sector(d.cur)
    IN  CASE s < Sectors              -> At([d EXCEPT !.buf = d.cur], d.cur + 1, {"DATA_RQ"})
          [] s = Sectors + C2Sectors  -> BlockDone(d, Other(d.cur) + 1, d.cur, {})
          [] OTHER -> At(d, d.cur + 1, IF s + 1 = Sectors + C2Sectors THEN {"C2_XFER"} ELSE {})

Read(d) ==
    LET s == Sector(d.cur)
    IN  IF bad /\ Block(d.cur) = 0
        THEN [d EXCEPT !.status = @ \cup {"MICRO"}, !.flags = @ \ {"DATA_RQ"}]
        ELSE CASE s < Sectors -> At([d EXCEPT !.buf = d.cur], d.cur + 1, {"DATA_RQ"})
               [] s = Sectors + C2Sectors -> BlockDone(d, Other(d.cur), d.cur, {})
               [] OTHER -> At(d, d.cur + 1, {f \in {"C2_XFER"} : s + 1 = Sectors + C2Sectors})

Raised(d, bit) == [d EXCEPT !.flags = @ \cup {bit}, !.ip3 = TRUE]
Lowered(d, bits) == [d EXCEPT !.flags = @ \ bits, !.ip3 = FALSE]

UpdateBm(d) ==
    IF Running(d) THEN Raised(IF bmWrite THEN Write(d) ELSE Read(d), "BM_INT") ELSE d

-----------------------------------------------------------------------------
(* The drive's registers.                                                  *)

(* A command, DD_ASIC_CMD_STATUS: seek for a read or a write.              *)
Seek ==
    /\ ~Running(drive)
    /\ \E w, b \in BOOLEAN : bmWrite' = w /\ bad' = b
    /\ drive' = [Raised(drive, "MECHA_INT") EXCEPT !.written = {}]
    /\ plan' = NoPlan /\ moved' = 0
    /\ UNCHANGED <<piVars, resetHeld, seen, armed, lost>>

(* DD_ASIC_BM_STATUS_CTL to start, taking back the MECHA interrupt.  The   *)
(* program has not moved yet, and so it is after a reset.                  *)
StartBm ==
    /\ ~Running(drive) /\ ~resetHeld /\ Idle
    /\ \E first \in {0, BlockLength}, blocks \in {1, 2} :
          LET d == [drive EXCEPT !.cur = first,
                                 !.status = (@ \cup {b \in {"BLOCK"} : blocks = 2})
                                            \cup {"RUNNING"},
                                 !.flags = @ \ {"MECHA_INT"}]
          IN  /\ drive' = [UpdateBm([d EXCEPT !.ip3 = @ /\ "BM_INT" \in d.flags])
                              EXCEPT !.written = {}]
              /\ plan' = [first |-> first, blocks |-> blocks]
    /\ moved' = 0 /\ seen' = {} /\ armed' = FALSE /\ lost' = FALSE
    /\ UNCHANGED <<piVars, bmWrite, bad, resetHeld>>

(* The same register to give up: reset, ...                                *)
HoldReset ==
    /\ Idle
    /\ resetHeld' = TRUE
    /\ drive' = [drive EXCEPT !.cur = 0, !.written = {},
                             !.ip3 = @ /\ drive.flags \cap {"BM_INT", "MECHA_INT"} # {}]
    /\ plan' = NoPlan /\ moved' = 0
    /\ UNCHANGED <<piVars, bmWrite, bad, seen, armed, lost>>

(* ... and end of reset.  MECHA_INT keeps the line up.                     *)
ReleaseReset ==
    /\ resetHeld
    /\ resetHeld' = FALSE
    /\ drive' = [drive EXCEPT !.flags = @ \ {"DATA_RQ", "C2_XFER", "BM_INT"},
                              !.status = {}, !.cur = 0,
                              !.ip3 = @ /\ "MECHA_INT" \in drive.flags]
    /\ armed' = FALSE /\ seen' = {}
    /\ UNCHANGED <<piVars, bmWrite, bad, plan, moved, lost>>

(* A read of DD_ASIC_CMD_STATUS past the sectors makes the drive go on.    *)
ReadStatus ==
    /\ seen' = drive.flags
    /\ drive' = IF "BM_INT" \in drive.flags /\ Sector(drive.cur) > Sectors
                THEN UpdateBm(Lowered(drive, {"BM_INT"}))
                ELSE drive
    /\ UNCHANGED <<piVars, bmWrite, bad, resetHeld, armed, plan, moved, lost>>

-----------------------------------------------------------------------------
(* The parallel interface.                                                 *)

(* PI_CART_ADDR for the buffer the drive has called for, or for something  *)
(* else.                                                                   *)
SetAddr(a) ==
    /\ Idle /\ ~armed
    /\ \/ a = "ds" /\ {"BM_INT", "DATA_RQ"} \subseteq seen
       \/ a = "c2" /\ {"BM_INT", "C2_XFER"} \subseteq seen /\ "DATA_RQ" \notin seen
       \/ a = "rom"
    /\ addr' = a
    /\ drive' = CASE a = "ds" -> Lowered(drive, {"DATA_RQ", "BM_INT"})
                  [] a = "c2" -> Lowered(drive, {"C2_XFER", "BM_INT"})
                  [] OTHER    -> drive
    /\ armed' = TRUE /\ seen' = {}
    /\ UNCHANGED <<pi, piInts, mi, bmWrite, bad, resetHeld, plan, moved, lost>>

(* validate_pi_request.                                                    *)
Refuse ==
    /\ ~Idle
    /\ pi' = pi \cup {"ERROR"}
    /\ UNCHANGED <<piInts, addr, mi, drive, bmWrite, bad, resetHeld, program>>

Dma ==
    /\ armed /\ Idle
    /\ pi' = pi \cup {"DMA_BUSY"}
    /\ piInts' = piInts + 1
    /\ armed' = FALSE
    /\ moved' = IF addr = "ds" /\ plan # NoPlan THEN moved + 1 ELSE moved
    /\ drive' = IF addr = "ds" /\ bmWrite THEN [drive EXCEPT !.buf = Nth(moved)] ELSE drive
    /\ UNCHANGED <<addr, mi, bmWrite, bad, resetHeld, seen, plan, lost>>

(* write_cart_rom: a write is over at a PI_INT too.                        *)
WriteRom ==
    /\ Idle /\ ~armed
    /\ EarlyIo \/ addr = "rom"
    /\ pi' = pi \cup {"IO_BUSY"}
    /\ piInts' = piInts + 1
    /\ UNCHANGED <<addr, mi, drive, bmWrite, bad, resetHeld, program>>

(* Mutant: the drive goes on after a data sector only.                     *)
EndOfDmaData ==
    /\ piInts > 0
    /\ piInts' = piInts - 1
    /\ pi' = (pi \ {"DMA_BUSY", "IO_BUSY"}) \cup {"INTERRUPT"}
    /\ mi' = mi \cup {"PI"}
    /\ drive' = IF addr = "ds" THEN UpdateBm(drive) ELSE drive
    /\ UNCHANGED <<addr, bmWrite, bad, resetHeld, program>>

EndOfDma ==
    /\ piInts > 0
    /\ piInts' = piInts - 1
    /\ pi' = (pi \ {"DMA_BUSY", "IO_BUSY"}) \cup {"INTERRUPT"}
    /\ mi' = mi \cup {"PI"}
    /\ drive' = IF addr \in {"ds", "c2"} THEN UpdateBm(drive) ELSE drive
    /\ UNCHANGED <<addr, bmWrite, bad, resetHeld, program>>

AcknowledgePi ==
    /\ pi' = pi \ {"INTERRUPT"}
    /\ mi' = mi \ {"PI"}
    /\ UNCHANGED <<piInts, addr, drive, bmWrite, bad, resetHeld, program>>

(* nmi_int_handler: pif_bootrom_hle_execute resets the PI, and every event *)
(* is dropped.  Nothing resets the drive.                                  *)
Nmi ==
    /\ pi' = {} /\ piInts' = 0
    /\ lost' = (lost \/ armed \/ piInts > 0)
    /\ armed' = FALSE /\ seen' = {}
    /\ UNCHANGED <<addr, drive, bmWrite, bad, resetHeld, plan, moved>>

Program ==
    \/ Seek \/ StartBm \/ HoldReset \/ ReleaseReset \/ ReadStatus
    \/ \E a \in {"ds", "c2", "rom"} : SetAddr(a)
    \/ Refuse \/ Dma \/ WriteRom \/ AcknowledgePi

Next == Program \/ EndOfDma \/ (Nmi /\ mi' = mi \ {"PI"})

Spec == Init /\ [][Next]_vars
-----------------------------------------------------------------------------
TypeOK ==
    /\ pi \subseteq {"DMA_BUSY", "IO_BUSY", "ERROR", "INTERRUPT"}
    /\ piInts \in 0 .. 1 /\ addr \in {"ds", "c2", "rom"}
    /\ drive.status \subseteq {"RUNNING", "BLOCK", "MICRO"}
    /\ drive.cur \in Places /\ drive.buf \in Places
    /\ {seen, drive.flags} \subseteq SUBSET {"DATA_RQ", "C2_XFER", "BM_INT", "MECHA_INT"}
    /\ {bmWrite, bad, resetHeld, armed, lost, drive.ip3} \subseteq BOOLEAN
    /\ moved \in 0 .. 2 * Sectors

Asked == 0 .. (plan.blocks * Sectors - 1)

(* A transfer moves every sector of the blocks asked for, once and in      *)
(* order: the buffer holds the one the program is to read next, each one   *)
(* it wrote goes to its own place, and the drive stops when all are moved. *)
TransferIsWhole ==
    plan # NoPlan /\ ~lost =>
       /\ \A w \in drive.written : w[1] = w[2]
       /\ Running(drive) /\ ~bmWrite /\ "DATA_RQ" \in drive.flags => drive.buf = Nth(moved)
       /\ ~Running(drive) =>
             /\ moved = plan.blocks * Sectors
             /\ bmWrite => {w[1] : w \in drive.written} = {Nth(n) : n \in Asked}

(* The drive never waits for the program without having called it.         *)
NeverStalls ==
    Running(drive) /\ ~lost => drive.ip3 \/ armed \/ piInts > 0
=============================================================================
