-------------------------------- MODULE Rcp --------------------------------
(***************************************************************************)
(* The devices of the RCP and the disk drive in one machine: they share    *)
(* the MI, whose lines each sets and clears for itself, and an NMI, which  *)
(* drops the events of all of them at once.  As no device looks at another *)
(* one's state, a program uses one of them, which one is open.             *)
(***************************************************************************)
EXTENDS RcpData

VARIABLES
    unit,    \* the device the program uses
    mi,      \* MI_INTR_REG, but for VI
    aiStatus, aiFifo, lastRead, moved, carry, changed, dacrate, rate, aiEvent, heard,
    spStatus, locked, spInts, dpInts, frozen, deferred, spFifo, dmaEvent, silent, owed,
    stale, dropped,
    siStatus, dir, siInts, ram, channels, dram, polls, siLost,
    pi, piInts, addr, drive, bmWrite, bad, resetHeld, seen, armed, plan, sectorsMoved, piLost

ai == <<aiStatus, aiFifo, lastRead, moved, carry, changed, dacrate, rate, aiEvent, heard>>
rsp == <<spStatus, locked, spInts, dpInts, frozen, deferred, spFifo, dmaEvent, silent, owed,
         stale, dropped>>
si == <<siStatus, dir, siInts, ram, channels, dram, polls, siLost>>
dd == <<pi, piInts, addr, drive, bmWrite, bad, resetHeld, seen, armed, plan, sectorsMoved,
        piLost>>
vars == <<unit, mi, ai, rsp, si, dd>>

Ai == INSTANCE AudioInterface WITH status <- aiStatus, fifo <- aiFifo
Rsp == INSTANCE RspTasks WITH status <- spStatus, fifo <- spFifo
Si == INSTANCE SerialInterface WITH status <- siStatus, lost <- siLost
Dd == INSTANCE DiskDrive WITH moved <- sectorsMoved, lost <- piLost

Init ==
    /\ unit \in {"ai", "rsp", "si", "dd"}
    /\ Ai!Init /\ Rsp!Init /\ Si!Init /\ Dd!Init

-----------------------------------------------------------------------------
AiOnly == unit = "ai" /\ UNCHANGED <<unit, rsp, si, dd>>
RspOnly == unit = "rsp" /\ UNCHANGED <<unit, ai, si, dd>>
SiOnly == unit = "si" /\ UNCHANGED <<unit, ai, rsp, dd>>
DdOnly == unit = "dd" /\ UNCHANGED <<unit, ai, rsp, si>>

(* The events of the queue that end what the program has begun.            *)
AiEvent == AiOnly /\ Ai!EndOfDma
SpEvent == RspOnly /\ Rsp!RspInterrupt
DpEvent == RspOnly /\ Rsp!RdpInterrupt
SpDmaEvent == RspOnly /\ Rsp!FifoPop
ViEvent == RspOnly /\ Rsp!VerticalInterrupt
SiEvent == SiOnly /\ Si!EndOfDma
PiEvent == DdOnly /\ Dd!EndOfDma

Program ==
    \/ AiOnly /\ Ai!Program
    \/ RspOnly /\ Rsp!Program
    \/ SiOnly /\ Si!Program
    \/ DdOnly /\ Dd!Program

(* nmi_int_handler; without a PIF ROM, pif_bootrom_hle_execute takes back  *)
(* the interrupts of the SP and the PI, and of no other device.            *)
Nmi ==
    /\ Ai!Nmi /\ Rsp!Nmi /\ Si!Nmi /\ Dd!Nmi
    /\ mi' = mi \ {"SP", "PI"}
    /\ UNCHANGED unit

Next ==
    \/ Program
    \/ AiEvent \/ SpEvent \/ DpEvent \/ SpDmaEvent \/ ViEvent \/ SiEvent \/ PiEvent
    \/ Nmi

Spec == Init /\ [][Next]_vars

(* An event that is queued is handled (EventDispatch).                     *)
Fairness ==
    /\ WF_vars(AiEvent) /\ WF_vars(DpEvent) /\ WF_vars(SpDmaEvent) /\ WF_vars(SiEvent)

LiveSpec == Spec /\ Fairness
-----------------------------------------------------------------------------
TypeOK ==
    /\ unit \in {"ai", "rsp", "si", "dd"} /\ mi \subseteq {"SP", "SI", "AI", "PI", "DP"}
    /\ Ai!TypeOK /\ Rsp!TypeOK /\ Si!TypeOK /\ Dd!TypeOK

(* What the devices promise (see their modules): every sample once, ...    *)
AudioPlays == Ai!AudioPlays

(* ... no interrupt of the RDP and no picture lost to a freeze, ...        *)
PutOffWhileFrozen == Rsp!PutOffWhileFrozen
DpComes == Rsp!DpComes

(* ... no task without its report, ...                                     *)
TaskIsReported == Rsp!TaskIsReported

(* ... answers that belong to the commands in the PIF, ...                 *)
AnswersAreForTheBlock == Si!AnswersAreForTheBlock

(* ... every sector once and in its place, by a drive that never waits for *)
(* a program it has not called, ...                                        *)
TransferIsWhole == Dd!TransferIsWhole
NeverStalls == Dd!NeverStalls

(* ... and nothing stays full or busy for ever.                            *)
TransfersEnd == Ai!FifoMovesOn /\ Rsp!FifoMovesOn /\ Si!TransferEnds
=============================================================================
