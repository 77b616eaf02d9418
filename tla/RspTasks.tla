------------------------------ MODULE RspTasks ------------------------------
(***************************************************************************)
(* The RSP and the RDP as the program sees them: rcp/rsp/rsp_core.c,       *)
(* rcp/rdp/rdp_core.c and the part of rcp/vi/vi_controller.c that waits    *)
(* for them.  A task is run to its end, or to where it waits for the CPU,  *)
(* inside the write of SP_STATUS that starts it; its interrupts come later *)
(* from the event queue, or when the RDP is no longer frozen.  What a task *)
(* does is the RSP plugin's business and left open.  TASKDONE, which goes  *)
(* with HALT, single step and the signal bits are left out.                *)
(***************************************************************************)
EXTENDS Naturals, Sequences, RcpData

VARIABLES
    status,    \* SP_STATUS_REG: "HALT", "BROKE", "INTR_BREAK"
    locked,    \* rsp_task_locked, and INTR_UNSAFE_RSP with it
    spInts,    \* SP_INT events queued
    dpInts,    \* DP_INT events queued
    frozen,    \* DPC_STATUS_FREEZE
    deferred,  \* do_on_unfreeze
    fifo,      \* sp->fifo: empty, SP_DMA_BUSY, or SP_DMA_FULL
    dmaEvent,  \* an RSP_DMA_EVT event is queued
    mi,        \* lines of MI_INTR_REG, but for VI
    silent,    \* history: the last task broke and raised no interrupt
    owed,      \* history: an RDP is done and MI_INTR_DP has not been raised
    stale,     \* history: the picture was not updated at the last vertical interrupt
    dropped    \* history: an NMI dropped the event of a transfer

task == <<status, locked, spInts, silent>>
rdp == <<dpInts, frozen, deferred, owed, stale>>
dma == <<fifo, dmaEvent, dropped>>
vars == <<task, rdp, dma, mi>>

DpDelayed == "DELAY_DP_INT"
ScreenDelayed == "DELAY_UPDATESCREEN"

Init ==
    /\ status = {"HALT"} /\ locked = FALSE
    /\ spInts = 0 /\ dpInts = 0
    /\ frozen = FALSE /\ deferred = {}
    /\ fifo = <<>> /\ dmaEvent = FALSE /\ dropped = FALSE
    /\ mi = {}
    /\ silent = FALSE /\ owed = FALSE /\ stale = FALSE

Stopped(st) == st \cap {"HALT", "BROKE"} # {}

(* What a write w leaves of the bits st and the lines.                     *)
Written(st, w) ==
    ((st \ {b \in {"HALT", "BROKE", "INTR_BREAK"} :
               \/ b = "HALT" /\ "clear halt" \in w
               \/ b = "BROKE" /\ "clear broke" \in w
               \/ b = "INTR_BREAK" /\ "clear intr break" \in w})
     \cup {b \in {"HALT"} : "set halt" \in w})
     \cup {b \in {"INTR_BREAK"} : "set intr break" \in w}

Signalled(w) ==
    (mi \ {l \in {"SP"} : "clear intr" \in w}) \cup {l \in {"SP"} : "set intr" \in w}

-----------------------------------------------------------------------------
(* The interrupt of a display list: at once, or when the RDP goes on.      *)
FinishDisplayList ==
    /\ owed' = TRUE
    /\ \/ frozen /\ deferred' = deferred \cup {DpDelayed} /\ UNCHANGED dpInts
       \/ ~frozen /\ dpInts' = dpInts + 1 /\ UNCHANGED deferred

(* do_SP_Task.  The plugin leaves the task broken, or waiting for the CPU; *)
(* it may raise SP and, by way of the RDP, DP.                             *)
DoSpTask(st, lines) ==
    \E gfx, breaks, sp, dp \in BOOLEAN :
        LET line(l, raised) == l \in lines \/ raised
            DP == line("DP", dp)
            SP == line("SP", sp \/ ~breaks \/ "INTR_BREAK" \in st)
        IN  /\ locked' = ~breaks
            /\ spInts' = IF SP THEN spInts + 1 ELSE spInts
            /\ silent' = ~SP
            /\ status' = st \ {"HALT", "BROKE"}
            /\ mi' = (lines \ {"SP", "DP"}) \cup {l \in {"DP"} : DP /\ ~gfx}
            /\ \/ gfx /\ DP /\ FinishDisplayList
               \/ ~(gfx /\ DP) /\ UNCHANGED <<dpInts, deferred, owed>>

(* Mutant: a waiting task is left without its event.                       *)
WriteSpStatusTwice(w) ==
    /\ spInts < MaxEvents /\ dpInts < MaxEvents
    /\ LET st == Written(status, w)
       IN  \/ /\ \/ w \cap {"clear halt", "clear broke"} = {} /\ ~locked
                 \/ Stopped(st)
              /\ status' = st /\ mi' = Signalled(w)
              /\ UNCHANGED <<locked, spInts, silent, dpInts, deferred, owed>>
           \/ /\ w \cap {"clear halt", "clear broke"} # {} \/ locked
              /\ ~Stopped(st)
              /\ status' = st /\ locked' = FALSE /\ mi' = Signalled(w)
              /\ UNCHANGED <<spInts, silent, dpInts, deferred, owed>>
    /\ UNCHANGED <<frozen, stale, dma>>

(* A task that waits goes on at any write, but not before its SP_INT.      *)
WriteSpStatus(w) ==
    /\ spInts < MaxEvents /\ dpInts < MaxEvents
    /\ LET st == Written(status, w)
           runs == /\ ~(locked /\ spInts > 0)
                   /\ w \cap {"clear halt", "clear broke"} # {} \/ locked
                   /\ ~Stopped(st)
       IN  \/ runs /\ DoSpTask(st, Signalled(w))
           \/ /\ ~runs
              /\ status' = st /\ mi' = Signalled(w)
              /\ UNCHANGED <<locked, spInts, silent, dpInts, deferred, owed>>
    /\ UNCHANGED <<frozen, stale, dma>>

RspInterrupt ==
    /\ spInts > 0
    /\ spInts' = spInts - 1
    /\ status' = IF locked THEN status ELSE status \cup {"HALT", "BROKE"}
    /\ mi' = IF "INTR_BREAK" \in status THEN mi \cup {"SP"} ELSE mi
    /\ UNCHANGED <<locked, silent, rdp, dma>>

-----------------------------------------------------------------------------
(* Mutant: what was put off is forgotten before it is looked at.           *)
UnfreezeFirst ==
    /\ frozen' = FALSE /\ deferred' = {}
    /\ UNCHANGED <<mi, owed, stale>>

(* Mutant: what was put off is not forgotten.                              *)
UnfreezeAgain ==
    /\ frozen' = FALSE
    /\ mi' = IF DpDelayed \in deferred THEN mi \cup {"DP"} ELSE mi
    /\ owed' = (owed /\ DpDelayed \notin deferred)
    /\ stale' = (stale /\ ScreenDelayed \notin deferred)
    /\ UNCHANGED deferred

(* update_dpc_status: clearing FREEZE makes up for what was put off.       *)
Unfreeze ==
    /\ frozen' = FALSE
    /\ mi' = IF DpDelayed \in deferred THEN mi \cup {"DP"} ELSE mi
    /\ owed' = (owed /\ DpDelayed \notin deferred)
    /\ stale' = (stale /\ ScreenDelayed \notin deferred)
    /\ deferred' = {}

WriteDpcStatus ==
    /\ \/ Unfreeze
       \/ frozen' = TRUE /\ UNCHANGED <<deferred, mi, owed, stale>>
    /\ UNCHANGED <<task, dpInts, dma>>

(* write_dpc_regs, DPC_END: the plugin draws at once.                      *)
ProcessRdpList ==
    /\ mi' = mi \cup {"DP"}
    /\ owed' = FALSE
    /\ UNCHANGED <<task, dpInts, frozen, deferred, stale, dma>>

RdpInterrupt ==
    /\ dpInts > 0
    /\ dpInts' = dpInts - 1
    /\ mi' = mi \cup {"DP"}
    /\ owed' = FALSE
    /\ UNCHANGED <<task, frozen, deferred, stale, dma>>

VerticalInterrupt ==
    /\ deferred' = IF DpDelayed \in deferred THEN deferred \cup {ScreenDelayed} ELSE deferred
    /\ stale' = (DpDelayed \in deferred)
    /\ UNCHANGED <<task, dpInts, frozen, owed, dma, mi>>

AcknowledgeDp ==
    /\ mi' = mi \ {"DP"}
    /\ UNCHANGED <<task, rdp, dma>>

-----------------------------------------------------------------------------
(* Mutant: the transfer that follows is not started.                       *)
FifoPopOnly ==
    /\ dmaEvent
    /\ fifo' = Tail(fifo)
    /\ dmaEvent' = FALSE
    /\ UNCHANGED <<task, rdp, mi, dropped>>

(* A transfer is copied when it comes to the front; a third one is dropped.*)
FifoPush(t) ==
    /\ fifo' = IF Len(fifo) = 2 THEN fifo ELSE Append(fifo, t)
    /\ dmaEvent' = (dmaEvent \/ fifo = <<>>)
    /\ UNCHANGED <<task, rdp, mi, dropped>>

FifoPop ==
    /\ dmaEvent
    /\ fifo' = Tail(fifo)
    /\ dmaEvent' = (Len(fifo) = 2)
    /\ UNCHANGED <<task, rdp, mi, dropped>>

(* nmi_int_handler: pif_bootrom_hle_execute writes SP_STATUS to halt the   *)
(* RSP, and every event is dropped.  Nothing resets the FIFO or the RDP.   *)
Nmi ==
    /\ status' = Written(status, {"set halt", "clear intr"})
    /\ spInts' = 0 /\ dpInts' = 0 /\ dmaEvent' = FALSE
    /\ owed' = (owed /\ DpDelayed \in deferred)
    /\ dropped' = (dropped \/ dmaEvent)
    /\ UNCHANGED <<locked, silent, frozen, deferred, stale, fifo>>

Program ==
    \/ \E w \in Writes : WriteSpStatus(w)
    \/ WriteDpcStatus \/ ProcessRdpList \/ AcknowledgeDp
    \/ \E t \in Transfers : FifoPush(t)

Events == RspInterrupt \/ RdpInterrupt \/ VerticalInterrupt \/ FifoPop

Next == Program \/ Events \/ (Nmi /\ mi' = mi \ {"SP"})

Spec == Init /\ [][Next]_vars
-----------------------------------------------------------------------------
TypeOK ==
    /\ status \subseteq {"HALT", "BROKE", "INTR_BREAK"}
    /\ spInts \in 0 .. MaxEvents /\ dpInts \in 0 .. MaxEvents
    /\ deferred \subseteq {DpDelayed, ScreenDelayed}
    /\ fifo \in Seq(Transfers) /\ Len(fifo) <= 2
    /\ locked \in BOOLEAN /\ silent \in BOOLEAN /\ frozen \in BOOLEAN
    /\ owed \in BOOLEAN /\ stale \in BOOLEAN
    /\ dmaEvent \in BOOLEAN /\ dropped \in BOOLEAN

(* Work is put off while the RDP is frozen only, a picture only behind an  *)
(* interrupt, and no picture is missed for another reason.                 *)
PutOffWhileFrozen ==
    /\ deferred # {} => frozen /\ DpDelayed \in deferred
    /\ stale => ScreenDelayed \in deferred

(* While a task that was started is not reported as stopped, its SP_INT is *)
(* still to come or it waits for the CPU, unless it broke in silence.      *)
TaskIsReported == Stopped(status) \/ spInts > 0 \/ locked \/ silent

(* An RDP interrupt that is owed is queued or was put off.                 *)
OwedIsPending == owed => dpInts > 0 \/ DpDelayed \in deferred

(* The program hears of every picture the RDP has drawn, if it lets the    *)
(* RDP go on.                                                              *)
DpComes == (owed /\ ~frozen) ~> (~owed \/ frozen)

(* A full FIFO makes room, unless an NMI has dropped its event.            *)
FifoMovesOn == (Len(fifo) = 2) ~> (Len(fifo) < 2 \/ dropped)
=============================================================================
