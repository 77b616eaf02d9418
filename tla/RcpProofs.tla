------------------------------ MODULE RcpProofs ------------------------------
(***************************************************************************)
(* What the RSP and the RDP report, and what the serial interface brings   *)
(* to the RDRAM, in the machine of Rcp: for any writes, blocks and         *)
(* channels, and any bound on the events queued at the same time; that the *)
(* audio interface implements AudioStream, for any buffers and rates; and  *)
(* what the disk drive moves, for any number of sectors.                   *)
(* The invariant of a device is about its registers alone; the lemmas      *)
(* NextRsp, NextSi, NextAi and NextDd show that the rest of the machine    *)
(* leaves it alone.                                                        *)
(***************************************************************************)
EXTENDS Rcp, Integers, Sequences, TLAPS

-----------------------------------------------------------------------------
(* The RSP and the RDP.                                                    *)

(* Besides what is to be proved: an RDP interrupt that is owed is queued   *)
(* or was put off, and a transfer whose event is queued is in the FIFO.    *)
RspInv ==
    /\ Rsp!TypeOK
    /\ Rsp!PutOffWhileFrozen
    /\ Rsp!TaskIsReported
    /\ Rsp!OwedIsPending
    /\ dmaEvent => spFifo # <<>>

LEMMA InitRsp == Rsp!Init => RspInv
<1> SUFFICES ASSUME Rsp!Init PROVE RspInv
  OBVIOUS
<1>1. spFifo \in Seq(Transfers) /\ Len(spFifo) = 0
  BY DEF Rsp!Init
<1>2. 0 \in 0 .. MaxEvents
  BY MaxEventsAssumption
<1>3. Rsp!TypeOK
  <2>1. /\ locked \in BOOLEAN /\ silent \in BOOLEAN /\ frozen \in BOOLEAN
        /\ owed \in BOOLEAN /\ stale \in BOOLEAN
        /\ dmaEvent \in BOOLEAN /\ dropped \in BOOLEAN
    BY DEF Rsp!Init
  <2>2. /\ spStatus \subseteq {"HALT", "BROKE", "INTR_BREAK"}
        /\ deferred \subseteq {Rsp!DpDelayed, Rsp!ScreenDelayed}
        /\ spInts \in 0 .. MaxEvents /\ dpInts \in 0 .. MaxEvents
    BY <1>2 DEF Rsp!Init
  <2>3. Len(spFifo) <= 2
    BY <1>1
  <2> QED
    BY <1>1, <2>1, <2>2, <2>3 DEF Rsp!TypeOK
<1>4. Rsp!PutOffWhileFrozen /\ Rsp!TaskIsReported /\ Rsp!OwedIsPending
  BY DEF Rsp!Init, Rsp!PutOffWhileFrozen, Rsp!TaskIsReported, Rsp!Stopped,
         Rsp!OwedIsPending
<1> QED
  BY <1>3, <1>4 DEF Rsp!Init, RspInv

LEMMA WrittenBits ==
    ASSUME NEW st \in SUBSET {"HALT", "BROKE", "INTR_BREAK"}, NEW w
    PROVE  /\ Rsp!Written(st, w) \subseteq {"HALT", "BROKE", "INTR_BREAK"}
           /\ w \cap {"clear halt", "clear broke"} = {} /\ Rsp!Stopped(st)
                 => Rsp!Stopped(Rsp!Written(st, w))
           /\ "set halt" \in w => Rsp!Stopped(Rsp!Written(st, w))
BY DEF Rsp!Written, Rsp!Stopped

(* do_SP_Task leaves a task to report, or one that broke in silence.       *)
LEMMA DoSpTaskStep ==
    ASSUME RspInv, spInts < MaxEvents, dpInts < MaxEvents,
           NEW st \in SUBSET {"HALT", "BROKE", "INTR_BREAK"},
           NEW lines, Rsp!DoSpTask(st, lines), UNCHANGED <<frozen, stale, Rsp!dma>>
    PROVE  RspInv'
<1> DEFINE line(l, raised) == l \in lines \/ raised
           DP(dp) == line("DP", dp)
           SP(sp, breaks) == line("SP", sp \/ ~breaks \/ "INTR_BREAK" \in st)
<1>1. PICK gfx \in BOOLEAN, breaks \in BOOLEAN, sp \in BOOLEAN, dp \in BOOLEAN :
          /\ locked' = ~breaks
          /\ spInts' = IF SP(sp, breaks) THEN spInts + 1 ELSE spInts
          /\ silent' = ~SP(sp, breaks)
          /\ spStatus' = st \ {"HALT", "BROKE"}
          /\ mi' = (lines \ {"SP", "DP"}) \cup {l \in {"DP"} : DP(dp) /\ ~gfx}
          /\ \/ gfx /\ DP(dp) /\ Rsp!FinishDisplayList
             \/ ~(gfx /\ DP(dp)) /\ UNCHANGED <<dpInts, deferred, owed>>
  BY DEF Rsp!DoSpTask
<1>2. SP(sp, breaks) \in BOOLEAN
  OBVIOUS
<1> HIDE DEF SP, DP
<1>3. /\ spInts \in 0 .. MaxEvents /\ dpInts \in 0 .. MaxEvents /\ MaxEvents \in Nat
      /\ UNCHANGED <<frozen, stale, spFifo, dmaEvent, dropped>>
  BY MaxEventsAssumption DEF RspInv, Rsp!TypeOK, Rsp!dma
<1>4. spInts' \in 0 .. MaxEvents /\ (SP(sp, breaks) => spInts' > 0)
  BY <1>1, <1>3
<1>5. \/ /\ owed' = TRUE
         /\ \/ frozen /\ deferred' = deferred \cup {Rsp!DpDelayed} /\ UNCHANGED dpInts
            \/ ~frozen /\ dpInts' = dpInts + 1 /\ UNCHANGED deferred
      \/ UNCHANGED <<dpInts, deferred, owed>>
  BY <1>1 DEF Rsp!FinishDisplayList
<1>6. Rsp!TypeOK'
  <2>1. dpInts' \in 0 .. MaxEvents
    BY <1>3, <1>5
  <2>2. owed' \in BOOLEAN /\ deferred' \subseteq {Rsp!DpDelayed, Rsp!ScreenDelayed}
    BY <1>5 DEF RspInv, Rsp!TypeOK
  <2>3. locked' \in BOOLEAN /\ silent' \in BOOLEAN
    BY <1>1, <1>2
  <2>4. spStatus' \subseteq {"HALT", "BROKE", "INTR_BREAK"}
    BY <1>1
  <2> QED
    BY <1>3, <1>4, <2>1, <2>2, <2>3, <2>4 DEF RspInv, Rsp!TypeOK
<1>7. Rsp!PutOffWhileFrozen'
  BY <1>3, <1>5 DEF RspInv, Rsp!PutOffWhileFrozen
<1>8. Rsp!TaskIsReported'
  BY <1>1, <1>4 DEF Rsp!TaskIsReported
<1>9. Rsp!OwedIsPending'
  <2>1. CASE UNCHANGED <<dpInts, deferred, owed>>
    BY <2>1 DEF RspInv, Rsp!OwedIsPending
  <2>2. CASE deferred' = deferred \cup {Rsp!DpDelayed}
    BY <2>2 DEF Rsp!OwedIsPending
  <2>3. CASE dpInts' = dpInts + 1
    BY <2>3, <1>3 DEF Rsp!OwedIsPending
  <2> QED
    BY <1>5, <2>1, <2>2, <2>3
<1> QED
  BY <1>3, <1>6, <1>7, <1>8, <1>9 DEF RspInv

LEMMA WriteSpStatusStep ==
    ASSUME RspInv, NEW w \in Writes, Rsp!WriteSpStatus(w) PROVE RspInv'
<1> DEFINE st == Rsp!Written(spStatus, w)
<1>1. /\ st \in SUBSET {"HALT", "BROKE", "INTR_BREAK"}
      /\ w \cap {"clear halt", "clear broke"} = {} /\ Rsp!Stopped(spStatus) => Rsp!Stopped(st)
  BY WrittenBits DEF RspInv, Rsp!TypeOK
<1>3. UNCHANGED <<frozen, stale, Rsp!dma>> /\ spInts < MaxEvents /\ dpInts < MaxEvents
  BY DEF Rsp!WriteSpStatus
<1>4. \/ Rsp!DoSpTask(st, Rsp!Signalled(w))
      \/ /\ \/ locked /\ spInts > 0
            \/ w \cap {"clear halt", "clear broke"} = {}
            \/ Rsp!Stopped(st)
         /\ spStatus' = st /\ mi' = Rsp!Signalled(w)
         /\ UNCHANGED <<locked, spInts, silent, dpInts, deferred, owed>>
  BY DEF Rsp!WriteSpStatus
<1> HIDE DEF st
<1>5. CASE Rsp!DoSpTask(st, Rsp!Signalled(w))
  BY <1>1, <1>3, <1>5, DoSpTaskStep
<1>6. CASE /\ \/ locked /\ spInts > 0
              \/ w \cap {"clear halt", "clear broke"} = {}
              \/ Rsp!Stopped(st)
           /\ spStatus' = st /\ mi' = Rsp!Signalled(w)
           /\ UNCHANGED <<locked, spInts, silent, dpInts, deferred, owed>>
  <2>1. UNCHANGED <<spFifo, dmaEvent, dropped>>
    BY <1>3 DEF Rsp!dma
  <2>2. Rsp!TypeOK'
    BY <1>1, <1>3, <1>6, <2>1 DEF RspInv, Rsp!TypeOK
  <2>3. Rsp!TaskIsReported'
    BY <1>1, <1>6 DEF RspInv, Rsp!TaskIsReported, Rsp!Stopped
  <2> QED
    BY <1>3, <1>6, <2>1, <2>2, <2>3 DEF RspInv, Rsp!PutOffWhileFrozen, Rsp!OwedIsPending
<1> QED
  BY <1>4, <1>5, <1>6

LEMMA RspInterruptStep == ASSUME RspInv, Rsp!RspInterrupt PROVE RspInv'
<1>1. spInts' \in 0 .. MaxEvents
  BY MaxEventsAssumption DEF Rsp!RspInterrupt, RspInv, Rsp!TypeOK
<1>2. spStatus' \subseteq {"HALT", "BROKE", "INTR_BREAK"}
  BY DEF Rsp!RspInterrupt, RspInv, Rsp!TypeOK
<1>3. locked \/ Rsp!Stopped(spStatus')
  BY DEF Rsp!RspInterrupt, Rsp!Stopped
<1>4. UNCHANGED <<locked, silent, dpInts, frozen, deferred, owed, stale, spFifo, dmaEvent,
                  dropped>>
  BY DEF Rsp!RspInterrupt, Rsp!rdp, Rsp!dma
<1> QED
  BY <1>1, <1>2, <1>3, <1>4
     DEF RspInv, Rsp!TypeOK, Rsp!PutOffWhileFrozen, Rsp!TaskIsReported, Rsp!Stopped,
         Rsp!OwedIsPending

(* The steps that leave the RSP's task alone.                              *)
LEMMA RdpSteps ==
    ASSUME RspInv,
           \/ Rsp!WriteDpcStatus \/ Rsp!ProcessRdpList
           \/ Rsp!RdpInterrupt \/ Rsp!VerticalInterrupt
    PROVE  RspInv'
<1>1. UNCHANGED <<spStatus, locked, spInts, silent, spFifo, dmaEvent, dropped>>
  BY DEF Rsp!WriteDpcStatus, Rsp!ProcessRdpList, Rsp!RdpInterrupt,
         Rsp!VerticalInterrupt, Rsp!task, Rsp!dma
<1>2. Rsp!TaskIsReported'
  BY <1>1 DEF RspInv, Rsp!TaskIsReported, Rsp!Stopped
<1>3. CASE Rsp!WriteDpcStatus
  <2>1. CASE Rsp!Unfreeze
    BY <1>1, <1>2, <1>3, <2>1
       DEF Rsp!WriteDpcStatus, Rsp!Unfreeze, RspInv, Rsp!TypeOK, Rsp!PutOffWhileFrozen,
           Rsp!OwedIsPending
  <2>2. CASE frozen' = TRUE /\ UNCHANGED <<deferred, mi, owed, stale>>
    BY <1>1, <1>2, <1>3, <2>2
       DEF Rsp!WriteDpcStatus, RspInv, Rsp!TypeOK, Rsp!PutOffWhileFrozen,
           Rsp!OwedIsPending
  <2> QED
    BY <1>3, <2>1, <2>2 DEF Rsp!WriteDpcStatus
<1>4. CASE Rsp!ProcessRdpList
  BY <1>1, <1>2, <1>4 DEF Rsp!ProcessRdpList, RspInv, Rsp!TypeOK, Rsp!PutOffWhileFrozen,
                          Rsp!OwedIsPending
<1>5. CASE Rsp!RdpInterrupt
  <2>1. dpInts' \in 0 .. MaxEvents
    BY <1>5, MaxEventsAssumption DEF Rsp!RdpInterrupt, RspInv, Rsp!TypeOK
  <2> QED
    BY <1>1, <1>2, <1>5, <2>1 DEF Rsp!RdpInterrupt, RspInv, Rsp!TypeOK,
                                  Rsp!PutOffWhileFrozen, Rsp!OwedIsPending
<1>6. CASE Rsp!VerticalInterrupt
  <2>1. /\ deferred' = IF Rsp!DpDelayed \in deferred THEN deferred \cup {Rsp!ScreenDelayed}
                                                ELSE deferred
        /\ stale' = (Rsp!DpDelayed \in deferred)
        /\ UNCHANGED <<dpInts, frozen, owed, mi>>
    BY <1>6 DEF Rsp!VerticalInterrupt
  <2>2. Rsp!TypeOK'
    BY <1>1, <2>1 DEF RspInv, Rsp!TypeOK
  <2>3. Rsp!PutOffWhileFrozen'
    BY <2>1 DEF RspInv, Rsp!PutOffWhileFrozen
  <2>4. Rsp!OwedIsPending'
    BY <2>1 DEF RspInv, Rsp!OwedIsPending
  <2> QED
    BY <1>1, <1>2, <2>2, <2>3, <2>4 DEF RspInv
<1> QED
  BY <1>3, <1>4, <1>5, <1>6

LEMMA RoomForOne == ASSUME NEW n \in Nat, n <= 2, n # 2 PROVE n + 1 <= 2
OBVIOUS

LEMMA SecondRemains ==
    ASSUME NEW s \in Seq(Transfers), Len(s) = 2
    PROVE  Tail(s) # <<>>
<1> SUFFICES ASSUME Tail(s) = <<>> PROVE FALSE
  OBVIOUS
<1>1. Len(Tail(s)) = Len(s) - 1
  BY SMTT(30)
<1>2. Len(Tail(s)) = 0
  <2>1. Len(<<>>) = 0
    OBVIOUS
  <2> QED
    BY <2>1, Zenon
<1> QED
  BY <1>1, <1>2

LEMMA FifoSteps ==
    ASSUME RspInv, Rsp!AcknowledgeDp \/ Rsp!FifoPop \/ (\E t \in Transfers : Rsp!FifoPush(t))
    PROVE  RspInv'
<1>1. UNCHANGED <<Rsp!task, Rsp!rdp>>
  BY DEF Rsp!AcknowledgeDp, Rsp!FifoPop, Rsp!FifoPush
<1>2. Rsp!PutOffWhileFrozen' /\ Rsp!TaskIsReported' /\ Rsp!OwedIsPending'
  BY <1>1 DEF Rsp!task, Rsp!rdp, RspInv, Rsp!PutOffWhileFrozen, Rsp!TaskIsReported,
              Rsp!Stopped, Rsp!OwedIsPending
<1>3. /\ dropped' \in BOOLEAN
      /\ spFifo' \in Seq(Transfers) /\ Len(spFifo') <= 2
      /\ dmaEvent' \in BOOLEAN /\ (dmaEvent' => spFifo' # <<>>)
  <2>1. CASE Rsp!AcknowledgeDp
    BY <2>1 DEF Rsp!AcknowledgeDp, Rsp!dma, RspInv, Rsp!TypeOK
  <2>2. CASE Rsp!FifoPop
    <3>1. spFifo \in Seq(Transfers) /\ spFifo # <<>> /\ Len(spFifo) <= 2
      BY <2>2 DEF Rsp!FifoPop, RspInv, Rsp!TypeOK
    <3>2. Tail(spFifo) \in Seq(Transfers) /\ Len(Tail(spFifo)) = Len(spFifo) - 1
      BY <3>1
    <3>3. Len(spFifo) = 2 => Tail(spFifo) # <<>>
      BY <3>1, SecondRemains
    <3>4. Len(Tail(spFifo)) <= 2
      BY <3>1, <3>2
    <3> QED
      BY <2>2, <3>2, <3>3, <3>4 DEF Rsp!FifoPop, RspInv, Rsp!TypeOK
  <2>3. CASE \E t \in Transfers : Rsp!FifoPush(t)
    <3>1. PICK t \in Transfers : Rsp!FifoPush(t)
      BY <2>3
    <3>2. spFifo \in Seq(Transfers) /\ Len(spFifo) <= 2 /\ Len(spFifo) \in Nat
      BY DEF RspInv, Rsp!TypeOK
    <3>3. Append(spFifo, t) \in Seq(Transfers) /\ Len(Append(spFifo, t)) = Len(spFifo) + 1
      BY <3>2
    <3>4. Append(spFifo, t) # <<>>
      BY <3>2, <3>3
    <3>5. CASE Len(spFifo) = 2
      <4>1. spFifo # <<>>
        <5>1. Len(<<>>) # 2
          OBVIOUS
        <5> QED
          BY <3>5, <5>1, Zenon
      <4>2. dmaEvent \in BOOLEAN
        BY DEF RspInv, Rsp!TypeOK
      <4>3. spFifo' = spFifo /\ dmaEvent' = dmaEvent /\ UNCHANGED <<mi, dropped>>
        BY <3>1, <3>5, <4>1, <4>2 DEF Rsp!FifoPush
      <4> QED
        BY <4>3 DEF RspInv, Rsp!TypeOK
    <3>6. CASE Len(spFifo) # 2
      <4>1. spFifo' = Append(spFifo, t) /\ UNCHANGED <<mi, dropped>>
        BY <3>1, <3>6 DEF Rsp!FifoPush
      <4>2. dmaEvent' \in BOOLEAN
        BY <3>1 DEF Rsp!FifoPush, RspInv, Rsp!TypeOK
      <4> QED
        <5>1. spFifo' \in Seq(Transfers) /\ spFifo' # <<>> /\ Len(spFifo') <= 2
          <6>1. Len(spFifo) + 1 <= 2
            BY <3>2, <3>6, RoomForOne
          <6> QED
            BY <3>3, <3>4, <4>1, <6>1
        <5>2. dropped' \in BOOLEAN
          BY <4>1 DEF RspInv, Rsp!TypeOK
        <5> QED
          BY <4>2, <5>1, <5>2
    <3> QED
      BY <3>5, <3>6
  <2> QED
    BY <2>1, <2>2, <2>3
<1> QED
  BY <1>1, <1>2, <1>3 DEF Rsp!task, Rsp!rdp, RspInv, Rsp!TypeOK

LEMMA RspNmiStep == ASSUME RspInv, Rsp!Nmi PROVE RspInv'
<1>1. Rsp!Stopped(spStatus') /\ spStatus' \subseteq {"HALT", "BROKE", "INTR_BREAK"}
  BY WrittenBits DEF Rsp!Nmi, RspInv, Rsp!TypeOK
<1>2. /\ spInts' = 0 /\ dpInts' = 0 /\ dmaEvent' = FALSE
      /\ owed' = (owed /\ Rsp!DpDelayed \in deferred) /\ dropped' = (dropped \/ dmaEvent)
      /\ UNCHANGED <<locked, silent, frozen, deferred, stale, spFifo>>
  BY DEF Rsp!Nmi
<1>3. Rsp!TypeOK'
  <2>1. owed' \in BOOLEAN /\ dropped' \in BOOLEAN /\ dmaEvent' \in BOOLEAN
    BY <1>2 DEF RspInv, Rsp!TypeOK
  <2>2. spInts' \in 0 .. MaxEvents /\ dpInts' \in 0 .. MaxEvents
    BY <1>2, MaxEventsAssumption
  <2> QED
    BY <1>1, <1>2, <2>1, <2>2 DEF RspInv, Rsp!TypeOK
<1>4. Rsp!PutOffWhileFrozen' /\ Rsp!OwedIsPending'
  BY <1>2 DEF RspInv, Rsp!PutOffWhileFrozen, Rsp!OwedIsPending
<1>5. Rsp!TaskIsReported'
  BY <1>1 DEF Rsp!TaskIsReported
<1> QED
  BY <1>2, <1>3, <1>4, <1>5 DEF RspInv

-----------------------------------------------------------------------------
(* The other devices, and the program when it uses one of them, leave the  *)
(* RSP and the RDP alone.                                                  *)
LEMMA NextRsp == [Next]_vars => Rsp!Program \/ Rsp!Events \/ Rsp!Nmi \/ UNCHANGED rsp
<1> SUFFICES ASSUME [Next]_vars
             PROVE  Rsp!Program \/ Rsp!Events \/ Rsp!Nmi \/ UNCHANGED rsp
  OBVIOUS
<1>1. CASE Program
  BY <1>1 DEF Program, AiOnly, RspOnly, SiOnly, DdOnly
<1>2. CASE SpEvent \/ DpEvent \/ SpDmaEvent \/ ViEvent
  BY <1>2 DEF SpEvent, DpEvent, SpDmaEvent, ViEvent, Rsp!Events
<1>3. CASE AiEvent \/ SiEvent \/ PiEvent
  BY <1>3 DEF AiEvent, SiEvent, PiEvent, AiOnly, SiOnly, DdOnly
<1>4. CASE Nmi
  BY <1>4 DEF Nmi
<1>5. CASE UNCHANGED vars
  BY <1>5 DEF vars
<1> QED
  BY <1>1, <1>2, <1>3, <1>4, <1>5 DEF Next

LEMMA NextRspInv == RspInv /\ [Next]_vars => RspInv'
<1> SUFFICES ASSUME RspInv, [Next]_vars PROVE RspInv'
  OBVIOUS
<1>1. CASE Rsp!Program
  BY <1>1, WriteSpStatusStep, RdpSteps, FifoSteps DEF Rsp!Program
<1>2. CASE Rsp!Events
  BY <1>2, RspInterruptStep, RdpSteps, FifoSteps DEF Rsp!Events
<1>3. CASE Rsp!Nmi
  BY <1>3, RspNmiStep
<1>4. CASE UNCHANGED rsp
  BY <1>4 DEF rsp, RspInv, Rsp!TypeOK, Rsp!PutOffWhileFrozen, Rsp!TaskIsReported,
              Rsp!Stopped, Rsp!OwedIsPending
<1> QED
  BY <1>1, <1>2, <1>3, <1>4, NextRsp

LEMMA SpecRspInv == Spec => []RspInv
<1>1. Init => RspInv
  BY InitRsp DEF Init
<1> QED
  BY <1>1, NextRspInv, PTL DEF Spec

(* do_on_unfreeze holds work only while the RDP is frozen, and a picture   *)
(* only behind an interrupt: nothing is made up for twice.                 *)
THEOREM PutOffIsMadeUpOnce == Spec => []PutOffWhileFrozen
<1>1. RspInv => PutOffWhileFrozen
  BY DEF RspInv, PutOffWhileFrozen
<1> QED
  BY <1>1, SpecRspInv, PTL

(* A task that was started and is not marked as stopped has its SP_INT     *)
(* queued or waits for the CPU, unless it broke in silence.                *)
THEOREM NoTaskIsLost == Spec => []TaskIsReported
<1>1. RspInv => TaskIsReported
  BY DEF RspInv, TaskIsReported
<1> QED
  BY <1>1, SpecRspInv, PTL

(* The program's picture: an RDP interrupt that it has not had is queued   *)
(* or was put off, whatever was frozen, thawed or reset in between.        *)
THEOREM NoInterruptIsLost == Spec => []Rsp!OwedIsPending
<1>1. RspInv => Rsp!OwedIsPending
  BY DEF RspInv
<1> QED
  BY <1>1, SpecRspInv, PTL

-----------------------------------------------------------------------------
(* The serial interface and the PIF.                                       *)

(* The program waits for the interface before it writes to the PIF, and    *)
(* its blocks are set up, or are a CIC challenge, and set every channel.   *)
Polite ==
    /\ ~EarlyIo
    /\ \A b \in Blocks : b.flag # "none" /\ \A k \in Channels : b.for[k] # "keep"

(* Every channel that is set up finds its command in this block.           *)
Agree == \A k \in Channels : channels[k] \in Blocks => channels[k] = ram.block

(* The block in the PIF is understood later than it is copied: until then  *)
(* its flag is still there and its event queued.  While the answers of a   *)
(* read are on their way nothing changes them.                             *)
SiInv ==
    /\ Si!TypeOK
    /\ siInts > 0 => siInts = 1 /\ Si!Busy
    /\ Agree \/ (dir = "write" /\ siInts > 0 /\ ram.flag # "none")
    /\ dir = "read" /\ siInts > 0 =>
          \A k \in Channels : channels[k] \in Blocks =>
             ram.answers[k] = [of |-> ram.block, poll |-> polls]

(* The device's own flags are the flags of the blocks.                     *)
LEMMA SameFlags == Si!Flags = Flags
BY DEF Si!Flags, Flags

LEMMA NoBlockIsNone == NoBlock \notin Blocks
BY BlocksAssumption

LEMMA InitSi == Si!Init => SiInv
<1> SUFFICES ASSUME Si!Init PROVE SiInv
  OBVIOUS
<1>1. /\ Si!Fresh(NoBlock).answers = [k \in Channels |-> Si!NoAnswer]
      /\ Si!NoAnswer \in Si!Answers
  BY DEF Si!Fresh, Si!NoAnswer, Si!Answers
<1>2. ram = [block |-> NoBlock, flag |-> "none", answers |-> [k \in Channels |-> Si!NoAnswer]]
  BY <1>1 DEF Si!Init
<1>3. dram = [block |-> NoBlock, answers |-> [k \in Channels |-> Si!NoAnswer]]
  BY DEF Si!Init, Si!Fresh
<1>4. /\ ram \in Si!Rams
      /\ dram \in Si!Drams
  BY <1>1, <1>2, <1>3 DEF Si!Flags, Si!Rams, Si!Drams
<1>5. Si!TypeOK
  <2>1. siInts \in 0 .. MaxEvents /\ polls \in 0 .. 2 /\ siLost \in BOOLEAN
    <3>1. siInts = 0 /\ polls = 0 /\ siLost = FALSE
      BY DEF Si!Init
    <3>2. MaxEvents \in Nat
      BY MaxEventsAssumption
    <3>3. siInts \in 0 .. MaxEvents /\ polls \in 0 .. 2
      BY <3>1, <3>2
    <3> QED
      BY <3>1, <3>3
  <2>2. /\ siStatus \subseteq {"DMA_BUSY", "IO_BUSY", "DMA_ERROR", "INTERRUPT"}
        /\ dir \in {"none", "write", "read"}
        /\ channels \in [Channels -> Blocks \cup {NoBlock}]
    BY DEF Si!Init
  <2> QED
    BY <1>4, <2>1, <2>2 DEF Si!TypeOK
<1>6. Agree
  BY NoBlockIsNone DEF Si!Init, Agree
<1> QED
  BY <1>5, <1>6 DEF Si!Init, SiInv

LEMMA WriteDmaStep ==
    ASSUME Polite, SiInv, NEW b \in Blocks, Si!WriteDma(b) PROVE SiInv'
<1>1. b.flag \in Flags /\ b.flag # "none"
  BY BlocksAssumption DEF Polite
<1>2. /\ ~Si!Busy /\ siInts < MaxEvents /\ dir' = "write"
      /\ siStatus' = siStatus \cup {"DMA_BUSY"} /\ siInts' = siInts + 1
      /\ ram' = [block |-> b, flag |-> b.flag, answers |-> Si!Fresh(b).answers]
      /\ UNCHANGED <<channels, dram, mi, polls, siLost>>
  BY DEF Si!WriteDma, Si!StartDma
<1>3. siInts = 0 /\ MaxEvents \in Nat
  BY <1>2, MaxEventsAssumption DEF SiInv, Si!TypeOK
<1>4. Si!Fresh(b).answers \in [Channels -> Si!Answers]
  BY DEF Si!Fresh, Si!NoAnswer, Si!Answers
<1>5. Si!TypeOK'
  <2>1. ram' \in Si!Rams
    BY <1>1, <1>2, <1>4, SameFlags DEF Si!Rams
  <2>2. siInts' \in 0 .. MaxEvents
    BY <1>2, <1>3
  <2> QED
    BY <1>2, <2>1, <2>2 DEF SiInv, Si!TypeOK
<1>6. siInts' = 1 /\ Si!Busy' /\ dir' = "write" /\ ram'.flag # "none"
  BY <1>1, <1>2, <1>3 DEF Si!Busy
<1> QED
  BY <1>5, <1>6 DEF SiInv

LEMMA ReadDmaStep == ASSUME SiInv, Si!ReadDma PROVE SiInv'
<1>1. /\ ~Si!Busy /\ siInts < MaxEvents /\ dir' = "read"
      /\ siStatus' = siStatus \cup {"DMA_BUSY"} /\ siInts' = siInts + 1
      /\ polls' = (polls + 1) % 3
      /\ UNCHANGED <<channels, dram, mi, siLost>>
  BY DEF Si!ReadDma, Si!StartDma
<1>2. siInts = 0 /\ MaxEvents \in Nat
  BY <1>1, MaxEventsAssumption DEF SiInv, Si!TypeOK
<1>3. polls' \in 0 .. 2
  BY <1>1 DEF SiInv, Si!TypeOK
<1> DEFINE answers == [k \in Channels |-> IF channels[k] \in Blocks
                                          THEN [of |-> channels[k], poll |-> polls']
                                          ELSE ram.answers[k]]
<1>4. ram.answers \in [Channels -> Si!Answers]
  BY DEF SiInv, Si!TypeOK, Si!Rams
<1>5. answers \in [Channels -> Si!Answers]
  BY <1>3, <1>4 DEF Si!Answers
<1>6. ram' = [ram EXCEPT !.answers = answers]
  BY DEF Si!ReadDma, Si!Update
<1>7. \A k \in Channels : channels[k] \in Blocks =>
          answers[k] = [of |-> channels[k], poll |-> polls']
  OBVIOUS
<1> HIDE DEF answers
<1>8. /\ ram'.block = ram.block /\ ram'.flag = ram.flag /\ ram'.answers = answers
      /\ ram' \in Si!Rams
  BY <1>5, <1>6 DEF SiInv, Si!TypeOK, Si!Rams
<1>9. Si!TypeOK'
  <2>1. siInts' \in 0 .. MaxEvents
    BY <1>1, <1>2
  <2> QED
    BY <1>1, <1>3, <1>8, <2>1 DEF SiInv, Si!TypeOK
<1>10. siInts' = 1 /\ Si!Busy'
  BY <1>1, <1>2 DEF Si!Busy
<1>11. Agree
  BY <1>2 DEF SiInv
<1>12. Agree'
  BY <1>1, <1>8, <1>11 DEF Agree
<1>13. \A k \in Channels : channels'[k] \in Blocks =>
          ram'.answers[k] = [of |-> ram'.block, poll |-> polls']
  BY <1>1, <1>7, <1>8, <1>11 DEF Agree
<1> QED
  BY <1>9, <1>10, <1>12, <1>13 DEF SiInv

LEMMA WritePifStep ==
    ASSUME Polite, SiInv, NEW flag \in Flags, Si!WritePif(flag) PROVE SiInv'
<1>1. /\ ~Si!Busy \/ siInts = 0
      /\ siInts < MaxEvents /\ ram' = [ram EXCEPT !.flag = flag] /\ dir' = "write"
      /\ siStatus' = siStatus \cup {"DMA_BUSY", "IO_BUSY"} /\ siInts' = siInts + 1
      /\ siLost' = FALSE /\ UNCHANGED <<channels, dram, mi, polls>>
  BY DEF Polite, Si!WritePif
<1>2. siInts = 0 /\ MaxEvents \in Nat
  BY <1>1, MaxEventsAssumption DEF SiInv, Si!TypeOK
<1>3. /\ ram'.block = ram.block
      /\ ram' \in Si!Rams
  BY <1>1, SameFlags DEF SiInv, Si!TypeOK, Si!Rams
<1>4. Si!TypeOK'
  <2>1. siInts' \in 0 .. MaxEvents
    BY <1>1, <1>2
  <2> QED
    BY <1>1, <1>3, <2>1 DEF SiInv, Si!TypeOK
<1>5. Agree
  BY <1>2 DEF SiInv
<1>6. Agree'
  BY <1>1, <1>3, <1>5 DEF Agree
<1>7. siInts' = 1 /\ Si!Busy' /\ dir' # "read"
  BY <1>1, <1>2 DEF Si!Busy
<1> QED
  BY <1>4, <1>6, <1>7 DEF SiInv

(* A block that is understood sets every channel to itself or to nothing.  *)
LEMMA ProcessAgrees ==
    ASSUME Polite, SiInv, Si!Process, Agree \/ ram.flag # "none"
    PROVE  /\ Agree'
           /\ ram' \in Si!Rams
           /\ channels' \in [Channels -> Blocks \cup {NoBlock}]
<1>1. ram' = [ram EXCEPT !.flag = "none"]
  BY DEF Si!Process
<1>2. /\ ram'.block = ram.block
      /\ ram' \in Si!Rams
  BY <1>1 DEF SiInv, Si!TypeOK, Si!Rams, Si!Flags
<1>3. CASE ram.flag = "setup" /\ ram.block \in Blocks
  <2>1. channels' = Si!SetUp(ram.block)
    BY <1>3 DEF Si!Process
  <2>2. \A k \in Channels :
           Si!SetUp(ram.block)[k] = IF ram.block.for[k] = "command" THEN ram.block ELSE NoBlock
    BY <1>3 DEF Polite, Si!SetUp
  <2>3. Si!SetUp(ram.block) \in [Channels -> Blocks \cup {NoBlock}]
    <3>1. /\ DOMAIN Si!SetUp(ram.block) = Channels
          /\ Si!SetUp(ram.block) = [k \in Channels |-> Si!SetUp(ram.block)[k]]
      BY DEF Si!SetUp
    <3>2. \A k \in Channels : Si!SetUp(ram.block)[k] \in Blocks \cup {NoBlock}
      BY <1>3, <2>2
    <3> QED
      BY <3>1, <3>2
  <2>4. \A k \in Channels : channels'[k] \in Blocks => channels'[k] = ram'.block
    BY <1>2, <2>1, <2>2, NoBlockIsNone
  <2> QED
    BY <1>2, <2>1, <2>3, <2>4 DEF Agree
<1>4. CASE ram.flag = "none"
  <2>1. channels' = channels
    BY <1>4 DEF Si!Process
  <2> QED
    BY <1>2, <1>4, <2>1 DEF Agree, SiInv, Si!TypeOK
<1>5. CASE ram.flag # "none" /\ ~(ram.flag = "setup" /\ ram.block \in Blocks)
  <2>1. channels' = Si!Off
    BY <1>5 DEF Si!Process
  <2> QED
    BY <1>2, <2>1, NoBlockIsNone DEF Si!Off, Agree
<1> QED
  BY <1>3, <1>4, <1>5

LEMMA SiEndOfDmaStep == ASSUME Polite, SiInv, Si!EndOfDma PROVE SiInv'
<1>1. /\ siInts > 0 /\ siInts' = siInts - 1 /\ dir' = "none"
      /\ siStatus' = (siStatus \ {"DMA_BUSY", "IO_BUSY"}) \cup {"INTERRUPT"}
      /\ mi' = mi \cup {"SI"} /\ UNCHANGED <<polls, siLost>>
  BY DEF Si!EndOfDma
<1>2. siInts' = 0 /\ siInts' \in 0 .. MaxEvents
  BY <1>1, MaxEventsAssumption DEF SiInv, Si!TypeOK
<1>3. /\ Agree' /\ channels' \in [Channels -> Blocks \cup {NoBlock}]
      /\ ram' \in Si!Rams
      /\ dram' \in Si!Drams
  <2>1. CASE dir = "write" /\ Si!Process /\ UNCHANGED dram
    BY <2>1, ProcessAgrees DEF SiInv, Si!TypeOK
  <2>2. CASE dir = "read" /\ dram' = [block |-> ram.block, answers |-> ram.answers]
             /\ UNCHANGED <<channels, ram>>
    BY <2>2 DEF SiInv, Si!TypeOK, Si!Rams, Si!Drams, Agree
  <2>3. CASE dir = "none" /\ UNCHANGED <<channels, ram, dram>>
    BY <2>3 DEF SiInv, Si!TypeOK, Agree
  <2> QED
    BY <2>1, <2>2, <2>3 DEF Si!EndOfDma
<1>4. Si!TypeOK'
  BY <1>1, <1>2, <1>3 DEF SiInv, Si!TypeOK
<1> QED
  BY <1>1, <1>2, <1>3, <1>4 DEF SiInv

LEMMA SiNmiStep == ASSUME SiInv, Si!Nmi PROVE SiInv'
<1>1. /\ channels' = Si!Off /\ ram' = [ram EXCEPT !.flag = "none"] /\ siInts' = 0
      /\ siLost' = Si!Busy /\ UNCHANGED <<siStatus, dir, dram, polls>>
  BY DEF Si!Nmi
<1>2. ram' \in Si!Rams
  BY <1>1 DEF SiInv, Si!TypeOK, Si!Rams, Si!Flags
<1>3. siLost' \in BOOLEAN
  BY <1>1 DEF Si!Busy
<1>4. Si!TypeOK'
  BY <1>1, <1>2, <1>3, MaxEventsAssumption DEF SiInv, Si!TypeOK, Si!Off
<1>5. Agree'
  BY <1>1, NoBlockIsNone DEF Agree, Si!Off
<1> QED
  BY <1>1, <1>4, <1>5 DEF SiInv

LEMMA SiOtherSteps == ASSUME SiInv, Si!Refuse \/ Si!WriteStatus PROVE SiInv'
<1>1. UNCHANGED <<dir, siInts, ram, channels, dram, polls, siLost>>
  BY DEF Si!Refuse, Si!WriteStatus
<1>2. /\ siStatus' \subseteq {"DMA_BUSY", "IO_BUSY", "DMA_ERROR", "INTERRUPT"}
      /\ Si!Busy => Si!Busy'
  BY DEF Si!Refuse, Si!WriteStatus, SiInv, Si!TypeOK, Si!Busy
<1> QED
  BY <1>1, <1>2 DEF SiInv, Si!TypeOK, Agree

-----------------------------------------------------------------------------
(* The other devices, and the program when it uses one of them, leave the  *)
(* serial interface alone.                                                 *)
LEMMA NextSi == [Next]_vars => Si!Program \/ Si!EndOfDma \/ Si!Nmi \/ UNCHANGED si
<1> SUFFICES ASSUME [Next]_vars PROVE Si!Program \/ Si!EndOfDma \/ Si!Nmi \/ UNCHANGED si
  OBVIOUS
<1>1. CASE Program
  BY <1>1 DEF Program, AiOnly, RspOnly, SiOnly, DdOnly
<1>2. CASE SiEvent
  BY <1>2 DEF SiEvent
<1>3. CASE AiEvent \/ SpEvent \/ DpEvent \/ SpDmaEvent \/ ViEvent \/ PiEvent
  BY <1>3 DEF AiEvent, SpEvent, DpEvent, SpDmaEvent, ViEvent, PiEvent, AiOnly, RspOnly,
              DdOnly
<1>4. CASE Nmi
  BY <1>4 DEF Nmi
<1>5. CASE UNCHANGED vars
  BY <1>5 DEF vars
<1> QED
  BY <1>1, <1>2, <1>3, <1>4, <1>5 DEF Next

LEMMA NextSiInv == Polite /\ SiInv /\ [Next]_vars => SiInv'
<1> SUFFICES ASSUME Polite, SiInv, [Next]_vars PROVE SiInv'
  OBVIOUS
<1>1. CASE Si!Program
  BY <1>1, WriteDmaStep, ReadDmaStep, WritePifStep, SiOtherSteps, SameFlags DEF Si!Program
<1>2. CASE Si!EndOfDma
  BY <1>2, SiEndOfDmaStep
<1>3. CASE Si!Nmi
  BY <1>3, SiNmiStep
<1>4. CASE UNCHANGED si
  BY <1>4 DEF si, SiInv, Si!TypeOK, Si!Busy, Agree
<1> QED
  BY <1>1, <1>2, <1>3, <1>4, NextSi

(* Only the end of a transfer makes a read into none.                      *)
LEMMA AnswersStep ==
    ASSUME SiInv, [Next]_vars, dir = "read", dir' = "none",
           NEW k \in Channels, channels[k] \in Blocks
    PROVE  dram'.answers[k] = [of |-> dram'.block, poll |-> polls]
<1>1. CASE Si!EndOfDma
  <2>1. siInts > 0 /\ dram' = [block |-> ram.block, answers |-> ram.answers]
    BY <1>1 DEF Si!EndOfDma
  <2>2. ram.answers[k] = [of |-> ram.block, poll |-> polls]
    BY <2>1 DEF SiInv
  <2> QED
    BY <2>1, <2>2
<1>2. ~Si!Program
  BY DEF Si!Program, Si!Refuse, Si!WriteDma, Si!ReadDma, Si!StartDma, Si!WritePif,
         Si!WriteStatus
<1>3. ~Si!Nmi /\ ~UNCHANGED si
  BY DEF Si!Nmi, si
<1> QED
  BY <1>1, <1>2, <1>3, NextSi

(* Every answer a read brings to the RDRAM was given for this read, to a   *)
(* command of the block that is in the PIF, for any number of channels:    *)
(* provided that the program waits before it writes to the PIF, and that   *)
(* its blocks leave no channel as it was.                                  *)
THEOREM AnswersBelong ==
    ASSUME Polite PROVE Spec => AnswersAreForTheBlock
<1>1. SiInv /\ [Next]_vars =>
         (dir = "read" /\ dir' = "none" =>
            \A k \in Channels : channels[k] \in Blocks =>
               dram'.answers[k] = [of |-> dram'.block, poll |-> polls])
  BY AnswersStep
<1>2. SiInv /\ [Next]_vars => SiInv'
  BY NextSiInv
<1>3. Init => SiInv
  BY InitSi DEF Init
<1> QED
  BY <1>1, <1>2, <1>3, PTL DEF Spec, AnswersAreForTheBlock, Si!AnswersAreForTheBlock

-----------------------------------------------------------------------------
(* The audio interface: the two-entry FIFO, with what it passes on early   *)
(* and late, implements the stream of AudioStream.                         *)

(* The registers agree with each other (Consistent); without it a full     *)
(* FIFO might promote an entry nobody has written, or a rate that is not   *)
(* marked as changed be lost.                                              *)
AiInv == Ai!TypeOK /\ Ai!Consistent

LEMMA BufferFacts ==
    ASSUME NEW b \in Buffers
    PROVE  b.length \in Nat /\ b.length > 0 /\ b.edge \in BOOLEAN
BY BuffersAssumption

LEMMA NothingIsChunk == Ai!Nothing \in Ai!Chunks
BY DEF Ai!Nothing, Ai!Chunks

LEMMA InitAi == Ai!Init => AiInv
<1> SUFFICES ASSUME Ai!Init PROVE AiInv
  OBVIOUS
<1>1. Ai!TypeOK
  BY NothingIsChunk DEF Ai!Init, Ai!TypeOK
<1>2. Ai!Consistent
  BY DEF Ai!Init, Ai!Consistent
<1> QED
  BY <1>1, <1>2 DEF AiInv

(* What is passed on is a part of the buffer being played.                 *)
LEMMA PushIsChunk ==
    ASSUME AiInv, NEW left \in 0 .. lastRead, lastRead # 0
    PROVE  Ai!Push(left) \in Ai!Chunks
<1>1. aiFifo[0] \in Buffers /\ lastRead \in Nat /\ lastRead <= aiFifo[0].length
  BY DEF AiInv, Ai!TypeOK, Ai!Consistent
<1>2. aiFifo[0].length \in Nat
  BY <1>1, BufferFacts
<1>3. aiFifo[0].length - lastRead \in Nat /\ aiFifo[0].length - left \in Nat
  BY <1>1, <1>2
<1> QED
  BY <1>1, <1>3 DEF Ai!Push, Ai!Chunks, AiInv, Ai!TypeOK

LEMMA WriteLenStep ==
    ASSUME AiInv, NEW b \in Buffers, Ai!WriteLen(b) PROVE AiInv'
<1>1. b.length \in Nat /\ b.length > 0 /\ b.edge \in BOOLEAN
  BY BufferFacts
<1>2. heard' \in Ai!Chunks /\ dacrate' = dacrate
  BY NothingIsChunk DEF Ai!WriteLen
<1>3. CASE "BUSY" \in aiStatus
  <2>1. /\ aiFifo' = [aiFifo EXCEPT ![1] = b] /\ aiStatus' = aiStatus \cup {"FULL"}
        /\ UNCHANGED <<lastRead, moved, carry, changed, rate, aiEvent>>
    BY <1>3 DEF Ai!WriteLen, Ai!FifoPush
  <2>2. /\ aiFifo' \in [{0, 1} -> Buffers \cup {NoBuffer}]
        /\ aiFifo'[0] = aiFifo[0] /\ aiFifo'[1] = b
    BY <2>1 DEF AiInv, Ai!TypeOK
  <2> QED
    BY <1>2, <1>3, <2>1, <2>2 DEF AiInv, Ai!TypeOK, Ai!Consistent
<1>4. CASE "BUSY" \notin aiStatus
  <2>1. /\ aiFifo' = [aiFifo EXCEPT ![0] = b]
        /\ aiStatus' = aiStatus \cup {"BUSY"} /\ Ai!DoDma(b)
    BY <1>4 DEF Ai!WriteLen, Ai!FifoPush
  <2>2. aiFifo' \in [{0, 1} -> Buffers \cup {NoBuffer}] /\ aiFifo'[0] = b
    BY <2>1 DEF AiInv, Ai!TypeOK
  <2>3. aiStatus' = {"BUSY"}
    BY <1>4, <2>1 DEF AiInv, Ai!TypeOK
  <2>4. /\ lastRead' = b.length /\ moved' = carry /\ carry' = b.edge /\ aiEvent' = TRUE
        /\ changed' = FALSE /\ rate' = dacrate
    BY <2>1 DEF Ai!DoDma, AiInv, Ai!Consistent
  <2>5. Ai!TypeOK'
    BY <1>1, <1>2, <2>2, <2>3, <2>4 DEF AiInv, Ai!TypeOK
  <2>6. Ai!Consistent'
    BY <1>1, <1>2, <2>2, <2>3, <2>4 DEF Ai!Consistent
  <2> QED
    BY <2>5, <2>6 DEF AiInv
<1> QED
  BY <1>3, <1>4

LEMMA ReadLenStep == ASSUME AiInv, Ai!ReadLen PROVE AiInv'
<1>1. PICK left \in 0 .. lastRead :
          left < lastRead /\ heard' = Ai!Push(left) /\ lastRead' = left
  BY DEF Ai!ReadLen
<1>2. lastRead \in Nat /\ lastRead # 0
  BY <1>1 DEF AiInv, Ai!TypeOK
<1>3. heard' \in Ai!Chunks
  BY <1>1, <1>2, PushIsChunk
<1>4. /\ UNCHANGED <<aiStatus, aiFifo, moved, carry, changed, dacrate, rate, aiEvent>>
  BY DEF Ai!ReadLen
<1>5. aiFifo[0] \in Buffers /\ lastRead <= aiFifo[0].length /\ aiFifo[0].length \in Nat
  BY <1>2, BufferFacts DEF AiInv, Ai!Consistent
<1> QED
  BY <1>1, <1>2, <1>3, <1>4, <1>5 DEF AiInv, Ai!TypeOK, Ai!Consistent

LEMMA EndOfDmaStep == ASSUME AiInv, Ai!EndOfDma PROVE AiInv'
<1>1. heard' \in Ai!Chunks
  <2>1. CASE lastRead # 0
    BY <2>1, PushIsChunk DEF Ai!EndOfDma, AiInv, Ai!TypeOK
  <2>2. CASE lastRead = 0
    BY <2>2, NothingIsChunk DEF Ai!EndOfDma
  <2> QED
    BY <2>1, <2>2
<1>2. dacrate' = dacrate
  BY DEF Ai!EndOfDma
<1>3. CASE "FULL" \in aiStatus
  <2>1. /\ aiFifo' = [aiFifo EXCEPT ![0] = aiFifo[1]] /\ aiStatus' = aiStatus \ {"FULL"}
        /\ Ai!DoDma(aiFifo[1])
    BY <1>3 DEF Ai!EndOfDma, Ai!FifoPop
  <2>2. aiFifo[1] \in Buffers
    BY <1>3 DEF AiInv, Ai!Consistent
  <2>3. /\ aiFifo[1].length \in Nat /\ aiFifo[1].length > 0 /\ aiFifo[1].edge \in BOOLEAN
    BY <2>2, BufferFacts
  <2>4. aiFifo' \in [{0, 1} -> Buffers \cup {NoBuffer}] /\ aiFifo'[0] = aiFifo[1]
    BY <2>1, <2>2 DEF AiInv, Ai!TypeOK
  <2>5. aiStatus' = {"BUSY"}
    BY <1>3, <2>1 DEF AiInv, Ai!TypeOK
  <2>6. /\ lastRead' = aiFifo[1].length /\ moved' = carry /\ carry' = aiFifo[1].edge
        /\ aiEvent' = TRUE /\ changed' = FALSE /\ rate' = dacrate
    BY <2>1 DEF Ai!DoDma, AiInv, Ai!Consistent
  <2>7. Ai!TypeOK'
    BY <1>1, <1>2, <2>3, <2>4, <2>5, <2>6 DEF AiInv, Ai!TypeOK
  <2>8. Ai!Consistent'
    BY <1>2, <2>2, <2>3, <2>4, <2>5, <2>6 DEF Ai!Consistent
  <2> QED
    BY <2>7, <2>8 DEF AiInv
<1>4. CASE "FULL" \notin aiStatus
  <2>1. /\ aiStatus' = aiStatus \ {"BUSY"} /\ lastRead' = 0 /\ carry' = FALSE
        /\ aiEvent' = FALSE /\ UNCHANGED <<aiFifo, moved, changed, rate>>
    BY <1>4 DEF Ai!EndOfDma, Ai!FifoPop
  <2>2. aiStatus' = {}
    BY <1>4, <2>1 DEF AiInv, Ai!TypeOK
  <2> QED
    BY <1>1, <1>2, <2>1, <2>2 DEF AiInv, Ai!TypeOK, Ai!Consistent
<1> QED
  BY <1>3, <1>4

LEMMA OtherSteps ==
    ASSUME AiInv, Ai!WriteStatus \/ Ai!WriteDacRate \/ Ai!Nmi PROVE AiInv'
<1>1. CASE Ai!WriteStatus
  BY <1>1, NothingIsChunk DEF Ai!WriteStatus, Ai!regs, AiInv, Ai!TypeOK, Ai!Consistent
<1>2. CASE Ai!WriteDacRate
  <2>1. PICK r \in Rates : dacrate' = r /\ changed' = (changed \/ r # dacrate)
    BY <1>2 DEF Ai!WriteDacRate
  <2>2. r \in Nat
    BY BuffersAssumption
  <2> QED
    BY <1>2, <2>1, <2>2, NothingIsChunk
       DEF Ai!WriteDacRate, AiInv, Ai!TypeOK, Ai!Consistent
<1>3. CASE Ai!Nmi
  BY <1>3, NothingIsChunk DEF Ai!Nmi, AiInv, Ai!TypeOK, Ai!Consistent
<1> QED
  BY <1>1, <1>2, <1>3

-----------------------------------------------------------------------------
(* What the registers stand for.                                           *)
LEMMA FullQueue ==
    ASSUME "FULL" \in aiStatus
    PROVE  Ai!Queue = <<aiFifo[0], aiFifo[1]>> /\ Ai!Played = aiFifo[0].length - lastRead
BY DEF Ai!Queue, Ai!Played

LEMMA SingleQueue ==
    ASSUME "FULL" \notin aiStatus, "BUSY" \in aiStatus \/ lastRead # 0
    PROVE  Ai!Queue = <<aiFifo[0]>> /\ Ai!Played = aiFifo[0].length - lastRead
BY DEF Ai!Queue, Ai!Played

LEMMA EmptyQueue ==
    ASSUME aiStatus = {}, lastRead = 0
    PROVE  Ai!Queue = <<>> /\ Ai!Played = 0
BY DEF Ai!Queue, Ai!Played

(* ... and a busy interface plays its first entry.                         *)
LEMMA BusyQueue ==
    ASSUME AiInv, "BUSY" \in aiStatus
    PROVE  /\ Ai!Queue # <<>> /\ Ai!Queue[1] = aiFifo[0]
           /\ Ai!Played = aiFifo[0].length - lastRead
           /\ aiFifo[0].length \in Nat /\ lastRead \in Nat /\ lastRead <= aiFifo[0].length
<1>1. aiFifo[0] \in Buffers /\ lastRead \in Nat
  BY DEF AiInv, Ai!TypeOK, Ai!Consistent
<1>2. aiFifo[0].length \in Nat
  BY <1>1, BufferFacts
<1>3. lastRead <= aiFifo[0].length
  BY <1>1, <1>2 DEF AiInv, Ai!Consistent
<1>4. Ai!Queue # <<>> /\ Ai!Queue[1] = aiFifo[0] /\ Ai!Played = aiFifo[0].length - lastRead
  BY FullQueue, SingleQueue
<1> QED
  BY <1>1, <1>2, <1>3, <1>4

LEMMA InitStream == Ai!Init => Ai!Stream!Init
<1> SUFFICES ASSUME Ai!Init PROVE Ai!Stream!Init
  OBVIOUS
<1>1. Ai!Queue = <<>> /\ Ai!Played = 0
  BY EmptyQueue DEF Ai!Init
<1> QED
  BY <1>1 DEF Ai!Init, Ai!Stream!Init, Ai!Nothing, Ai!Stream!Nothing

LEMMA SubmitStep ==
    ASSUME AiInv, NEW b \in Buffers, Ai!WriteLen(b) PROVE Ai!Stream!Submit(b)
<1>1. heard' = Ai!Stream!Nothing /\ dacrate' = dacrate
  BY DEF Ai!WriteLen, Ai!Nothing, Ai!Stream!Nothing
<1>2. AiInv'
  BY WriteLenStep
<1>3. CASE "BUSY" \in aiStatus
  <2>1. /\ aiFifo' = [aiFifo EXCEPT ![1] = b] /\ aiStatus' = aiStatus \cup {"FULL"}
        /\ UNCHANGED <<lastRead, moved, carry, rate>>
    BY <1>3 DEF Ai!WriteLen, Ai!FifoPush
  <2>2. aiFifo'[0] = aiFifo[0] /\ aiFifo'[1] = b
    BY <2>1 DEF AiInv, Ai!TypeOK
  <2>3. /\ Ai!Queue # <<>> /\ Ai!Queue[1] = aiFifo[0]
        /\ Ai!Played = aiFifo[0].length - lastRead
    BY <1>3, BusyQueue
  <2>4. Ai!Queue' = <<aiFifo[0], b>> /\ Ai!Played' = aiFifo[0].length - lastRead
    BY <2>1, <2>2 DEF Ai!Queue, Ai!Played
  <2>5. Ai!Queue' = <<Ai!Queue[1], b>> /\ Ai!Played' = Ai!Played /\ Ai!Queue' # <<>>
    BY <2>3, <2>4
  <2>6. (Ai!Queue' # <<>> /\ moved') = (Ai!Queue # <<>> /\ moved)
    BY <2>1, <2>3, <2>5
  <2>7. ("BUSY" \in aiStatus') = ("BUSY" \in aiStatus)
    BY <1>3, <2>1
  <2> QED
    BY <1>1, <1>3, <2>1, <2>5, <2>6, <2>7 DEF Ai!Stream!Submit
<1>4. CASE "BUSY" \notin aiStatus
  <2>1. /\ aiFifo' = [aiFifo EXCEPT ![0] = b]
        /\ aiStatus' = aiStatus \cup {"BUSY"} /\ Ai!DoDma(b)
    BY <1>4 DEF Ai!WriteLen, Ai!FifoPush
  <2>2. aiFifo'[0] = b /\ aiStatus' = {"BUSY"}
    BY <1>4, <2>1 DEF AiInv, Ai!TypeOK
  <2>3. /\ lastRead' = b.length /\ moved' = carry /\ carry' = b.edge /\ rate' = dacrate
    BY <2>1 DEF Ai!DoDma, AiInv, Ai!Consistent
  <2>4. b.length - b.length = 0
    BY BufferFacts
  <2>5. Ai!Queue' = <<b>> /\ Ai!Played' = 0
    BY <2>2, <2>3, <2>4 DEF Ai!Queue, Ai!Played
  <2>6. (Ai!Queue' # <<>> /\ moved') = carry
    <3>1. Ai!Queue' # <<>> /\ carry \in BOOLEAN
      BY <2>5 DEF AiInv, Ai!TypeOK
    <3> QED
      BY <2>3, <3>1
  <2>7. ("BUSY" \in aiStatus') = TRUE
    BY <2>2
  <2> QED
    BY <1>1, <1>4, <2>3, <2>5, <2>6, <2>7 DEF Ai!Stream!Submit, Ai!Stream!Start
<1> QED
  BY <1>3, <1>4

LEMMA PlayStep == ASSUME AiInv, Ai!ReadLen PROVE Ai!Stream!Play \/ Ai!Stream!PlayRemains
<1>1. PICK left \in 0 .. lastRead :
          /\ aiEvent \/ left = 0
          /\ left < lastRead /\ heard' = Ai!Push(left) /\ lastRead' = left
  BY DEF Ai!ReadLen
<1>2. UNCHANGED <<aiStatus, aiFifo, moved, carry, dacrate, rate>>
  BY DEF Ai!ReadLen
<1>3. lastRead \in Nat /\ lastRead # 0 /\ left \in Nat /\ moved \in BOOLEAN
  BY <1>1 DEF AiInv, Ai!TypeOK
<1>4. /\ aiFifo[0].length \in Nat /\ lastRead <= aiFifo[0].length
  BY <1>3, BufferFacts DEF AiInv, Ai!Consistent
<1>5. Ai!Queue # <<>> /\ Ai!Queue[1] = aiFifo[0] /\ Ai!Played = aiFifo[0].length - lastRead
  BY <1>3, FullQueue, SingleQueue
<1>6. (Ai!Queue # <<>> /\ moved) = moved
  BY <1>3, <1>5
<1> DEFINE to == aiFifo[0].length - left
<1>7. to \in (Ai!Played + 1) .. Ai!Queue[1].length
  BY <1>1, <1>3, <1>4, <1>5
<1>8. heard' = Ai!Stream!Chunk(to)
  BY <1>1, <1>5, <1>6 DEF Ai!Push, Ai!Stream!Chunk
<1>9. CASE "BUSY" \in aiStatus
  <2>1. Ai!Queue' = Ai!Queue /\ Ai!Queue' # <<>>
    BY <1>2, <1>5, <1>9 DEF Ai!Queue
  <2>2. Ai!Played' = to
    BY <1>1, <1>2, <2>1 DEF Ai!Played
  <2>3. (Ai!Queue' # <<>> /\ moved') = (Ai!Queue # <<>> /\ moved)
    BY <1>2, <2>1
  <2>4. ("BUSY" \in aiStatus') = ("BUSY" \in aiStatus)
    BY <1>2
  <2> HIDE DEF to
  <2> QED
    BY <1>2, <1>5, <1>7, <1>8, <1>9, <2>1, <2>2, <2>3, <2>4 DEF Ai!Stream!Play
<1>10. CASE "BUSY" \notin aiStatus
  <2>1. left = 0 /\ aiStatus = {}
    BY <1>1, <1>10 DEF AiInv, Ai!TypeOK, Ai!Consistent
  <2>2. Ai!Queue' = <<>> /\ Ai!Played' = 0
    BY <1>1, <1>2, <2>1 DEF Ai!Queue, Ai!Played
  <2>3. (Ai!Queue' # <<>> /\ moved') = FALSE /\ ("BUSY" \in aiStatus') = ("BUSY" \in aiStatus)
    BY <1>2, <2>2
  <2>4. heard' = Ai!Stream!Chunk(Ai!Queue[1].length)
    BY <1>4, <1>5, <1>8, <2>1
  <2> QED
    BY <1>2, <1>5, <1>10, <2>2, <2>3, <2>4 DEF Ai!Stream!PlayRemains
<1> QED
  BY <1>9, <1>10

LEMMA FinishStep == ASSUME AiInv, Ai!EndOfDma PROVE Ai!Stream!Finish
<1>1. "BUSY" \in aiStatus /\ dacrate' = dacrate
  BY DEF Ai!EndOfDma, AiInv, Ai!Consistent
<1>2. /\ Ai!Queue # <<>> /\ Ai!Queue[1] = aiFifo[0] /\ Ai!Played = aiFifo[0].length - lastRead
      /\ aiFifo[0].length \in Nat /\ lastRead \in Nat /\ lastRead <= aiFifo[0].length
  BY <1>1, BusyQueue
<1>3. (Ai!Queue # <<>> /\ moved) = moved
  BY <1>2 DEF AiInv, Ai!TypeOK
<1>4. heard' = IF Ai!Played < Ai!Queue[1].length THEN Ai!Stream!Chunk(Ai!Queue[1].length)
                                           ELSE Ai!Stream!Nothing
  <2>1. CASE lastRead # 0
    <3>1. Ai!Played < Ai!Queue[1].length /\ aiFifo[0].length - 0 = Ai!Queue[1].length
      BY <1>2, <2>1
    <3>2. heard' = Ai!Push(0)
      BY <2>1 DEF Ai!EndOfDma
    <3>3. Ai!Push(0) = Ai!Stream!Chunk(Ai!Queue[1].length)
      BY <1>2, <1>3, <3>1 DEF Ai!Push, Ai!Stream!Chunk
    <3> QED
      BY <3>1, <3>2, <3>3
  <2>2. CASE lastRead = 0
    <3>1. ~(Ai!Played < Ai!Queue[1].length)
      BY <1>2, <2>2
    <3>2. heard' = Ai!Stream!Nothing
      BY <2>2 DEF Ai!EndOfDma, Ai!Nothing, Ai!Stream!Nothing
    <3> QED
      BY <3>1, <3>2
  <2> QED
    BY <2>1, <2>2
<1>5. CASE "FULL" \in aiStatus
  <2>1. /\ aiFifo' = [aiFifo EXCEPT ![0] = aiFifo[1]] /\ aiStatus' = aiStatus \ {"FULL"}
        /\ Ai!DoDma(aiFifo[1])
    BY <1>5 DEF Ai!EndOfDma, Ai!FifoPop
  <2>2. aiFifo[1] \in Buffers /\ aiFifo'[0] = aiFifo[1] /\ aiStatus' = {"BUSY"}
    BY <1>5, <2>1 DEF AiInv, Ai!TypeOK, Ai!Consistent
  <2>3. /\ lastRead' = aiFifo[1].length /\ moved' = carry /\ carry' = aiFifo[1].edge
        /\ rate' = dacrate
    BY <2>1 DEF Ai!DoDma, AiInv, Ai!Consistent
  <2>4. Ai!Queue = <<aiFifo[0], aiFifo[1]>>
    BY <1>5, FullQueue
  <2>5. aiFifo[1].length - aiFifo[1].length = 0
    BY <2>2, BufferFacts
  <2>6. Ai!Queue' = <<aiFifo[1]>> /\ Ai!Played' = 0
    BY <2>2, <2>3, <2>5 DEF Ai!Queue, Ai!Played
  <2>7. Ai!Queue' = Tail(Ai!Queue) /\ Len(Ai!Queue) = 2 /\ Ai!Queue[2] = aiFifo[1]
    BY <2>4, <2>6
  <2>8. (Ai!Queue' # <<>> /\ moved') = carry
    <3>1. Ai!Queue' # <<>> /\ carry \in BOOLEAN
      BY <2>6 DEF AiInv, Ai!TypeOK
    <3> QED
      BY <2>3, <3>1
  <2>9. ("BUSY" \in aiStatus') = TRUE
    BY <2>2
  <2> QED
    BY <1>1, <1>4, <2>3, <2>6, <2>7, <2>8, <2>9 DEF Ai!Stream!Finish, Ai!Stream!Start
<1>6. CASE "FULL" \notin aiStatus
  <2>1. /\ aiStatus' = aiStatus \ {"BUSY"} /\ lastRead' = 0 /\ carry' = FALSE
        /\ UNCHANGED <<aiFifo, moved, rate>>
    BY <1>6 DEF Ai!EndOfDma, Ai!FifoPop
  <2>2. aiStatus' = {}
    BY <1>6, <2>1 DEF AiInv, Ai!TypeOK
  <2>3. Ai!Queue = <<aiFifo[0]>>
    BY <1>1, <1>6, SingleQueue
  <2>4. Ai!Queue' = <<>> /\ Ai!Played' = 0
    BY <2>1, <2>2 DEF Ai!Queue, Ai!Played
  <2>5. Ai!Queue' = Tail(Ai!Queue) /\ Len(Ai!Queue) = 1
    BY <2>3, <2>4
  <2>6. (Ai!Queue' # <<>> /\ moved') = FALSE /\ ("BUSY" \in aiStatus') = FALSE
    BY <2>2, <2>4
  <2> QED
    BY <1>1, <1>4, <2>1, <2>4, <2>5, <2>6 DEF Ai!Stream!Finish
<1> QED
  BY <1>5, <1>6

LEMMA InterruptStep == ASSUME AiInv, Ai!Nmi PROVE Ai!Stream!Interrupt
<1>1. /\ aiStatus' = {} /\ heard' = Ai!Stream!Nothing
      /\ UNCHANGED <<aiFifo, lastRead, moved, carry, dacrate, rate>>
  BY DEF Ai!Nmi, Ai!Nothing, Ai!Stream!Nothing
<1>2. ("BUSY" \in aiStatus') = FALSE
  BY <1>1
<1>3. lastRead \in Nat
  BY DEF AiInv, Ai!TypeOK
<1>4. CASE lastRead # 0
  <2>1. aiFifo[0].length \in Nat /\ lastRead <= aiFifo[0].length
    BY <1>4, BufferFacts DEF AiInv, Ai!Consistent
  <2>2. Ai!Queue # <<>> /\ Ai!Queue[1] = aiFifo[0] /\ Ai!Played = aiFifo[0].length - lastRead
    BY <1>4, FullQueue, SingleQueue
  <2>3. Ai!Played < Ai!Queue[1].length
    BY <1>3, <1>4, <2>1, <2>2
  <2>4. Ai!Queue' = <<Ai!Queue[1]>> /\ Ai!Played' = Ai!Played /\ Ai!Queue' # <<>>
    BY <1>1, <1>4, <2>2 DEF Ai!Queue, Ai!Played
  <2>5. (Ai!Queue' # <<>> /\ moved') = (Ai!Queue # <<>> /\ moved)
    BY <1>1, <2>2, <2>4
  <2> QED
    BY <1>1, <1>2, <2>2, <2>3, <2>4, <2>5 DEF Ai!Stream!Interrupt
<1>5. CASE lastRead = 0
  <2>1. Ai!Queue = <<>> \/ Ai!Played = Ai!Queue[1].length
    <3>1. CASE "BUSY" \in aiStatus
      BY <1>5, <3>1, BusyQueue
    <3>2. CASE "BUSY" \notin aiStatus
      BY <1>5, <3>2, EmptyQueue DEF AiInv, Ai!TypeOK
    <3> QED
      BY <3>1, <3>2
  <2>2. Ai!Queue' = <<>> /\ Ai!Played' = 0
    BY <1>1, <1>5 DEF Ai!Queue, Ai!Played
  <2>3. (Ai!Queue' # <<>> /\ moved') = FALSE
    BY <2>2
  <2> QED
    BY <1>1, <1>2, <2>1, <2>2, <2>3 DEF Ai!Stream!Interrupt
<1> QED
  BY <1>4, <1>5

-----------------------------------------------------------------------------
(* The other devices, and the program when it uses one of them, leave the  *)
(* audio interface alone.                                                  *)
LEMMA NextAi == [Next]_vars => Ai!Program \/ Ai!EndOfDma \/ Ai!Nmi \/ UNCHANGED ai
<1> SUFFICES ASSUME [Next]_vars PROVE Ai!Program \/ Ai!EndOfDma \/ Ai!Nmi \/ UNCHANGED ai
  OBVIOUS
<1>1. CASE Program
  BY <1>1 DEF Program, AiOnly, RspOnly, SiOnly, DdOnly
<1>2. CASE AiEvent
  BY <1>2 DEF AiEvent
<1>3. CASE SpEvent \/ DpEvent \/ SpDmaEvent \/ ViEvent \/ SiEvent \/ PiEvent
  BY <1>3 DEF SpEvent, DpEvent, SpDmaEvent, ViEvent, SiEvent, PiEvent, RspOnly, SiOnly,
              DdOnly
<1>4. CASE Nmi
  BY <1>4 DEF Nmi
<1>5. CASE UNCHANGED vars
  BY <1>5 DEF vars
<1> QED
  BY <1>1, <1>2, <1>3, <1>4, <1>5 DEF Next

LEMMA NextAiInv == AiInv /\ [Next]_vars => AiInv'
<1> SUFFICES ASSUME AiInv, [Next]_vars PROVE AiInv'
  OBVIOUS
<1>1. CASE Ai!Program
  BY <1>1, WriteLenStep, ReadLenStep, OtherSteps DEF Ai!Program
<1>2. CASE Ai!EndOfDma \/ Ai!Nmi
  BY <1>2, EndOfDmaStep, OtherSteps
<1>3. CASE UNCHANGED ai
  BY <1>3 DEF ai, AiInv, Ai!TypeOK, Ai!Consistent
<1> QED
  BY <1>1, <1>2, <1>3, NextAi

(* Every step is one of the stream's, or is none of its business.          *)
LEMMA NextStream == AiInv /\ [Next]_vars => [Ai!Stream!Next]_(Ai!Stream!stream)
<1> SUFFICES ASSUME AiInv, [Next]_vars PROVE [Ai!Stream!Next]_(Ai!Stream!stream)
  OBVIOUS
<1>1. ASSUME NEW b \in Buffers, Ai!WriteLen(b) PROVE Ai!Stream!Next
  BY <1>1, SubmitStep DEF Ai!Stream!Next
<1>2. CASE Ai!ReadLen
  BY <1>2, PlayStep DEF Ai!Stream!Next
<1>3. CASE Ai!EndOfDma
  BY <1>3, FinishStep DEF Ai!Stream!Next
<1>4. CASE Ai!Nmi
  BY <1>4, InterruptStep DEF Ai!Stream!Next
<1>5. ASSUME UNCHANGED <<aiStatus, aiFifo, lastRead, moved>>
      PROVE  /\ UNCHANGED <<Ai!Queue, Ai!Played>>
             /\ ("BUSY" \in aiStatus') = ("BUSY" \in aiStatus)
             /\ (Ai!Queue' # <<>> /\ moved') = (Ai!Queue # <<>> /\ moved)
  BY <1>5 DEF Ai!Queue, Ai!Played
<1>6. CASE Ai!WriteStatus
  <2>1. heard' = Ai!Stream!Nothing /\ UNCHANGED <<carry, dacrate, rate>>
        /\ UNCHANGED <<aiStatus, aiFifo, lastRead, moved>>
    BY <1>6 DEF Ai!WriteStatus, Ai!regs, Ai!Nothing, Ai!Stream!Nothing
  <2> QED
    BY <1>5, <2>1 DEF Ai!Stream!Next, Ai!Stream!Quiet
<1>7. CASE Ai!WriteDacRate
  <2>1. PICK r \in Rates : dacrate' = r
    BY <1>7 DEF Ai!WriteDacRate
  <2>2. heard' = Ai!Stream!Nothing /\ UNCHANGED <<carry, rate>>
        /\ UNCHANGED <<aiStatus, aiFifo, lastRead, moved>>
    BY <1>7 DEF Ai!WriteDacRate, Ai!Nothing, Ai!Stream!Nothing
  <2>3. Ai!Stream!SetRate(r)
    BY <1>5, <2>1, <2>2 DEF Ai!Stream!SetRate
  <2> QED
    BY <2>3 DEF Ai!Stream!Next
<1>8. CASE UNCHANGED ai
  <2>1. UNCHANGED <<carry, dacrate, rate, heard>>
        /\ UNCHANGED <<aiStatus, aiFifo, lastRead, moved>>
    BY <1>8 DEF ai
  <2> QED
    BY <1>5, <2>1 DEF Ai!Stream!stream
<1> QED
  BY <1>1, <1>2, <1>3, <1>4, <1>6, <1>7, <1>8, NextAi DEF Ai!Program

-----------------------------------------------------------------------------
(* The type invariant, and the agreement of the registers: a full FIFO has *)
(* its second entry and a busy one its event, for any buffers and rates.   *)
THEOREM AudioIsConsistent == Spec => [](Ai!TypeOK /\ Ai!Consistent)
<1>1. AiInv => Ai!TypeOK /\ Ai!Consistent
  BY DEF AiInv
<1>2. Init => AiInv
  BY InitAi DEF Init
<1> QED
  BY <1>1, <1>2, NextAiInv, PTL DEF Spec

-----------------------------------------------------------------------------
(* What is busy has the event that ends it queued, or an NMI dropped it.   *)
SpDmaIsScheduled == spFifo # <<>> => dmaEvent \/ dropped
SiIsScheduled == siInts \in Nat /\ (Si!Busy => siInts > 0 \/ siLost)

LEMMA OneIsLeft == ASSUME NEW n \in Nat, n <= 2, n # 2, n # 0 PROVE n = 1
OBVIOUS

LEMMA SpDmaStep == RspInv /\ SpDmaIsScheduled /\ [Next]_vars => SpDmaIsScheduled'
<1> SUFFICES ASSUME RspInv, SpDmaIsScheduled, [Next]_vars PROVE SpDmaIsScheduled'
  OBVIOUS
<1>0. /\ spFifo \in Seq(Transfers) /\ Len(spFifo) \in Nat /\ Len(spFifo) <= 2
      /\ dmaEvent \in BOOLEAN /\ dropped \in BOOLEAN
      /\ dmaEvent => spFifo # <<>>
  BY DEF RspInv, Rsp!TypeOK
<1>1. CASE UNCHANGED <<spFifo, dmaEvent, dropped>>
  BY <1>1 DEF SpDmaIsScheduled
<1>2. CASE Rsp!FifoPop
  <2>1. CASE Len(spFifo) = 2
    BY <1>2, <2>1 DEF Rsp!FifoPop, SpDmaIsScheduled
  <2>2. CASE Len(spFifo) # 2
    <3>1. spFifo # <<>> /\ spFifo' = Tail(spFifo)
      BY <1>0, <1>2 DEF Rsp!FifoPop
    <3>2. Len(spFifo) = 1
      <4>1. Len(spFifo) # 0
        BY <1>0, <3>1
      <4> QED
        BY <1>0, <2>2, <4>1, OneIsLeft
    <3>3. Tail(spFifo) \in Seq(Transfers) /\ Len(Tail(spFifo)) = Len(spFifo) - 1
      BY <1>0, <3>1
    <3> DEFINE r == Tail(spFifo)
    <3> HIDE DEF r
    <3>4. r = <<>>
      <4>1. r \in Seq(Transfers) /\ Len(r) = 0
        BY <3>2, <3>3 DEF r
      <4> QED
        BY <4>1
    <3> QED
      BY <3>1, <3>4 DEF SpDmaIsScheduled, r
  <2> QED
    BY <2>1, <2>2
<1>3. CASE \E t \in Transfers : Rsp!FifoPush(t)
  <2>1. dmaEvent' = (dmaEvent \/ spFifo = <<>>) /\ UNCHANGED dropped
    BY <1>3 DEF Rsp!FifoPush
  <2> QED
    BY <2>1, Zenon DEF SpDmaIsScheduled
<1>4. CASE Rsp!Nmi
  BY <1>0, <1>4 DEF Rsp!Nmi, SpDmaIsScheduled
<1>5. CASE Rsp!Program
  BY <1>1, <1>3, <1>5
  DEF Rsp!Program, Rsp!WriteSpStatus, Rsp!WriteDpcStatus, Rsp!ProcessRdpList,
      Rsp!AcknowledgeDp, Rsp!dma
<1>6. CASE Rsp!Events
  BY <1>1, <1>2, <1>6
  DEF Rsp!Events, Rsp!RspInterrupt, Rsp!RdpInterrupt, Rsp!VerticalInterrupt, Rsp!dma
<1>7. CASE UNCHANGED rsp
  BY <1>1, <1>7 DEF rsp
<1> QED
  BY <1>4, <1>5, <1>6, <1>7, NextRsp

LEMMA SiEventStep == SiIsScheduled /\ [Next]_vars => SiIsScheduled'
<1> SUFFICES ASSUME SiIsScheduled, [Next]_vars PROVE SiIsScheduled'
  OBVIOUS
<1>1. CASE Si!Refuse \/ Si!WriteStatus
  BY <1>1 DEF Si!Refuse, Si!WriteStatus, Si!Busy, SiIsScheduled
<1>2. CASE siInts' = siInts + 1
  BY <1>2 DEF SiIsScheduled
<1>3. CASE Si!EndOfDma
  BY <1>3 DEF Si!EndOfDma, Si!Busy, SiIsScheduled
<1>4. CASE Si!Nmi
  BY <1>4 DEF Si!Nmi, Si!Busy, SiIsScheduled
<1>5. CASE UNCHANGED si
  BY <1>5 DEF si, Si!Busy, SiIsScheduled
<1>6. CASE Si!Program
  BY <1>1, <1>2, <1>6 DEF Si!Program, Si!WriteDma, Si!ReadDma, Si!StartDma, Si!WritePif
<1> QED
  BY <1>3, <1>4, <1>5, <1>6, NextSi

(* A full audio FIFO, a transfer of the SP and a busy serial interface     *)
(* each have the event that ends them in the queue, whatever the program   *)
(* writes in between; only nmi_int_handler, which empties the queue and    *)
(* leaves SI_STATUS and the FIFO of the SP, parts the two.                 *)
BusyIsScheduled ==
    /\ "FULL" \in aiStatus => aiEvent
    /\ spFifo # <<>> => dmaEvent \/ dropped
    /\ Si!Busy => siInts > 0 \/ siLost

THEOREM BusyHasItsEvent == Spec => []BusyIsScheduled
<1> DEFINE BInv == AiInv /\ RspInv /\ SpDmaIsScheduled /\ SiIsScheduled
<1>1. Init => BInv
  BY InitAi, InitRsp DEF Init, Rsp!Init, Si!Init, Si!Busy, SpDmaIsScheduled, SiIsScheduled
<1>2. BInv /\ [Next]_vars => BInv'
  BY NextAiInv, NextRspInv, SpDmaStep, SiEventStep
<1>3. BInv => BusyIsScheduled
  BY DEF AiInv, Ai!TypeOK, Ai!Consistent, SpDmaIsScheduled, SiIsScheduled, BusyIsScheduled
<1> QED
  BY <1>1, <1>2, <1>3, PTL DEF Spec

(* Whatever the program does and whenever an NMI comes, for any buffers    *)
(* and rates, every sample of every buffer goes to push_samples once and   *)
(* in order, at the rate its buffer began with.                            *)
THEOREM StreamRefines == Spec => AudioPlays
<1>1. Init => AiInv /\ Ai!Stream!Init
  BY InitAi, InitStream DEF Init
<1>2. Spec => []AiInv
  BY <1>1, NextAiInv, PTL DEF Spec
<1> QED
  BY <1>1, <1>2, NextStream, PTL DEF Spec, AudioPlays, Ai!AudioPlays, Ai!Stream!Spec

-----------------------------------------------------------------------------
(* The disk drive: for any number of sectors and C2 sectors to a block.    *)

DdBits == {"DATA_RQ", "C2_XFER", "BM_INT", "MECHA_INT"}

DdDrives ==
    [status : SUBSET {"RUNNING", "BLOCK", "MICRO"}, cur : Dd!Places, flags : SUBSET DdBits,
     ip3 : BOOLEAN, buf : Nat, written : SUBSET (Nat \X Nat)]

(* The buffers of a DMA that was prepared, or has begun.                   *)
OnItsWay(buffers) == addr \in buffers /\ (armed \/ piInts > 0)

DdTyped ==
    /\ piInts \in Nat /\ (piInts = 0 <=> Dd!Idle) /\ (armed => piInts = 0)
    /\ piInts < 2
    /\ addr \in {"ds", "c2", "rom"}
    /\ drive \in DdDrives /\ seen \subseteq DdBits
    /\ armed \in BOOLEAN /\ bmWrite \in BOOLEAN /\ bad \in BOOLEAN /\ piLost \in BOOLEAN
    /\ resetHeld \in BOOLEAN
    /\ sectorsMoved \in Nat
    /\ plan = Dd!NoPlan \/ plan \in [first : {0, Dd!BlockLength}, blocks : {1, 2}]
    /\ "BLOCK" \in drive.status => Dd!Running(drive)

(* The interrupt line is up for a reason, and a drive that runs has it up  *)
(* unless a DMA on one of its buffers will make it go on.                  *)
DdCalled ==
    /\ drive.ip3 => drive.flags \cap {"BM_INT", "MECHA_INT"} # {}
    /\ Dd!Running(drive) /\ ~piLost /\ ~OnItsWay({"ds", "c2"}) => drive.ip3

(* Which of the blocks asked for the drive is in, and where that begins.   *)
Turn == IF plan.blocks = 2 /\ "BLOCK" \notin drive.status THEN 1 ELSE 0
Base == IF Turn = 0 THEN plan.first ELSE Dd!Other(plan.first)

WrittenTo(n) == {<<Dd!Nth(k), Dd!Nth(k)>> : k \in 0 .. n - 1}

(* The places a retail drive fails to read.                                *)
Stuck(p) == bad /\ Dd!Block(p) = 0

(* The drive has called for the s-th sector, ...                           *)
DataCalled(s) ==
    /\ {"DATA_RQ", "BM_INT"} \subseteq drive.flags
    /\ ~OnItsWay({"ds", "c2"})
    /\ s \in 1 .. Sectors /\ sectorsMoved = Turn * Sectors + s - 1
    /\ ~bmWrite => ~Stuck(drive.cur) /\ drive.buf = drive.cur - 1
    /\ drive.written = IF bmWrite THEN WrittenTo(sectorsMoved) ELSE {}
    /\ "BM_INT" \in seen => "DATA_RQ" \in seen

(* ... the program moves it, ...                                           *)
DataMoves(s) ==
    /\ drive.flags \cap {"DATA_RQ", "BM_INT"} = {}
    /\ OnItsWay({"ds"})
    /\ s \in 1 .. Sectors
    /\ sectorsMoved = IF armed THEN Turn * Sectors + s - 1 ELSE Turn * Sectors + s
    /\ ~bmWrite => ~Stuck(drive.cur)
    /\ bmWrite /\ ~armed => drive.buf = drive.cur - 1
    /\ drive.written = IF bmWrite THEN WrittenTo(Turn * Sectors + s - 1) ELSE {}
    /\ seen \cap {"BM_INT", "DATA_RQ"} = {}

(* ... it is past the sectors of a block, or before them, and reads ...    *)
Between(s) ==
    /\ ~bmWrite /\ drive.written = {}
    /\ "DATA_RQ" \notin drive.flags /\ "DATA_RQ" \notin seen
    /\ ~OnItsWay({"ds"})
    /\ OnItsWay({"c2"}) => "BM_INT" \notin drive.flags /\ "BM_INT" \notin seen
    /\ \/ s > Sectors /\ sectorsMoved = Turn * Sectors + Sectors
       \/ s = 0 /\ sectorsMoved = Turn * Sectors

(* ... or it is through.                                                   *)
Ended ==
    /\ ~Dd!Running(drive) /\ "DATA_RQ" \notin drive.flags /\ "DATA_RQ" \notin seen
    /\ ~OnItsWay({"ds"})
    /\ sectorsMoved = plan.blocks * Sectors
    /\ drive.written = IF bmWrite THEN WrittenTo(sectorsMoved) ELSE {}

InBlock(s) ==
    /\ Dd!Running(drive) /\ drive.cur = Base + s /\ s \in Nat
    /\ DataCalled(s) \/ DataMoves(s) \/ Between(s)

DdProgress ==
    plan # Dd!NoPlan /\ ~piLost =>
        /\ ~resetHeld
        /\ "BLOCK" \in drive.status => plan.blocks = 2
        /\ Ended \/ InBlock(Dd!Sector(drive.cur))

LEMMA LengthFact == Dd!BlockLength \in Nat /\ Dd!BlockLength = Sectors + C2Sectors + 1
  BY SizesAssumption DEF Dd!BlockLength

LEMMA PlaceFacts ==
    ASSUME NEW b \in {0, 1}, NEW s \in 0 .. Dd!BlockLength - 1,
           NEW p, p = IF b = 0 THEN s ELSE Dd!BlockLength + s
    PROVE  /\ p \in Dd!Places /\ Dd!Block(p) = b /\ Dd!Sector(p) = s
           /\ Dd!Other(p) = IF b = 0 THEN Dd!BlockLength ELSE 0
<1> DEFINE L == Dd!BlockLength
<1>1. L \in Nat \ {0} /\ L > 2
  BY SizesAssumption, LengthFact
<1> HIDE DEF L
<1>2. CASE b = 0
  <2>1. p = s /\ s \in 0 .. L - 1
    BY <1>2 DEF L
  <2>2. p \div L = 0
    BY <1>1, <2>1, Z3
  <2>3. p % L = p
    BY <1>1, <2>1, Z3
  <2>4. (1 - 0) * L = L
    BY <1>1
  <2> QED
    BY <1>1, <1>2, <2>1, <2>2, <2>3, <2>4 DEF L, Dd!Places, Dd!Block, Dd!Sector, Dd!Other
<1>3. CASE b = 1
  <2>1. p = L + s /\ s \in 0 .. L - 1
    BY <1>3 DEF L
  <2>2. p \in L .. 2 * L - 1
    BY <1>1, <2>1
  <2>3. p \div L = 1
    BY <1>1, <2>2, Z3
  <2>4. p % L = p - L
    BY <1>1, <2>2, Z3
  <2>5. (1 - 1) * L = 0
    BY <1>1
  <2> QED
    BY <1>1, <1>3, <2>1, <2>2, <2>3, <2>4, <2>5 DEF L, Dd!Places, Dd!Block, Dd!Sector, Dd!Other
<1> QED
  BY <1>2, <1>3

(* A place is a block and a sector.                                        *)
LEMMA PlaceIs ==
    ASSUME NEW p \in Dd!Places
    PROVE  /\ Dd!Block(p) \in {0, 1} /\ Dd!Sector(p) \in 0 .. Dd!BlockLength - 1
           /\ p = IF Dd!Block(p) = 0 THEN Dd!Sector(p) ELSE Dd!BlockLength + Dd!Sector(p)
           /\ Dd!Other(p) = IF Dd!Block(p) = 0 THEN Dd!BlockLength ELSE 0
<1>1. Dd!BlockLength \in Nat /\ p \in 0 .. 2 * Dd!BlockLength - 1
  BY LengthFact DEF Dd!Places
<1>2. CASE p < Dd!BlockLength
  <2>1. p \in 0 .. Dd!BlockLength - 1
    BY <1>1, <1>2
  <2> QED
    BY <2>1, PlaceFacts
<1>3. CASE p >= Dd!BlockLength
  <2>1. p - Dd!BlockLength \in 0 .. Dd!BlockLength - 1 /\ p = Dd!BlockLength + (p - Dd!BlockLength)
    BY <1>1, <1>3
  <2>2. /\ Dd!Block(p) = 1 /\ Dd!Sector(p) = p - Dd!BlockLength
        /\ Dd!Other(p) = 0
    BY <2>1, PlaceFacts
  <2> QED
    BY <2>1, <2>2
<1> QED
  BY <1>1, <1>2, <1>3

(* dd_update_bm, case by case: a write, ...                                *)
LEMMA UpdateWrites ==
    ASSUME NEW d \in DdDrives, Dd!Running(d), bmWrite,
           NEW s, s = Dd!Sector(d.cur), NEW e, e = Dd!UpdateBm(d)
    PROVE  /\ e \in DdDrives /\ e.ip3 /\ "BM_INT" \in e.flags
           /\ s = 0 =>
                /\ e.cur = d.cur + 1 /\ e.flags = d.flags \cup {"DATA_RQ", "BM_INT"}
                /\ e.status = d.status /\ e.written = d.written /\ e.buf = d.buf
           /\ s \in 1 .. Sectors - 1 =>
                /\ e.cur = d.cur + 1 /\ e.flags = d.flags \cup {"DATA_RQ", "BM_INT"}
                /\ e.status = d.status /\ e.buf = d.buf
                /\ e.written = d.written \cup {<<d.cur - 1, d.buf>>}
           /\ s = Sectors /\ "BLOCK" \in d.status =>
                /\ e.cur = Dd!Other(d.cur) + 1
                /\ e.flags = d.flags \cup {"DATA_RQ", "BM_INT"}
                /\ e.status = d.status \ {"BLOCK"} /\ e.buf = d.buf
                /\ e.written = d.written \cup {<<d.cur - 1, d.buf>>}
           /\ s = Sectors /\ "BLOCK" \notin d.status =>
                /\ e.flags = d.flags \cup {"BM_INT"}
                /\ e.status = d.status \ {"RUNNING"} /\ e.buf = d.buf
                /\ e.written = d.written \cup {<<d.cur - 1, d.buf>>}
           /\ s > Sectors => e.status = d.status
<1> DEFINE L == Dd!BlockLength
<1>1. Sectors \in Nat \ {0} /\ C2Sectors \in Nat \ {0} /\ L = Sectors + C2Sectors + 1
  BY SizesAssumption, LengthFact
<1>2. s \in 0 .. L - 1 /\ d.cur \in Dd!Places /\ Dd!Places = 0 .. 2 * L - 1
  BY PlaceIs DEF DdDrives, Dd!Places
<1>3. d.cur = s \/ d.cur = L + s
  BY PlaceIs, <1>2
<1>4. Dd!Other(d.cur) \in {0, L}
  BY PlaceIs, <1>2
<1>5. e = Dd!Raised(Dd!Write(d), "BM_INT")
  BY DEF Dd!UpdateBm
<1>6. s < L - 1 => d.cur + 1 \in Dd!Places
  BY <1>1, <1>2, <1>3
<1>7. s > 0 => d.cur - 1 \in Nat
  BY <1>1, <1>2, <1>3
<1>8. Dd!Other(d.cur) + 1 \in Dd!Places
  BY <1>1, <1>2, <1>4
<1> HIDE DEF L
<1>9. /\ d = [status |-> d.status, cur |-> d.cur, flags |-> d.flags, ip3 |-> d.ip3,
                buf |-> d.buf, written |-> d.written]
      /\ d.status \subseteq {"RUNNING", "BLOCK", "MICRO"} /\ d.flags \subseteq DdBits
      /\ d.buf \in Nat /\ d.written \subseteq Nat \X Nat
  BY DEF DdDrives
<1>a. CASE s = 0
  <2>1. Dd!Write(d) = Dd!At(d, d.cur + 1, {"DATA_RQ"})
    BY <1>1, <1>2, <1>a DEF Dd!Write
  <2>2. e = [status |-> d.status, cur |-> d.cur + 1,
             flags |-> d.flags \cup {"DATA_RQ"} \cup {"BM_INT"},
             ip3 |-> TRUE, buf |-> d.buf,
             written |-> d.written]
    BY <1>5, <1>9, <1>a, <2>1 DEF DdDrives, Dd!Raised, Dd!At
  <2>3. e \in DdDrives
    BY <1>1, <1>2, <1>4, <1>6, <1>7, <1>8, <1>9, <1>a, <2>2 DEF DdDrives, DdBits
  <2> QED
    BY <1>1, <1>2, <1>a, <2>2, <2>3
<1>b. CASE s \in 1 .. Sectors - 1
  <2>1. Dd!Write(d) = Dd!At(Dd!WriteSector(d), d.cur + 1, {"DATA_RQ"})
    BY <1>1, <1>2, <1>b DEF Dd!Write
  <2>2. e = [status |-> d.status, cur |-> d.cur + 1,
             flags |-> d.flags \cup {"DATA_RQ"} \cup {"BM_INT"},
             ip3 |-> TRUE, buf |-> d.buf,
             written |-> d.written \cup {<<d.cur - 1, d.buf>>}]
    BY <1>5, <1>9, <1>b, <2>1 DEF DdDrives, Dd!Raised, Dd!At, Dd!WriteSector
  <2>3. e \in DdDrives
    BY <1>1, <1>2, <1>4, <1>6, <1>7, <1>8, <1>9, <1>b, <2>2 DEF DdDrives, DdBits
  <2> QED
    BY <1>1, <1>2, <1>b, <2>2, <2>3
<1>c. CASE s = Sectors /\ "BLOCK" \in d.status
  <2>1. Dd!Write(d) = Dd!BlockDone(Dd!WriteSector(d), Dd!Other(d.cur) + 1, d.cur + 1, {"DATA_RQ"})
    BY <1>1, <1>2, <1>c DEF Dd!Write
  <2>2. e = [status |-> d.status \ {"BLOCK"}, cur |-> Dd!Other(d.cur) + 1,
             flags |-> d.flags \cup {"DATA_RQ"} \cup {"BM_INT"},
             ip3 |-> TRUE, buf |-> d.buf,
             written |-> d.written \cup {<<d.cur - 1, d.buf>>}]
    BY <1>5, <1>9, <1>c, <2>1 DEF DdDrives, Dd!Raised, Dd!At, Dd!WriteSector, Dd!BlockDone
  <2>3. e \in DdDrives
    BY <1>1, <1>2, <1>4, <1>6, <1>7, <1>8, <1>9, <1>c, <2>2 DEF DdDrives, DdBits
  <2> QED
    BY <1>1, <1>2, <1>c, <2>2, <2>3
<1>d. CASE s = Sectors /\ "BLOCK" \notin d.status
  <2>1. Dd!Write(d) = Dd!BlockDone(Dd!WriteSector(d), Dd!Other(d.cur) + 1, d.cur + 1, {"DATA_RQ"})
    BY <1>1, <1>2, <1>d DEF Dd!Write
  <2>2. e = [status |-> d.status \ {"RUNNING"}, cur |-> d.cur + 1,
             flags |-> d.flags \cup {} \cup {"BM_INT"},
             ip3 |-> TRUE, buf |-> d.buf,
             written |-> d.written \cup {<<d.cur - 1, d.buf>>}]
    BY <1>5, <1>9, <1>d, <2>1 DEF DdDrives, Dd!Raised, Dd!At, Dd!WriteSector, Dd!BlockDone
  <2>3. e \in DdDrives
    BY <1>1, <1>2, <1>4, <1>6, <1>7, <1>8, <1>9, <1>d, <2>2 DEF DdDrives, DdBits
  <2> QED
    BY <1>1, <1>2, <1>d, <2>2, <2>3
<1>e. CASE s > Sectors
  <2>1. Dd!Write(d) = d
    BY <1>1, <1>2, <1>e DEF Dd!Write
  <2>2. e = [status |-> d.status, cur |-> d.cur,
             flags |-> d.flags \cup {"BM_INT"},
             ip3 |-> TRUE, buf |-> d.buf,
             written |-> d.written]
    BY <1>5, <1>9, <1>e, <2>1 DEF DdDrives, Dd!Raised
  <2>3. e \in DdDrives
    BY <1>1, <1>2, <1>4, <1>6, <1>7, <1>8, <1>9, <1>e, <2>2 DEF DdDrives, DdBits
  <2> QED
    BY <1>1, <1>2, <1>e, <2>2, <2>3
<1> QED
  BY <1>1, <1>2, <1>a, <1>b, <1>c, <1>d, <1>e

(* ... and a read.                                                         *)
LEMMA UpdateReads ==
    ASSUME NEW d \in DdDrives, Dd!Running(d), ~bmWrite,
           NEW s, s = Dd!Sector(d.cur), NEW e, e = Dd!UpdateBm(d)
    PROVE  /\ e \in DdDrives /\ e.ip3 /\ "BM_INT" \in e.flags
           /\ e.written = d.written
           /\ Stuck(d.cur) =>
                /\ e.cur = d.cur /\ e.status = d.status \cup {"MICRO"}
                /\ "DATA_RQ" \notin e.flags
           /\ ~Stuck(d.cur) /\ s < Sectors =>
                /\ e.cur = d.cur + 1 /\ e.flags = d.flags \cup {"DATA_RQ", "BM_INT"}
                /\ e.status = d.status /\ e.buf = d.cur
           /\ ~Stuck(d.cur) /\ s >= Sectors => ("DATA_RQ" \in e.flags <=> "DATA_RQ" \in d.flags)
           /\ ~Stuck(d.cur) /\ s >= Sectors /\ s < Sectors + C2Sectors =>
                e.cur = d.cur + 1 /\ e.status = d.status
           /\ ~Stuck(d.cur) /\ s = Sectors + C2Sectors /\ "BLOCK" \in d.status =>
                e.cur = Dd!Other(d.cur) /\ e.status = d.status \ {"BLOCK"}
           /\ ~Stuck(d.cur) /\ s = Sectors + C2Sectors /\ "BLOCK" \notin d.status =>
                e.status = d.status \ {"RUNNING"}
<1> DEFINE L == Dd!BlockLength
<1>1. Sectors \in Nat \ {0} /\ C2Sectors \in Nat \ {0} /\ L = Sectors + C2Sectors + 1
  BY SizesAssumption, LengthFact
<1>2. s \in 0 .. L - 1 /\ d.cur \in Dd!Places /\ Dd!Places = 0 .. 2 * L - 1
  BY PlaceIs DEF DdDrives, Dd!Places
<1>3. d.cur = s \/ d.cur = L + s
  BY PlaceIs, <1>2
<1>4. Dd!Other(d.cur) \in Dd!Places
  BY PlaceIs, <1>1, <1>2
<1>5. e = Dd!Raised(Dd!Read(d), "BM_INT")
  BY DEF Dd!UpdateBm
<1>6. s < L - 1 => d.cur + 1 \in Dd!Places
  BY <1>1, <1>2, <1>3
<1>7. d.cur \in Nat
  BY <1>2
<1> HIDE DEF L
<1>9. /\ d = [status |-> d.status, cur |-> d.cur, flags |-> d.flags, ip3 |-> d.ip3,
                buf |-> d.buf, written |-> d.written]
      /\ d.status \subseteq {"RUNNING", "BLOCK", "MICRO"} /\ d.flags \subseteq DdBits
      /\ d.buf \in Nat /\ d.written \subseteq Nat \X Nat
  BY DEF DdDrives
<1>a. CASE Stuck(d.cur)
  <2>1. Dd!Read(d) = [d EXCEPT !.status = @ \cup {"MICRO"}, !.flags = @ \ {"DATA_RQ"}]
    BY <1>1, <1>2, <1>a DEF Dd!Read, Stuck
  <2>2. e = [status |-> d.status \cup {"MICRO"}, cur |-> d.cur,
             flags |-> (d.flags \ {"DATA_RQ"}) \cup {"BM_INT"},
             ip3 |-> TRUE, buf |-> d.buf,
             written |-> d.written]
    BY <1>5, <1>9, <1>a, <2>1 DEF DdDrives, Dd!Raised
  <2>3. e \in DdDrives
    BY <1>1, <1>2, <1>4, <1>6, <1>7, <1>9, <1>a, <2>2 DEF DdDrives, DdBits
  <2> QED
    BY <1>1, <1>2, <1>a, <2>2, <2>3
<1>b. CASE ~Stuck(d.cur) /\ s < Sectors
  <2>1. Dd!Read(d) = Dd!At([d EXCEPT !.buf = d.cur], d.cur + 1, {"DATA_RQ"})
    BY <1>1, <1>2, <1>b DEF Dd!Read, Stuck
  <2>2. e = [status |-> d.status, cur |-> d.cur + 1,
             flags |-> d.flags \cup {"DATA_RQ"} \cup {"BM_INT"},
             ip3 |-> TRUE, buf |-> d.cur,
             written |-> d.written]
    BY <1>5, <1>9, <1>b, <2>1 DEF DdDrives, Dd!Raised, Dd!At
  <2>3. e \in DdDrives
    BY <1>1, <1>2, <1>4, <1>6, <1>7, <1>9, <1>b, <2>2 DEF DdDrives, DdBits
  <2> QED
    BY <1>1, <1>2, <1>b, <2>2, <2>3
<1>c. CASE ~Stuck(d.cur) /\ s = Sectors + C2Sectors /\ "BLOCK" \in d.status
  <2>1. Dd!Read(d) = Dd!BlockDone(d, Dd!Other(d.cur), d.cur, {})
    BY <1>1, <1>2, <1>c DEF Dd!Read, Stuck
  <2>2. e = [status |-> d.status \ {"BLOCK"}, cur |-> Dd!Other(d.cur),
             flags |-> d.flags \cup {} \cup {"BM_INT"},
             ip3 |-> TRUE, buf |-> d.buf,
             written |-> d.written]
    BY <1>5, <1>9, <1>c, <2>1 DEF DdDrives, Dd!Raised, Dd!At, Dd!BlockDone
  <2>3. e \in DdDrives
    BY <1>1, <1>2, <1>4, <1>6, <1>7, <1>9, <1>c, <2>2 DEF DdDrives, DdBits
  <2> QED
    BY <1>1, <1>2, <1>c, <2>2, <2>3
<1>d. CASE ~Stuck(d.cur) /\ s = Sectors + C2Sectors /\ "BLOCK" \notin d.status
  <2>1. Dd!Read(d) = Dd!BlockDone(d, Dd!Other(d.cur), d.cur, {})
    BY <1>1, <1>2, <1>d DEF Dd!Read, Stuck
  <2>2. e = [status |-> d.status \ {"RUNNING"}, cur |-> d.cur,
             flags |-> d.flags \cup {} \cup {"BM_INT"},
             ip3 |-> TRUE, buf |-> d.buf,
             written |-> d.written]
    BY <1>5, <1>9, <1>d, <2>1 DEF DdDrives, Dd!Raised, Dd!At, Dd!BlockDone
  <2>3. e \in DdDrives
    BY <1>1, <1>2, <1>4, <1>6, <1>7, <1>9, <1>d, <2>2 DEF DdDrives, DdBits
  <2> QED
    BY <1>1, <1>2, <1>d, <2>2, <2>3
<1>e. CASE ~Stuck(d.cur) /\ s >= Sectors /\ s < Sectors + C2Sectors
  <2> DEFINE wants == {f \in {"C2_XFER"} : s + 1 = Sectors + C2Sectors}
  <2>1. Dd!Read(d) = Dd!At(d, d.cur + 1, wants)
    BY <1>1, <1>2, <1>e DEF Dd!Read, Stuck
  <2>2. wants \subseteq {"C2_XFER"}
    OBVIOUS
  <2> HIDE DEF wants
  <2>3. e = [status |-> d.status, cur |-> d.cur + 1, flags |-> d.flags \cup wants \cup {"BM_INT"},
             ip3 |-> TRUE, buf |-> d.buf, written |-> d.written]
    BY <1>5, <1>9, <1>e, <2>1 DEF Dd!Raised, Dd!At
  <2>4. d.flags \cup wants \cup {"BM_INT"} \subseteq DdBits
    BY <1>9, <2>2 DEF DdBits
  <2>5. e \in DdDrives
    BY <1>1, <1>2, <1>6, <1>9, <1>e, <2>3, <2>4 DEF DdDrives
  <2> QED
    BY <1>1, <1>2, <1>e, <2>2, <2>3, <2>5
<1> QED
  BY <1>1, <1>2, <1>a, <1>b, <1>c, <1>d, <1>e

DdInv == DdTyped /\ DdCalled

LEMMA NextDd == [Next]_vars => Dd!Program \/ Dd!EndOfDma \/ Dd!Nmi \/ UNCHANGED dd
<1> SUFFICES ASSUME [Next]_vars PROVE Dd!Program \/ Dd!EndOfDma \/ Dd!Nmi \/ UNCHANGED dd
  OBVIOUS
<1>1. CASE Program
  BY <1>1 DEF Program, AiOnly, RspOnly, SiOnly, DdOnly
<1>2. CASE PiEvent
  BY <1>2 DEF PiEvent
<1>3. CASE AiEvent \/ SpEvent \/ DpEvent \/ SpDmaEvent \/ ViEvent \/ SiEvent
  BY <1>3 DEF AiEvent, SpEvent, DpEvent, SpDmaEvent, ViEvent, SiEvent, AiOnly, RspOnly,
              SiOnly
<1>4. CASE Nmi
  BY <1>4 DEF Nmi
<1>5. CASE UNCHANGED vars
  BY <1>5 DEF vars
<1> QED
  BY <1>1, <1>2, <1>3, <1>4, <1>5 DEF Next

(* What a DMA moves has a place on the track.                              *)
LEMMA NthIsPlace ==
    ASSUME DdTyped, NEW n \in Nat
    PROVE  Dd!Nth(n) \in Nat
<1>1. plan.first \in {0, Dd!BlockLength}
  BY DEF DdTyped, Dd!NoPlan
<1>2. plan.first \in Dd!Places /\ Dd!BlockLength \in Nat
  BY <1>1, LengthFact, SizesAssumption DEF Dd!Places
<1>3. Dd!Other(plan.first) \in Nat
  BY <1>2, PlaceIs
<1> QED
  BY <1>1, <1>2, <1>3, SizesAssumption DEF Dd!Nth

LEMMA UpdateIsDrive ==
    ASSUME DdTyped, NEW d \in DdDrives,
           "BLOCK" \in d.status => Dd!Running(d)
    PROVE  LET e == Dd!UpdateBm(d)
           IN  /\ e \in DdDrives
               /\ Dd!Running(d) => e.ip3 /\ "BM_INT" \in e.flags
               /\ ~Dd!Running(d) => e = d
               /\ "BLOCK" \in e.status => Dd!Running(e)
<1> DEFINE e == Dd!UpdateBm(d)
<1> SUFFICES e \in DdDrives /\ (Dd!Running(d) => e.ip3 /\ "BM_INT" \in e.flags)
             /\ (~Dd!Running(d) => e = d) /\ ("BLOCK" \in e.status => Dd!Running(e))
  OBVIOUS
<1>0. d.cur \in Dd!Places /\ bmWrite \in BOOLEAN
  BY DEF DdDrives, DdTyped
<1>1. CASE ~Dd!Running(d)
  BY <1>1 DEF Dd!UpdateBm
<1>2. CASE Dd!Running(d) /\ bmWrite
  <2> DEFINE s == Dd!Sector(d.cur)
  <2>1. s \in 0 .. Sectors + C2Sectors /\ Sectors \in Nat \ {0}
    BY <1>0, PlaceIs, LengthFact, SizesAssumption
  <2> HIDE DEF e, s
  <2>2. /\ \/ e.status = d.status
           \/ "BLOCK" \in d.status /\ e.status = d.status \ {"BLOCK"}
           \/ "BLOCK" \notin d.status /\ e.status = d.status \ {"RUNNING"}
        /\ e \in DdDrives /\ e.ip3 /\ "BM_INT" \in e.flags
    BY <1>2, <2>1, UpdateWrites DEF e, s
  <2> QED
    BY <1>2, <2>2 DEF Dd!Running
<1>3. CASE Dd!Running(d) /\ ~bmWrite
  <2> DEFINE s == Dd!Sector(d.cur)
  <2>1. s \in 0 .. Sectors + C2Sectors /\ Sectors \in Nat \ {0} /\ C2Sectors \in Nat
    BY <1>0, PlaceIs, LengthFact, SizesAssumption
  <2> HIDE DEF e, s
  <2>2. e \in DdDrives /\ e.ip3 /\ "BM_INT" \in e.flags
    BY <1>3, UpdateReads DEF e
  <2>3. Stuck(d.cur) => e.status = d.status \cup {"MICRO"}
    BY <1>3, UpdateReads DEF e
  <2>4. ~Stuck(d.cur) /\ s < Sectors + C2Sectors => e.status = d.status
    BY <1>3, <2>1, UpdateReads DEF e, s
  <2>5. ~Stuck(d.cur) /\ s = Sectors + C2Sectors =>
            \/ "BLOCK" \in d.status /\ e.status = d.status \ {"BLOCK"}
            \/ "BLOCK" \notin d.status /\ e.status = d.status \ {"RUNNING"}
    BY <1>3, UpdateReads DEF e, s
  <2> QED
    BY <1>3, <2>1, <2>2, <2>3, <2>4, <2>5 DEF Dd!Running
<1> QED
  BY <1>0, <1>1, <1>2, <1>3

LEMMA InitDd == Dd!Init => DdInv /\ DdProgress
<1> SUFFICES ASSUME Dd!Init PROVE DdInv /\ DdProgress
  OBVIOUS
<1>1. 0 \in Dd!Places
  BY LengthFact, SizesAssumption DEF Dd!Places
<1>2. drive \in DdDrives
  BY <1>1 DEF Dd!Init, DdDrives
<1>3. piInts = 0 /\ sectorsMoved = 0 /\ Dd!Idle /\ ~armed /\ addr = "rom"
      /\ drive.status = {} /\ ~drive.ip3
      /\ plan = Dd!NoPlan /\ seen = {}
  BY DEF Dd!Init, Dd!Idle
<1> QED
  <2>1. armed \in BOOLEAN /\ bmWrite \in BOOLEAN /\ bad \in BOOLEAN /\ piLost \in BOOLEAN
        /\ resetHeld \in BOOLEAN
    BY DEF Dd!Init
  <2> QED
    BY <1>2, <1>3, <2>1 DEF DdInv, DdTyped, DdCalled, DdProgress, Dd!Running

(* The drive's registers.                                                  *)
LEMMA CommandIsInv ==
    ASSUME DdInv, Dd!Seek \/ Dd!HoldReset \/ Dd!ReleaseReset
    PROVE  DdInv'
<1>0. drive \in DdDrives /\ 0 \in Dd!Places
  BY LengthFact, SizesAssumption DEF DdInv, DdTyped, Dd!Places
<1>1. CASE Dd!Seek
  <2>1. drive' \in DdDrives /\ drive'.status = drive.status /\ drive'.ip3
        /\ "MECHA_INT" \in drive'.flags
    BY <1>0, <1>1 DEF Dd!Seek, Dd!Raised, DdDrives, DdBits
  <2> QED
    BY <1>1, <2>1 DEF DdInv, DdTyped, DdCalled, Dd!Seek, Dd!piVars, OnItsWay, Dd!Running,
                      Dd!Idle
<1>2. CASE Dd!HoldReset
  <2>1. drive' \in DdDrives /\ drive'.status = drive.status /\ drive'.flags = drive.flags
        /\ drive'.ip3 = drive.ip3
    BY <1>0, <1>2 DEF Dd!HoldReset, DdInv, DdCalled, DdDrives, DdBits
  <2> QED
    BY <1>2, <2>1 DEF DdInv, DdTyped, DdCalled, Dd!HoldReset, Dd!piVars, OnItsWay,
                      Dd!Running, Dd!Idle
<1>3. CASE Dd!ReleaseReset
  <2>1. drive' \in DdDrives /\ drive'.status = {}
        /\ drive'.flags = drive.flags \ {"DATA_RQ", "C2_XFER", "BM_INT"}
        /\ (drive'.ip3 => "MECHA_INT" \in drive.flags)
    BY <1>0, <1>3 DEF Dd!ReleaseReset, DdDrives, DdBits
  <2> QED
    BY <1>3, <2>1 DEF DdInv, DdTyped, DdCalled, Dd!ReleaseReset, Dd!piVars, OnItsWay,
                      Dd!Running, Dd!Idle
<1> QED
  BY <1>1, <1>2, <1>3

(* The drive, started at a place.                                          *)
Started(first, blocks) ==
    LET d == [drive EXCEPT !.cur = first,
                           !.status = (@ \cup {b \in {"BLOCK"} : blocks = 2}) \cup {"RUNNING"},
                           !.flags = @ \ {"MECHA_INT"}]
    IN  [d EXCEPT !.ip3 = @ /\ "BM_INT" \in d.flags]

LEMMA StartedFacts ==
    ASSUME DdInv, ~Dd!Running(drive),
           NEW first \in {0, Dd!BlockLength}, NEW blocks \in {1, 2}
    PROVE  LET d == Started(first, blocks)
           IN  /\ d \in DdDrives /\ Dd!Running(d) /\ d.cur = first
               /\ "BLOCK" \in d.status <=> blocks = 2
               /\ d.flags = drive.flags \ {"MECHA_INT"}
<1>1. drive \in DdDrives /\ "BLOCK" \notin drive.status
  BY DEF DdInv, DdTyped
<1>2. first \in Dd!Places
  BY LengthFact, SizesAssumption DEF Dd!Places
<1> DEFINE more == {b \in {"BLOCK"} : blocks = 2}
<1>3. more = IF blocks = 2 THEN {"BLOCK"} ELSE {}
  OBVIOUS
<1> HIDE DEF more
<1> DEFINE c == [drive EXCEPT !.cur = first,
                            !.status = (@ \cup more) \cup {"RUNNING"},
                            !.flags = @ \ {"MECHA_INT"}]
           d == [c EXCEPT !.ip3 = @ /\ "BM_INT" \in c.flags]
<1>4. c \in DdDrives /\ Dd!Running(c) /\ c.cur = first
      /\ ("BLOCK" \in c.status <=> blocks = 2)
      /\ c.flags = drive.flags \ {"MECHA_INT"}
  BY <1>1, <1>2, <1>3 DEF DdDrives, DdBits, Dd!Running
<1> HIDE DEF c
<1>5. d \in DdDrives /\ Dd!Running(d) /\ d.cur = first
      /\ ("BLOCK" \in d.status <=> blocks = 2)
      /\ d.flags = drive.flags \ {"MECHA_INT"}
  BY <1>4 DEF DdDrives, Dd!Running
<1> QED
  BY <1>5 DEF Started, c, more

LEMMA StartIsInv ==
    ASSUME DdInv, Dd!StartBm
    PROVE  DdInv'
<1>1. PICK first \in {0, Dd!BlockLength}, blocks \in {1, 2} :
         /\ drive' = [Dd!UpdateBm(Started(first, blocks)) EXCEPT !.written = {}]
         /\ plan' = [first |-> first, blocks |-> blocks]
  BY DEF Dd!StartBm, Started
<1> DEFINE d == Started(first, blocks)
           e == Dd!UpdateBm(d)
<1>2. ~Dd!Running(drive) /\ Dd!Idle
  BY DEF Dd!StartBm
<1>3. d \in DdDrives /\ Dd!Running(d)
  BY <1>2, StartedFacts
<1> HIDE DEF d
<1>4. e \in DdDrives /\ e.ip3 /\ "BM_INT" \in e.flags /\ ("BLOCK" \in e.status => Dd!Running(e))
  BY <1>3, UpdateIsDrive DEF DdInv
<1>5. drive' = [e EXCEPT !.written = {}]
  BY <1>1 DEF d
<1> HIDE DEF e
<1>6. drive' \in DdDrives /\ drive'.ip3 /\ drive'.flags = e.flags /\ drive'.status = e.status
  BY <1>4, <1>5 DEF DdDrives
<1> QED
  BY <1>1, <1>2, <1>4, <1>6
     DEF DdInv, DdTyped, DdCalled, Dd!StartBm, Dd!piVars, OnItsWay, Dd!Running, Dd!Idle

LEMMA LoweredFacts ==
    ASSUME NEW d \in DdDrives, NEW bits
    PROVE  LET e == Dd!Lowered(d, bits)
           IN  /\ e \in DdDrives /\ e.status = d.status /\ e.cur = d.cur /\ ~e.ip3
               /\ e.flags = d.flags \ bits /\ e.buf = d.buf /\ e.written = d.written
  BY DEF Dd!Lowered, DdDrives

LEMMA StatusIsInv ==
    ASSUME DdInv, Dd!ReadStatus
    PROVE  DdInv'
<1> DEFINE d == Dd!Lowered(drive, {"BM_INT"})
           e == Dd!UpdateBm(d)
<1>1. drive \in DdDrives
  BY DEF DdInv, DdTyped
<1>2. d \in DdDrives /\ d.status = drive.status /\ ~d.ip3
  BY <1>1, LoweredFacts
<1> HIDE DEF d
<1>3. /\ e \in DdDrives
      /\ Dd!Running(d) => e.ip3 /\ "BM_INT" \in e.flags
      /\ ~Dd!Running(d) => e = d
      /\ "BLOCK" \in e.status => Dd!Running(e)
  BY <1>2, UpdateIsDrive DEF DdInv, DdTyped, Dd!Running
<1> HIDE DEF e
<1>4. CASE drive' = drive
  BY <1>4 DEF DdInv, DdTyped, DdCalled, Dd!ReadStatus, Dd!piVars, OnItsWay, Dd!Running,
              Dd!Idle, DdDrives
<1>5. CASE drive' = e
  BY <1>1, <1>2, <1>3, <1>5
     DEF DdInv, DdTyped, DdCalled, Dd!ReadStatus, Dd!piVars, OnItsWay, Dd!Running, Dd!Idle,
         DdDrives
<1> QED
  BY <1>4, <1>5 DEF Dd!ReadStatus, d, e

(* The parallel interface.                                                 *)
LEMMA SetAddrIsInv ==
    ASSUME DdInv, NEW a \in {"ds", "c2", "rom"}, Dd!SetAddr(a)
    PROVE  DdInv'
<1>1. drive \in DdDrives
  BY DEF DdInv, DdTyped
<1>2. drive' \in DdDrives /\ drive'.status = drive.status
      /\ (a = "rom" => drive' = drive) /\ (drive'.ip3 => drive' = drive)
  <2>1. CASE a = "ds"
    BY <1>1, <2>1, LoweredFacts DEF Dd!SetAddr
  <2>2. CASE a = "c2"
    BY <1>1, <2>2, LoweredFacts DEF Dd!SetAddr
  <2>3. CASE a = "rom"
    BY <1>1, <2>3 DEF Dd!SetAddr
  <2> QED
    BY <2>1, <2>2, <2>3
<1> QED
  BY <1>1, <1>2 DEF DdInv, DdTyped, DdCalled, Dd!SetAddr, OnItsWay, Dd!Running, Dd!Idle

LEMMA DmaIsInv ==
    ASSUME DdInv, Dd!Dma \/ Dd!WriteRom
    PROVE  DdInv'
<1>1. drive \in DdDrives /\ Dd!Nth(sectorsMoved) \in Nat
  BY NthIsPlace DEF DdInv, DdTyped
<1>2. piInts = 0 /\ ~Dd!Idle' /\ piInts' = 1
  BY DEF Dd!Dma, Dd!WriteRom, DdInv, DdTyped, Dd!Idle
<1>3. drive' \in DdDrives /\ drive'.status = drive.status /\ drive'.flags = drive.flags
      /\ drive'.ip3 = drive.ip3
  BY <1>1 DEF Dd!Dma, Dd!WriteRom, DdDrives
<1>4. CASE Dd!Dma
  <2>1. sectorsMoved' \in Nat
    BY <1>4 DEF Dd!Dma, DdInv, DdTyped
  <2>2. /\ armed /\ ~armed' /\ armed' \in BOOLEAN /\ addr' = addr /\ bmWrite' = bmWrite
        /\ bad' = bad /\ resetHeld' = resetHeld /\ seen' = seen /\ plan' = plan
        /\ piLost' = piLost
    BY <1>4 DEF Dd!Dma
  <2>3. DdTyped'
    BY <1>2, <1>3, <2>1, <2>2 DEF DdInv, DdTyped, Dd!Running
  <2>4. DdCalled'
    BY <1>2, <1>3, <2>2 DEF DdInv, DdCalled, OnItsWay, Dd!Running
  <2> QED
    BY <2>3, <2>4 DEF DdInv
<1>5. CASE Dd!WriteRom
  BY <1>2, <1>3, <1>5
     DEF DdInv, DdTyped, DdCalled, Dd!WriteRom, Dd!program, OnItsWay, Dd!Running
<1> QED
  BY <1>4, <1>5

LEMMA RefuseIsInv ==
    ASSUME DdInv, Dd!Refuse \/ Dd!AcknowledgePi
    PROVE  DdInv'
<1>1. Dd!Idle' <=> Dd!Idle
  BY DEF Dd!Refuse, Dd!AcknowledgePi, Dd!Idle
<1> QED
  BY <1>1
     DEF Dd!Refuse, Dd!AcknowledgePi, DdInv, DdTyped, DdCalled, Dd!program, OnItsWay,
         Dd!Running

LEMMA EndOfDmaIsInv ==
    ASSUME DdInv, Dd!EndOfDma
    PROVE  DdInv'
<1> DEFINE e == Dd!UpdateBm(drive)
<1>1. /\ e \in DdDrives
      /\ Dd!Running(drive) => e.ip3 /\ "BM_INT" \in e.flags
      /\ ~Dd!Running(drive) => e = drive
      /\ "BLOCK" \in e.status => Dd!Running(e)
  BY UpdateIsDrive DEF DdInv, DdTyped
<1> HIDE DEF e
<1>2. piInts = 1 /\ piInts' = 0 /\ Dd!Idle' /\ ~armed
  BY DEF Dd!EndOfDma, DdInv, DdTyped, Dd!Idle
<1>3. CASE addr \in {"ds", "c2"}
  <2>1. drive' = e
    BY <1>3 DEF Dd!EndOfDma, e
  <2> QED
    BY <1>1, <1>2, <2>1
       DEF Dd!EndOfDma, DdInv, DdTyped, DdCalled, Dd!program, OnItsWay, Dd!Running
<1>4. CASE addr \notin {"ds", "c2"}
  BY <1>2, <1>4
     DEF Dd!EndOfDma, DdInv, DdTyped, DdCalled, Dd!program, OnItsWay, Dd!Running
<1> QED
  BY <1>3, <1>4

LEMMA DdNmiIsInv ==
    ASSUME DdInv, Dd!Nmi
    PROVE  DdInv'
<1>1. Dd!Idle'
  BY DEF Dd!Nmi, Dd!Idle
<1> DEFINE busy == piInts > 0
<1>2. piLost' = (piLost \/ armed \/ busy)
  BY DEF Dd!Nmi
<1> HIDE DEF busy
<1>3. piLost' \in BOOLEAN /\ (~piLost' => ~piLost /\ ~armed /\ ~busy)
  BY <1>2
<1>4. ~busy => piInts = 0
  BY DEF busy, DdInv, DdTyped
<1>5. ~piLost' => ~piLost /\ ~armed /\ piInts = 0
  BY <1>3, <1>4
<1>6. piInts' = 0 /\ ~armed' /\ armed' \in BOOLEAN /\ seen' = {} /\ addr' = addr /\ drive' = drive
      /\ bmWrite' = bmWrite /\ bad' = bad /\ resetHeld' = resetHeld /\ plan' = plan
      /\ sectorsMoved' = sectorsMoved
  BY DEF Dd!Nmi
<1>7. DdTyped'
  BY <1>1, <1>3, <1>6 DEF DdInv, DdTyped, Dd!Running
<1>8. DdCalled'
  BY <1>5, <1>6 DEF DdInv, DdTyped, DdCalled, OnItsWay, Dd!Running
<1> QED
  BY <1>7, <1>8 DEF DdInv

LEMMA NextDdInv == DdInv /\ [Next]_vars => DdInv'
<1> SUFFICES ASSUME DdInv, [Next]_vars PROVE DdInv'
  OBVIOUS
<1>1. CASE Dd!Program
  BY <1>1, CommandIsInv, StartIsInv, StatusIsInv, SetAddrIsInv, DmaIsInv, RefuseIsInv
     DEF Dd!Program
<1>2. CASE UNCHANGED dd
  BY <1>2 DEF dd, DdInv, DdTyped, DdCalled, OnItsWay, Dd!Running, Dd!Idle
<1> QED
  BY <1>1, <1>2, EndOfDmaIsInv, DdNmiIsInv, NextDd

(* The transfer.                                                           *)
LEMMA PlaceOf ==
    ASSUME NEW base \in {0, Dd!BlockLength}, NEW s \in 0 .. Sectors + C2Sectors
    PROVE  /\ base + s \in Dd!Places /\ Dd!Sector(base + s) = s
           /\ Dd!Block(base + s) = IF base = 0 THEN 0 ELSE 1
           /\ Dd!Other(base + s) = IF base = 0 THEN Dd!BlockLength ELSE 0
<1>1. Dd!BlockLength \in Nat \ {0} /\ s \in 0 .. Dd!BlockLength - 1
  BY LengthFact, SizesAssumption
<1>2. CASE base = 0
  <2>1. base + s = s
    BY <1>1, <1>2
  <2> QED
    BY <1>1, <1>2, <2>1, PlaceFacts
<1>3. CASE base = Dd!BlockLength
  BY <1>1, <1>3, PlaceFacts
<1> QED
  BY <1>2, <1>3

LEMMA WrittenFacts ==
    ASSUME NEW n \in Nat
    PROVE  /\ WrittenTo(0) = {}
           /\ WrittenTo(n + 1) = WrittenTo(n) \cup {<<Dd!Nth(n), Dd!Nth(n)>>}
<1>1. 0 .. 0 - 1 = {} /\ 0 .. n + 1 - 1 = (0 .. n - 1) \cup {n}
  OBVIOUS
<1> QED
  BY <1>1 DEF WrittenTo

LEMMA TurnFacts ==
    ASSUME DdTyped, plan # Dd!NoPlan
    PROVE  /\ plan.first \in {0, Dd!BlockLength} /\ plan.blocks \in {1, 2}
           /\ Turn \in {0, 1} /\ Base \in {0, Dd!BlockLength}
           /\ Dd!Other(plan.first) = IF plan.first = 0 THEN Dd!BlockLength ELSE 0
           /\ Turn * Sectors = IF Turn = 0 THEN 0 ELSE Sectors
           /\ 1 * Sectors = Sectors /\ 2 * Sectors = Sectors + Sectors
           /\ \A k \in 1 .. Sectors : Dd!Nth(Turn * Sectors + k - 1) = Base + k - 1
<1>1. plan.first \in {0, Dd!BlockLength} /\ plan.blocks \in {1, 2}
  BY DEF DdTyped
<1>2. 0 \in 0 .. Sectors + C2Sectors /\ Sectors \in Nat \ {0} /\ Dd!BlockLength \in Nat
  BY SizesAssumption, LengthFact
<1>3. Dd!Other(plan.first) = IF plan.first = 0 THEN Dd!BlockLength ELSE 0
  <2>1. plan.first + 0 = plan.first
    BY <1>1, <1>2
  <2> QED
    BY <1>1, <1>2, <2>1, PlaceOf
<1>4. Turn \in {0, 1} /\ Base \in {0, Dd!BlockLength}
  BY <1>1, <1>3 DEF Turn, Base
<1>5. Turn * Sectors = IF Turn = 0 THEN 0 ELSE Sectors
  BY <1>2, <1>4
<1>6. ASSUME NEW k \in 1 .. Sectors PROVE Dd!Nth(Turn * Sectors + k - 1) = Base + k - 1
  <2>1. CASE Turn = 0
    <3>1. Turn * Sectors + k - 1 = k - 1 /\ k - 1 < Sectors
      BY <1>2, <1>5, <2>1
    <3> QED
      BY <1>1, <1>2, <2>1, <3>1 DEF Dd!Nth, Base
  <2>2. CASE Turn = 1
    <3>1. Turn * Sectors + k - 1 = Sectors + k - 1 /\ ~(Sectors + k - 1 < Sectors)
      BY <1>2, <1>5, <2>2
    <3> QED
      BY <1>1, <1>2, <1>3, <2>2, <3>1 DEF Dd!Nth, Base
  <2> QED
    BY <1>4, <2>1, <2>2
<1> QED
  BY <1>1, <1>2, <1>3, <1>4, <1>5, <1>6

(* Between the sectors the drive goes on by itself, when its interrupt or  *)
(* a DMA of the C2 sectors is over.                                        *)
LEMMA ReadGoesOn ==
    ASSUME DdTyped, plan # Dd!NoPlan, ~bmWrite,
           "BLOCK" \in drive.status => plan.blocks = 2,
           Dd!Running(drive), NEW s \in 0 .. Sectors + C2Sectors, drive.cur = Base + s,
           \/ s > Sectors /\ sectorsMoved = Turn * Sectors + Sectors
           \/ s = 0 /\ sectorsMoved = Turn * Sectors,
           NEW d \in DdDrives, d.cur = drive.cur, d.status = drive.status, d.written = {},
           "DATA_RQ" \notin d.flags, drive' = Dd!UpdateBm(d),
           plan' = plan, sectorsMoved' = sectorsMoved, bmWrite' = bmWrite, bad' = bad,
           ~OnItsWay({"ds", "c2"})', "DATA_RQ" \notin seen',
           s = 0 => "BM_INT" \notin seen'
    PROVE  /\ ("BLOCK" \in drive.status => plan.blocks = 2)'
           /\ (Ended \/ InBlock(Dd!Sector(drive.cur)))'
<1> DEFINE e == Dd!UpdateBm(d)
<1>0. Sectors \in Nat \ {0} /\ C2Sectors \in Nat \ {0} /\ Dd!BlockLength = Sectors + C2Sectors + 1
  BY SizesAssumption, LengthFact
<1>1. /\ plan.first \in {0, Dd!BlockLength} /\ plan.blocks \in {1, 2}
      /\ Turn \in {0, 1} /\ Base \in {0, Dd!BlockLength}
      /\ Dd!Other(plan.first) = IF plan.first = 0 THEN Dd!BlockLength ELSE 0
      /\ Turn * Sectors = IF Turn = 0 THEN 0 ELSE Sectors
      /\ 1 * Sectors = Sectors /\ 2 * Sectors = Sectors + Sectors
  BY TurnFacts
<1>2. /\ drive.cur \in Dd!Places /\ Dd!Sector(drive.cur) = s
      /\ Dd!Block(drive.cur) = IF Base = 0 THEN 0 ELSE 1
      /\ Dd!Other(drive.cur) = IF Base = 0 THEN Dd!BlockLength ELSE 0
  BY <1>1, PlaceOf
<1>3. Dd!Running(d)
  BY DEF Dd!Running
<1>4. drive' = e
  OBVIOUS
<1>5. /\ e \in DdDrives /\ e.ip3 /\ "BM_INT" \in e.flags /\ e.written = {}
      /\ Stuck(d.cur) =>
           /\ e.cur = d.cur /\ e.status = d.status \cup {"MICRO"}
           /\ "DATA_RQ" \notin e.flags
      /\ ~Stuck(d.cur) /\ s < Sectors =>
           /\ e.cur = d.cur + 1 /\ e.flags = d.flags \cup {"DATA_RQ", "BM_INT"}
           /\ e.status = d.status /\ e.buf = d.cur
      /\ ~Stuck(d.cur) /\ s >= Sectors => "DATA_RQ" \notin e.flags
      /\ ~Stuck(d.cur) /\ s >= Sectors /\ s < Sectors + C2Sectors =>
           e.cur = d.cur + 1 /\ e.status = d.status
      /\ ~Stuck(d.cur) /\ s = Sectors + C2Sectors /\ "BLOCK" \in d.status =>
           e.cur = Dd!Other(d.cur) /\ e.status = d.status \ {"BLOCK"}
      /\ ~Stuck(d.cur) /\ s = Sectors + C2Sectors /\ "BLOCK" \notin d.status =>
           e.status = d.status \ {"RUNNING"}
  BY <1>2, <1>3, UpdateReads
<1> HIDE DEF e
<1>a. CASE Stuck(d.cur)
  <2>1. /\ drive'.cur = drive.cur /\ Dd!Running(drive)' /\ "DATA_RQ" \notin drive'.flags
        /\ drive'.written = {} /\ ("BLOCK" \in drive'.status <=> "BLOCK" \in drive.status)
    BY <1>4, <1>5, <1>a DEF Dd!Running
  <2>2. Turn' = Turn /\ Base' = Base
    BY <2>1 DEF Turn, Base
  <2>3. Between(s)'
    BY <2>1, <2>2 DEF Between, OnItsWay
  <2> QED
    BY <1>2, <2>1, <2>2, <2>3 DEF InBlock
<1>b. CASE ~Stuck(d.cur) /\ s = 0
  <2>1. /\ drive'.cur = drive.cur + 1 /\ Dd!Running(drive)' /\ drive'.buf = drive.cur
        /\ {"DATA_RQ", "BM_INT"} \subseteq drive'.flags
        /\ drive'.written = {} /\ drive'.status = drive.status
    BY <1>0, <1>4, <1>5, <1>b DEF Dd!Running
  <2>2. Turn' = Turn /\ Base' = Base
    BY <2>1 DEF Turn, Base
  <2>3. drive'.cur = Base + 1
    BY <1>0, <1>1, <1>b, <2>1
  <2>4. Dd!Block(drive'.cur) = Dd!Block(drive.cur) /\ Dd!Sector(drive'.cur) = 1
    BY <1>0, <1>1, <1>2, <2>3, PlaceOf
  <2>5. ~Stuck(drive.cur)'
    BY <1>b, <2>4 DEF Stuck
  <2>6. sectorsMoved = Turn * Sectors + 1 - 1
    BY <1>0, <1>1, <1>b
  <2>7. drive'.buf = drive'.cur - 1
    BY <1>0, <1>1, <1>2, <2>1, <2>3
  <2>8. DataCalled(1)'
    BY <1>0, <1>b, <2>1, <2>2, <2>5, <2>6, <2>7 DEF DataCalled, OnItsWay
  <2> QED
    BY <2>1, <2>2, <2>3, <2>4, <2>8 DEF InBlock
<1>c. CASE ~Stuck(d.cur) /\ s > Sectors /\ s < Sectors + C2Sectors
  <2>1. /\ drive'.cur = drive.cur + 1 /\ Dd!Running(drive)'
        /\ "DATA_RQ" \notin drive'.flags
        /\ drive'.written = {} /\ drive'.status = drive.status
    BY <1>0, <1>4, <1>5, <1>c DEF Dd!Running
  <2>2. Turn' = Turn /\ Base' = Base
    BY <2>1 DEF Turn, Base
  <2>3. drive'.cur = Base + (s + 1)
    BY <1>0, <1>1, <2>1
  <2>4. Dd!Sector(drive'.cur) = s + 1
    BY <1>0, <1>1, <1>c, <2>3, PlaceOf
  <2>5. Between(s + 1)'
    BY <1>0, <1>c, <2>1, <2>2 DEF Between, OnItsWay
  <2> QED
    BY <2>1, <2>2, <2>3, <2>4, <2>5 DEF InBlock
<1>d. CASE ~Stuck(d.cur) /\ s = Sectors + C2Sectors /\ "BLOCK" \in d.status
  <2>1. /\ drive'.cur = Dd!Other(drive.cur) /\ Dd!Running(drive)'
        /\ "DATA_RQ" \notin drive'.flags
        /\ drive'.written = {} /\ "BLOCK" \notin drive'.status
    BY <1>0, <1>4, <1>5, <1>d DEF Dd!Running
  <2>2. plan.blocks = 2 /\ Turn = 0 /\ Base = plan.first
    BY <1>d DEF Turn, Base
  <2>3. Turn' = 1 /\ Base' = Dd!Other(plan.first)
    BY <2>1, <2>2 DEF Turn, Base
  <2>4. /\ Dd!Other(plan.first) \in {0, Dd!BlockLength}
        /\ drive'.cur = Dd!Other(plan.first)
    BY <1>1, <1>2, <2>1, <2>2
  <2>5. drive'.cur = Dd!Other(plan.first) + 0
    BY <1>0, <2>4
  <2>6. Dd!Sector(drive'.cur) = 0
    BY <1>0, <2>4, <2>5, PlaceOf
  <2>7. sectorsMoved = 1 * Sectors
    BY <1>0, <1>1, <1>d, <2>2
  <2>8. Between(0)'
    BY <1>0, <2>1, <2>3, <2>7 DEF Between, OnItsWay
  <2> QED
    BY <2>1, <2>3, <2>5, <2>6, <2>8 DEF InBlock
<1>e. CASE ~Stuck(d.cur) /\ s = Sectors + C2Sectors /\ "BLOCK" \notin d.status
  <2>1. /\ ~Dd!Running(drive)' /\ "DATA_RQ" \notin drive'.flags /\ drive'.written = {}
        /\ "BLOCK" \notin drive'.status
    BY <1>0, <1>4, <1>5, <1>e DEF Dd!Running
  <2>2. sectorsMoved = plan.blocks * Sectors
    BY <1>0, <1>1, <1>e DEF Turn
  <2> QED
    BY <2>1, <2>2 DEF Ended, OnItsWay
<1> QED
  BY <1>0, <1>a, <1>b, <1>c, <1>d, <1>e

(* At the end of the DMA of a sector it calls for the next one.            *)
LEMMA SectorIsMoved ==
    ASSUME DdTyped, plan # Dd!NoPlan, "BLOCK" \in drive.status => plan.blocks = 2,
           NEW s, InBlock(s), DataMoves(s), s = Dd!Sector(drive.cur), ~armed,
           drive' = Dd!UpdateBm(drive),
           plan' = plan, sectorsMoved' = sectorsMoved, bmWrite' = bmWrite, bad' = bad,
           ~OnItsWay({"ds", "c2"})', seen' = seen
    PROVE  /\ ("BLOCK" \in drive.status => plan.blocks = 2)'
           /\ (Ended \/ InBlock(Dd!Sector(drive.cur)))'
<1> DEFINE e == Dd!UpdateBm(drive)
<1>0. Sectors \in Nat \ {0} /\ C2Sectors \in Nat \ {0} /\ Dd!BlockLength = Sectors + C2Sectors + 1
  BY SizesAssumption, LengthFact
<1>1. /\ plan.first \in {0, Dd!BlockLength} /\ plan.blocks \in {1, 2}
      /\ Turn \in {0, 1} /\ Base \in {0, Dd!BlockLength}
      /\ Dd!Other(plan.first) = IF plan.first = 0 THEN Dd!BlockLength ELSE 0
      /\ Turn * Sectors = IF Turn = 0 THEN 0 ELSE Sectors
      /\ 1 * Sectors = Sectors /\ 2 * Sectors = Sectors + Sectors
      /\ \A k \in 1 .. Sectors : Dd!Nth(Turn * Sectors + k - 1) = Base + k - 1
  BY TurnFacts
<1> DEFINE T == Turn * Sectors
<1>2. /\ s \in 1 .. Sectors /\ drive.cur = Base + s /\ Dd!Running(drive)
      /\ sectorsMoved = Turn * Sectors + s
      /\ ~bmWrite => ~Stuck(drive.cur)
      /\ bmWrite => drive.buf = drive.cur - 1
      /\ drive.written = IF bmWrite THEN WrittenTo(Turn * Sectors + s - 1) ELSE {}
      /\ seen \cap {"BM_INT", "DATA_RQ"} = {}
      /\ "DATA_RQ" \notin drive.flags
  BY DEF InBlock, DataMoves
<1>3. /\ drive.cur \in Dd!Places /\ Dd!Block(drive.cur) = IF Base = 0 THEN 0 ELSE 1
      /\ Dd!Other(drive.cur) = IF Base = 0 THEN Dd!BlockLength ELSE 0
  BY <1>0, <1>1, <1>2, PlaceOf
<1>4. drive' = e /\ drive \in DdDrives /\ bmWrite \in BOOLEAN
  BY DEF DdTyped
<1>6. s \in 1 .. Sectors /\ sectorsMoved = T + s
  BY <1>2
<1>10. T + (s + 1) - 1 = T + s /\ T + s - 1 + 1 = T + s /\ T + s - 1 \in Nat
  <2> HIDE DEF T
  <2>1. ASSUME NEW t \in Nat, NEW k \in 1 .. Sectors
        PROVE  t + (k + 1) - 1 = t + k /\ t + k - 1 + 1 = t + k /\ t + k - 1 \in Nat
    BY <1>0
  <2>2. T \in Nat
    BY <1>0, <1>1 DEF T
  <2> QED
    BY <1>6, <2>1, <2>2
<1>7. T \in Nat /\ (T = IF Turn = 0 THEN 0 ELSE Sectors)
  BY <1>0, <1>1
<1>8. Dd!Nth(T + s - 1) = Base + s - 1
  BY <1>1, <1>6
<1>9. drive.written = IF bmWrite THEN WrittenTo(T + s - 1) ELSE {}
  BY <1>2
<1> HIDE DEF T
<1>11. Base + s - 1 = drive.cur - 1
  <2>1. drive.cur = Base + s /\ Base \in Nat /\ s \in Nat
    BY <1>0, <1>1, <1>2
  <2> QED
    BY <2>1
<1>5. s < Sectors =>
         /\ Dd!Block(drive.cur + 1) = Dd!Block(drive.cur)
         /\ Dd!Sector(drive.cur + 1) = s + 1
         /\ drive.cur + 1 = Base + (s + 1)
  <2> SUFFICES ASSUME s < Sectors
               PROVE  Dd!Block(drive.cur + 1) = Dd!Block(drive.cur)
                      /\ Dd!Sector(drive.cur + 1) = s + 1 /\ drive.cur + 1 = Base + (s + 1)
    OBVIOUS
  <2>1. drive.cur + 1 = Base + (s + 1) /\ s + 1 \in 0 .. Sectors + C2Sectors
    BY <1>0, <1>1, <1>2
  <2> QED
    BY <1>1, <1>3, <2>1, PlaceOf
<1>a. CASE bmWrite
  <2> DEFINE m == T + s - 1
             more == drive.written \cup {<<drive.cur - 1, drive.buf>>}
  <2>1. m \in Nat /\ Dd!Nth(m) = drive.cur - 1 /\ m + 1 = sectorsMoved
    <3> QED
      BY <1>0, <1>6, <1>7, <1>8, <1>10, <1>11
  <2>2. more = WrittenTo(sectorsMoved)
    BY <1>2, <1>9, <1>a, <2>1, WrittenFacts
  <2>0. drive \in DdDrives /\ Dd!Running(drive) /\ bmWrite /\ s = Dd!Sector(drive.cur)
        /\ (s < Sectors => s \in 1 .. Sectors - 1) /\ s # 0 /\ ~(s > Sectors)
    BY <1>0, <1>2, <1>4, <1>a
  <2> HIDE DEF m
  <2>3. /\ e \in DdDrives
        /\ s < Sectors =>
             /\ e.cur = drive.cur + 1 /\ e.flags = drive.flags \cup {"DATA_RQ", "BM_INT"}
             /\ e.status = drive.status /\ e.buf = drive.buf /\ e.written = more
        /\ s = Sectors /\ "BLOCK" \in drive.status =>
             /\ e.cur = Dd!Other(drive.cur) + 1
             /\ e.flags = drive.flags \cup {"DATA_RQ", "BM_INT"}
             /\ e.status = drive.status \ {"BLOCK"} /\ e.buf = drive.buf /\ e.written = more
        /\ s = Sectors /\ "BLOCK" \notin drive.status =>
             /\ e.flags = drive.flags \cup {"BM_INT"}
             /\ e.status = drive.status \ {"RUNNING"} /\ e.written = more
    BY <2>0, UpdateWrites
  <2> HIDE DEF e, more
  <2>4. WrittenTo(sectorsMoved)' = WrittenTo(sectorsMoved)
    BY DEF WrittenTo, Dd!Nth
  <2>b. CASE s < Sectors
    <3>1. /\ drive'.cur = drive.cur + 1 /\ Dd!Running(drive)'
          /\ {"DATA_RQ", "BM_INT"} \subseteq drive'.flags
          /\ drive'.written = more /\ drive'.status = drive.status
      BY <1>2, <1>4, <2>3, <2>b DEF Dd!Running
    <3>2. Turn' = Turn /\ Base' = Base
      BY <3>1 DEF Turn, Base
    <3>3. sectorsMoved = T + (s + 1) - 1 /\ s + 1 \in 1 .. Sectors
      BY <1>0, <1>6, <1>10, <2>b
    <3>4. DataCalled(s + 1)'
      BY <1>2, <1>a, <2>2, <2>4, <3>1, <3>2, <3>3 DEF DataCalled, OnItsWay, T
    <3> QED
      BY <1>0, <1>2, <1>5, <2>b, <3>1, <3>2, <3>4 DEF InBlock
  <2>c. CASE s = Sectors /\ "BLOCK" \in drive.status
    <3>1. /\ drive'.cur = Dd!Other(drive.cur) + 1 /\ Dd!Running(drive)'
          /\ {"DATA_RQ", "BM_INT"} \subseteq drive'.flags
          /\ drive'.written = more /\ "BLOCK" \notin drive'.status
      BY <1>2, <1>4, <2>3, <2>c DEF Dd!Running
    <3>2. plan.blocks = 2 /\ Turn = 0 /\ Base = plan.first
      BY <2>c DEF Turn, Base
    <3>3. Turn' = 1 /\ Base' = Dd!Other(plan.first)
      BY <3>1, <3>2 DEF Turn, Base
    <3>4. /\ Dd!Other(plan.first) \in {0, Dd!BlockLength}
          /\ drive'.cur = Dd!Other(plan.first) + 1
      BY <1>1, <1>3, <3>1, <3>2
    <3>5. Dd!Sector(drive'.cur) = 1
      BY <1>0, <3>4, PlaceOf
    <3>6. sectorsMoved = 1 * Sectors + 1 - 1 /\ 1 \in 1 .. Sectors
      BY <1>0, <1>1, <1>6, <1>7, <2>c, <3>2
    <3>7. DataCalled(1)'
      BY <1>2, <1>a, <2>2, <2>4, <3>1, <3>3, <3>6 DEF DataCalled, OnItsWay
    <3>8. InBlock(1)'
      BY <3>1, <3>3, <3>4, <3>7 DEF InBlock
    <3> QED
      BY <3>1, <3>5, <3>8
  <2>d. CASE s = Sectors /\ "BLOCK" \notin drive.status
    <3>1. /\ ~Dd!Running(drive)' /\ "DATA_RQ" \notin drive'.flags /\ drive'.written = more
          /\ "BLOCK" \notin drive'.status
      BY <1>2, <1>4, <2>3, <2>d DEF Dd!Running
    <3>2. sectorsMoved = plan.blocks * Sectors
      BY <1>0, <1>1, <1>6, <1>7, <2>d DEF Turn
    <3> QED
      BY <1>2, <1>a, <2>2, <2>4, <3>1, <3>2 DEF Ended, OnItsWay
  <2> QED
    BY <1>0, <1>2, <2>b, <2>c, <2>d
<1>b. CASE ~bmWrite
  <2>1. /\ e \in DdDrives /\ e.written = {} /\ "BM_INT" \in e.flags
        /\ s < Sectors =>
             /\ e.cur = drive.cur + 1 /\ e.flags = drive.flags \cup {"DATA_RQ", "BM_INT"}
             /\ e.status = drive.status /\ e.buf = drive.cur
        /\ s = Sectors => /\ "DATA_RQ" \notin e.flags
                          /\ e.cur = drive.cur + 1 /\ e.status = drive.status
    <3>1. drive \in DdDrives /\ Dd!Running(drive) /\ ~bmWrite /\ s = Dd!Sector(drive.cur)
          /\ ~Stuck(drive.cur) /\ drive.written = {} /\ "DATA_RQ" \notin drive.flags
          /\ (s = Sectors => s >= Sectors /\ s < Sectors + C2Sectors)
      BY <1>0, <1>2, <1>4, <1>b
    <3> QED
      BY <3>1, UpdateReads
  <2> HIDE DEF e
  <2>2. drive'.cur = drive.cur + 1 /\ drive'.status = drive.status /\ drive'.written = {}
        /\ Dd!Running(drive)'
    BY <1>0, <1>2, <1>4, <2>1 DEF Dd!Running
  <2>3. Turn' = Turn /\ Base' = Base
    BY <2>2 DEF Turn, Base
  <2>c. CASE s < Sectors
    <3>1. /\ {"DATA_RQ", "BM_INT"} \subseteq drive'.flags /\ drive'.buf = drive.cur
      BY <1>4, <2>1, <2>c
    <3>2. ~Stuck(drive.cur)'
      BY <1>2, <1>5, <1>b, <2>2, <2>c DEF Stuck
    <3>3. sectorsMoved = T + (s + 1) - 1 /\ s + 1 \in 1 .. Sectors
      BY <1>0, <1>6, <1>10, <2>c
    <3>4. drive'.buf = drive'.cur - 1
      BY <1>0, <1>1, <1>2, <2>2, <3>1
    <3>5. DataCalled(s + 1)'
      BY <1>2, <1>b, <2>2, <2>3, <3>1, <3>2, <3>3, <3>4 DEF DataCalled, OnItsWay, T
    <3> QED
      BY <1>0, <1>2, <1>5, <2>2, <2>3, <2>c, <3>5 DEF InBlock
  <2>d. CASE s = Sectors
    <3>1. drive.cur + 1 = Base + (s + 1) /\ s + 1 \in 0 .. Sectors + C2Sectors /\ s + 1 \in Nat
      BY <1>0, <1>1, <1>2, <2>d
    <3>2. Dd!Sector(drive.cur + 1) = s + 1
      BY <1>1, <3>1, PlaceOf
    <3>3. "DATA_RQ" \notin drive'.flags
      BY <1>4, <2>1, <2>d
    <3>4. Between(s + 1)'
      BY <1>0, <1>2, <1>b, <2>2, <2>3, <2>d, <3>3 DEF Between, OnItsWay
    <3> QED
      BY <2>2, <2>3, <3>1, <3>2, <3>4 DEF InBlock
  <2> QED
    BY <1>0, <1>2, <2>c, <2>d
<1> QED
  BY <1>4, <1>a, <1>b

(* A step that leaves the registers of the drive alone, and neither begins *)
(* nor ends a DMA on its buffers, leaves the transfer where it is.         *)
LEMMA TransferStays ==
    ASSUME DdProgress, drive' = drive, plan' = plan, sectorsMoved' = sectorsMoved,
           bmWrite' = bmWrite, bad' = bad, resetHeld' = resetHeld,
           armed \in BOOLEAN, piInts \in Nat, armed' \in BOOLEAN, piInts' \in Nat,
           ~piLost' => ~piLost,
           \/ armed' = armed /\ addr' = addr /\ (piInts' > 0 <=> piInts > 0)
           \/ ~OnItsWay({"ds", "c2"}) /\ ~OnItsWay({"ds", "c2"})',
           seen' \in {{}, seen}
    PROVE  DdProgress'
<1> SUFFICES ASSUME plan # Dd!NoPlan, ~piLost
             PROVE  (Ended \/ InBlock(Dd!Sector(drive.cur)))'
  BY DEF DdProgress
<1> DEFINE s == Dd!Sector(drive.cur)
<1>1. Turn' = Turn /\ Base' = Base /\ Stuck(drive.cur)' = Stuck(drive.cur)
  BY DEF Turn, Base, Stuck
<1>2. \A n : WrittenTo(n)' = WrittenTo(n)
  BY DEF WrittenTo, Dd!Nth
<1>3. Dd!Running(drive)' = Dd!Running(drive)
  BY DEF Dd!Running
<1>4. CASE armed' = armed /\ addr' = addr /\ (piInts' > 0 <=> piInts > 0)
  <2>1. OnItsWay({"ds"})' = OnItsWay({"ds"}) /\ OnItsWay({"c2"})' = OnItsWay({"c2"})
        /\ OnItsWay({"ds", "c2"})' = OnItsWay({"ds", "c2"})
    BY <1>4 DEF OnItsWay
  <2>2. CASE Ended
    BY <1>2, <1>3, <2>1, <2>2 DEF Ended
  <2>3. CASE InBlock(s)
    BY <1>1, <1>2, <1>3, <1>4, <2>1, <2>3 DEF InBlock, DataCalled, DataMoves, Between
  <2> QED
    BY <2>2, <2>3 DEF DdProgress
<1>5. CASE ~OnItsWay({"ds", "c2"}) /\ ~OnItsWay({"ds", "c2"})'
  <2>1. ~OnItsWay({"ds"})' /\ ~OnItsWay({"ds"}) /\ ~OnItsWay({"c2"})'
    BY <1>5 DEF OnItsWay
  <2>2. CASE Ended
    BY <1>2, <1>3, <2>1, <2>2 DEF Ended
  <2>3. CASE InBlock(s)
    BY <1>1, <1>2, <1>3, <1>5, <2>1, <2>3 DEF InBlock, DataCalled, DataMoves, Between
  <2> QED
    BY <2>2, <2>3 DEF DdProgress
<1> QED
  BY <1>4, <1>5

LEMMA CommandProgress ==
    ASSUME DdInv, DdProgress, Dd!Seek \/ Dd!HoldReset \/ Dd!ReleaseReset
    PROVE  DdProgress'
  BY DEF DdProgress, Dd!Seek, Dd!HoldReset, Dd!ReleaseReset

LEMMA RefuseProgress ==
    ASSUME DdInv, DdProgress, Dd!Refuse \/ Dd!AcknowledgePi \/ UNCHANGED dd
    PROVE  DdProgress'
  BY TransferStays DEF Dd!Refuse, Dd!AcknowledgePi, Dd!program, dd, DdInv, DdTyped

LEMMA NmiProgress ==
    ASSUME DdInv, DdProgress, Dd!Nmi
    PROVE  DdProgress'
<1>1. CASE piLost'
  BY <1>1 DEF DdProgress
<1>2. CASE ~piLost'
  <2> DEFINE busy == piInts > 0
  <2>1. piLost' = (piLost \/ armed \/ busy)
    BY DEF Dd!Nmi
  <2> HIDE DEF busy
  <2>2. ~piLost /\ ~armed /\ ~busy
    BY <1>2, <2>1
  <2>3. ~OnItsWay({"ds", "c2"})
    BY <2>2 DEF OnItsWay, busy
  <2>4. piInts' = 0 /\ ~armed' /\ armed' \in BOOLEAN
    BY DEF Dd!Nmi
  <2>5. ~OnItsWay({"ds", "c2"})'
    BY <2>4 DEF OnItsWay
  <2> QED
    BY <2>2, <2>3, <2>4, <2>5, TransferStays DEF Dd!Nmi, DdInv, DdTyped
<1> QED
  BY <1>1, <1>2

(* The program prepares a DMA: it does so only for a sector it was called  *)
(* for.                                                                    *)
LEMMA SetAddrProgress ==
    ASSUME DdInv, DdProgress, NEW a \in {"ds", "c2", "rom"}, Dd!SetAddr(a)
    PROVE  DdProgress'
<1> SUFFICES ASSUME plan # Dd!NoPlan, ~piLost
             PROVE  /\ ("BLOCK" \in drive.status => plan.blocks = 2)'
                    /\ (Ended \/ InBlock(Dd!Sector(drive.cur)))'
  BY DEF DdProgress, Dd!SetAddr
<1> DEFINE s == Dd!Sector(drive.cur)
<1>1. /\ addr' = a /\ armed' /\ armed' \in BOOLEAN /\ seen' = {} /\ piInts' = piInts
      /\ bmWrite' = bmWrite /\ bad' = bad /\ plan' = plan /\ sectorsMoved' = sectorsMoved
      /\ ~armed /\ piInts = 0
  BY DEF Dd!SetAddr, DdInv, DdTyped
<1>2. ~OnItsWay({"ds"}) /\ ~OnItsWay({"c2"}) /\ ~OnItsWay({"ds", "c2"})
  BY <1>1 DEF OnItsWay
<1>3. /\ OnItsWay({"ds"})' <=> a = "ds"
      /\ OnItsWay({"c2"})' <=> a = "c2"
      /\ OnItsWay({"ds", "c2"})' <=> a # "rom"
  BY <1>1 DEF OnItsWay
<1>4. drive \in DdDrives
  BY DEF DdInv, DdTyped
<1>5. /\ drive'.status = drive.status /\ drive'.cur = drive.cur /\ drive'.buf = drive.buf
      /\ drive'.written = drive.written
      /\ a = "ds" => drive'.flags = drive.flags \ {"DATA_RQ", "BM_INT"}
      /\ a = "c2" => drive'.flags = drive.flags \ {"C2_XFER", "BM_INT"}
      /\ a = "rom" => drive'.flags = drive.flags
  <2>1. CASE a = "ds"
    BY <1>4, <2>1, LoweredFacts DEF Dd!SetAddr
  <2>2. CASE a = "c2"
    BY <1>4, <2>2, LoweredFacts DEF Dd!SetAddr
  <2>3. CASE a = "rom"
    BY <1>4, <2>3 DEF Dd!SetAddr
  <2> QED
    BY <2>1, <2>2, <2>3
<1>6. Turn' = Turn /\ Base' = Base /\ Stuck(drive.cur)' = Stuck(drive.cur)
      /\ Dd!Running(drive)' = Dd!Running(drive)
  BY <1>1, <1>5 DEF Turn, Base, Stuck, Dd!Running
<1>7. \A n : WrittenTo(n)' = WrittenTo(n)
  BY <1>1 DEF WrittenTo, Dd!Nth
<1>8. /\ a = "ds" => {"BM_INT", "DATA_RQ"} \subseteq seen
      /\ a = "c2" => "BM_INT" \in seen /\ "DATA_RQ" \notin seen
  BY DEF Dd!SetAddr
<1>9. CASE Ended
  <2>1. a # "ds"
    BY <1>8, <1>9 DEF Ended
  <2> QED
    BY <1>1, <1>3, <1>5, <1>6, <1>7, <1>9, <2>1 DEF DdProgress, Ended
<1>10. CASE InBlock(s) /\ DataCalled(s)
  <2>1. a # "c2"
    BY <1>8, <1>10 DEF DataCalled
  <2>2. CASE a = "ds"
    <3>1. DataMoves(s)'
      BY <1>1, <1>3, <1>5, <1>6, <1>7, <1>10, <2>2 DEF DataMoves, DataCalled
    <3> QED
      BY <1>1, <1>5, <1>6, <1>10, <3>1 DEF DdProgress, InBlock
  <2>3. CASE a = "rom"
    <3>1. DataCalled(s)'
      BY <1>1, <1>3, <1>5, <1>6, <1>7, <1>10, <2>3 DEF DataCalled
    <3> QED
      BY <1>1, <1>5, <1>6, <1>10, <3>1 DEF DdProgress, InBlock
  <2> QED
    BY <2>1, <2>2, <2>3
<1>11. CASE InBlock(s) /\ Between(s)
  <2>1. a # "ds"
    BY <1>8, <1>11 DEF Between
  <2>2. Between(s)'
    BY <1>1, <1>3, <1>5, <1>6, <1>11, <2>1 DEF Between
  <2> QED
    BY <1>1, <1>5, <1>6, <1>11, <2>2 DEF DdProgress, InBlock
<1> QED
  BY <1>2, <1>9, <1>10, <1>11 DEF DdProgress, InBlock, DataMoves

LEMMA DmaProgress ==
    ASSUME DdInv, DdProgress, Dd!Dma
    PROVE  DdProgress'
<1> SUFFICES ASSUME plan # Dd!NoPlan, ~piLost
             PROVE  /\ ("BLOCK" \in drive.status => plan.blocks = 2)'
                    /\ (Ended \/ InBlock(Dd!Sector(drive.cur)))'
  BY DEF DdProgress, Dd!Dma
<1> DEFINE s == Dd!Sector(drive.cur)
<1>1. /\ addr' = addr /\ armed /\ ~armed' /\ armed' \in BOOLEAN /\ seen' = seen
      /\ bmWrite' = bmWrite /\ bad' = bad /\ plan' = plan /\ piInts' = 1 /\ piInts = 0
  <2>1. armed /\ piInts = 0
    BY DEF Dd!Dma, DdInv, DdTyped
  <2>2. piInts' = 1
    BY <2>1 DEF Dd!Dma
  <2>3. ~armed' /\ armed' \in BOOLEAN
    BY DEF Dd!Dma
  <2> QED
    BY <2>1, <2>2, <2>3 DEF Dd!Dma
<1>2. \A buffers : OnItsWay(buffers) <=> addr \in buffers
  BY <1>1 DEF OnItsWay
<1>3. \A buffers : (addr' \in buffers /\ (armed' \/ piInts' > 0)) <=> addr \in buffers
  BY <1>1
<1>4. CASE addr # "ds"
  <2>1. drive' = drive /\ sectorsMoved' = sectorsMoved /\ resetHeld' = resetHeld /\ ~piLost'
    BY <1>4 DEF Dd!Dma
  <2>2. /\ Turn' = Turn /\ Base' = Base /\ Stuck(drive.cur)' = Stuck(drive.cur)
        /\ Dd!Running(drive)' = Dd!Running(drive)
    BY <1>1, <2>1 DEF Turn, Base, Stuck, Dd!Running
  <2>3. \A n : WrittenTo(n)' = WrittenTo(n)
    BY <1>1 DEF WrittenTo, Dd!Nth
  <2>4. CASE Ended
    BY <1>1, <1>4, <2>1, <2>2, <2>3, <2>4 DEF DdProgress, Ended, OnItsWay
  <2>5. CASE InBlock(s) /\ ~DataMoves(s)
    BY <1>1, <1>4, <2>1, <2>2, <2>3, <2>5
       DEF DdProgress, InBlock, DataCalled, Between, OnItsWay
  <2> QED
    BY <1>2, <1>4, <2>4, <2>5 DEF DdProgress, InBlock, DataMoves
<1>5. CASE addr = "ds"
  <2>1. InBlock(s) /\ DataMoves(s)
    BY <1>2, <1>5 DEF DdProgress, Ended, InBlock, DataCalled, Between
  <2>2. s \in 1 .. Sectors /\ sectorsMoved = Turn * Sectors + s - 1 /\ drive.cur = Base + s
    BY <1>1, <2>1 DEF DataMoves, InBlock
  <2>3. /\ Turn \in {0, 1} /\ Base \in {0, Dd!BlockLength}
        /\ Turn * Sectors = IF Turn = 0 THEN 0 ELSE Sectors
        /\ Dd!Nth(Turn * Sectors + s - 1) = Base + s - 1
    BY <2>2, TurnFacts DEF DdInv
  <2>4. Sectors \in Nat /\ Dd!BlockLength \in Nat
    BY SizesAssumption, LengthFact
  <2>5. Dd!Nth(sectorsMoved) = drive.cur - 1 /\ sectorsMoved + 1 = Turn * Sectors + s
    <3>1. Base \in Nat /\ Turn * Sectors \in Nat /\ s \in Nat
      BY <2>2, <2>3, <2>4
    <3>2. Base + s - 1 = drive.cur - 1
      BY <2>2, <3>1
    <3>3. sectorsMoved + 1 = Turn * Sectors + s
      BY <2>2, <3>1
    <3> QED
      BY <2>2, <2>3, <3>2, <3>3
  <2>6. /\ drive'.status = drive.status /\ drive'.cur = drive.cur
        /\ drive'.flags = drive.flags /\ drive'.written = drive.written
        /\ bmWrite => drive'.buf = drive.cur - 1
    BY <1>5, <2>5 DEF Dd!Dma, DdInv, DdTyped, DdDrives
  <2>7. sectorsMoved' = Turn * Sectors + s
    BY <1>5, <2>5 DEF Dd!Dma
  <2>8. /\ Turn' = Turn /\ Base' = Base /\ Stuck(drive.cur)' = Stuck(drive.cur)
        /\ Dd!Running(drive)' = Dd!Running(drive)
    BY <1>1, <2>6 DEF Turn, Base, Stuck, Dd!Running
  <2>9. \A n : WrittenTo(n)' = WrittenTo(n)
    BY <1>1 DEF WrittenTo, Dd!Nth
  <2>10. DataMoves(s)'
    BY <1>1, <1>5, <2>1, <2>6, <2>7, <2>8, <2>9 DEF DataMoves, OnItsWay
  <2> QED
    BY <1>1, <2>1, <2>6, <2>8, <2>10 DEF DdProgress, InBlock
<1> QED
  BY <1>4, <1>5

LEMMA WriteRomProgress ==
    ASSUME DdInv, DdProgress, Dd!WriteRom, ~EarlyIo
    PROVE  DdProgress'
<1>1. addr = "rom" /\ addr' = addr
  BY DEF Dd!WriteRom
<1>2. ~OnItsWay({"ds", "c2"}) /\ ~OnItsWay({"ds", "c2"})'
  BY <1>1 DEF OnItsWay
<1> QED
  BY <1>2, TransferStays DEF Dd!WriteRom, Dd!program, DdInv, DdTyped

LEMMA EndOfDmaProgress ==
    ASSUME DdInv, DdProgress, Dd!EndOfDma
    PROVE  DdProgress'
<1> SUFFICES ASSUME plan # Dd!NoPlan, ~piLost
             PROVE  /\ ("BLOCK" \in drive.status => plan.blocks = 2)'
                    /\ (Ended \/ InBlock(Dd!Sector(drive.cur)))'
  BY DEF DdProgress, Dd!EndOfDma, Dd!program
<1> DEFINE s == Dd!Sector(drive.cur)
<1>1. /\ addr' = addr /\ seen' = seen /\ bmWrite' = bmWrite /\ bad' = bad /\ plan' = plan
      /\ sectorsMoved' = sectorsMoved /\ armed' = armed /\ resetHeld' = resetHeld
      /\ piLost' = piLost
  BY DEF Dd!EndOfDma, Dd!program
<1>2. piInts > 0 /\ ~armed /\ piInts' = 0 /\ armed \in BOOLEAN /\ piInts \in Nat
  BY DEF Dd!EndOfDma, DdInv, DdTyped
<1>3. ~OnItsWay({"ds", "c2"})' /\ ~OnItsWay({"ds"})' /\ ~OnItsWay({"c2"})'
  BY <1>1, <1>2 DEF OnItsWay
<1>4. \A buffers : OnItsWay(buffers) <=> addr \in buffers
  BY <1>2 DEF OnItsWay
<1>5. DdTyped /\ ("BLOCK" \in drive.status => plan.blocks = 2) /\ drive \in DdDrives
      /\ (Ended \/ InBlock(s)) /\ addr \in {"ds", "c2", "rom"}
      /\ s \in 0 .. Sectors + C2Sectors
  <2>1. DdTyped /\ ("BLOCK" \in drive.status => plan.blocks = 2) /\ drive \in DdDrives
        /\ (Ended \/ InBlock(s)) /\ addr \in {"ds", "c2", "rom"}
    BY DEF DdProgress, DdInv, DdTyped
  <2>2. drive.cur \in Dd!Places
    BY <2>1 DEF DdDrives
  <2>3. s \in 0 .. Sectors + C2Sectors
    BY <2>2, PlaceIs, LengthFact, SizesAssumption
  <2> QED
    BY <2>1, <2>3
<1>6. CASE addr = "rom"
  <2>1. drive' = drive
    BY <1>6 DEF Dd!EndOfDma
  <2>2. ~OnItsWay({"ds", "c2"})
    BY <1>4, <1>6
  <2>3. DdProgress'
    BY <1>1, <1>2, <1>3, <2>1, <2>2, TransferStays
  <2> QED
    BY <1>1, <2>3 DEF DdProgress
<1>7. CASE addr = "ds"
  <2>1. InBlock(s) /\ DataMoves(s)
    BY <1>4, <1>5, <1>7 DEF Ended, InBlock, DataCalled, Between
  <2>2. drive' = Dd!UpdateBm(drive)
    BY <1>7 DEF Dd!EndOfDma
  <2> HIDE DEF s
  <2>3. s = Dd!Sector(drive.cur)
    BY DEF s
  <2> QED
    BY <1>1, <1>2, <1>3, <1>5, <2>1, <2>2, <2>3, SectorIsMoved
<1>8. CASE addr = "c2"
  <2>1. drive' = Dd!UpdateBm(drive)
    BY <1>8 DEF Dd!EndOfDma
  <2>2. CASE Ended
    <3>1. drive' = drive
      BY <2>1, <2>2 DEF Ended, Dd!UpdateBm
    <3>2. WrittenTo(sectorsMoved)' = WrittenTo(sectorsMoved)
      BY <1>1 DEF WrittenTo, Dd!Nth
    <3> QED
      BY <1>1, <1>3, <1>5, <2>2, <3>1, <3>2 DEF Ended, Dd!Running
  <2>3. CASE InBlock(s)
    <3>1. Between(s) /\ Dd!Running(drive) /\ drive.cur = Base + s
      BY <1>4, <1>8, <2>3 DEF InBlock, DataCalled, DataMoves
    <3>2. /\ ~bmWrite /\ drive.written = {} /\ "DATA_RQ" \notin drive.flags
          /\ "DATA_RQ" \notin seen /\ "BM_INT" \notin seen
          /\ \/ s > Sectors /\ sectorsMoved = Turn * Sectors + Sectors
             \/ s = 0 /\ sectorsMoved = Turn * Sectors
      BY <1>4, <1>8, <3>1 DEF Between
    <3> HIDE DEF s
    <3>3. "DATA_RQ" \notin seen' /\ "BM_INT" \notin seen'
      BY <1>1, <3>2
    <3> QED
      BY <1>1, <1>3, <1>5, <2>1, <3>1, <3>2, <3>3, ReadGoesOn
  <2> QED
    BY <1>5, <2>2, <2>3
<1> QED
  BY <1>5, <1>6, <1>7, <1>8

LEMMA StatusProgress ==
    ASSUME DdInv, DdProgress, Dd!ReadStatus
    PROVE  DdProgress'
<1> SUFFICES ASSUME plan # Dd!NoPlan, ~piLost
             PROVE  /\ ("BLOCK" \in drive.status => plan.blocks = 2)'
                    /\ (Ended \/ InBlock(Dd!Sector(drive.cur)))'
  BY DEF DdProgress, Dd!ReadStatus
<1> DEFINE s == Dd!Sector(drive.cur)
           d == Dd!Lowered(drive, {"BM_INT"})
<1>1. /\ addr' = addr /\ seen' = drive.flags /\ bmWrite' = bmWrite /\ bad' = bad
      /\ plan' = plan /\ sectorsMoved' = sectorsMoved /\ armed' = armed
      /\ resetHeld' = resetHeld /\ piLost' = piLost /\ piInts' = piInts
  BY DEF Dd!ReadStatus, Dd!piVars
<1>2. \A buffers : (addr' \in buffers /\ (armed' \/ piInts' > 0)) <=> OnItsWay(buffers)
  BY <1>1 DEF OnItsWay
<1>3. OnItsWay({"ds", "c2"})' = OnItsWay({"ds", "c2"}) /\ OnItsWay({"ds"})' = OnItsWay({"ds"})
      /\ OnItsWay({"c2"})' = OnItsWay({"c2"})
  BY <1>1 DEF OnItsWay
<1>4. DdTyped /\ ("BLOCK" \in drive.status => plan.blocks = 2) /\ drive \in DdDrives
      /\ (Ended \/ InBlock(s))
  BY DEF DdProgress, DdInv, DdTyped
<1>5. s \in 0 .. Sectors + C2Sectors /\ Sectors \in Nat
  <2>1. drive.cur \in Dd!Places
    BY <1>4 DEF DdDrives
  <2> QED
    BY <2>1, PlaceIs, LengthFact, SizesAssumption
<1>6. d \in DdDrives /\ d.status = drive.status /\ d.cur = drive.cur
      /\ d.flags = drive.flags \ {"BM_INT"} /\ d.written = drive.written
  BY <1>4, LoweredFacts
<1>7. WrittenTo(sectorsMoved)' = WrittenTo(sectorsMoved)
  BY <1>1 DEF WrittenTo, Dd!Nth
<1>8. CASE drive' = drive
  <2>1. /\ Turn' = Turn /\ Base' = Base /\ Stuck(drive.cur)' = Stuck(drive.cur)
        /\ Dd!Running(drive)' = Dd!Running(drive)
    BY <1>1, <1>8 DEF Turn, Base, Stuck, Dd!Running
  <2>2. CASE Ended
    BY <1>1, <1>3, <1>4, <1>7, <1>8, <2>1, <2>2 DEF Ended
  <2>3. CASE InBlock(s)
    <3>1. \A n : WrittenTo(n)' = WrittenTo(n)
      BY <1>1 DEF WrittenTo, Dd!Nth
    <3>2. DataCalled(s) => DataCalled(s)'
      BY <1>1, <1>3, <1>8, <2>1, <3>1 DEF DataCalled
    <3>3. DataMoves(s) => DataMoves(s)'
      BY <1>1, <1>3, <1>8, <2>1, <3>1 DEF DataMoves
    <3>4. Between(s) => Between(s)'
      BY <1>1, <1>3, <1>8, <2>1 DEF Between
    <3> QED
      BY <1>1, <1>4, <1>8, <2>1, <2>3, <3>2, <3>3, <3>4 DEF InBlock
  <2> QED
    BY <1>4, <2>2, <2>3
<1>9. CASE "BM_INT" \in drive.flags /\ s > Sectors /\ drive' = Dd!UpdateBm(d)
  <2>1. CASE Ended
    <3>1. drive' = d
      BY <1>6, <1>9, <2>1 DEF Ended, Dd!UpdateBm, Dd!Running
    <3> QED
      BY <1>1, <1>3, <1>4, <1>6, <1>7, <2>1, <3>1 DEF Ended, Dd!Running
  <2>2. CASE InBlock(s)
    <3>1. Between(s) /\ Dd!Running(drive) /\ drive.cur = Base + s
      BY <1>5, <1>9, <2>2 DEF InBlock, DataCalled, DataMoves
    <3>2. /\ ~bmWrite /\ drive.written = {} /\ "DATA_RQ" \notin drive.flags
          /\ ~OnItsWay({"ds"}) /\ ~OnItsWay({"c2"})
          /\ s > Sectors /\ sectorsMoved = Turn * Sectors + Sectors
      BY <1>5, <1>9, <3>1 DEF Between
    <3>3. ~OnItsWay({"ds", "c2"})' /\ "DATA_RQ" \notin seen' /\ "DATA_RQ" \notin d.flags
          /\ d.written = {} /\ s # 0
      BY <1>1, <1>3, <1>5, <1>6, <1>9, <3>2 DEF OnItsWay
    <3> HIDE DEF s, d
    <3> QED
      BY <1>1, <1>4, <1>5, <1>6, <1>9, <3>1, <3>2, <3>3, ReadGoesOn
  <2> QED
    BY <1>4, <2>1, <2>2
<1> QED
  BY <1>8, <1>9 DEF Dd!ReadStatus

LEMMA StartProgress ==
    ASSUME DdInv, DdProgress, Dd!StartBm
    PROVE  DdProgress'
<1>1. PICK first \in {0, Dd!BlockLength}, blocks \in {1, 2} :
         /\ drive' = [Dd!UpdateBm(Started(first, blocks)) EXCEPT !.written = {}]
         /\ plan' = [first |-> first, blocks |-> blocks]
  BY DEF Dd!StartBm, Started
<1> DEFINE d == Started(first, blocks)
           e == Dd!UpdateBm(d)
<1>2. ~Dd!Running(drive) /\ Dd!Idle /\ ~resetHeld
  BY DEF Dd!StartBm
<1>3. d \in DdDrives /\ Dd!Running(d) /\ d.cur = first /\ ("BLOCK" \in d.status <=> blocks = 2)
  BY <1>2, StartedFacts
<1> HIDE DEF d
<1>4. Sectors \in Nat \ {0} /\ C2Sectors \in Nat \ {0} /\ Dd!BlockLength = Sectors + C2Sectors + 1
  BY SizesAssumption, LengthFact
<1>5. /\ sectorsMoved' = 0 /\ seen' = {} /\ armed' = FALSE /\ piInts' = piInts
      /\ bmWrite' = bmWrite /\ bad' = bad /\ resetHeld' = resetHeld /\ addr' = addr
      /\ piInts = 0 /\ bmWrite \in BOOLEAN
  BY DEF Dd!StartBm, Dd!piVars, DdInv, DdTyped
<1>6. ~OnItsWay({"ds"})' /\ ~OnItsWay({"c2"})' /\ ~OnItsWay({"ds", "c2"})'
  BY <1>5 DEF OnItsWay
<1>7. /\ Dd!Sector(first) = 0 /\ Dd!Sector(first + 1) = 1
      /\ Dd!Block(first + 1) = Dd!Block(first)
  <2>1. first + 0 = first /\ 0 \in 0 .. Sectors + C2Sectors /\ 1 \in 0 .. Sectors + C2Sectors
    BY <1>4
  <2> QED
    BY <2>1, PlaceOf
<1> HIDE DEF e
<1>8. drive' = [e EXCEPT !.written = {}]
  BY <1>1 DEF d, e
<1>9. /\ e \in DdDrives
      /\ bmWrite \/ ~Stuck(d.cur) =>
            /\ e.cur = d.cur + 1 /\ {"DATA_RQ", "BM_INT"} \subseteq e.flags
            /\ e.status = d.status
      /\ ~bmWrite /\ ~Stuck(d.cur) => e.buf = d.cur
      /\ ~bmWrite /\ Stuck(d.cur) =>
            /\ e.cur = d.cur /\ e.status = d.status \cup {"MICRO"}
            /\ "DATA_RQ" \notin e.flags
  <2>1. CASE bmWrite
    BY <1>3, <1>7, <2>1, UpdateWrites DEF e
  <2>2. CASE ~bmWrite
    BY <1>3, <1>4, <1>7, <2>2, UpdateReads DEF e
  <2> QED
    BY <1>5, <2>1, <2>2
<1>10. /\ drive'.written = {} /\ drive'.cur = e.cur /\ drive'.flags = e.flags
       /\ drive'.status = e.status /\ drive'.buf = e.buf
  BY <1>8, <1>9 DEF DdDrives
<1>11. plan'.first = first /\ plan'.blocks = blocks
  BY <1>1
<1>12. Dd!Running(drive)' /\ ("BLOCK" \in drive'.status <=> blocks = 2)
  BY <1>3, <1>5, <1>9, <1>10 DEF Dd!Running
<1>13. Turn' = 0 /\ Base' = first
  BY <1>11, <1>12 DEF Turn, Base
<1>14. WrittenTo(0)' = {}
  <2>1. 0 .. 0 - 1 = {}
    OBVIOUS
  <2> QED
    BY <2>1 DEF WrittenTo
<1>15. 0 * Sectors = 0 /\ 0 * Sectors + 1 - 1 = 0 /\ first + 0 = first /\ first + 1 - 1 = first
  BY <1>4
<1>16. CASE bmWrite \/ ~Stuck(d.cur)
  <2>1. drive'.cur = first + 1 /\ Dd!Sector(drive'.cur) = 1
    BY <1>3, <1>7, <1>9, <1>10, <1>16
  <2>2. ~bmWrite => ~Stuck(drive.cur)' /\ drive'.buf = drive'.cur - 1
    BY <1>3, <1>5, <1>7, <1>9, <1>10, <1>15, <1>16, <2>1 DEF Stuck
  <2>3. {"DATA_RQ", "BM_INT"} \subseteq drive'.flags
    BY <1>9, <1>10, <1>16
  <2>4. sectorsMoved' = Turn' * Sectors + 1 - 1 /\ 1 \in 1 .. Sectors
    BY <1>4, <1>5, <1>13, <1>15
  <2>5. DataCalled(1)'
    BY <1>5, <1>6, <1>10, <1>14, <2>2, <2>3, <2>4 DEF DataCalled
  <2>6. InBlock(1)'
    BY <1>12, <1>13, <2>1, <2>5 DEF InBlock
  <2> QED
    BY <1>2, <1>5, <1>11, <1>12, <2>1, <2>6 DEF DdProgress
<1>17. CASE ~bmWrite /\ Stuck(d.cur)
  <2>1. drive'.cur = first + 0 /\ Dd!Sector(drive'.cur) = 0
    BY <1>3, <1>7, <1>9, <1>10, <1>15, <1>17
  <2>2. sectorsMoved' = Turn' * Sectors
    BY <1>5, <1>13, <1>15
  <2>3. Between(0)'
    BY <1>5, <1>6, <1>9, <1>10, <1>17, <2>2 DEF Between
  <2>4. InBlock(0)'
    BY <1>12, <1>13, <2>1, <2>3 DEF InBlock
  <2> QED
    BY <1>2, <1>5, <1>11, <1>12, <2>1, <2>4 DEF DdProgress
<1> QED
  BY <1>5, <1>16, <1>17

LEMMA NextDdProgress == ~EarlyIo /\ DdInv /\ DdProgress /\ [Next]_vars => DdProgress'
<1> SUFFICES ASSUME ~EarlyIo, DdInv, DdProgress, [Next]_vars PROVE DdProgress'
  OBVIOUS
<1>1. CASE Dd!Program
  BY <1>1, CommandProgress, StartProgress, StatusProgress, SetAddrProgress, RefuseProgress,
     DmaProgress, WriteRomProgress
     DEF Dd!Program
<1> QED
  BY <1>1, EndOfDmaProgress, NmiProgress, RefuseProgress, NextDd

(* The drive never waits for the program without having called it, for any *)
(* number of sectors, whatever the program does.                           *)
THEOREM DriveCalls == Spec => []NeverStalls
<1>1. Init => DdInv
  BY InitDd DEF Init
<1>2. DdInv /\ [Next]_vars => DdInv'
  BY NextDdInv
<1>3. DdInv => NeverStalls
  BY DEF DdInv, DdTyped, DdCalled, OnItsWay, NeverStalls, Dd!NeverStalls
<1> QED
  BY <1>1, <1>2, <1>3, PTL DEF Spec

(* Where each sector is, gives what a finished transfer has moved.         *)
LEMMA ProgressIsWhole == DdInv /\ DdProgress => TransferIsWhole
<1> SUFFICES ASSUME DdInv, DdProgress, plan # Dd!NoPlan, ~piLost
             PROVE  /\ \A w \in drive.written : w[1] = w[2]
                    /\ Dd!Running(drive) /\ ~bmWrite /\ "DATA_RQ" \in drive.flags =>
                         drive.buf = Dd!Nth(sectorsMoved)
                    /\ ~Dd!Running(drive) =>
                         /\ sectorsMoved = plan.blocks * Sectors
                         /\ bmWrite => {w[1] : w \in drive.written} = {Dd!Nth(n) : n \in Dd!Asked}
  BY DEF TransferIsWhole, Dd!TransferIsWhole
<1> DEFINE s == Dd!Sector(drive.cur)
<1>1. Ended \/ InBlock(s)
  BY DEF DdProgress
<1>2. \A n : \A w \in WrittenTo(n) : w[1] = w[2]
  BY DEF WrittenTo
<1>3. \/ drive.written = {}
      \/ \E n : drive.written = WrittenTo(n)
  BY <1>1 DEF Ended, InBlock, DataCalled, DataMoves, Between
<1>4. ASSUME Dd!Running(drive), ~bmWrite, "DATA_RQ" \in drive.flags
      PROVE  drive.buf = Dd!Nth(sectorsMoved)
  <2>1. DataCalled(s) /\ drive.cur = Base + s
    BY <1>1, <1>4 DEF Ended, InBlock, DataMoves, Between
  <2>2. s \in 1 .. Sectors /\ sectorsMoved = Turn * Sectors + s - 1 /\ drive.buf = drive.cur - 1
    BY <1>4, <2>1 DEF DataCalled
  <2>3. Base \in {0, Dd!BlockLength} /\ Dd!Nth(Turn * Sectors + s - 1) = Base + s - 1
    BY <2>2, TurnFacts DEF DdInv
  <2>4. Sectors \in Nat /\ Dd!BlockLength \in Nat
    BY SizesAssumption, LengthFact
  <2>5. drive.cur - 1 = Base + s - 1
    BY <2>1, <2>2, <2>3, <2>4
  <2> QED
    BY <2>2, <2>3, <2>5
<1>5. ASSUME ~Dd!Running(drive)
      PROVE  /\ sectorsMoved = plan.blocks * Sectors
             /\ bmWrite => {w[1] : w \in drive.written} = {Dd!Nth(n) : n \in Dd!Asked}
  <2>1. Ended
    BY <1>1, <1>5 DEF InBlock
  <2>2. ASSUME bmWrite PROVE {w[1] : w \in drive.written} = {Dd!Nth(n) : n \in Dd!Asked}
    <3>1. drive.written = WrittenTo(plan.blocks * Sectors)
      BY <2>1, <2>2 DEF Ended
    <3> DEFINE I == 0 .. plan.blocks * Sectors - 1
    <3>2. WrittenTo(plan.blocks * Sectors) = {<<Dd!Nth(k), Dd!Nth(k)>> : k \in I}
      BY DEF WrittenTo
    <3> HIDE DEF I
    <3>3. {w[1] : w \in {<<Dd!Nth(k), Dd!Nth(k)>> : k \in I}} = {Dd!Nth(n) : n \in I}
      <4>1. \A k : <<Dd!Nth(k), Dd!Nth(k)>>[1] = Dd!Nth(k)
        OBVIOUS
      <4> QED
        BY <4>1, Zenon
    <3>4. Dd!Asked = I
      BY DEF Dd!Asked, I
    <3> QED
      BY <3>1, <3>2, <3>3, <3>4
  <2> QED
    BY <2>1, <2>2 DEF Ended
<1> QED
  BY <1>2, <1>3, <1>4, <1>5

(* For any number of sectors to a block, a transfer that no NMI breaks     *)
(* moves every sector asked for, in order and each to its place: provided  *)
(* that the program waits for the end of a DMA on the drive's buffers      *)
(* before it writes to the cartridge.                                      *)
THEOREM SectorsGoToTheirPlaces ==
    ASSUME ~EarlyIo PROVE Spec => []TransferIsWhole
<1>1. Init => DdInv /\ DdProgress
  BY InitDd DEF Init
<1>2. DdInv /\ DdProgress /\ [Next]_vars => (DdInv /\ DdProgress)'
  BY NextDdInv, NextDdProgress
<1>3. DdInv /\ DdProgress => TransferIsWhole
  BY ProgressIsWhole
<1> QED
  BY <1>1, <1>2, <1>3, PTL DEF Spec
=============================================================================
