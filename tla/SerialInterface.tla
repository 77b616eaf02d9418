--------------------------- MODULE SerialInterface ---------------------------
(***************************************************************************)
(* The serial interface and the PIF behind it: rcp/si/si_controller.c and  *)
(* pif/pif.c.  The program writes a block of commands to the PIF, which    *)
(* sets up its channels, and reads the answers of the controllers back.  A *)
(* write is copied at once and understood at its SI_INT; for a read the    *)
(* controllers are asked at once and the answers copied at its SI_INT.     *)
(***************************************************************************)
EXTENDS Naturals, RcpData

VARIABLES
    status,    \* SI_STATUS_REG: "DMA_BUSY", "IO_BUSY", "DMA_ERROR", "INTERRUPT"
    dir,       \* dma_dir: "none", "write" or "read"
    siInts,    \* SI_INT events queued
    ram,       \* PIF RAM: the block, its flag and the answer of each channel
    channels,  \* the block each channel finds its command in, if any
    dram,      \* the RDRAM a read was copied to
    mi,        \* lines of MI_INTR_REG
    polls,     \* history: reads accepted, modulo 3
    lost       \* history: an NMI dropped the event of a transfer

vars == <<status, dir, siInts, ram, channels, dram, mi, polls, lost>>

NoAnswer == [of |-> NoBlock, poll |-> 0]
Fresh(b) == [block |-> b, answers |-> [k \in Channels |-> NoAnswer]]

Init ==
    /\ status = {} /\ dir = "none" /\ siInts = 0
    /\ ram = [block |-> NoBlock, flag |-> "none", answers |-> Fresh(NoBlock).answers]
    /\ channels = [k \in Channels |-> NoBlock]
    /\ dram = Fresh(NoBlock)
    /\ mi = {}
    /\ polls = 0 /\ lost = FALSE

Busy == "DMA_BUSY" \in status
Off == [k \in Channels |-> NoBlock]

(* validate_dma refuses what it finds the interface busy for.              *)
Refuse ==
    /\ Busy
    /\ status' = status \cup {"DMA_ERROR"}
    /\ UNCHANGED <<dir, siInts, ram, channels, dram, mi, polls, lost>>

StartDma(way) ==
    /\ ~Busy
    /\ siInts < MaxEvents
    /\ dir' = way
    /\ status' = status \cup {"DMA_BUSY"}
    /\ siInts' = siInts + 1

WriteDma(b) ==
    /\ StartDma("write")
    /\ ram' = [block |-> b, flag |-> b.flag, answers |-> Fresh(b).answers]
    /\ UNCHANGED <<channels, dram, mi, polls, lost>>

(* update_pif_ram: every channel that is set up answers into its own place.*)
Update(n) ==
    ram' = [ram EXCEPT !.answers =
               [k \in Channels |-> IF channels[k] \in Blocks
                                   THEN [of |-> channels[k], poll |-> n]
                                   ELSE @[k]]]

ReadDma ==
    /\ StartDma("read")
    /\ polls' = (polls + 1) % 3
    /\ Update(polls')
    /\ UNCHANGED <<channels, dram, mi, lost>>

(* write_pif_mem, the word with the flags.  It looks at no status itself.  *)
WritePif(flag) ==
    /\ EarlyIo \/ ~Busy \/ siInts = 0
    /\ siInts < MaxEvents
    /\ ram' = [ram EXCEPT !.flag = flag]
    /\ dir' = "write"
    /\ status' = status \cup {"DMA_BUSY", "IO_BUSY"}
    /\ siInts' = siInts + 1
    /\ lost' = FALSE
    /\ UNCHANGED <<channels, dram, mi, polls>>

WriteStatus ==
    /\ status' = status \ {"INTERRUPT"}
    /\ mi' = mi \ {"SI"}
    /\ UNCHANGED <<dir, siInts, ram, channels, dram, polls, lost>>

-----------------------------------------------------------------------------
(* Mutant: the channels are set up for commands only.                      *)
SetUpCommands(b) ==
    [k \in Channels |-> IF b.for[k] = "command" THEN b ELSE channels[k]]

(* setup_channels_format.                                                  *)
SetUp(b) ==
    [k \in Channels |-> CASE b.for[k] = "command" -> b
                          [] b.for[k] = "keep"    -> channels[k]
                          [] OTHER                -> NoBlock]

(* process_pif_ram.                                                        *)
Process ==
    /\ channels' = CASE ram.flag = "setup" /\ ram.block \in Blocks -> SetUp(ram.block)
                     [] ram.flag = "none" -> channels
                     [] OTHER             -> Off
    /\ ram' = [ram EXCEPT !.flag = "none"]

EndOfDma ==
    /\ siInts > 0
    /\ siInts' = siInts - 1
    /\ \/ dir = "write" /\ Process /\ UNCHANGED dram
       \/ /\ dir = "read"
          /\ dram' = [block |-> ram.block, answers |-> ram.answers]
          /\ UNCHANGED <<channels, ram>>
       \/ dir = "none" /\ UNCHANGED <<channels, ram, dram>>
    /\ dir' = "none"
    /\ status' = (status \ {"DMA_BUSY", "IO_BUSY"}) \cup {"INTERRUPT"}
    /\ mi' = mi \cup {"SI"}
    /\ UNCHANGED <<polls, lost>>

(* nmi_int_handler: reset_pif turns the channels off and clears the flags, *)
(* and every event is dropped.  Nothing resets SI_STATUS.                  *)
Nmi ==
    /\ channels' = Off
    /\ ram' = [ram EXCEPT !.flag = "none"]
    /\ siInts' = 0
    /\ lost' = Busy
    /\ UNCHANGED <<status, dir, dram, polls>>

Program ==
    \/ Refuse
    \/ \E b \in Blocks : WriteDma(b)
    \/ ReadDma
    \/ \E flag \in Flags : WritePif(flag)
    \/ WriteStatus

Next == Program \/ EndOfDma \/ (Nmi /\ UNCHANGED mi)

Spec == Init /\ [][Next]_vars
-----------------------------------------------------------------------------
Answers == [of : Blocks \cup {NoBlock}, poll : 0 .. 2]
Rams == [block : Blocks \cup {NoBlock}, flag : Flags, answers : [Channels -> Answers]]
Drams == [block : Blocks \cup {NoBlock}, answers : [Channels -> Answers]]

TypeOK ==
    /\ status \subseteq {"DMA_BUSY", "IO_BUSY", "DMA_ERROR", "INTERRUPT"}
    /\ dir \in {"none", "write", "read"}
    /\ siInts \in 0 .. MaxEvents
    /\ ram \in Rams /\ dram \in Drams
    /\ channels \in [Channels -> Blocks \cup {NoBlock}]
    /\ polls \in 0 .. 2 /\ lost \in BOOLEAN

(* A read brings to the RDRAM, for every channel that is set up, an answer *)
(* given for this read to a command of the block that is in the PIF: none  *)
(* is left from an earlier read, and none is written over this block by a  *)
(* channel that an earlier one has set up.                                 *)
AnswersAreForTheBlock ==
    [][ dir = "read" /\ dir' = "none" =>
          \A k \in Channels : channels[k] \in Blocks =>
             dram'.answers[k] = [of |-> dram'.block, poll |-> polls] ]_vars

(* A busy interface comes free, unless an NMI has dropped its event.       *)
TransferEnds == Busy ~> (~Busy \/ lost)
=============================================================================
