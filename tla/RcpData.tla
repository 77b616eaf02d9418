------------------------------ MODULE RcpData ------------------------------
(***************************************************************************)
(* What programs do with the devices of Rcp: the data they work on, and    *)
(* the bounds of the models.                                               *)
(***************************************************************************)
EXTENDS Naturals

CONSTANTS
    (* AudioInterface.                                                     *)
    Buffers,    \* what the program plays: a length, and whether it ends on
                \* a boundary of 0x2000 bytes (edge)
    Rates,      \* what it writes to AI_DACRATE
    NoBuffer,   \* a fifo entry nobody has written
    (* RspTasks.                                                           *)
    Writes,     \* the sets of bits it writes to SP_STATUS
    Transfers,  \* the DMA transfers it asks for
    (* SerialInterface.                                                    *)
    Channels,   \* of the PIF
    Blocks,     \* what it writes to the PIF: a flag, and what the block has
                \* for each channel
    NoBlock,
    (* DiskDrive.                                                          *)
    Sectors,    \* SECTORS_PER_BLOCK, 85
    C2Sectors,  \* 4
    (* Common to several.                                                  *)
    EarlyIo,    \* it writes to the PIF or the cartridge without waiting for
                \* the transfer that is under way
    MaxEvents   \* bound: events of a kind queued at the same time

(* Bits of a write of SP_STATUS.                                           *)
Bits == {"clear halt", "set halt", "clear broke", "clear intr", "set intr",
         "clear intr break", "set intr break"}

(* A block sets a channel up for a command ("command") or a reset, whose   *)
(* answer is dropped ("reset"), disables it ("skip"), or ends before it    *)
(* comes to it ("keep").  Its flag asks for that ("setup"), for a CIC      *)
(* challenge ("cic") or for neither ("none").                              *)
Flags == {"setup", "cic", "none"}
Orders == {"command", "reset", "skip", "keep"}

ASSUME BuffersAssumption ==
    /\ \A b \in Buffers : b.length \in Nat \ {0} /\ b.edge \in BOOLEAN
    /\ NoBuffer \notin Buffers
    /\ Rates \subseteq Nat
ASSUME WritesAssumption == Writes \subseteq SUBSET Bits
ASSUME BlocksAssumption ==
    /\ \A b \in Blocks : b.flag \in Flags /\ b.for \in [Channels -> Orders]
    /\ NoBlock \notin Blocks
ASSUME SizesAssumption == Sectors \in Nat \ {0} /\ C2Sectors \in Nat \ {0}
ASSUME ChoiceAssumption == EarlyIo \in BOOLEAN
ASSUME MaxEventsAssumption == MaxEvents \in Nat \ {0}
=============================================================================
