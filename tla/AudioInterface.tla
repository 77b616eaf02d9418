--------------------------- MODULE AudioInterface ---------------------------
(***************************************************************************)
(* The audio interface, rcp/ai/ai_controller.c: two buffers, the event at  *)
(* the end of a buffer, the samples that a read of AI_LEN passes on early, *)
(* and the sample rate that is set lazily.  When a buffer ends is left     *)
(* open, and so is how much of it a read of AI_LEN finds left.             *)
(***************************************************************************)
EXTENDS Integers, RcpData

VARIABLES
    status,    \* AI_STATUS_REG: "BUSY", "FULL"
    fifo,      \* the buffer being played, 0, and the one behind it, 1
    lastRead,  \* last_read: samples of fifo[0] not yet passed on
    moved,     \* do_dma has added 0x2000 to the address of fifo[0]
    carry,     \* delayed_carry
    changed,   \* samples_format_changed
    dacrate,   \* AI_DACRATE_REG
    rate,      \* what set_frequency was last told
    aiEvent,   \* an AI_INT event is queued
    mi,        \* lines of MI_INTR_REG
    heard      \* history: what this step gave to push_samples

regs == <<status, fifo, lastRead, moved, carry, changed, dacrate, rate, aiEvent>>
vars == <<regs, mi, heard>>

Nothing == [buffer |-> NoBuffer, from |-> 0, to |-> 0, shifted |-> FALSE, rate |-> 0]

(* push_samples from what was passed on before, until left remain.         *)
Push(left) ==
    [buffer |-> fifo[0],
     from |-> fifo[0].length - lastRead, to |-> fifo[0].length - left,
     shifted |-> moved, rate |-> rate]

Init ==
    /\ status = {} /\ aiEvent = FALSE
    /\ fifo = [i \in {0, 1} |-> NoBuffer]
    /\ lastRead = 0 /\ moved = FALSE /\ carry = FALSE
    /\ changed = FALSE /\ dacrate = 0 /\ rate = 0
    /\ mi = {}
    /\ heard = Nothing

-----------------------------------------------------------------------------
DoDma(b) ==
    /\ rate' = IF changed THEN dacrate ELSE rate
    /\ changed' = FALSE
    /\ lastRead' = b.length
    /\ moved' = carry
    /\ carry' = b.edge
    /\ aiEvent' = TRUE

(* Mutant: a buffer that finds the interface busy is played at once.       *)
PushAtOnce(b) ==
    /\ fifo' = [fifo EXCEPT ![0] = b]
    /\ status' = status \cup {"BUSY"}
    /\ DoDma(b)

FifoPush(b) ==
    \/ /\ "BUSY" \in status
       /\ fifo' = [fifo EXCEPT ![1] = b]
       /\ status' = status \cup {"FULL"}
       /\ UNCHANGED <<lastRead, moved, carry, changed, rate, aiEvent>>
    \/ /\ "BUSY" \notin status
       /\ fifo' = [fifo EXCEPT ![0] = b]
       /\ status' = status \cup {"BUSY"}
       /\ DoDma(b)

FifoPop ==
    \/ /\ "FULL" \in status
       /\ fifo' = [fifo EXCEPT ![0] = fifo[1]]
       /\ status' = status \ {"FULL"}
       /\ DoDma(fifo[1])
    \/ /\ "FULL" \notin status
       /\ status' = status \ {"BUSY"}
       /\ lastRead' = 0 /\ carry' = FALSE /\ aiEvent' = FALSE
       /\ UNCHANGED <<fifo, moved, changed, rate>>

(* A length of 0 does nothing.                                             *)
WriteLen(b) ==
    /\ FifoPush(b)
    /\ heard' = Nothing
    /\ UNCHANGED <<dacrate, mi>>

(* get_remaining_dma_length knows of no event but the queued one.          *)
ReadLen ==
    /\ \E left \in 0 .. lastRead :
          /\ aiEvent \/ left = 0
          /\ left < lastRead
          /\ heard' = Push(left)
          /\ lastRead' = left
    /\ UNCHANGED <<status, fifo, moved, carry, changed, dacrate, rate, aiEvent, mi>>

WriteStatus ==
    /\ mi' = mi \ {"AI"}
    /\ heard' = Nothing
    /\ UNCHANGED regs

WriteDacRate ==
    /\ \E r \in Rates :
          /\ dacrate' = r
          /\ changed' = (changed \/ r # dacrate)
    /\ heard' = Nothing
    /\ UNCHANGED <<status, fifo, lastRead, moved, carry, rate, aiEvent, mi>>

EndOfDma ==
    /\ aiEvent
    /\ heard' = IF lastRead # 0 THEN Push(0) ELSE Nothing
    /\ FifoPop
    /\ mi' = mi \cup {"AI"}
    /\ UNCHANGED dacrate

(* nmi_int_handler clears AI_STATUS and drops every event.                 *)
Nmi ==
    /\ status' = {} /\ aiEvent' = FALSE
    /\ heard' = Nothing
    /\ UNCHANGED <<fifo, lastRead, moved, carry, changed, dacrate, rate>>

Program == (\E b \in Buffers : WriteLen(b)) \/ ReadLen \/ WriteStatus \/ WriteDacRate

Next == Program \/ EndOfDma \/ (Nmi /\ UNCHANGED mi)

Spec == Init /\ [][Next]_vars
-----------------------------------------------------------------------------
Chunks ==
    [buffer : Buffers \cup {NoBuffer}, from : Nat, to : Nat, shifted : BOOLEAN, rate : Nat]

TypeOK ==
    /\ status \in {{}, {"BUSY"}, {"BUSY", "FULL"}}
    /\ fifo \in [{0, 1} -> Buffers \cup {NoBuffer}]
    /\ lastRead \in Nat
    /\ moved \in BOOLEAN /\ carry \in BOOLEAN
    /\ changed \in BOOLEAN /\ aiEvent \in BOOLEAN
    /\ dacrate \in Nat /\ rate \in Nat
    /\ heard \in Chunks

(* A busy interface plays a buffer and has its end scheduled, a full one   *)
(* has another, no more is left of the buffer than there is in it, and     *)
(* nothing is left to do if the rate was changed and changed back.         *)
Consistent ==
    /\ aiEvent <=> "BUSY" \in status
    /\ "BUSY" \in status => fifo[0] \in Buffers
    /\ "FULL" \in status => fifo[1] \in Buffers
    /\ lastRead # 0 => fifo[0] \in Buffers /\ lastRead <= fifo[0].length
    /\ ~changed => rate = dacrate

Queue ==
    IF "FULL" \in status THEN <<fifo[0], fifo[1]>>
    ELSE IF "BUSY" \in status \/ lastRead # 0 THEN <<fifo[0]>>
    ELSE <<>>

Played == IF Queue = <<>> THEN 0 ELSE fifo[0].length - lastRead

Stream == INSTANCE AudioStream WITH
    queue <- Queue,
    played <- Played,
    running <- "BUSY" \in status,
    shifted <- Queue # <<>> /\ moved

(* Every sample of every buffer goes to the back-end once, in order, at    *)
(* the rate its buffer began with.                                         *)
AudioPlays == Stream!Spec

(* AI_STATUS does not stay full for ever: the program may go on.           *)
FifoMovesOn == ("FULL" \in status) ~> ("FULL" \notin status)
=============================================================================
