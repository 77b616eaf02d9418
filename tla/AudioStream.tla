----------------------------- MODULE AudioStream -----------------------------
(***************************************************************************)
(* What the audio interface promises to a program and to the back-end that *)
(* plays its sound: the buffers are played one after the other, each of    *)
(* them in full, each sample once and in order, at the rate set when the   *)
(* buffer began; at most one buffer waits behind the one being played.     *)
(* AudioInterface implements it.                                           *)
(***************************************************************************)
EXTENDS Integers, Sequences

CONSTANTS Buffers, Rates, NoBuffer

VARIABLES
    queue,    \* the buffer being played and the one behind it
    played,   \* samples of the first that the back-end has
    running,  \* the first is being played (it is not, after an NMI)
    shifted,  \* the first is played from 0x2000 bytes further on
    carry,    \* the next one will be
    dacrate,  \* the rate the program asks for
    rate,     \* the rate the back-end plays at
    heard     \* what this step gave to the back-end

stream == <<queue, played, running, shifted, carry, dacrate, rate, heard>>

Nothing == [buffer |-> NoBuffer, from |-> 0, to |-> 0, shifted |-> FALSE, rate |-> 0]

Chunk(to) ==
    [buffer |-> queue[1], from |-> played, to |-> to, shifted |-> shifted, rate |-> rate]

Init ==
    /\ queue = <<>> /\ played = 0
    /\ running = FALSE /\ shifted = FALSE /\ carry = FALSE
    /\ dacrate = 0 /\ rate = 0
    /\ heard = Nothing

(* The hardware carries an address of its own: a buffer that ends on a     *)
(* boundary of 0x2000 bytes moves the next one.                            *)
Start(b) ==
    /\ played' = 0 /\ running' = TRUE
    /\ shifted' = carry /\ carry' = b.edge
    /\ rate' = dacrate

Submit(b) ==
    /\ heard' = Nothing
    /\ UNCHANGED dacrate
    /\ \/ ~running /\ queue' = <<b>> /\ Start(b)
       \/ /\ running
          /\ queue' = <<queue[1], b>>
          /\ UNCHANGED <<played, running, shifted, carry, rate>>

(* Samples are passed on when the program looks how many are left ...      *)
Play ==
    /\ queue # <<>> /\ running
    /\ \E to \in (played + 1) .. queue[1].length :
          heard' = Chunk(to) /\ played' = to
    /\ UNCHANGED <<queue, running, shifted, carry, dacrate, rate>>

(* ... and when the buffer is over.                                        *)
Finish ==
    /\ running
    /\ heard' = IF played < queue[1].length THEN Chunk(queue[1].length) ELSE Nothing
    /\ queue' = Tail(queue)
    /\ UNCHANGED dacrate
    /\ \/ Len(queue) = 2 /\ Start(queue[2])
       \/ /\ Len(queue) = 1
          /\ played' = 0
          /\ running' = FALSE /\ shifted' = FALSE /\ carry' = FALSE
          /\ UNCHANGED rate

(* An NMI stops the sound.  What is left of the first buffer is played the *)
(* next time the program looks, unless it begins another one before.       *)
Interrupt ==
    /\ running' = FALSE
    /\ \/ /\ queue # <<>> /\ played < queue[1].length
          /\ queue' = <<queue[1]>>
          /\ UNCHANGED <<played, shifted>>
       \/ /\ queue = <<>> \/ played = queue[1].length
          /\ queue' = <<>> /\ played' = 0 /\ shifted' = FALSE
    /\ heard' = Nothing
    /\ UNCHANGED <<carry, dacrate, rate>>

PlayRemains ==
    /\ queue # <<>> /\ ~running
    /\ heard' = Chunk(queue[1].length)
    /\ queue' = <<>> /\ played' = 0 /\ shifted' = FALSE
    /\ UNCHANGED <<running, carry, dacrate, rate>>

SetRate(r) ==
    /\ dacrate' = r
    /\ heard' = Nothing
    /\ UNCHANGED <<queue, played, running, shifted, carry, rate>>

(* Whatever else the program does is not heard.                            *)
Quiet ==
    /\ heard' = Nothing
    /\ UNCHANGED <<queue, played, running, shifted, carry, dacrate, rate>>

Next ==
    \/ \E b \in Buffers : Submit(b)
    \/ Play \/ Finish \/ Interrupt \/ PlayRemains \/ Quiet
    \/ \E r \in Rates : SetRate(r)

Spec == Init /\ [][Next]_stream
=============================================================================
