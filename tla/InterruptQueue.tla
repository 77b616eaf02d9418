--------------------------- MODULE InterruptQueue ---------------------------
(***************************************************************************)
(* The event queue of the emulated CPU and the counter it is keyed on      *)
(* (mupen64plus-core/src/device/r4300/interrupt.c and cp0.c).              *)
(*                                                                         *)
(* Every device of the machine tells the time by one 32-bit counter, the   *)
(* CP0 Count register.  A device that needs to act later puts an event     *)
(* [type, count] into a queue which is ordered by the distance of count    *)
(* from the present, modulo 2^32; the CPU compares its cycle_count, the    *)
(* signed distance to the first event, with zero at every jump and then    *)
(* handles the first event.  The module keeps the counter's width as the   *)
(* constant Half (2^31 in the code), the pool of nodes as Capacity (16).   *)
(*                                                                         *)
(* The operators work on a record of the cp0 fields the code keeps, so     *)
(* that a handler that makes several calls is a composition of operators.  *)
(***************************************************************************)
EXTENDS Integers, Sequences, SequencesExt

CONSTANTS
    Half,           \* half the range of Count: UINT32_C(0x80000000)
    CountPerOp,     \* cp0.count_per_op
    Capacity,       \* INTERRUPT_NODES_POOL_CAPACITY
    PowerOnCount,   \* the value poweron_cp0 gives Count: 0x5000
    Devices,        \* types of the one-shot device events: PI_INT, SI_INT, ...
    Delays,         \* delays the devices ask for
    ViDelay,        \* vi.delay, the length of a vertical interval
    NmiDelay,       \* 50000000 in soft_reset_device
    BlockLength,    \* instructions between two jumps, at most
    Values,         \* words a program writes to Count and Compare
    MaxLate,        \* how late an event may be handled, in counts
    Signals,        \* TRUE if code between two jumps makes interrupts pending
    SoftResets      \* TRUE if the user resets the machine

VI      == "VI_INT"
COMPARE == "COMPARE_INT"
CHECK   == "CHECK_INT"
SPECIAL == "SPECIAL_INT"
HW2     == "HW2_INT"
NMI     == "NMI_INT"
OwnTypes == {VI, COMPARE, CHECK, SPECIAL, HW2, NMI}

ASSUME HalfAssumption     == Half \in Nat \ {0}
ASSUME RateAssumption     == CountPerOp \in Nat \ {0}
ASSUME CapacityAssumption == Capacity \in Nat /\ Capacity >= 3
ASSUME PowerOnAssumption  == PowerOnCount \in 0 .. (Half - 1)
ASSUME DeviceAssumption   == Devices \cap OwnTypes = {}
ASSUME DelayAssumption    ==
    /\ Delays \subseteq Nat
    /\ MaxLate \in Nat
    /\ ViDelay \in Nat
    /\ NmiDelay \in Nat
ASSUME BlockAssumption    == BlockLength \in Nat \ {0}
ASSUME ProgramAssumption  ==
    Signals \in BOOLEAN /\ SoftResets \in BOOLEAN
ASSUME ValuesAssumption   == Values \subseteq 0 .. (2 * Half - 1)

Modulus == 2 * Half
Word    == 0 .. (Modulus - 1)
Types   == Devices \cup OwnTypes
Events  == [type : Types, count : Word]
Cp0     == [count : Word, compare : Word, cycleCount : Int,
            nextInterrupt : Word, q : Seq(Events)]

(* (int) of an unsigned difference of two words. *)
Signed(n) == IF n % Modulus < Half THEN n % Modulus ELSE (n % Modulus) - Modulus

-----------------------------------------------------------------------------
(* Operations on the queue. c is a record of the cp0 fields. *)

Scheduled(q, t) == \E i \in 1 .. Len(q) : q[i].type = t

Once(q, t) ==
    \E i \in 1 .. Len(q) :
        /\ q[i].type = t
        /\ \A j \in 1 .. Len(q) : q[j].type = t => j = i

(* Mutant: an overdue first event is not taken into account.               *)
BaseAlwaysNow(c) == c.count

(* The present, as before_event sees it: an overdue first event counts.    *)
Base(c) == IF c.cycleCount > 0 THEN c.count - c.cycleCount ELSE c.count

BeforeEvent(c, n, m) == (n - Base(c)) % Modulus < (m - Base(c)) % Modulus

(* The node a new event with count n is linked in front of.                *)
Place(c, n) ==
    LET later == {i \in 1 .. Len(c.q) : BeforeEvent(c, n, c.q[i].count)}
    IN  IF later = {} THEN Len(c.q) + 1
        ELSE CHOOSE i \in later : \A j \in later : i <= j

(* next_interrupt and cycle_count follow the first node of queue q.        *)
WithQueue(c, q) ==
    [c EXCEPT !.q = q,
              !.nextInterrupt = IF q = <<>> THEN 0 ELSE q[1].count,
              !.cycleCount = IF q = <<>> THEN 0 ELSE Signed(c.count - q[1].count)]

(* Mutant: alloc_node does not look at the pool's limit.                   *)
AddWithoutLimit(c, t, n) ==
    WithQueue(c, InsertAt(c.q, Place(c, n % Modulus),
                          [type |-> t, count |-> n % Modulus]))

(* A full pool loses the event: the code logs an error and returns.        *)
AddInterruptEventCount(c, t, n) ==
    IF Len(c.q) >= Capacity
    THEN c
    ELSE WithQueue(c, InsertAt(c.q, Place(c, n % Modulus),
                               [type |-> t, count |-> n % Modulus]))

AddInterruptEvent(c, t, delay) == AddInterruptEventCount(c, t, c.count + delay)

(* Mutant: cycle_count is left as it was.                                  *)
RemoveAndForget(c) == [c EXCEPT !.q = Tail(@)]

RemoveInterruptEvent(c) == WithQueue(c, Tail(c.q))

(* remove_event leaves next_interrupt and cycle_count as they are.         *)
RemoveEvent(c, t) == [c EXCEPT !.q = RemoveFirstMatch(@, LAMBDA e : e.type = t)]

(* Mutant: the half that Count is in.                                      *)
SpecialInSameHalf(n) == IF n % Modulus < Half THEN 0 ELSE Half

(* The half of the counter's range that Count is not in.                   *)
SpecialCount(n) == IF n % Modulus < Half THEN Half ELSE 0

AddSpecial(c) == AddInterruptEventCount(c, SPECIAL, SpecialCount(c.count))

(* COMPARE_INT is placed as seen one instruction later, so that Compare =  *)
(* Count means a whole turn of the counter; then cycle_count is redone.    *)
AddCompare(c, n) ==
    LET ahead  == [c EXCEPT !.count = (@ + CountPerOp) % Modulus,
                            !.cycleCount = @ + CountPerOp]
        placed == AddInterruptEventCount(ahead, COMPARE, n)
    IN  [placed EXCEPT !.count = c.count,
                       !.cycleCount = Signed(c.count - placed.q[1].count)]

(* Mutant: the events are moved by base, not to it.                        *)
TranslateByBase(c, base) ==
    LET kept    == RemoveEvent(RemoveEvent(c, COMPARE), SPECIAL)
        shifted == [i \in 1 .. Len(kept.q) |->
                       [kept.q[i] EXCEPT !.count = (@ + base) % Modulus]]
        moved   == [kept EXCEPT !.q = shifted, !.count = base]
    IN  AddCompare(AddSpecial(moved), c.compare)

TranslateEventQueue(c, base) ==
    LET kept    == RemoveEvent(RemoveEvent(c, COMPARE), SPECIAL)
        shifted == [i \in 1 .. Len(kept.q) |->
                       [kept.q[i] EXCEPT !.count = ((@ - c.count) + base) % Modulus]]
        moved   == [kept EXCEPT !.q = shifted, !.count = base]
    IN  AddCompare(AddSpecial(moved), c.compare)

InitInterrupt(c) ==
    AddInterruptEventCount(
        AddInterruptEventCount([c EXCEPT !.q = <<>>], SPECIAL, Half), COMPARE, 0)

(* Mutant: next_interrupt is forgotten.                                    *)
PushCheckOnly(c) ==
    IF Len(c.q) >= Capacity
    THEN c
    ELSE [c EXCEPT !.q = <<[type |-> CHECK, count |-> c.count]>> \o @,
                   !.cycleCount = 0]

(* r4300_check_interrupt when an enabled interrupt is pending.             *)
PushCheck(c) ==
    IF Len(c.q) >= Capacity
    THEN c
    ELSE [c EXCEPT !.q = <<[type |-> CHECK, count |-> c.count]>> \o @,
                   !.nextInterrupt = c.count,
                   !.cycleCount = 0]

UpdateCount(c, instructions) ==
    [c EXCEPT !.count = (@ + instructions * CountPerOp) % Modulus,
              !.cycleCount = @ + instructions * CountPerOp]

(* The m64p savestate keeps the nodes in their order, after the registers. *)
SaveEventQueueInfos(c) == c.q

(* Mutant: the saved counts are taken for delays.                          *)
LoadAsDelays(c, saved) ==
    LET loaded == FoldLeft(LAMBDA d, e : AddInterruptEvent(d, e.type, e.count),
                           [c EXCEPT !.q = <<>>], saved)
    IN  AddSpecial(RemoveEvent(loaded, SPECIAL))

(* Loading empties the queue and adds the saved events one by one.         *)
LoadEventQueueInfos(c, saved) ==
    LET loaded == FoldLeft(LAMBDA d, e : AddInterruptEventCount(d, e.type, e.count),
                           [c EXCEPT !.q = <<>>], saved)
    IN  AddSpecial(RemoveEvent(loaded, SPECIAL))

PowerOn ==
    InitInterrupt([count |-> PowerOnCount, compare |-> 0, cycleCount |-> 0,
                   nextInterrupt |-> 0, q |-> <<>>])
=============================================================================
