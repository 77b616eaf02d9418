---------------------------- MODULE EventDispatch ----------------------------
(***************************************************************************)
(* The CPU and the devices working on the event queue of InterruptQueue:   *)
(* instructions that move the counter, instructions that write Count and   *)
(* Compare, devices that schedule events, and gen_interrupt, which handles *)
(* the first event when a jump finds cycle_count to be zero or positive.   *)
(*                                                                         *)
(* Which interrupts the program has enabled is left open here (module      *)
(* R4300Interrupts has it): wherever r4300_check_interrupt runs, it may    *)
(* push a CHECK_INT or not.                                                *)
(***************************************************************************)
EXTENDS InterruptQueue

VARIABLES
    cp0,     \* [count, compare, cycleCount, nextInterrupt, q]
    since    \* instructions counted since the last jump

vars == <<cp0, since>>

Init == cp0 = PowerOn /\ since = 0

-----------------------------------------------------------------------------
(* What handling the first event of c.q leaves behind.  A device's handler *)
(* may schedule the device again (a queued DMA, the next audio buffer).    *)

(* soft_reset_device, which a reset from the frontend's event loop calls.  *)
SoftReset(c) == AddInterruptEvent(AddInterruptEvent(c, HW2, 0), NMI, NmiDelay)

(* Mutant: the next vertical interrupt is not a delay away.                *)
ViHandlerNoDelay(c) ==
    {AddInterruptEventCount(RemoveInterruptEvent(c), VI, c.q[1].count)}

(* The frontend's event loop runs in new_vi, before the VI is rescheduled. *)
ViHandler(c) ==
    LET next == c.q[1].count + ViDelay
        resets == IF SoftResets /\ ~Scheduled(c.q, NMI) THEN {SoftReset(c)} ELSE {}
    IN  {AddInterruptEventCount(RemoveInterruptEvent(r), VI, next) :
            r \in {c} \cup resets}

(* Mutant: the timer is scheduled before its old node is free.             *)
CompareHandlerAddsFirst(c) == RemoveInterruptEvent(AddCompare(c, c.compare))

CompareHandler(c) == AddCompare(RemoveInterruptEvent(c), c.compare)

SpecialHandler(c) == AddSpecial(RemoveInterruptEvent(c))

NmiHandler(c) ==
    AddInterruptEvent(InitInterrupt([RemoveInterruptEvent(c) EXCEPT !.count = 0]),
                      VI, ViDelay)

DeviceHandler(c) ==
    LET removed == RemoveInterruptEvent(c)
    IN  {removed} \cup {AddInterruptEvent(removed, c.q[1].type, d) : d \in Delays}

GenInterrupt(c) ==
    LET t == c.q[1].type
    IN  CASE t = VI      -> ViHandler(c)
          [] t = COMPARE -> {CompareHandler(c)}
          [] t \in {CHECK, HW2} -> {RemoveInterruptEvent(c)}
          [] t = SPECIAL -> {SpecialHandler(c)}
          [] t = NMI     -> {NmiHandler(c)}
          [] OTHER       -> DeviceHandler(c)

(* gen_interrupt is called only once cycle_count has reached zero.        *)
GenInterruptIfDue(c) == IF c.cycleCount >= 0 THEN GenInterrupt(c) ELSE {c}

-----------------------------------------------------------------------------
(* Actions. Each executes n instructions of the block, the last of which   *)
(* is the one that is named; since bounds the length of a block, which     *)
(* ends with a jump.                                                       *)

InBlock(n) == since + n < BlockLength /\ since' = since + n

(* MFC0 Count or Random, a read of VI_CURRENT, AI_LEN, ...                 *)
ReadCount(n) ==
    /\ InBlock(n)
    /\ cp0' = UpdateCount(cp0, n)

WriteCompare(n, value) ==
    /\ InBlock(n)
    /\ cp0' = [AddCompare(RemoveEvent(UpdateCount(cp0, n), COMPARE), value)
                  EXCEPT !.compare = value]

WriteCount(n, value) ==
    /\ InBlock(n)
    /\ \E c \in GenInterruptIfDue(UpdateCount(cp0, n)) :
          cp0' = TranslateEventQueue(c, value)

(* A register write that starts a DMA, the VI, a task of the RSP.          *)
Schedule(n, t, delay) ==
    /\ InBlock(n)
    /\ ~Scheduled(cp0.q, t)
    /\ cp0' = AddInterruptEvent(UpdateCount(cp0, n), t, delay)

(* signal_rcp_interrupt, or dd_controller's, from the middle of a block:   *)
(* the CHECK_INT waits for the next jump.                                  *)
Signal ==
    /\ Signals
    /\ cp0' = PushCheck(cp0)
    /\ UNCHANGED since

(* ERET and MTC0 Status: r4300_check_interrupt, then gen_interrupt if due. *)
WriteStatus(n) ==
    /\ InBlock(n)
    /\ LET now == UpdateCount(cp0, n)
       IN  \E checked \in {now, PushCheck(now)} : cp0' \in GenInterruptIfDue(checked)

(* A write of the MI mask checks before it brings Count up to date.        *)
WriteMask(n) ==
    /\ InBlock(n)
    /\ \E checked \in {cp0, PushCheck(cp0)} :
          cp0' \in GenInterruptIfDue(UpdateCount(checked, n))

Jump(n) ==
    /\ since + n <= BlockLength
    /\ since' = 0
    /\ cp0' \in GenInterruptIfDue(UpdateCount(cp0, n))

(* A jump to itself: the time to the next event is skipped.                *)
IdleJump ==
    /\ since < BlockLength
    /\ since' = 0
    /\ LET now  == UpdateCount(cp0, 1)
           idle == IF now.cycleCount < 0
                   THEN [now EXCEPT !.count = (@ - now.cycleCount) % Modulus,
                                    !.cycleCount = 0]
                   ELSE now
       IN  cp0' \in GenInterruptIfDue(idle)

(* A pending reset_hard_job is served instead of the event that is due.    *)
HardReset(n) ==
    /\ since + n <= BlockLength
    /\ UpdateCount(cp0, n).cycleCount >= 0
    /\ since' = 0
    /\ cp0' = PowerOn

Step ==
    \/ \E n \in 1 .. BlockLength :
          \/ ReadCount(n)
          \/ \E value \in Values : WriteCompare(n, value) \/ WriteCount(n, value)
          \/ Schedule(n, VI, ViDelay)
          \/ \E t \in Devices, delay \in Delays : Schedule(n, t, delay)
          \/ WriteStatus(n)
          \/ WriteMask(n)
          \/ Jump(n)
    \/ Signal
    \/ IdleJump

Next == Step \/ \E n \in 1 .. BlockLength : HardReset(n)

Spec == Init /\ [][Next]_vars

(* The machine from the moment the program has set the VI up.              *)
InitVi == cp0 = AddInterruptEvent(PowerOn, VI, ViDelay) /\ since = 0
SpecVi == InitVi /\ [][Step]_vars

(* The CPU never stops executing jumps, which are enabled in every state.  *)
AnyJump == since' = 0 /\ (IdleJump \/ \E n \in 1 .. BlockLength : Jump(n))
Fairness == []<><<AnyJump>>_vars
LiveSpec == SpecVi /\ Fairness
-----------------------------------------------------------------------------
(* Every state is one the code's types and the pool of nodes allow.        *)
TypeOK ==
    /\ cp0 \in Cp0
    /\ Len(cp0.q) <= Capacity
    /\ since \in 0 .. BlockLength

(* The timer and the wrap-around event are in the queue, once each, in     *)
(* every state: COMPARE_INT and SPECIAL_INT are taken out and put back by  *)
(* five different pieces of code, some of them while the pool is full of   *)
(* CHECK_INT nodes.                                                        *)
TimerAndWrapScheduled == Once(cp0.q, COMPARE) /\ Once(cp0.q, SPECIAL)

(* next_interrupt and cycle_count are copies of the first node's count and *)
(* of its distance from the present; every operation keeps them so, though *)
(* remove_event does not touch them.                                       *)
HeadCached ==
    /\ cp0.nextInterrupt = cp0.q[1].count
    /\ (cp0.cycleCount - (cp0.count - cp0.q[1].count)) % Modulus = 0

(* The queue is in the order in which its counts come up: seen from the    *)
(* first event no event is before its predecessor, whatever wraps around.  *)
CyclicOrder ==
    LET Distance(i) == (cp0.q[i].count - cp0.q[1].count) % Modulus
    IN  \A i, j \in 1 .. Len(cp0.q) : i < j => Distance(i) <= Distance(j)

(* How long ago an event with count n was due, modulo the counter.         *)
Overdue(n) == (cp0.count - n) % Modulus
Due(n) == Overdue(n) <= MaxLate

(* No event is passed over: each one, but for the timer which may lie a    *)
(* whole turn ahead, is still to come or has become due only just now.     *)
OnTime ==
    \A i \in 1 .. Len(cp0.q) :
        cp0.q[i].type # COMPARE =>
            Due(cp0.q[i].count) \/ Overdue(cp0.q[i].count) >= Half

(* cycle_count is the number of cycles left until the next interrupt is    *)
(* taken (cp0.h): once an event other than the timer is due, the CPU's     *)
(* test of cycle_count at the next jump finds out.                         *)
DueIsSeen ==
    (\E i \in 1 .. Len(cp0.q) :
        /\ cp0.q[i].type \notin {COMPARE, CHECK}
        /\ Due(cp0.q[i].count)) => cp0.cycleCount >= 0

(* And when that test succeeds, the first event really is due: no event is *)
(* handled early because its distance looked negative as an int.           *)
NotEarly == cp0.cycleCount >= 0 => Due(cp0.q[1].count)

(* A timer event that is handled comes up again after a turn of the        *)
(* counter: "Add count_per_op to avoid wrong event order in case           *)
(* CP0_COUNT_REG == CP0_COMPARE_REG" (compare_int_handler).                *)
TimerRearmedLast ==
    (cp0.q[1].type = COMPARE /\ cp0.cycleCount >= 0) =>
        LET c == CompareHandler(cp0) IN c.q[Len(c.q)].type = COMPARE

(* A state is saved at the end of gen_interrupt. Loaded again, its queue   *)
(* handles the events in the same order; the wrap-around event is left     *)
(* out, because the load makes it anew.                                    *)
Saved == IF cp0.cycleCount >= 0 THEN GenInterrupt(cp0) ELSE {}

Reload(c) == LoadEventQueueInfos(c, SaveEventQueueInfos(c))

LoadKeepsOrder ==
    \A c \in Saved : RemoveEvent(Reload(c), SPECIAL).q = RemoveEvent(c, SPECIAL).q

(* The same for the events of the devices, leaving the timer out too.      *)
Others(c) == RemoveEvent(RemoveEvent(c, COMPARE), SPECIAL).q

LoadKeepsDeviceOrder == \A c \in Saved : Others(Reload(c)) = Others(c)

(* The picture keeps coming: the vertical interrupt is handled again and   *)
(* again, however the program rewrites Count and Compare. A step handles   *)
(* it if the VI's distance changes by other than the time that passes.     *)
ViCount == cp0.q[SelectInSeq(cp0.q, LAMBDA e : e.type = VI)].count

ViHandled ==
    IF since' > since
    THEN (((ViCount' - cp0'.count) - (ViCount - cp0.count))
             + (since' - since) * CountPerOp) % Modulus # 0
    ELSE ViCount' # ViCount

ViKeepsComing == []<><<ViHandled>>_vars
=============================================================================
