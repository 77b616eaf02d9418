--------------------------- MODULE R4300Interrupts ---------------------------
(***************************************************************************)
(* From a device's interrupt line to the program's handler and back: the   *)
(* MI registers, Cause and Status, the CHECK_INT events that carry a       *)
(* pending interrupt to the next point where the CPU may take it, the      *)
(* exception entry with its delay-slot case (skip_jump), ERET, and the     *)
(* save, load and reset jobs that gen_interrupt serves.                    *)
(*                                                                         *)
(* One action executes one instruction of the pure interpreter, a jump     *)
(* together with its delay slot.  The program is any program: at each      *)
(* address it may execute any of the instructions below.  It consists of   *)
(* two loops of Length instructions, the main program and the handler      *)
(* behind the exception vector.  When the events other than CHECK_INT come *)
(* up is left open (module EventDispatch has it).  ERL, which only the NMI *)
(* sets, is left out.                                                      *)
(***************************************************************************)
EXTENDS Integers, FiniteSets

CONSTANTS
    Length,       \* instructions of the main program, and of the handler
    Lines,        \* lines of MI_INTR_REG the devices raise
    SignalLines,  \* those a register write raises between two jumps
    Capacity,     \* nodes of the pool that CHECK_INT events may take
    SlotFaults,   \* TRUE if a SYSCALL may be in a delay slot
    SlotWrites,   \* which register writes may be: "mask", "status"
    Tasks,        \* RSP tasks the program starts: "graphics", "other", and
                  \* "draws", one that is not of type 1 and raises DP
    Jobs          \* what the frontend asks for: "load", "save", "reset"

ASSUME LengthAssumption   == Length \in Nat /\ Length >= 2
ASSUME LinesAssumption    == SignalLines \subseteq Lines
ASSUME CapacityAssumption == Capacity \in Nat
ASSUME OptionsAssumption  ==
    /\ SlotFaults \in BOOLEAN /\ SlotWrites \subseteq {"mask", "status"}
    /\ Tasks \subseteq {"graphics", "other", "draws"}
    /\ "draws" \in Tasks => "DP" \in Lines
    /\ Jobs \subseteq {"load", "save", "reset"}

IP2 == "CP0_CAUSE_IP2"    \* the line of the MI
IP7 == "CP0_CAUSE_IP7"    \* the timer
Pending == {IP2, IP7}

Main      == 0 .. (Length - 1)
Handler   == Length .. (2 * Length - 1)
Addresses == Main \cup Handler
Vector    == Length
NoJump    == -1           \* skip_jump = 0
NoState   == [pc |-> NoJump]

Base(a)    == IF a \in Main THEN 0 ELSE Length
Plus(a, k) == Base(a) + (((a - Base(a)) + k) % Length)

VARIABLES
    cpu,      \* the registers, see TypeOK
    job,      \* the one pending save state job: "nothing", "load", "save"
    reset,    \* reset_hard_job
    saved     \* the registers in the save state file

vars == <<cpu, job, reset, saved>>

(* Two histories: cpu.next, where the main program goes on, and            *)
(* cpu.unseen, the lines an RSP task has changed since Cause was last      *)
(* compared with the MI.                                                   *)
PowerOnCpu ==
    [pc |-> 0, next |-> 0, ie |-> FALSE, exl |-> FALSE, im |-> {}, cause |-> {},
     epc |-> 0, intr |-> {}, mask |-> {}, checks |-> 0, slot |-> FALSE,
     skip |-> NoJump, zeroed |-> FALSE, unsafe |-> FALSE, waits |-> FALSE,
     unseen |-> {}]

Init ==
    /\ cpu = PowerOnCpu
    /\ job = "nothing"
    /\ reset = FALSE
    /\ saved = NoState

-----------------------------------------------------------------------------
(* Interrupt lines. c is a record like cpu.                                *)

Enabled(c)     == c.ie /\ ~c.exl
IsPending(c)   == c.im \cap c.cause # {}
MiPending(c)   == c.intr \cap c.mask # {}

(* Mutant: the MI's line stays in Cause.                                   *)
CheckKeepsCause(c) ==
    LET now == [c EXCEPT !.cause = IF MiPending(c) THEN @ \cup {IP2} ELSE @,
                         !.unseen = {}]
    IN  IF Enabled(now) /\ IsPending(now) /\ now.checks < Capacity
        THEN [now EXCEPT !.checks = @ + 1]
        ELSE now

(* A CHECK_INT is pushed in front of the queue if there is a node for it.  *)
CheckInterrupt(c) ==
    LET now == [c EXCEPT !.cause = IF MiPending(c) THEN @ \cup {IP2} ELSE @ \ {IP2},
                         !.unseen = {}]
    IN  IF Enabled(now) /\ IsPending(now) /\ now.checks < Capacity
        THEN [now EXCEPT !.checks = @ + 1]
        ELSE now

SignalRcp(c, line) == CheckInterrupt([c EXCEPT !.intr = @ \cup {line}])
ClearRcp(c, line)  == CheckInterrupt([c EXCEPT !.intr = @ \ {line}])

(* Mutant: a delay slot is forgotten.                                      *)
ExceptionForgetsSlot(c) ==
    [c EXCEPT !.exl = TRUE, !.epc = c.pc, !.pc = Vector,
              !.skip = IF c.slot THEN Vector ELSE @,
              !.zeroed = c.slot \/ @]

(* In a delay slot the jump around it must not overwrite the new pc:       *)
(* skip_jump says so, and cycle_count is zeroed to come back for it.       *)
ExceptionGeneral(c) ==
    [c EXCEPT !.exl = TRUE,
              !.epc = IF c.slot THEN Plus(c.pc, Length - 1) ELSE c.pc,
              !.pc = Vector,
              !.skip = IF c.slot THEN Vector ELSE @,
              !.zeroed = c.slot \/ @]

RaiseMaskable(c, ip) ==
    LET now == [c EXCEPT !.cause = @ \cup {ip}]
    IN  IF IsPending(now) /\ Enabled(now) THEN ExceptionGeneral(now) ELSE now

RaiseRcp(c, line) ==
    LET now == [c EXCEPT !.intr = @ \cup {line}]
    IN  IF MiPending(now) THEN RaiseMaskable(now, IP2) ELSE now

-----------------------------------------------------------------------------
(* gen_interrupt, from a record m of the variables to the possible ones.   *)

Machine == [cpu |-> cpu, job |-> job, reset |-> reset, saved |-> saved]
Become(m) == cpu' = m.cpu /\ job' = m.job /\ reset' = m.reset /\ saved' = m.saved
WithCpu(m, c) == [m EXCEPT !.cpu = c]

(* interrupt_unsafe_state: INTR_UNSAFE_R4300, and INTR_UNSAFE_RSP while a  *)
(* task waits for the CPU.                                                 *)
Unsafe(c) == c.unsafe \/ c.waits

(* What is not in the file keeps its value: skip_jump and delay_slot.      *)
Load(m) ==
    [m EXCEPT !.job = "nothing",
              !.cpu = IF m.saved = NoState
                      THEN m.cpu
                      ELSE [m.saved EXCEPT !.skip = m.cpu.skip, !.slot = m.cpu.slot,
                                           !.unsafe = FALSE, !.waits = FALSE]]

HardReset(m) == [m EXCEPT !.reset = FALSE, !.cpu = PowerOnCpu]

(* Mutant: skip_jump is not cleared.                                       *)
TakeJumpAgain(m) == WithCpu(m, [m.cpu EXCEPT !.pc = m.cpu.skip, !.zeroed = FALSE])

(* What cycle_count was zeroed for: the jump out of a delay slot.          *)
TakeSkippedJump(m) ==
    WithCpu(m, [m.cpu EXCEPT !.pc = m.cpu.skip, !.skip = NoJump, !.zeroed = FALSE])

(* A CHECK_INT is in front of the other events, whose handlers raise a     *)
(* line, the timer, or nothing.                                            *)
Handled(c) ==
    IF c.checks > 0
    THEN {ExceptionGeneral([c EXCEPT !.checks = @ - 1])}
    ELSE {c, RaiseMaskable(c, IP7)} \cup {RaiseRcp(c, line) : line \in Lines}

Save(m) ==
    IF m.job = "save" /\ ~Unsafe(m.cpu)
    THEN [m EXCEPT !.job = "nothing", !.saved = m.cpu]
    ELSE m

GenInterrupt(m) ==
    IF ~Unsafe(m.cpu) /\ m.job = "load" THEN {Load(m)}
    ELSE IF ~Unsafe(m.cpu) /\ m.reset THEN {HardReset(m)}
    ELSE IF m.cpu.skip # NoJump THEN {TakeSkippedJump(m)}
    ELSE {Save(WithCpu(m, c)) : c \in Handled(m.cpu)}

(* Where the code tests cycle_count >= 0: a CHECK_INT and a skipped jump   *)
(* are due at once, another event may be.                                  *)
Dispatch(m) ==
    IF m.cpu.checks > 0 \/ m.cpu.zeroed
    THEN GenInterrupt(m)
    ELSE {m} \cup GenInterrupt(m)

-----------------------------------------------------------------------------
(* Instructions, from a record m to the set of possible ones.              *)

(* ADD_TO_PC(1); in a delay slot the jump sees to cpu.next.                *)
Advance(c) ==
    [c EXCEPT !.pc = Plus(@, 1),
              !.next = IF c.pc \in Main /\ ~c.slot THEN Plus(c.pc, 1) ELSE @]

Plain(m) == {WithCpu(m, Advance(m.cpu))}

(* Writing Compare acknowledges the timer.                                 *)
WriteCompare(m) == {WithCpu(m, [Advance(m.cpu) EXCEPT !.cause = @ \ {IP7}])}

WriteMask(m, mask) ==
    Dispatch(WithCpu(m, CheckInterrupt([Advance(m.cpu) EXCEPT !.mask = mask])))

(* Mutant: the jobs are not kept away.                                     *)
WriteStatusUnguarded(m, ie, im) ==
    Dispatch(WithCpu(m, CheckInterrupt([Advance(m.cpu) EXCEPT !.ie = ie, !.im = im])))

WriteStatus(m, ie, im) ==
    LET c == CheckInterrupt([Advance(m.cpu) EXCEPT !.ie = ie, !.im = im])
    IN  {[r EXCEPT !.cpu.unsafe = FALSE] :
            r \in Dispatch(WithCpu(m, [c EXCEPT !.unsafe = TRUE]))}

(* A store to a device's register acknowledges its interrupt (VI_CURRENT,  *)
(* the status of AI, SI or PI, MI_INIT_MODE) or makes it pending (DPC_END, *)
(* an unfreeze).                                                           *)
WriteDevice(m) ==
    {WithCpu(m, ClearRcp(Advance(m.cpu), line)) : line \in Lines}
        \cup {WithCpu(m, SignalRcp(Advance(m.cpu), line)) : line \in SignalLines}

(* do_SP_Task runs a task to its end, or to where it waits for the CPU.    *)
(* It changes MI_INTR_REG without looking at Cause: the plugin may have    *)
(* raised DP, a display list's DP and any SP are taken back, and their     *)
(* events queued.                                                          *)
Lowered(task) == IF task = "graphics" THEN {"SP", "DP"} ELSE {"SP"}
Raised(task)  == IF task = "draws" THEN {"DP"} ELSE {}

RunTask(c, task, waits) ==
    LET left == (c.intr \ Lowered(task)) \cup Raised(task)
    IN  [c EXCEPT !.intr = left, !.waits = waits,
                  !.unseen = @ \cup (c.intr \ left) \cup (left \ c.intr)]

(* A store to SP_STATUS may take SP back and raise it, and then start a    *)
(* task, or go on with one that waits.  Which bits it has set, and whether *)
(* the RSP was halted, is left open.                                       *)
SpSignalled(c) ==
    LET cleared == {c, ClearRcp(c, "SP")}
    IN  cleared \cup {SignalRcp(d, line) : d \in cleared, line \in SignalLines \cap {"SP"}}

WriteSpStatus(m) ==
    UNION {{WithCpu(m, c)} \cup {WithCpu(m, RunTask(c, task, waits)) :
               task \in Tasks, waits \in BOOLEAN} : c \in SpSignalled(Advance(m.cpu))}

(* The rest of Cause is lost; the handler returns to the instruction, or   *)
(* to the jump whose delay slot it is in.                                  *)
Syscall(m) ==
    {WithCpu(m, [ExceptionGeneral([m.cpu EXCEPT !.cause = {}]) EXCEPT
                    !.next = Plus(m.cpu.pc, IF m.cpu.slot THEN Length - 1 ELSE 0)])}

(* Mutant: pending interrupts are not looked for.                          *)
EretOnly(m) == Dispatch(WithCpu(m, [m.cpu EXCEPT !.exl = FALSE, !.pc = m.cpu.epc]))

Eret(m) ==
    Dispatch(WithCpu(m, CheckInterrupt([m.cpu EXCEPT !.exl = FALSE, !.pc = m.cpu.epc])))

Masks    == {{}, Lines}
Pendings == {{}, Pending}

(* What a compiler puts into a delay slot, and what it may.                *)
Slot(m) ==
    Plain(m) \cup WriteCompare(m) \cup WriteDevice(m) \cup WriteSpStatus(m)
        \cup (IF SlotFaults /\ m.cpu.pc \in Main THEN Syscall(m) ELSE {})
        \cup (UNION {WriteMask(m, mask) : mask \in {k \in Masks : "mask" \in SlotWrites}})
        \cup (UNION {WriteStatus(m, TRUE, im) : im \in {k \in Pendings : "status" \in SlotWrites}})

(* A jump to the start of the loop, taken or not, with its delay slot.     *)
Jump(m, taken) ==
    LET a  == m.cpu.pc
        to == IF taken THEN Base(a) ELSE Plus(a, 2)
        inside == [m.cpu EXCEPT !.pc = Plus(a, 1), !.slot = TRUE,
                                !.next = IF a \in Main THEN to ELSE @]
    IN  UNION {Dispatch(WithCpu(r, [r.cpu EXCEPT
                   !.slot = FALSE,
                   !.pc = IF taken /\ r.cpu.skip = NoJump THEN to ELSE @])) :
               r \in Slot(WithCpu(m, inside))}

-----------------------------------------------------------------------------
ExecutePlain   == \E m \in Plain(Machine) : Become(m)
ExecuteCompare == \E m \in WriteCompare(Machine) : Become(m)
ExecuteMask    == \E mask \in Masks : \E m \in WriteMask(Machine, mask) : Become(m)
ExecuteStatus  ==
    \E ie \in BOOLEAN, im \in Pendings :
        \E m \in WriteStatus(Machine, ie, im) : Become(m)
ExecuteDevice  == \E m \in WriteDevice(Machine) : Become(m)
ExecuteSpStatus == \E m \in WriteSpStatus(Machine) : Become(m)
ExecuteSyscall == cpu.pc \in Main /\ \E m \in Syscall(Machine) : Become(m)
ExecuteEret    == cpu.pc \in Handler /\ \E m \in Eret(Machine) : Become(m)
ExecuteJump    == \E taken \in BOOLEAN : \E m \in Jump(Machine, taken) : Become(m)

(* The frontend's thread; a later job takes the place of an earlier one.   *)
RequestState ==
    /\ \E j \in Jobs \ {"reset"} : job' = j
    /\ UNCHANGED <<cpu, reset, saved>>

RequestReset ==
    /\ "reset" \in Jobs
    /\ reset' = TRUE
    /\ UNCHANGED <<cpu, job, saved>>

Next ==
    \/ ExecutePlain \/ ExecuteCompare \/ ExecuteMask \/ ExecuteStatus
    \/ ExecuteDevice \/ ExecuteSpStatus \/ ExecuteSyscall \/ ExecuteEret \/ ExecuteJump
    \/ RequestState \/ RequestReset

Spec == Init /\ [][Next]_vars

(* A program never runs for ever without a jump.                           *)
LiveSpec == Spec /\ []<><<ExecuteJump>>_vars
-----------------------------------------------------------------------------
Registers ==
    [pc : Addresses, next : Main, ie : BOOLEAN, exl : BOOLEAN,
     im : SUBSET Pending, cause : SUBSET Pending, epc : Addresses,
     intr : SUBSET Lines, mask : SUBSET Lines, checks : 0 .. Capacity,
     slot : BOOLEAN, skip : Addresses \cup {NoJump}, zeroed : BOOLEAN,
     unsafe : BOOLEAN, waits : BOOLEAN, unseen : SUBSET Lines]

TypeOK ==
    /\ cpu \in Registers
    /\ job \in {"nothing", "load", "save"}
    /\ reset \in BOOLEAN
    /\ saved \in Registers \cup {NoState}

(* Cause shows the MI's line exactly while a device's interrupt is pending *)
(* and unmasked, whichever of the two changed last, up to the lines an RSP *)
(* task has changed behind its back (do_SP_Task, rsp_core.c); a SYSCALL    *)
(* wipes Cause, and ERET has to bring it back.                             *)
CauseFollowsMi ==
    /\ IP2 \in cpu.cause => (cpu.intr \cup cpu.unseen) \cap cpu.mask # {}
    /\ (cpu.intr \ cpu.unseen) \cap cpu.mask # {} /\ ~cpu.exl => IP2 \in cpu.cause

(* The same without the exception: no program may start an RSP task.       *)
CauseIsCurrent ==
    /\ IP2 \in cpu.cause => MiPending(cpu)
    /\ MiPending(cpu) /\ ~cpu.exl => IP2 \in cpu.cause

(* "interrupt execution is scheduled (if not masked)" (mi_controller.c):   *)
(* a CHECK_INT, which enters the handler unasked, is in the queue only     *)
(* while an interrupt is pending and enabled.                              *)
QueuedIsPending == cpu.checks > 0 => Enabled(cpu) /\ IsPending(cpu)

(* Interrupts are transparent to the program: the main program goes on     *)
(* where it was, whether the interrupt came at a jump, in a delay slot or  *)
(* by unmasking, and the handler will return there.                        *)
Resumes ==
    IF cpu.pc \in Main
    THEN ~cpu.exl /\ cpu.pc = cpu.next
    ELSE cpu.exl /\ cpu.epc = cpu.next

(* A jump out of a delay slot is taken by the end of that jump: afterwards *)
(* skip_jump is clear, or the next taken jump would be lost.               *)
SkipIsSpent == cpu.skip = NoJump /\ ~cpu.slot /\ ~cpu.zeroed

(* interrupt_unsafe_state is "set to avoid savestates/reset if state may   *)
(* be inconsistent (e.g. in the middle of an instruction)" (cp0.h): a      *)
(* loaded state goes on exactly where it was saved, SkipIsSpent aside.     *)
LoadResumes ==
    [][job = "load" /\ job' = "nothing" /\ saved # NoState
          => cpu' = [saved EXCEPT !.skip = cpu'.skip]]_vars

(* An interrupt that Cause shows, enabled, does not wait for ever.         *)
PendingIsTaken ==
    (Enabled(cpu) /\ IsPending(cpu)) ~> ~(Enabled(cpu) /\ IsPending(cpu))
=============================================================================
