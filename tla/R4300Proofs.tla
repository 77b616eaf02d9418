----------------------------- MODULE R4300Proofs -----------------------------
(***************************************************************************)
(* Cause and the MI, and where the program goes on after an interrupt, for *)
(* programs of any length, any lines and any pool of nodes.                *)
(***************************************************************************)
EXTENDS R4300Interrupts, TLAPS

Machines ==
    [cpu : Registers, job : {"nothing", "load", "save"}, reset : BOOLEAN,
     saved : Registers \cup {NoState}]

(* A line that Cause may show, and one that it has to.                     *)
MayShow(c)  == (c.intr \cup c.unseen) \cap c.mask # {}
MustShow(c) == (c.intr \ c.unseen) \cap c.mask # {}

(* Cause agrees with the MI, in the machine and in the state in the file:  *)
(* first what holds while EXL is set, too. Only a task leaves a line       *)
(* unseen, and only one that raises DP leaves a pending line out of Cause. *)
Shown(c) ==
    /\ c \in Registers
    /\ IP2 \in c.cause => MayShow(c)
    /\ Tasks = {} => c.unseen = {}

Sound(c) ==
    /\ Shown(c)
    /\ MustShow(c) /\ ~c.exl => IP2 \in c.cause
    /\ "draws" \notin Tasks => (MiPending(c) /\ ~c.exl => IP2 \in c.cause)

SoundMachine(m) ==
    /\ m \in Machines
    /\ Sound(m.cpu)
    /\ m.saved # NoState => Sound(m.saved)

-----------------------------------------------------------------------------
(* Addresses.                                                              *)

LEMMA VectorFacts ==
    /\ Vector \in Handler /\ Vector \in Addresses /\ Vector \notin Main
    /\ Main \cap Handler = {} /\ Addresses = Main \cup Handler
    /\ NoJump \notin Addresses /\ 0 \in Main
BY LengthAssumption DEF Vector, Handler, Addresses, Main, NoJump

LEMMA PlusStays ==
    ASSUME NEW a \in Addresses, NEW k \in Nat
    PROVE  /\ Plus(a, k) \in Addresses
           /\ a \in Main <=> Plus(a, k) \in Main
<1> DEFINE r == ((a - Base(a)) + k) % Length
<1>1. (a - Base(a)) + k \in Int /\ Length \in Nat /\ Length > 0
  BY LengthAssumption DEF Addresses, Main, Handler, Base
<1>2. r \in 0 .. (Length - 1)
  BY <1>1
<1>3. Plus(a, k) = Base(a) + r
  BY DEF Plus
<1> HIDE DEF r
<1>4. CASE a \in Main
  BY <1>1, <1>2, <1>3, <1>4 DEF Addresses, Main, Base
<1>5. CASE a \notin Main
  BY <1>1, <1>2, <1>3, <1>5 DEF Addresses, Main, Handler, Base
<1> QED
  BY <1>4, <1>5

LEMMA BaseStays ==
    ASSUME NEW a \in Addresses
    PROVE  Base(a) \in Addresses /\ (a \in Main <=> Base(a) \in Main)
BY LengthAssumption DEF Base, Addresses, Main, Handler

-----------------------------------------------------------------------------
(* What each piece of code does to the registers.                          *)

(* The registers that Sound looks at.                                      *)
SameLines(c, d) ==
    /\ d.cause = c.cause /\ d.exl = c.exl
    /\ d.intr = c.intr /\ d.mask = c.mask /\ d.unseen = c.unseen

LEMMA SameLinesAreSound ==
    ASSUME NEW c, Sound(c), NEW d \in Registers, SameLines(c, d) PROVE Sound(d)
BY DEF Sound, Shown, SameLines, MayShow, MustShow, MiPending

LEMMA CheckIsSound ==
    ASSUME NEW c \in Registers PROVE Sound(CheckInterrupt(c))
<1> DEFINE now == [c EXCEPT !.cause = IF MiPending(c) THEN @ \cup {IP2} ELSE @ \ {IP2},
                            !.unseen = {}]
           full == [now EXCEPT !.checks = @ + 1]
<1>1. now \in Registers /\ now.intr = c.intr /\ now.mask = c.mask /\ now.exl = c.exl
      /\ now.checks = c.checks /\ now.unseen = {} /\ (IP2 \in now.cause <=> MiPending(c))
  BY DEF Registers, Pending
<1>2. /\ MiPending(now) <=> MiPending(c)
      /\ MayShow(now) <=> MiPending(c)
      /\ MustShow(now) <=> MiPending(c)
  BY <1>1 DEF MiPending, MayShow, MustShow
<1>3. Sound(now)
  BY <1>1, <1>2 DEF Sound, Shown
<1> HIDE DEF now
<1>4. CASE now.checks < Capacity
  <2>1. now.checks + 1 \in 0 .. Capacity
    BY <1>1, <1>4, CapacityAssumption DEF Registers
  <2>2. full \in Registers /\ SameLines(now, full)
    BY <1>1, <2>1 DEF Registers, SameLines
  <2>3. Sound(full)
    BY <1>3, <2>2, SameLinesAreSound
  <2> QED
    BY <1>3, <2>3 DEF CheckInterrupt, now
<1>5. CASE ~(now.checks < Capacity)
  BY <1>3, <1>5 DEF CheckInterrupt, now
<1> QED
  BY <1>4, <1>5

LEMMA ExceptionIsSound ==
    ASSUME NEW c, Shown(c) PROVE Sound(ExceptionGeneral(c))
<1>1. Length - 1 \in Nat
  BY LengthAssumption
<1>2. c \in Registers /\ c.pc \in Addresses
  BY DEF Shown, Registers
<1>3. Plus(c.pc, Length - 1) \in Addresses /\ Vector \in Addresses
  BY <1>1, <1>2, PlusStays, VectorFacts
<1>4. /\ ExceptionGeneral(c) \in Registers
      /\ ExceptionGeneral(c).exl = TRUE /\ ExceptionGeneral(c).cause = c.cause
      /\ ExceptionGeneral(c).intr = c.intr /\ ExceptionGeneral(c).mask = c.mask
      /\ ExceptionGeneral(c).unseen = c.unseen
  BY <1>2, <1>3 DEF ExceptionGeneral, Registers
<1> QED
  BY <1>4 DEF Sound, Shown, MayShow

LEMMA HandledIsSound ==
    ASSUME NEW c, Sound(c), NEW r \in Handled(c) PROVE Sound(r)
<1>1. c \in Registers /\ Shown(c)
  BY DEF Sound, Shown
<1>2. CASE c.checks > 0
  <2> DEFINE d == [c EXCEPT !.checks = @ - 1]
  <2>1. d \in Registers /\ SameLines(c, d)
    BY <1>1, <1>2, CapacityAssumption DEF Registers, SameLines
  <2>2. r = ExceptionGeneral(d)
    BY <1>2 DEF Handled
  <2> HIDE DEF d
  <2>3. Shown(d)
    BY <1>1, <2>1 DEF SameLines, Shown, MayShow
  <2> QED
    BY <2>1, <2>2, <2>3, ExceptionIsSound
<1>3. CASE r = c
  BY <1>3
<1>4. CASE r = RaiseMaskable(c, IP7)
  <2> DEFINE now == [c EXCEPT !.cause = @ \cup {IP7}]
  <2>1. now \in Registers /\ now.cause = c.cause \cup {IP7} /\ now.intr = c.intr
        /\ now.mask = c.mask /\ now.unseen = c.unseen /\ now.exl = c.exl
    BY <1>1 DEF Registers, Pending
  <2> HIDE DEF now
  <2>2. Sound(now)
    BY <2>1 DEF Sound, Shown, MayShow, MustShow, MiPending, IP2, IP7
  <2>3. Sound(ExceptionGeneral(now))
    BY <2>2, ExceptionIsSound DEF Sound, Shown
  <2> QED
    BY <1>4, <2>2, <2>3 DEF RaiseMaskable, now
<1>5. ASSUME NEW line \in Lines, r = RaiseRcp(c, line) PROVE Sound(r)
  <2> DEFINE now == [c EXCEPT !.intr = @ \cup {line}]
  <2>1. now \in Registers /\ now.mask = c.mask /\ now.exl = c.exl /\ now.cause = c.cause
        /\ now.intr = c.intr \cup {line} /\ now.unseen = c.unseen
    BY <1>1 DEF Registers
  <2> HIDE DEF now
  <2>2. CASE MiPending(now)
    <3>1. r = RaiseMaskable(now, IP2)
      BY <1>5, <2>2 DEF RaiseRcp, now
    <3> DEFINE d == [now EXCEPT !.cause = @ \cup {IP2}]
    <3>2. d \in Registers /\ d.intr = now.intr /\ d.mask = now.mask /\ IP2 \in d.cause
          /\ d.unseen = now.unseen
      BY <2>1 DEF Registers, Pending
    <3> HIDE DEF d
    <3>3. Shown(d)
      BY <1>1, <2>1, <2>2, <3>2 DEF Shown, MiPending, MayShow
    <3>4. Sound(d)
      BY <3>2, <3>3 DEF Sound, Shown
    <3>5. Sound(ExceptionGeneral(d))
      BY <3>3, ExceptionIsSound
    <3> QED
      BY <3>1, <3>4, <3>5 DEF RaiseMaskable, d
  <2>3. CASE ~MiPending(now)
    <3>1. r = now
      BY <1>5, <2>3 DEF RaiseRcp, now
    <3>2. Shown(now)
      BY <1>1, <2>1 DEF Shown, MayShow
    <3>3. ~MustShow(now)
      BY <2>3 DEF MustShow, MiPending
    <3> QED
      BY <2>3, <3>1, <3>2, <3>3 DEF Sound, Shown
  <2> QED
    BY <2>2, <2>3
<1> QED
  BY <1>2, <1>3, <1>4, <1>5 DEF Handled

LEMMA PowerOnIsSound == Sound(PowerOnCpu)
<1>1. 0 \in Addresses /\ 0 \in Main /\ 0 \in 0 .. Capacity
  BY VectorFacts, CapacityAssumption
<1>2. PowerOnCpu \in Registers
  BY <1>1 DEF PowerOnCpu, Registers
<1> QED
  BY <1>2 DEF Sound, Shown, PowerOnCpu, MiPending, MustShow

(* A machine with other registers.                                         *)
LEMMA WithCpuFacts ==
    ASSUME NEW m \in Machines, NEW c \in Registers
    PROVE  /\ WithCpu(m, c) \in Machines /\ WithCpu(m, c).cpu = c
           /\ WithCpu(m, c).job = m.job /\ WithCpu(m, c).saved = m.saved
           /\ WithCpu(m, c).reset = m.reset
BY DEF WithCpu, Machines

LEMMA WithCpuIsSound ==
    ASSUME NEW m, SoundMachine(m), NEW c, Sound(c) PROVE SoundMachine(WithCpu(m, c))
BY WithCpuFacts DEF SoundMachine, Sound, Shown

LEMMA GenInterruptIsSound ==
    ASSUME NEW m, SoundMachine(m), NEW r \in GenInterrupt(m) PROVE SoundMachine(r)
<1>1. m \in Machines /\ Sound(m.cpu) /\ m.cpu \in Registers
      /\ (m.saved # NoState => Sound(m.saved))
  BY DEF SoundMachine, Sound, Shown
<1>2. CASE r = Load(m)
  <2>1. CASE m.saved = NoState
    <3>1. r = [m EXCEPT !.job = "nothing", !.cpu = m.cpu]
      BY <1>2, <2>1 DEF Load
    <3>2. r \in Machines /\ r.cpu = m.cpu /\ r.saved = m.saved
      BY <1>1, <3>1 DEF Machines
    <3> QED
      BY <1>1, <3>2 DEF SoundMachine
  <2>2. CASE m.saved # NoState
    <3> DEFINE c == [m.saved EXCEPT !.skip = m.cpu.skip, !.slot = m.cpu.slot,
                                    !.unsafe = FALSE, !.waits = FALSE]
    <3>1. m.saved \in Registers
      BY <1>1, <2>2 DEF Sound, Shown
    <3>2. c \in Registers /\ SameLines(m.saved, c)
      BY <1>1, <3>1 DEF Registers, SameLines
    <3>3. Sound(c)
      BY <1>1, <2>2, <3>2, SameLinesAreSound
    <3>4. r = [m EXCEPT !.job = "nothing", !.cpu = c]
      BY <1>2, <2>2 DEF Load
    <3> HIDE DEF c
    <3>5. r \in Machines /\ r.cpu = c /\ r.saved = m.saved
      BY <1>1, <3>2, <3>4 DEF Machines
    <3> QED
      BY <1>1, <3>3, <3>5 DEF SoundMachine
  <2> QED
    BY <2>1, <2>2
<1>3. CASE r = HardReset(m)
  <2>1. PowerOnCpu \in Registers
    BY PowerOnIsSound DEF Sound, Shown
  <2>2. r \in Machines /\ r.cpu = PowerOnCpu /\ r.saved = m.saved
    BY <1>1, <1>3, <2>1 DEF HardReset, Machines
  <2> QED
    BY <1>1, <2>2, PowerOnIsSound DEF SoundMachine
<1>4. CASE m.cpu.skip # NoJump /\ r = TakeSkippedJump(m)
  <2> DEFINE c == [m.cpu EXCEPT !.pc = m.cpu.skip, !.skip = NoJump, !.zeroed = FALSE]
  <2>1. c \in Registers /\ SameLines(m.cpu, c)
    BY <1>1, <1>4 DEF Registers, SameLines
  <2>2. Sound(c)
    BY <1>1, <2>1, SameLinesAreSound
  <2>3. r = WithCpu(m, c)
    BY <1>4 DEF TakeSkippedJump
  <2> QED
    BY <2>2, <2>3, WithCpuIsSound
<1>5. ASSUME NEW c \in Handled(m.cpu), r = Save(WithCpu(m, c)) PROVE SoundMachine(r)
  <2>1. Sound(c)
    BY <1>1, <1>5, HandledIsSound
  <2>2. SoundMachine(WithCpu(m, c)) /\ WithCpu(m, c).cpu = c
    BY <1>1, <2>1, WithCpuIsSound, WithCpuFacts DEF Sound, Shown
  <2> DEFINE w == WithCpu(m, c)
             s == [w EXCEPT !.job = "nothing", !.saved = w.cpu]
  <2>3. r \in {w, s}
    BY <1>5 DEF Save
  <2> HIDE DEF w
  <2>4. s \in Machines /\ s.cpu = w.cpu /\ s.saved = w.cpu
    BY <2>2 DEF w, SoundMachine, Machines
  <2> QED
    BY <2>2, <2>3, <2>4 DEF SoundMachine, w
<1> QED
  BY <1>2, <1>3, <1>4, <1>5 DEF GenInterrupt

LEMMA DispatchIsSound ==
    ASSUME NEW m, SoundMachine(m), NEW r \in Dispatch(m) PROVE SoundMachine(r)
BY GenInterruptIsSound DEF Dispatch

-----------------------------------------------------------------------------
(* Instructions.                                                           *)

LEMMA AdvanceFacts ==
    ASSUME NEW c \in Registers
    PROVE  /\ Advance(c) \in Registers
           /\ Advance(c).pc = Plus(c.pc, 1)
           /\ Advance(c).next = IF c.pc \in Main /\ ~c.slot THEN Plus(c.pc, 1) ELSE c.next
           /\ \A f \in {"ie", "exl", "im", "cause", "epc", "intr", "mask", "checks", "slot",
                        "skip", "zeroed", "unsafe", "waits", "unseen"} :
                    Advance(c)[f] = c[f]
<1>1. c.pc \in Addresses
  BY DEF Registers
<1>2. Plus(c.pc, 1) \in Addresses /\ (c.pc \in Main => Plus(c.pc, 1) \in Main)
  BY <1>1, PlusStays
<1> QED
  BY <1>2 DEF Advance, Registers

LEMMA AdvanceIsSound == ASSUME NEW c, Sound(c) PROVE Sound(Advance(c))
<1>1. c \in Registers
  BY DEF Sound, Shown
<1>2. Advance(c) \in Registers /\ SameLines(c, Advance(c))
  BY <1>1, AdvanceFacts DEF SameLines
<1> QED
  BY <1>2, SameLinesAreSound

(* What an instruction without gen_interrupt does to the devices.          *)
Stores(m) == Plain(m) \cup WriteCompare(m) \cup WriteDevice(m) \cup WriteSpStatus(m)

LEMMA SignalsAreSound ==
    ASSUME NEW c \in Registers, NEW line
    PROVE  /\ Sound(ClearRcp(c, line))
           /\ line \in Lines => Sound(SignalRcp(c, line))
<1>1. [c EXCEPT !.intr = @ \ {line}] \in Registers
  BY DEF Registers
<1>2. line \in Lines => [c EXCEPT !.intr = @ \cup {line}] \in Registers
  BY DEF Registers
<1> QED
  BY <1>1, <1>2, CheckIsSound DEF ClearRcp, SignalRcp

LEMMA SpSignalledIsSound ==
    ASSUME NEW c, Sound(c), NEW d \in SpSignalled(c) PROVE Sound(d)
<1>1. c \in Registers /\ Sound(ClearRcp(c, "SP")) /\ ClearRcp(c, "SP") \in Registers
  BY SignalsAreSound DEF Sound, Shown
<1>2. CASE d \in {c, ClearRcp(c, "SP")}
  BY <1>1, <1>2
<1>3. ASSUME NEW e \in {c, ClearRcp(c, "SP")}, NEW line \in SignalLines \cap {"SP"},
             d = SignalRcp(e, line)
      PROVE  Sound(d)
  BY <1>1, <1>3, SignalsAreSound, LinesAssumption
<1> QED
  BY <1>2, <1>3 DEF SpSignalled

(* What a task changes is unseen.                                          *)
LEMMA TaskIsSound ==
    ASSUME NEW c, Sound(c), NEW task \in Tasks, NEW waits \in BOOLEAN
    PROVE  Sound(RunTask(c, task, waits))
<1> DEFINE left == (c.intr \ Lowered(task)) \cup Raised(task)
           hidden == c.unseen \cup (c.intr \ left) \cup (left \ c.intr)
           r == [c EXCEPT !.intr = left, !.waits = waits, !.unseen = hidden]
<1>1. c \in Registers /\ c.intr \in SUBSET Lines /\ c.unseen \in SUBSET Lines
  BY DEF Sound, Shown, Registers
<1>2. Raised(task) \subseteq Lines /\ ("draws" \notin Tasks => Raised(task) = {})
  BY OptionsAssumption DEF Raised
<1>3. /\ left \in SUBSET Lines /\ hidden \in SUBSET Lines
      /\ c.intr \cup c.unseen \subseteq left \cup hidden
      /\ left \ hidden \subseteq c.intr \ c.unseen
      /\ "draws" \notin Tasks => left \subseteq c.intr
  BY <1>1, <1>2
<1>4. RunTask(c, task, waits) = r
  BY <1>1 DEF RunTask, Registers
<1> HIDE DEF left, hidden
<1>5. /\ r \in Registers /\ r.intr = left /\ r.unseen = hidden
      /\ r.mask = c.mask /\ r.cause = c.cause /\ r.exl = c.exl
  BY <1>1, <1>3 DEF Registers
<1> HIDE DEF r
<1>6. /\ MayShow(c) => MayShow(r)
      /\ MustShow(r) => MustShow(c)
      /\ "draws" \notin Tasks => (MiPending(r) => MiPending(c))
  BY <1>3, <1>5 DEF MayShow, MustShow, MiPending
<1> QED
  BY <1>4, <1>5, <1>6 DEF Sound, Shown

LEMMA StoresAreSound ==
    ASSUME NEW m, SoundMachine(m), NEW r \in Stores(m) PROVE SoundMachine(r)
<1> DEFINE a == Advance(m.cpu)
<1>1. Sound(a) /\ a \in Registers
  BY AdvanceIsSound DEF SoundMachine, Sound, Shown
<1> HIDE DEF a
<1>2. CASE r \in Plain(m)
  BY <1>1, <1>2, WithCpuIsSound DEF Plain, a
<1>3. CASE r \in WriteCompare(m)
  <2> DEFINE c == [a EXCEPT !.cause = @ \ {IP7}]
  <2>1. c \in Registers /\ c.intr = a.intr /\ c.mask = a.mask /\ c.exl = a.exl
        /\ c.unseen = a.unseen /\ c.cause = a.cause \ {IP7}
    BY <1>1 DEF Registers
  <2>2. Sound(c)
    BY <1>1, <2>1 DEF Sound, Shown, MayShow, MustShow, MiPending, IP2, IP7
  <2>3. r = WithCpu(m, c)
    BY <1>3 DEF WriteCompare, a
  <2> QED
    BY <2>2, <2>3, WithCpuIsSound
<1>4. CASE r \in WriteDevice(m)
  <2>1. PICK line \in Lines : r \in {WithCpu(m, ClearRcp(a, line)), WithCpu(m, SignalRcp(a, line))}
    BY <1>4, LinesAssumption DEF WriteDevice, a
  <2> QED
    BY <1>1, <2>1, SignalsAreSound, WithCpuIsSound
<1>5. CASE r \in WriteSpStatus(m)
  <2>1. PICK d \in SpSignalled(a) :
            \/ r = WithCpu(m, d)
            \/ \E task \in Tasks, waits \in BOOLEAN : r = WithCpu(m, RunTask(d, task, waits))
    BY <1>5 DEF WriteSpStatus, a
  <2>2. Sound(d)
    BY <1>1, SpSignalledIsSound
  <2> QED
    BY <2>1, <2>2, TaskIsSound, WithCpuIsSound
<1> QED
  BY <1>2, <1>3, <1>4, <1>5 DEF Stores

LEMMA WriteMaskIsSound ==
    ASSUME NEW m, SoundMachine(m), NEW mask \in Masks, NEW r \in WriteMask(m, mask)
    PROVE  SoundMachine(r)
<1> DEFINE a == Advance(m.cpu)
           c == [a EXCEPT !.mask = mask]
<1>1. a \in Registers
  BY AdvanceIsSound DEF SoundMachine, Sound, Shown
<1> HIDE DEF a
<1>2. c \in Registers
  BY <1>1 DEF Registers, Masks
<1>3. r \in Dispatch(WithCpu(m, CheckInterrupt(c)))
  BY DEF WriteMask, a
<1> HIDE DEF c
<1> QED
  BY <1>2, <1>3, CheckIsSound, WithCpuIsSound, DispatchIsSound

LEMMA WriteStatusIsSound ==
    ASSUME NEW m, SoundMachine(m), NEW ie \in BOOLEAN, NEW im \in Pendings,
           NEW r \in WriteStatus(m, ie, im)
    PROVE  SoundMachine(r)
<1> DEFINE a == Advance(m.cpu)
           c == CheckInterrupt([a EXCEPT !.ie = ie, !.im = im])
           d == [c EXCEPT !.unsafe = TRUE]
<1>1. a \in Registers
  BY AdvanceIsSound DEF SoundMachine, Sound, Shown
<1> HIDE DEF a
<1>2. [a EXCEPT !.ie = ie, !.im = im] \in Registers
  BY <1>1 DEF Registers, Pendings
<1>3. Sound(c)
  BY <1>2, CheckIsSound
<1>4. PICK t \in Dispatch(WithCpu(m, d)) : r = [t EXCEPT !.cpu.unsafe = FALSE]
  BY DEF WriteStatus, a
<1> HIDE DEF c
<1>5. Sound(d)
  <2>1. d \in Registers /\ SameLines(c, d)
    BY <1>3 DEF Sound, Shown, Registers, SameLines
  <2> QED
    BY <1>3, <2>1, SameLinesAreSound
<1>6. SoundMachine(t)
  BY <1>4, <1>5, WithCpuIsSound, DispatchIsSound
<1> DEFINE e == [t.cpu EXCEPT !.unsafe = FALSE]
<1>7. t \in Machines /\ t.cpu \in Registers
  BY <1>6 DEF SoundMachine, Sound, Shown
<1>8. Sound(e)
  <2>1. e \in Registers /\ SameLines(t.cpu, e)
    BY <1>7 DEF Registers, SameLines
  <2> QED
    BY <1>6, <2>1, SameLinesAreSound DEF SoundMachine
<1>9. r = [t EXCEPT !.cpu = e]
  BY <1>4, <1>7 DEF Machines
<1>10. r = WithCpu(t, e)
  BY <1>9 DEF WithCpu
<1> HIDE DEF e
<1> QED
  BY <1>6, <1>8, <1>10, WithCpuIsSound

LEMMA SyscallIsSound ==
    ASSUME NEW m, SoundMachine(m), m.cpu.pc \in Main, NEW r \in Syscall(m)
    PROVE  SoundMachine(r)
<1> DEFINE b == [m.cpu EXCEPT !.cause = {}]
           x == ExceptionGeneral(b)
           n == Plus(m.cpu.pc, IF m.cpu.slot THEN Length - 1 ELSE 0)
           c == [x EXCEPT !.next = n]
<1>1. m.cpu \in Registers /\ m.cpu.pc \in Addresses
  BY VectorFacts DEF SoundMachine, Sound, Shown
<1>2. Shown(b)
  BY <1>1 DEF SoundMachine, Sound, Shown, Registers
<1>3. Sound(x)
  BY <1>2, ExceptionIsSound
<1>4. x.exl = TRUE /\ x.cause = {}
  BY <1>1 DEF ExceptionGeneral, Registers
<1>5. (IF m.cpu.slot THEN Length - 1 ELSE 0) \in Nat
  BY LengthAssumption
<1>6. n \in Main
  BY <1>1, <1>5, PlusStays
<1>7. r = WithCpu(m, c)
  BY DEF Syscall
<1> HIDE DEF x, n
<1>8. Sound(c)
  BY <1>3, <1>4, <1>6 DEF Sound, Shown, MayShow, MustShow, MiPending, Registers
<1> QED
  BY <1>7, <1>8, WithCpuIsSound

LEMMA EretIsSound ==
    ASSUME NEW m, SoundMachine(m), NEW r \in Eret(m) PROVE SoundMachine(r)
<1> DEFINE c == [m.cpu EXCEPT !.exl = FALSE, !.pc = m.cpu.epc]
<1>1. c \in Registers
  BY DEF SoundMachine, Sound, Shown, Registers
<1>2. r \in Dispatch(WithCpu(m, CheckInterrupt(c)))
  BY DEF Eret
<1> HIDE DEF c
<1> QED
  BY <1>1, <1>2, CheckIsSound, WithCpuIsSound, DispatchIsSound

LEMMA SlotIsSound ==
    ASSUME NEW m, SoundMachine(m), NEW r \in Slot(m) PROVE SoundMachine(r)
<1>1. CASE r \in Stores(m)
  BY <1>1, StoresAreSound
<1>2. CASE m.cpu.pc \in Main /\ r \in Syscall(m)
  BY <1>2, SyscallIsSound
<1>3. ASSUME NEW mask \in Masks, r \in WriteMask(m, mask) PROVE SoundMachine(r)
  BY <1>3, WriteMaskIsSound
<1>4. ASSUME NEW im \in Pendings, r \in WriteStatus(m, TRUE, im) PROVE SoundMachine(r)
  BY <1>4, WriteStatusIsSound
<1>5. \/ r \in Stores(m)
      \/ r \in IF SlotFaults /\ m.cpu.pc \in Main THEN Syscall(m) ELSE {}
      \/ r \in UNION {WriteMask(m, mask) : mask \in {k \in Masks : "mask" \in SlotWrites}}
      \/ r \in UNION {WriteStatus(m, TRUE, im) : im \in {k \in Pendings : "status" \in SlotWrites}}
  BY DEF Slot, Stores
<1>6. CASE r \in IF SlotFaults /\ m.cpu.pc \in Main THEN Syscall(m) ELSE {}
  BY <1>2, <1>6
<1>7. CASE r \in UNION {WriteMask(m, mask) : mask \in {k \in Masks : "mask" \in SlotWrites}}
  BY <1>3, <1>7
<1>8. CASE r \in UNION {WriteStatus(m, TRUE, im) :
                           im \in {k \in Pendings : "status" \in SlotWrites}}
  BY <1>4, <1>8
<1> QED
  BY <1>1, <1>5, <1>6, <1>7, <1>8

LEMMA JumpIsSound ==
    ASSUME NEW m, SoundMachine(m), NEW taken \in BOOLEAN, NEW r \in Jump(m, taken)
    PROVE  SoundMachine(r)
<1> DEFINE a == m.cpu.pc
           to == IF taken THEN Base(a) ELSE Plus(a, 2)
           inside == [m.cpu EXCEPT !.pc = Plus(a, 1), !.slot = TRUE,
                                   !.next = IF a \in Main THEN to ELSE @]
           out(t) == [t.cpu EXCEPT !.slot = FALSE,
                                   !.pc = IF taken /\ t.cpu.skip = NoJump THEN to ELSE @]
<1>1. m.cpu \in Registers /\ a \in Addresses
  BY DEF SoundMachine, Sound, Shown, Registers
<1>2. /\ to \in Addresses /\ (a \in Main => to \in Main)
      /\ Plus(a, 1) \in Addresses
  BY <1>1, PlusStays, BaseStays
<1>3. PICK t \in Slot(WithCpu(m, inside)) : r \in Dispatch(WithCpu(t, out(t)))
  BY DEF Jump
<1> HIDE DEF to
<1>4. Sound(inside)
  <2>1. inside \in Registers /\ SameLines(m.cpu, inside)
    BY <1>1, <1>2 DEF Registers, SameLines
  <2> QED
    BY <2>1, SameLinesAreSound DEF SoundMachine
<1> HIDE DEF inside
<1>5. SoundMachine(t) /\ t.cpu \in Registers
  BY <1>3, <1>4, WithCpuIsSound, SlotIsSound DEF SoundMachine, Sound, Shown
<1>6. Sound(out(t))
  <2> DEFINE goes == IF taken /\ t.cpu.skip = NoJump THEN to ELSE t.cpu.pc
  <2>1. goes \in Addresses
    BY <1>2, <1>5 DEF Registers
  <2>2. out(t) = [t.cpu EXCEPT !.slot = FALSE, !.pc = goes]
    BY <1>5 DEF Registers
  <2> HIDE DEF goes
  <2>3. [t.cpu EXCEPT !.slot = FALSE, !.pc = goes] \in Registers
    BY <1>5, <2>1 DEF Registers
  <2> QED
    BY <1>5, <2>2, <2>3, SameLinesAreSound DEF SoundMachine, SameLines, Registers
<1> HIDE DEF out
<1> QED
  BY <1>3, <1>5, <1>6, WithCpuIsSound, DispatchIsSound

-----------------------------------------------------------------------------
(* The machine as a whole.                                                 *)

IsSound == SoundMachine(Machine)

LEMMA InitIsSound == Init => IsSound
<1>1. PowerOnCpu \in Registers /\ Sound(PowerOnCpu)
  BY PowerOnIsSound DEF Sound, Shown
<1> QED
  BY <1>1 DEF Init, Machine, IsSound, SoundMachine, Machines

LEMMA BecomeIsSound ==
    ASSUME NEW m, SoundMachine(m), Become(m) PROVE SoundMachine(Machine')
<1>1. m = [cpu |-> m.cpu, job |-> m.job, reset |-> m.reset, saved |-> m.saved]
  BY DEF SoundMachine, Machines
<1>2. Machine' = m
  BY <1>1 DEF Become, Machine
<1> QED
  BY <1>2

LEMMA StepIsSound == IsSound /\ [Next]_vars => IsSound'
<1> SUFFICES ASSUME SoundMachine(Machine), [Next]_vars PROVE SoundMachine(Machine')
  BY DEF IsSound
<1>0. Machine.cpu = cpu
  BY DEF Machine
<1>1. CASE ExecutePlain
  BY <1>1, StoresAreSound, BecomeIsSound DEF ExecutePlain, Stores
<1>2. CASE ExecuteCompare
  BY <1>2, StoresAreSound, BecomeIsSound DEF ExecuteCompare, Stores
<1>3. CASE ExecuteMask
  BY <1>3, WriteMaskIsSound, BecomeIsSound DEF ExecuteMask
<1>4. CASE ExecuteStatus
  BY <1>4, WriteStatusIsSound, BecomeIsSound DEF ExecuteStatus
<1>5. CASE ExecuteDevice \/ ExecuteSpStatus
  BY <1>5, StoresAreSound, BecomeIsSound DEF ExecuteDevice, ExecuteSpStatus, Stores
<1>6. CASE ExecuteSyscall
  BY <1>0, <1>6, SyscallIsSound, BecomeIsSound DEF ExecuteSyscall
<1>7. CASE ExecuteEret
  BY <1>7, EretIsSound, BecomeIsSound DEF ExecuteEret
<1>8. CASE ExecuteJump
  BY <1>8, JumpIsSound, BecomeIsSound DEF ExecuteJump
<1>9. CASE RequestState
  BY <1>9, OptionsAssumption DEF RequestState, SoundMachine, Machines, Machine
<1>10. CASE RequestReset
  BY <1>10 DEF RequestReset, SoundMachine, Machines, Machine
<1>11. CASE UNCHANGED vars
  BY <1>11 DEF vars, Machine
<1> QED
  BY <1>1, <1>2, <1>3, <1>4, <1>5, <1>6, <1>7, <1>8, <1>9, <1>10, <1>11 DEF Next

LEMMA AlwaysSound == Spec => []IsSound
BY InitIsSound, StepIsSound, PTL DEF Spec

(* The registers keep their types, and so do those in the file.            *)
THEOREM RegistersAreTyped == Spec => []TypeOK
<1>1. IsSound => TypeOK
  BY DEF IsSound, SoundMachine, Machines, Machine, TypeOK
<1> QED
  BY <1>1, AlwaysSound, PTL

(* Cause's line of the MI follows MI_INTR_REG and its mask, up to the lines *)
(* a task has changed unseen, through every instruction, exception, ERET,  *)
(* load and reset of any program.                                          *)
THEOREM CauseIsRight == Spec => []CauseFollowsMi
<1>1. IsSound => CauseFollowsMi
  BY DEF IsSound, SoundMachine, Sound, Shown, MayShow, MustShow, Machine, CauseFollowsMi
<1> QED
  BY <1>1, AlwaysSound, PTL

(* It is the tasks alone that come between: without them Cause agrees with *)
(* MI_INTR_REG and its mask, one set by a load or a reset included.        *)
THEOREM TasksAloneAreUnseen == ASSUME Tasks = {} PROVE Spec => []CauseIsCurrent
<1>1. IsSound => CauseIsCurrent
  BY DEF IsSound, SoundMachine, Sound, Shown, MayShow, MiPending, Machine, CauseIsCurrent
<1> QED
  BY <1>1, AlwaysSound, PTL

-----------------------------------------------------------------------------
(* Where the program goes on. Calm: no interrupt line is raised by a store *)
(* or a task between two jumps, no register write is in a delay slot, and  *)
(* no state is loaded. Each of them can leave a CHECK_INT or a skip_jump   *)
(* over.                                                                   *)

Calm ==
    /\ SignalLines = {} /\ "draws" \notin Tasks
    /\ SlotWrites = {} /\ "load" \notin Jobs

RunsOn(c) ==
    IF c.pc \in Main THEN ~c.exl /\ c.pc = c.next ELSE c.exl /\ c.epc = c.next

Spent(c) == c.skip = NoJump /\ ~c.slot /\ ~c.zeroed

NoneWaits(c) == c.checks = 0 /\ (Capacity > 0 => ~(Enabled(c) /\ IsPending(c)))

(* Between two instructions.                                               *)
Steady(c) == Spent(c) /\ RunsOn(c) /\ NoneWaits(c)

(* Before gen_interrupt, with a CHECK_INT or without.                      *)
Ready(c) ==
    /\ Spent(c) /\ RunsOn(c)
    /\ NoneWaits(c) \/ (c.checks = 1 /\ Enabled(c))

(* After an exception in a delay slot.                                     *)
Thrown(c) ==
    /\ c.skip = Vector /\ c.pc = Vector /\ c.zeroed /\ ~c.slot
    /\ c.exl /\ c.epc = c.next /\ c.checks = 0

LEMMA PlusFacts ==
    ASSUME NEW a \in Addresses
    PROVE  Plus(a, 0) = a /\ Plus(Plus(a, 1), 1) = Plus(a, 2)
<1> DEFINE b == a - Base(a)
<1>1. b \in 0 .. (Length - 1) /\ Base(a) \in {0, Length} /\ a = Base(a) + b
  BY LengthAssumption DEF Addresses, Main, Handler, Base
<1>2. \A k \in Nat : Plus(a, k) = Base(a) + ((b + k) % Length)
  BY DEF Plus
<1>3. \A x \in 0 .. (Length - 1) : x % Length = x
  BY LengthAssumption
<1>4. Length % Length = 0 /\ (Length + 1) % Length = 1 /\ 1 % Length = 1
  BY LengthAssumption
<1> HIDE DEF b
<1>5. Plus(a, 0) = a
  BY <1>1, <1>2, <1>3
<1>6. Base(Plus(a, 1)) = Base(a)
  BY PlusStays DEF Base
<1> DEFINE p == Plus(a, 1)
           d == p - Base(a)
<1>7. Plus(p, 1) = Base(a) + ((d + 1) % Length)
  BY <1>6 DEF Plus
<1>8. d = (b + 1) % Length
  BY <1>1, <1>2, LengthAssumption
<1> HIDE DEF p, d
<1>9. CASE b + 1 < Length
  <2>1. d = b + 1
    BY <1>1, <1>3, <1>8, <1>9, LengthAssumption
  <2> QED
    BY <1>1, <1>2, <1>5, <1>7, <2>1 DEF p
<1>10. CASE b + 1 = Length
  <2>1. d = 0 /\ (d + 1) % Length = 1
    BY <1>4, <1>8, <1>10
  <2>2. (b + 2) % Length = 1
    BY <1>1, <1>4, <1>10, LengthAssumption
  <2> QED
    BY <1>2, <1>5, <1>7, <2>1, <2>2 DEF p
<1> QED
  BY <1>1, <1>9, <1>10, LengthAssumption

(* check_interrupt pushes at most one CHECK_INT, for an enabled interrupt. *)
LEMMA CheckIsReady ==
    ASSUME NEW c \in Registers, Spent(c), RunsOn(c), c.checks = 0
    PROVE  Ready(CheckInterrupt(c))
<1> DEFINE now == [c EXCEPT !.cause = IF MiPending(c) THEN @ \cup {IP2} ELSE @ \ {IP2},
                            !.unseen = {}]
           full == [now EXCEPT !.checks = @ + 1]
<1>1. now \in Registers
  BY DEF Registers, Pending
<1>2. Spent(now) /\ RunsOn(now) /\ now.checks = 0
  BY DEF Registers, Spent, RunsOn
<1> HIDE DEF now
<1>3. CASE Enabled(now) /\ IsPending(now) /\ now.checks < Capacity
  <2>1. Spent(full) /\ RunsOn(full) /\ full.checks = 1 /\ Enabled(full)
    BY <1>1, <1>2, <1>3 DEF Registers, Spent, RunsOn, Enabled
  <2>2. CheckInterrupt(c) = full
    BY <1>3 DEF CheckInterrupt, now
  <2> QED
    BY <2>1, <2>2 DEF Ready
<1>4. CASE ~(Enabled(now) /\ IsPending(now) /\ now.checks < Capacity)
  <2>1. CheckInterrupt(c) = now
    BY <1>4 DEF CheckInterrupt, now
  <2> QED
    BY <1>2, <1>4, <2>1, CapacityAssumption DEF Ready, NoneWaits
<1> QED
  BY <1>3, <1>4

(* The registers that say where the program is.                            *)
SamePlace(c, d) ==
    /\ d.pc = c.pc /\ d.next = c.next /\ d.exl = c.exl /\ d.epc = c.epc
    /\ d.slot = c.slot /\ d.skip = c.skip /\ d.zeroed = c.zeroed

(* Taking a line back makes no interrupt pending that was not.             *)
LEMMA ClearIsQuiet ==
    ASSUME Calm, NEW c, Sound(c), NoneWaits(c), NEW line
    PROVE  NoneWaits(ClearRcp(c, line)) /\ SamePlace(c, ClearRcp(c, line))
<1> DEFINE x == [c EXCEPT !.intr = @ \ {line}]
           now == [x EXCEPT !.cause = IF MiPending(x) THEN @ \cup {IP2} ELSE @ \ {IP2},
                            !.unseen = {}]
<1>1. c \in Registers
  BY DEF Sound, Shown
<1>2. x \in Registers /\ x.cause = c.cause /\ x.intr = c.intr \ {line} /\ x.mask = c.mask
  BY <1>1 DEF Registers
<1>3. MiPending(x) => MiPending(c)
  BY <1>2 DEF MiPending
<1>4. MiPending(x) /\ ~c.exl => IP2 \in c.cause
  BY <1>3 DEF Sound, Shown, Calm
<1> DEFINE cause == IF MiPending(x) THEN c.cause \cup {IP2} ELSE c.cause \ {IP2}
<1>5. now.im = c.im /\ now.ie = c.ie /\ now.exl = c.exl /\ now.cause = cause
      /\ now.checks = 0 /\ SamePlace(c, now)
  BY <1>1 DEF Registers, NoneWaits, SamePlace
<1>6. ~c.exl => cause \subseteq c.cause
  BY <1>4
<1> HIDE DEF now, cause, x
<1>7. Enabled(now) /\ IsPending(now) => Enabled(c) /\ IsPending(c)
  BY <1>5, <1>6 DEF Enabled, IsPending
<1>8. ~(Enabled(now) /\ IsPending(now) /\ now.checks < Capacity)
  BY <1>5, <1>7, CapacityAssumption DEF NoneWaits
<1>9. ClearRcp(c, line) = now
  BY <1>8 DEF ClearRcp, CheckInterrupt, now, x
<1> QED
  BY <1>5, <1>7, <1>9 DEF NoneWaits

LEMMA TaskIsQuiet ==
    ASSUME NEW c \in Registers, NoneWaits(c), NEW task, NEW waits
    PROVE  NoneWaits(RunTask(c, task, waits)) /\ SamePlace(c, RunTask(c, task, waits))
<1>1. \A f \in {"pc", "next", "ie", "exl", "im", "cause", "epc", "checks", "slot", "skip",
                "zeroed"} : RunTask(c, task, waits)[f] = c[f]
  BY DEF RunTask, Registers
<1> QED
  BY <1>1 DEF NoneWaits, SamePlace, Enabled, IsPending

(* An exception between two instructions leaves the program where it is.   *)
LEMMA ExceptionIsSteady ==
    ASSUME NEW c \in Registers, Spent(c), RunsOn(c), ~c.exl, c.checks = 0
    PROVE  Steady(ExceptionGeneral(c))
<1>1. c.pc \in Main /\ c.pc = c.next
  BY DEF RunsOn, Registers
<1>2. ExceptionGeneral(c) = [c EXCEPT !.exl = TRUE, !.epc = c.pc, !.pc = Vector]
  BY DEF ExceptionGeneral, Spent, Registers
<1> QED
  BY <1>1, <1>2, VectorFacts DEF Steady, Spent, RunsOn, NoneWaits, Enabled, Registers

LEMMA MaskableIsSteady ==
    ASSUME NEW c \in Registers, Spent(c), RunsOn(c), c.checks = 0, NEW ip \in Pending
    PROVE  Steady(RaiseMaskable(c, ip))
<1> DEFINE now == [c EXCEPT !.cause = @ \cup {ip}]
<1>1. now \in Registers /\ Spent(now) /\ RunsOn(now) /\ now.checks = 0
  BY DEF Registers, Spent, RunsOn
<1> HIDE DEF now
<1>2. CASE IsPending(now) /\ Enabled(now)
  BY <1>1, <1>2, ExceptionIsSteady DEF RaiseMaskable, Enabled, now
<1>3. CASE ~(IsPending(now) /\ Enabled(now))
  BY <1>1, <1>3 DEF RaiseMaskable, Steady, NoneWaits, now
<1> QED
  BY <1>2, <1>3

LEMMA HandledIsSteady ==
    ASSUME NEW c \in Registers, Ready(c), NEW r \in Handled(c) PROVE Steady(r)
<1>1. CASE c.checks > 0
  <2> DEFINE d == [c EXCEPT !.checks = @ - 1]
  <2>1. c.checks = 1 /\ ~c.exl
    BY <1>1 DEF Ready, NoneWaits, Enabled
  <2>2. d \in Registers /\ Spent(d) /\ RunsOn(d) /\ ~d.exl /\ d.checks = 0
    BY <2>1, CapacityAssumption DEF Ready, Registers, Spent, RunsOn
  <2>3. r = ExceptionGeneral(d)
    BY <1>1 DEF Handled
  <2> HIDE DEF d
  <2> QED
    BY <2>2, <2>3, ExceptionIsSteady
<1>2. CASE ~(c.checks > 0)
  <2>1. Steady(c) /\ Spent(c) /\ RunsOn(c) /\ c.checks = 0
    BY <1>2 DEF Ready, Steady, NoneWaits
  <2>2. CASE r = c
    BY <2>1, <2>2
  <2>3. CASE r = RaiseMaskable(c, IP7)
    BY <2>1, <2>3, MaskableIsSteady DEF Pending
  <2>4. ASSUME NEW line \in Lines, r = RaiseRcp(c, line) PROVE Steady(r)
    <3> DEFINE now == [c EXCEPT !.intr = @ \cup {line}]
    <3>1. now \in Registers /\ Spent(now) /\ RunsOn(now) /\ NoneWaits(now)
      BY <2>1 DEF Registers, Spent, RunsOn, Steady, NoneWaits, Enabled, IsPending
    <3> HIDE DEF now
    <3>2. CASE MiPending(now)
      BY <2>4, <3>1, <3>2, MaskableIsSteady DEF RaiseRcp, NoneWaits, Pending, now
    <3>3. CASE ~MiPending(now)
      BY <2>4, <3>1, <3>3 DEF RaiseRcp, Steady, now
    <3> QED
      BY <3>2, <3>3
  <2> QED
    BY <1>2, <2>2, <2>3, <2>4 DEF Handled
<1> QED
  BY <1>1, <1>2

LEMMA PowerOnIsSteady == Steady(PowerOnCpu)
BY VectorFacts
   DEF PowerOnCpu, Steady, Spent, RunsOn, NoneWaits, Enabled

(* gen_interrupt ends with the program between two instructions.           *)
LEMMA DispatchIsSteady ==
    ASSUME NEW m, SoundMachine(m), m.job # "load", Ready(m.cpu) \/ Thrown(m.cpu),
           NEW r \in Dispatch(m)
    PROVE  Steady(r.cpu) /\ r.job # "load"
<1>1. m \in Machines /\ m.cpu \in Registers
  BY DEF SoundMachine, Sound, Shown
<1>2. CASE r = m /\ ~(m.cpu.checks > 0 \/ m.cpu.zeroed)
  BY <1>2 DEF Ready, Thrown, Steady, NoneWaits
<1>3. CASE r \in GenInterrupt(m)
  <2>1. CASE r = HardReset(m)
    <3>1. r.cpu = PowerOnCpu /\ r.job = m.job
      BY <1>1, <2>1 DEF HardReset, Machines
    <3> QED
      BY <3>1, PowerOnIsSteady
  <2>2. CASE m.cpu.skip # NoJump /\ r = TakeSkippedJump(m)
    <3> DEFINE c == [m.cpu EXCEPT !.pc = m.cpu.skip, !.skip = NoJump, !.zeroed = FALSE]
    <3>1. Thrown(m.cpu)
      BY <2>2 DEF Ready, Spent
    <3>2. Steady(c) /\ c \in Registers
      BY <1>1, <3>1, VectorFacts
         DEF Thrown, Steady, Spent, RunsOn, NoneWaits, Enabled, Registers
    <3>3. r = WithCpu(m, c)
      BY <2>2 DEF TakeSkippedJump
    <3> HIDE DEF c
    <3> QED
      BY <1>1, <3>2, <3>3, WithCpuFacts
  <2>3. ASSUME m.cpu.skip = NoJump, NEW c \in Handled(m.cpu), r = Save(WithCpu(m, c))
        PROVE  Steady(r.cpu) /\ r.job # "load"
    <3>1. Ready(m.cpu)
      BY <2>3, VectorFacts DEF Thrown
    <3>2. Steady(c)
      BY <1>1, <2>3, <3>1, HandledIsSteady
    <3>3. Sound(c)
      BY <2>3, HandledIsSound DEF SoundMachine
    <3> DEFINE w == WithCpu(m, c)
    <3>4. w \in Machines /\ w.cpu = c /\ w.job = m.job
      BY <1>1, <3>3, WithCpuFacts DEF Sound, Shown
    <3> HIDE DEF w
    <3>5. r = w \/ r = [w EXCEPT !.job = "nothing", !.saved = w.cpu]
      BY <2>3 DEF Save, w
    <3> QED
      BY <3>2, <3>4, <3>5 DEF Machines
  <2> QED
    BY <1>3, <2>1, <2>2, <2>3 DEF GenInterrupt
<1> QED
  BY <1>2, <1>3 DEF Dispatch

(* Instructions between two others.                                        *)
SteadyMachine(m) == SoundMachine(m) /\ Steady(m.cpu) /\ m.job # "load"

LEMMA AdvanceIsSteady ==
    ASSUME NEW c \in Registers, Steady(c) PROVE Steady(Advance(c))
<1>1. c.pc \in Addresses
  BY DEF Registers
<1>2. c.pc \in Main <=> Plus(c.pc, 1) \in Main
  BY <1>1, PlusStays
<1> QED
  BY <1>2, AdvanceFacts
     DEF Steady, Spent, RunsOn, NoneWaits, Enabled, IsPending

Quiet(c, d) == NoneWaits(d) /\ SamePlace(c, d)

LEMMA StoresAreQuiet ==
    ASSUME Calm, NEW m, SoundMachine(m), NoneWaits(m.cpu), NEW r \in Stores(m)
    PROVE  Quiet(Advance(m.cpu), r.cpu) /\ r.job = m.job
<1> DEFINE a == Advance(m.cpu)
<1>1. Sound(a) /\ a \in Registers /\ m \in Machines /\ m.cpu \in Registers
  BY AdvanceIsSound DEF SoundMachine, Sound, Shown
<1>2. NoneWaits(a)
  BY <1>1, AdvanceFacts DEF NoneWaits, Enabled, IsPending
<1> HIDE DEF a
<1>3. Quiet(a, a)
  BY <1>2 DEF Quiet, SamePlace
<1>4. ASSUME NEW c, Quiet(a, c), r = WithCpu(m, c) PROVE Quiet(a, r.cpu) /\ r.job = m.job
  <2>1. r.cpu = c /\ r.job = m.job
    BY <1>1, <1>4 DEF WithCpu, Machines
  <2> QED
    BY <1>4, <2>1
<1>5. \A line : Quiet(a, ClearRcp(a, line))
  BY <1>1, <1>2, ClearIsQuiet DEF Quiet
<1>6. CASE r \in Plain(m)
  BY <1>3, <1>4, <1>6 DEF Plain, a
<1>7. CASE r \in WriteCompare(m)
  <2> DEFINE c == [a EXCEPT !.cause = @ \ {IP7}]
  <2>1. Quiet(a, c)
    BY <1>1, <1>2 DEF Registers, Quiet, NoneWaits, SamePlace, Enabled, IsPending
  <2>2. r = WithCpu(m, c)
    BY <1>7 DEF WriteCompare, a
  <2> HIDE DEF c
  <2> QED
    BY <1>4, <2>1, <2>2 DEF a
<1>8. CASE r \in WriteDevice(m)
  <2>1. PICK line \in Lines : r = WithCpu(m, ClearRcp(a, line))
    BY <1>8 DEF WriteDevice, Calm, a
  <2> QED
    BY <1>4, <1>5, <2>1 DEF a
<1>9. CASE r \in WriteSpStatus(m)
  <2>1. PICK d \in {a, ClearRcp(a, "SP")} :
            \/ r = WithCpu(m, d)
            \/ \E task \in Tasks, waits \in BOOLEAN : r = WithCpu(m, RunTask(d, task, waits))
    BY <1>9 DEF WriteSpStatus, SpSignalled, Calm, a
  <2>2. Quiet(a, d)
    BY <1>3, <1>5
  <2>3. d \in Registers
    BY <1>1, SignalsAreSound DEF Sound, Shown
  <2>4. ASSUME NEW task \in Tasks, NEW waits \in BOOLEAN,
               r = WithCpu(m, RunTask(d, task, waits))
        PROVE  Quiet(a, r.cpu) /\ r.job = m.job
    <3> DEFINE c == RunTask(d, task, waits)
    <3>1. NoneWaits(c) /\ SamePlace(d, c)
      BY <2>2, <2>3, TaskIsQuiet DEF Quiet
    <3> HIDE DEF c
    <3>2. Quiet(a, c)
      BY <2>2, <3>1 DEF Quiet, SamePlace
    <3> QED
      BY <1>4, <2>4, <3>2 DEF c
  <2> QED
    BY <1>4, <2>1, <2>2, <2>4 DEF a
<1> QED
  BY <1>6, <1>7, <1>8, <1>9 DEF Stores

LEMMA StoresAreSteady ==
    ASSUME Calm, NEW m, SteadyMachine(m), NEW r \in Stores(m)
    PROVE  Steady(r.cpu) /\ r.job # "load"
<1>1. SoundMachine(m) /\ NoneWaits(m.cpu) /\ m.job # "load" /\ Steady(Advance(m.cpu))
  BY AdvanceIsSteady DEF SteadyMachine, SoundMachine, Sound, Shown, Steady
<1>2. NoneWaits(r.cpu) /\ SamePlace(Advance(m.cpu), r.cpu) /\ r.job = m.job
  BY <1>1, StoresAreQuiet DEF Quiet
<1> QED
  BY <1>1, <1>2 DEF Steady, Spent, RunsOn, SamePlace

LEMMA WriteMaskIsSteady ==
    ASSUME NEW m, SteadyMachine(m), NEW mask \in Masks, NEW r \in WriteMask(m, mask)
    PROVE  Steady(r.cpu) /\ r.job # "load"
<1> DEFINE a == Advance(m.cpu)
           c == [a EXCEPT !.mask = mask]
           w == WithCpu(m, CheckInterrupt(c))
<1>1. a \in Registers /\ Steady(a) /\ m \in Machines
  BY AdvanceIsSound, AdvanceIsSteady DEF SteadyMachine, SoundMachine, Sound, Shown
<1> HIDE DEF a
<1>2. c \in Registers /\ Spent(c) /\ RunsOn(c) /\ c.checks = 0
  BY <1>1 DEF Registers, Masks, Steady, Spent, RunsOn, NoneWaits
<1>3. r \in Dispatch(w)
  BY DEF WriteMask, a
<1> HIDE DEF c
<1>4. Sound(CheckInterrupt(c)) /\ Ready(CheckInterrupt(c))
  BY <1>2, CheckIsSound, CheckIsReady
<1>5. SoundMachine(w) /\ Ready(w.cpu) /\ w.job = m.job
  BY <1>1, <1>4, WithCpuIsSound, WithCpuFacts DEF SteadyMachine, Sound, Shown
<1> HIDE DEF w
<1> QED
  BY <1>3, <1>5, DispatchIsSteady DEF SteadyMachine

LEMMA WriteStatusIsSteady ==
    ASSUME NEW m, SteadyMachine(m), NEW ie \in BOOLEAN, NEW im \in Pendings,
           NEW r \in WriteStatus(m, ie, im)
    PROVE  Steady(r.cpu) /\ r.job # "load"
<1> DEFINE a == Advance(m.cpu)
           b == [a EXCEPT !.ie = ie, !.im = im]
           c == CheckInterrupt(b)
           d == [c EXCEPT !.unsafe = TRUE]
           w == WithCpu(m, d)
<1>1. a \in Registers /\ Steady(a) /\ m \in Machines
  BY AdvanceIsSound, AdvanceIsSteady DEF SteadyMachine, SoundMachine, Sound, Shown
<1> HIDE DEF a
<1>2. b \in Registers /\ Spent(b) /\ RunsOn(b) /\ b.checks = 0
  BY <1>1 DEF Registers, Pendings, Steady, Spent, RunsOn, NoneWaits
<1>3. PICK t \in Dispatch(w) : r = [t EXCEPT !.cpu.unsafe = FALSE]
  BY DEF WriteStatus, a
<1> HIDE DEF b
<1>4. Sound(c) /\ Ready(c) /\ c \in Registers
  BY <1>2, CheckIsSound, CheckIsReady DEF Sound, Shown
<1> HIDE DEF c
<1>5. Sound(d) /\ Ready(d)
  <2>1. d \in Registers /\ SameLines(c, d)
    BY <1>4 DEF Registers, SameLines
  <2>2. Ready(d)
    BY <1>4 DEF Registers, Ready, Spent, RunsOn, NoneWaits, Enabled, IsPending
  <2> QED
    BY <1>4, <2>1, <2>2, SameLinesAreSound
<1> HIDE DEF d
<1>6. SoundMachine(w) /\ Ready(w.cpu) /\ w.job = m.job
  BY <1>1, <1>5, WithCpuIsSound, WithCpuFacts DEF SteadyMachine, Sound, Shown
<1> HIDE DEF w
<1>7. Steady(t.cpu) /\ t.job # "load"
  BY <1>3, <1>6, DispatchIsSteady DEF SteadyMachine
<1>8. t \in Machines /\ t.cpu \in Registers
  BY <1>3, <1>6, DispatchIsSound DEF SoundMachine, Sound, Shown
<1>9. r.cpu = [t.cpu EXCEPT !.unsafe = FALSE] /\ r.job = t.job
  BY <1>3, <1>8 DEF Machines
<1> QED
  BY <1>7, <1>8, <1>9
     DEF Registers, Steady, Spent, RunsOn, NoneWaits, Enabled, IsPending

LEMMA SyscallIsSteady ==
    ASSUME NEW m, SteadyMachine(m), m.cpu.pc \in Main, NEW r \in Syscall(m)
    PROVE  Steady(r.cpu) /\ r.job # "load"
<1> DEFINE b == [m.cpu EXCEPT !.cause = {}]
           x == ExceptionGeneral(b)
           c == [x EXCEPT !.next = m.cpu.pc]
<1>1. m \in Machines /\ m.cpu \in Registers /\ m.cpu.pc \in Addresses /\ ~m.cpu.slot
  BY VectorFacts DEF SteadyMachine, SoundMachine, Sound, Shown, Steady, Spent
<1>2. Plus(m.cpu.pc, 0) = m.cpu.pc
  BY <1>1, PlusFacts
<1>3. r = WithCpu(m, c)
  BY <1>1, <1>2 DEF Syscall
<1>4. b \in Registers /\ Spent(b) /\ RunsOn(b) /\ ~b.exl /\ b.checks = 0 /\ ~b.slot
      /\ b.pc = m.cpu.pc
  BY <1>1 DEF SteadyMachine, Steady, Registers, Spent, RunsOn, NoneWaits
<1> HIDE DEF b
<1>5. x.epc = m.cpu.pc /\ x.pc = Vector /\ x.exl
  BY <1>4 DEF ExceptionGeneral, Registers
<1>6. x \in Registers
  <2>1. [b EXCEPT !.exl = TRUE, !.epc = b.pc, !.pc = Vector] \in Registers
    BY <1>4, VectorFacts DEF Registers
  <2> QED
    BY <1>4, <2>1 DEF ExceptionGeneral, Registers
<1>7. Steady(x)
  BY <1>4, ExceptionIsSteady
<1> HIDE DEF x
<1>8. c \in Registers
  BY <1>6 DEF Registers
<1>9. Steady(c)
  BY <1>5, <1>6, <1>7, VectorFacts
     DEF Registers, Steady, Spent, RunsOn, NoneWaits, Enabled, IsPending
<1> HIDE DEF c
<1> QED
  BY <1>1, <1>3, <1>8, <1>9, WithCpuFacts DEF SteadyMachine

LEMMA EretIsSteady ==
    ASSUME NEW m, SteadyMachine(m), m.cpu.pc \in Handler, NEW r \in Eret(m)
    PROVE  Steady(r.cpu) /\ r.job # "load"
<1> DEFINE c == [m.cpu EXCEPT !.exl = FALSE, !.pc = m.cpu.epc]
           w == WithCpu(m, CheckInterrupt(c))
<1>1. m \in Machines /\ m.cpu \in Registers /\ m.cpu.pc \notin Main
  BY VectorFacts DEF SteadyMachine, SoundMachine, Sound, Shown
<1>2. m.cpu.epc = m.cpu.next /\ m.cpu.next \in Main
  BY <1>1 DEF SteadyMachine, Steady, RunsOn, Registers
<1>3. c \in Registers /\ Spent(c) /\ RunsOn(c) /\ c.checks = 0
  BY <1>1, <1>2 DEF SteadyMachine, Steady, Registers, Spent, RunsOn, NoneWaits
<1>4. r \in Dispatch(w)
  BY DEF Eret
<1> HIDE DEF c
<1>5. Sound(CheckInterrupt(c)) /\ Ready(CheckInterrupt(c))
  BY <1>3, CheckIsSound, CheckIsReady
<1>6. SoundMachine(w) /\ Ready(w.cpu) /\ w.job = m.job
  BY <1>1, <1>5, WithCpuIsSound, WithCpuFacts DEF SteadyMachine, Sound, Shown
<1> HIDE DEF w
<1> QED
  BY <1>4, <1>6, DispatchIsSteady DEF SteadyMachine

(* A store in a delay slot leaves it to the jump where the program goes.   *)
LEMMA SlotIsQuiet ==
    ASSUME Calm, NEW m, SoundMachine(m), m.cpu.slot, NoneWaits(m.cpu), NEW r \in Stores(m)
    PROVE  /\ r.cpu.pc = Plus(m.cpu.pc, 1) /\ NoneWaits(r.cpu) /\ r.job = m.job
           /\ \A f \in {"next", "exl", "epc", "skip", "zeroed"} : r.cpu[f] = m.cpu[f]
<1>1. m.cpu \in Registers
  BY DEF SoundMachine, Sound, Shown
<1>2. NoneWaits(r.cpu) /\ SamePlace(Advance(m.cpu), r.cpu) /\ r.job = m.job
  BY StoresAreQuiet DEF Quiet
<1> QED
  BY <1>1, <1>2, AdvanceFacts DEF SamePlace

(* A fault in a delay slot: back to the jump, by way of the vector.        *)
LEMMA SlotFaultIsThrown ==
    ASSUME NEW m, SoundMachine(m), m.cpu.slot, m.cpu.checks = 0, NEW r \in Syscall(m),
           m.cpu.pc \in Main
    PROVE  /\ r.cpu.skip = Vector /\ r.cpu.pc = Vector /\ r.cpu.zeroed /\ r.cpu.exl
           /\ r.cpu.epc = r.cpu.next /\ r.cpu.checks = 0 /\ r.job = m.job
<1> DEFINE e == Plus(m.cpu.pc, Length - 1)
           x == ExceptionGeneral([m.cpu EXCEPT !.cause = {}])
           c == [x EXCEPT !.next = e]
<1>1. m \in Machines /\ m.cpu \in Registers
  BY DEF SoundMachine, Sound, Shown
<1>2. x = [m.cpu EXCEPT !.cause = {}, !.exl = TRUE, !.epc = e, !.pc = Vector,
                        !.skip = Vector, !.zeroed = TRUE]
  BY <1>1 DEF ExceptionGeneral, Registers
<1>3. r = WithCpu(m, c)
  BY DEF Syscall
<1>4. r.cpu = c /\ r.job = m.job
  BY <1>1, <1>3 DEF WithCpu, Machines
<1> HIDE DEF e
<1>5. /\ x.skip = Vector /\ x.pc = Vector /\ x.zeroed /\ x.exl /\ x.epc = e
      /\ x.checks = 0
  BY <1>1, <1>2 DEF Registers
<1>6. c.next = e /\ \A f \in {"skip", "pc", "zeroed", "exl", "epc", "checks"} : c[f] = x[f]
  BY <1>1, <1>2 DEF Registers
<1> HIDE DEF x, c
<1> QED
  BY <1>4, <1>5, <1>6

LEMMA JumpIsSteady ==
    ASSUME Calm, NEW m, SteadyMachine(m), NEW taken \in BOOLEAN, NEW r \in Jump(m, taken)
    PROVE  Steady(r.cpu) /\ r.job # "load"
<1> DEFINE a == m.cpu.pc
           to == IF taken THEN Base(a) ELSE Plus(a, 2)
           inside == [m.cpu EXCEPT !.pc = Plus(a, 1), !.slot = TRUE,
                                   !.next = IF a \in Main THEN to ELSE @]
           w == WithCpu(m, inside)
           out(t) == [t.cpu EXCEPT !.slot = FALSE,
                                   !.pc = IF taken /\ t.cpu.skip = NoJump THEN to ELSE @]
<1>1. m \in Machines /\ m.cpu \in Registers /\ a \in Addresses
  BY DEF SteadyMachine, SoundMachine, Sound, Shown, Registers
<1>2. /\ to \in Addresses /\ (a \in Main <=> to \in Main)
      /\ Plus(a, 1) \in Addresses /\ (a \in Main <=> Plus(a, 1) \in Main)
      /\ (~taken => to = Plus(Plus(a, 1), 1))
  BY <1>1, PlusStays, BaseStays, PlusFacts
<1>3. PICK t \in Slot(w) : r \in Dispatch(WithCpu(t, out(t)))
  BY DEF Jump
<1> HIDE DEF to
<1>4. inside \in Registers /\ Sound(inside)
  <2>1. inside \in Registers /\ SameLines(m.cpu, inside)
    BY <1>1, <1>2 DEF Registers, SameLines
  <2> QED
    BY <2>1, SameLinesAreSound DEF SteadyMachine, SoundMachine
<1>5. /\ inside.pc = Plus(a, 1) /\ inside.next = IF a \in Main THEN to ELSE m.cpu.next
      /\ inside.slot /\ inside.skip = NoJump /\ ~inside.zeroed /\ NoneWaits(inside)
      /\ inside.exl = m.cpu.exl /\ inside.epc = m.cpu.epc
  BY <1>1 DEF SteadyMachine, Steady, Spent, NoneWaits, Enabled, IsPending, Registers
<1>6. RunsOn(m.cpu)
  BY DEF SteadyMachine, Steady
<1> HIDE DEF inside
<1>7. SoundMachine(w) /\ w.cpu = inside /\ w.job # "load"
  BY <1>1, <1>4, WithCpuIsSound, WithCpuFacts DEF SteadyMachine
<1> HIDE DEF w
<1>8. SoundMachine(t) /\ t \in Machines /\ t.cpu \in Registers
  BY <1>3, <1>7, SlotIsSound DEF SoundMachine, Sound, Shown
<1> DEFINE goes == IF taken /\ t.cpu.skip = NoJump THEN to ELSE t.cpu.pc
           c == [t.cpu EXCEPT !.slot = FALSE, !.pc = goes]
<1>9. goes \in Addresses /\ out(t) = c
  BY <1>2, <1>8 DEF Registers
<1>10. (Ready(c) \/ Thrown(c)) /\ t.job # "load"
  <2>1. CASE t \in Stores(w)
    <3>1. /\ t.cpu.pc = Plus(Plus(a, 1), 1) /\ NoneWaits(t.cpu) /\ t.job = w.job
          /\ t.cpu.next = inside.next /\ t.cpu.exl = inside.exl
          /\ t.cpu.epc = inside.epc /\ t.cpu.skip = NoJump /\ ~t.cpu.zeroed
      BY <1>5, <1>7, <2>1, SlotIsQuiet
    <3>2. goes = to
      BY <1>2, <3>1
    <3> HIDE DEF goes
    <3>3. NoneWaits(c)
      BY <1>8, <1>9, <3>1 DEF NoneWaits, Enabled, IsPending, Registers
    <3>4. Spent(c)
      BY <1>8, <3>1 DEF Spent, Registers
    <3>5. RunsOn(c)
      BY <1>2, <1>5, <1>6, <1>8, <3>1, <3>2 DEF RunsOn, Registers
    <3> QED
      BY <1>7, <3>1, <3>3, <3>4, <3>5 DEF Ready
  <2>2. CASE w.cpu.pc \in Main /\ t \in Syscall(w)
    <3>1. /\ t.cpu.skip = Vector /\ t.cpu.pc = Vector /\ t.cpu.zeroed /\ t.cpu.exl
          /\ t.cpu.epc = t.cpu.next /\ t.cpu.checks = 0 /\ t.job = w.job
      BY <1>5, <1>7, <2>2, SlotFaultIsThrown DEF NoneWaits
    <3>2. goes = Vector
      BY <3>1, VectorFacts
    <3> HIDE DEF goes
    <3> QED
      BY <1>7, <1>8, <3>1, <3>2 DEF Thrown, Registers
  <2>3. t \in Stores(w)
        \/ t \in IF SlotFaults /\ w.cpu.pc \in Main THEN Syscall(w) ELSE {}
    BY <1>3 DEF Slot, Calm, Stores
  <2> QED
    BY <2>1, <2>2, <2>3
<1> HIDE DEF goes
<1>11. c \in Registers /\ Sound(c)
  <2>1. c \in Registers /\ SameLines(t.cpu, c)
    BY <1>8, <1>9 DEF Registers, SameLines
  <2> QED
    BY <1>8, <2>1, SameLinesAreSound DEF SoundMachine
<1> HIDE DEF c
<1>12. SoundMachine(WithCpu(t, c)) /\ WithCpu(t, c).cpu = c /\ WithCpu(t, c).job = t.job
  BY <1>8, <1>11, WithCpuIsSound, WithCpuFacts
<1> QED
  BY <1>3, <1>9, <1>10, <1>12, DispatchIsSteady

-----------------------------------------------------------------------------
IsSteady == SteadyMachine(Machine)

LEMMA BecomeIsSteady ==
    ASSUME NEW m, SoundMachine(m), Steady(m.cpu) /\ m.job # "load", Become(m)
    PROVE  SteadyMachine(Machine')
<1>1. m = [cpu |-> m.cpu, job |-> m.job, reset |-> m.reset, saved |-> m.saved]
  BY DEF SoundMachine, Machines
<1>2. Machine' = m
  BY <1>1 DEF Become, Machine
<1> QED
  BY <1>2 DEF SteadyMachine

LEMMA InitIsSteady == Init => IsSteady
<1> SUFFICES ASSUME Init PROVE IsSteady
  OBVIOUS
<1>1. SoundMachine(Machine)
  BY InitIsSound DEF IsSound
<1>2. Machine.cpu = PowerOnCpu /\ Machine.job = "nothing"
  BY DEF Init, Machine
<1> QED
  BY <1>1, <1>2, PowerOnIsSteady DEF IsSteady, SteadyMachine

LEMMA StepIsSteady == ASSUME Calm PROVE IsSteady /\ [Next]_vars => IsSteady'
<1> SUFFICES ASSUME SteadyMachine(Machine), [Next]_vars PROVE SteadyMachine(Machine')
  BY DEF IsSteady
<1>0. Machine.cpu = cpu /\ SoundMachine(Machine)
  BY DEF Machine, SteadyMachine
<1>1. CASE ExecutePlain
  BY <1>0, <1>1, StoresAreSound, StoresAreSteady, BecomeIsSteady DEF ExecutePlain, Stores
<1>2. CASE ExecuteCompare
  BY <1>0, <1>2, StoresAreSound, StoresAreSteady, BecomeIsSteady DEF ExecuteCompare, Stores
<1>3. CASE ExecuteMask
  BY <1>0, <1>3, WriteMaskIsSound, WriteMaskIsSteady, BecomeIsSteady DEF ExecuteMask
<1>4. CASE ExecuteStatus
  BY <1>0, <1>4, WriteStatusIsSound, WriteStatusIsSteady, BecomeIsSteady DEF ExecuteStatus
<1>5. CASE ExecuteDevice \/ ExecuteSpStatus
  BY <1>0, <1>5, StoresAreSound, StoresAreSteady, BecomeIsSteady
     DEF ExecuteDevice, ExecuteSpStatus, Stores
<1>6. CASE ExecuteSyscall
  BY <1>0, <1>6, SyscallIsSound, SyscallIsSteady, BecomeIsSteady DEF ExecuteSyscall
<1>7. CASE ExecuteEret
  BY <1>0, <1>7, EretIsSound, EretIsSteady, BecomeIsSteady DEF ExecuteEret
<1>8. CASE ExecuteJump
  BY <1>0, <1>8, JumpIsSound, JumpIsSteady, BecomeIsSteady DEF ExecuteJump
<1>9. SoundMachine(Machine')
  BY <1>0, StepIsSound DEF IsSound
<1>10. CASE RequestState \/ RequestReset \/ UNCHANGED vars
  BY <1>9, <1>10 DEF RequestState, RequestReset, vars, Calm, SteadyMachine, Machine
<1> QED
  BY <1>1, <1>2, <1>3, <1>4, <1>5, <1>6, <1>7, <1>8, <1>10 DEF Next

(* Interrupts, faults in delay slots, resets and saves are transparent to  *)
(* any program: it goes on where it was, or will when the handler returns. *)
THEOREM ProgramResumes == ASSUME Calm PROVE Spec => []Resumes
<1>1. IsSteady => Resumes
  BY DEF IsSteady, SteadyMachine, Steady, RunsOn, Machine, Resumes
<1>2. IsSteady /\ [Next]_vars => IsSteady'
  BY StepIsSteady
<1> QED
  BY <1>1, <1>2, InitIsSteady, PTL DEF Spec

(* The jump out of a delay slot is always taken by the end of its jump.    *)
THEOREM SkippedJumpIsTaken == ASSUME Calm PROVE Spec => []SkipIsSpent
<1>1. IsSteady => SkipIsSpent
  BY DEF IsSteady, SteadyMachine, Steady, Spent, Machine, SkipIsSpent
<1>2. IsSteady /\ [Next]_vars => IsSteady'
  BY StepIsSteady
<1> QED
  BY <1>1, <1>2, InitIsSteady, PTL DEF Spec

-----------------------------------------------------------------------------
(* Save states: where a state may be saved and loaded.                     *)

(* Between two instructions, where neither a delay slot nor an unfinished  *)
(* MTC0 is under way.                                                      *)
Between(c) == ~c.slot /\ ~c.unsafe

(* The machine is there after each instruction, and the file's state was;  *)
(* no RSP task waited.                                                     *)
Settled(m) ==
    /\ SoundMachine(m)
    /\ Between(m.cpu)
    /\ m.saved # NoState => Between(m.saved) /\ ~m.saved.waits

(* The step from m to r restores the file's state, if it serves a load.    *)
Restores(m, r) ==
    m.job = "load" /\ r.job = "nothing" /\ m.saved # NoState
        => r.cpu = [m.saved EXCEPT !.skip = r.cpu.skip]

(* r leaves the job, the file and the two flags as they are in m.          *)
Keeps(m, r) ==
    /\ r.job = m.job /\ r.saved = m.saved
    /\ r.cpu.slot = m.cpu.slot /\ r.cpu.unsafe = m.cpu.unsafe

LEMMA KeepingStaysSettled ==
    ASSUME NEW m, Settled(m), NEW r, SoundMachine(r), Keeps(m, r)
    PROVE  Settled(r) /\ Restores(m, r)
BY DEF Settled, Keeps, Restores, Between

(* Exceptions and checks do not touch the flags.                           *)
LEMMA CheckKeepsFlags ==
    ASSUME NEW c \in Registers
    PROVE  CheckInterrupt(c).slot = c.slot /\ CheckInterrupt(c).unsafe = c.unsafe
BY DEF CheckInterrupt, Registers

LEMMA ExceptionKeepsFlags ==
    ASSUME NEW c \in Registers
    PROVE  ExceptionGeneral(c).slot = c.slot /\ ExceptionGeneral(c).unsafe = c.unsafe
BY DEF ExceptionGeneral, Registers

LEMMA HandledKeepsFlags ==
    ASSUME NEW c \in Registers, NEW r \in Handled(c)
    PROVE  r.slot = c.slot /\ r.unsafe = c.unsafe
<1>1. ASSUME NEW d \in Registers, NEW ip \in Pending
      PROVE  RaiseMaskable(d, ip).slot = d.slot /\ RaiseMaskable(d, ip).unsafe = d.unsafe
  <2> DEFINE now == [d EXCEPT !.cause = @ \cup {ip}]
  <2>1. now \in Registers /\ now.slot = d.slot /\ now.unsafe = d.unsafe
    BY <1>1 DEF Registers
  <2> HIDE DEF now
  <2> QED
    BY <2>1, ExceptionKeepsFlags DEF RaiseMaskable, now
<1>2. CASE c.checks > 0
  <2> DEFINE d == [c EXCEPT !.checks = @ - 1]
  <2>1. d \in Registers /\ d.slot = c.slot /\ d.unsafe = c.unsafe
    BY <1>2, CapacityAssumption DEF Registers
  <2>2. r = ExceptionGeneral(d)
    BY <1>2 DEF Handled
  <2> HIDE DEF d
  <2> QED
    BY <2>1, <2>2, ExceptionKeepsFlags
<1>3. CASE r = c \/ r = RaiseMaskable(c, IP7)
  BY <1>1, <1>3 DEF Pending
<1>4. ASSUME NEW line \in Lines, r = RaiseRcp(c, line)
      PROVE  r.slot = c.slot /\ r.unsafe = c.unsafe
  <2> DEFINE now == [c EXCEPT !.intr = @ \cup {line}]
  <2>1. now \in Registers /\ now.slot = c.slot /\ now.unsafe = c.unsafe
    BY DEF Registers
  <2> HIDE DEF now
  <2> QED
    BY <1>1, <1>4, <2>1 DEF RaiseRcp, Pending, now
<1> QED
  BY <1>2, <1>3, <1>4 DEF Handled

(* Between instructions gen_interrupt may save, load or reset.             *)
LEMMA GenInterruptRestores ==
    ASSUME NEW m, Settled(m), NEW r \in GenInterrupt(m)
    PROVE  Settled(r) /\ Restores(m, r)
<1>0. m \in Machines /\ m.cpu \in Registers /\ Between(m.cpu) /\ SoundMachine(r)
      /\ (m.saved # NoState =>
             m.saved \in Registers /\ Between(m.saved) /\ ~m.saved.waits)
  BY GenInterruptIsSound DEF Settled, SoundMachine, Sound, Shown
<1>1. CASE m.job = "load" /\ r = Load(m)
  <2>1. CASE m.saved = NoState
    <3>1. r.cpu = m.cpu /\ r.saved = m.saved
      BY <1>0, <1>1, <2>1 DEF Load, Machines
    <3> QED
      BY <1>0, <2>1, <3>1 DEF Settled, Restores
  <2>2. CASE m.saved # NoState
    <3> DEFINE c == [m.saved EXCEPT !.skip = m.cpu.skip, !.slot = m.cpu.slot,
                                    !.unsafe = FALSE, !.waits = FALSE]
    <3>1. r = [m EXCEPT !.job = "nothing", !.cpu = c]
      BY <1>1, <2>2 DEF Load
    <3>2. c = [m.saved EXCEPT !.skip = m.cpu.skip] /\ c.skip = m.cpu.skip /\ Between(c)
      BY <1>0, <2>2 DEF Between, Registers
    <3> HIDE DEF c
    <3>3. r.cpu = c /\ r.saved = m.saved
      BY <1>0, <3>1 DEF Machines
    <3> QED
      BY <1>0, <3>2, <3>3 DEF Settled, Restores
  <2> QED
    BY <2>1, <2>2
<1>2. CASE m.job # "load" /\ r = HardReset(m)
  <2>1. r.cpu = PowerOnCpu /\ r.saved = m.saved
    BY <1>0, <1>2 DEF HardReset, Machines
  <2> QED
    BY <1>0, <1>2, <2>1 DEF Settled, Restores, Between, PowerOnCpu
<1>3. CASE r = TakeSkippedJump(m)
  <2>1. /\ r.cpu.slot = m.cpu.slot /\ r.cpu.unsafe = m.cpu.unsafe
        /\ r.saved = m.saved /\ r.job = m.job
    BY <1>0, <1>3 DEF TakeSkippedJump, WithCpu, Machines, Registers
  <2> QED
    BY <1>0, <2>1 DEF Settled, Restores, Between
<1>4. ASSUME NEW c \in Handled(m.cpu), r = Save(WithCpu(m, c))
      PROVE  Settled(r) /\ Restores(m, r)
  <2>1. Between(c)
    BY <1>0, HandledKeepsFlags DEF Between
  <2> DEFINE w == WithCpu(m, c)
  <2>2. w = [cpu |-> c, job |-> m.job, reset |-> m.reset, saved |-> m.saved]
    BY <1>0 DEF WithCpu, Machines
  <2> HIDE DEF w
  <2>3. w.cpu = c /\ w.job = m.job /\ r = Save(w)
    BY <1>4, <2>2 DEF w
  <2>4. CASE m.job = "save" /\ ~Unsafe(c)
    <3>1. r = [cpu |-> c, job |-> "nothing", reset |-> m.reset, saved |-> c]
      <4>1. r = [w EXCEPT !.job = "nothing", !.saved = w.cpu]
        BY <2>3, <2>4 DEF Save
      <4> QED
        BY <2>2, <2>3, <4>1
    <3> QED
      BY <1>0, <2>1, <2>4, <3>1 DEF Settled, Restores, Unsafe
  <2>5. CASE ~(m.job = "save" /\ ~Unsafe(c))
    <3>1. r = [cpu |-> c, job |-> m.job, reset |-> m.reset, saved |-> m.saved]
      BY <2>2, <2>3, <2>5 DEF Save
    <3> QED
      BY <1>0, <2>1, <3>1 DEF Settled, Restores
  <2> QED
    BY <2>4, <2>5
<1> QED
  BY <1>0, <1>1, <1>2, <1>3, <1>4 DEF GenInterrupt

LEMMA DispatchRestores ==
    ASSUME NEW m, Settled(m), NEW r \in Dispatch(m)
    PROVE  Settled(r) /\ Restores(m, r)
<1>1. CASE r \in GenInterrupt(m)
  BY <1>1, GenInterruptRestores
<1>2. CASE r = m
  BY <1>2, KeepingStaysSettled DEF Keeps, Settled
<1> QED
  BY <1>1, <1>2 DEF Dispatch

(* In the middle of an MTC0 it does nothing of the kind.                   *)
LEMMA UnsafeKeeps ==
    ASSUME NEW m, SoundMachine(m), m.cpu.unsafe, NEW r \in Dispatch(m)
    PROVE  Keeps(m, r)
<1>0. m \in Machines /\ m.cpu \in Registers
  BY DEF SoundMachine, Sound, Shown
<1>1. CASE r = m
  BY <1>1 DEF Keeps
<1>2. CASE r = TakeSkippedJump(m)
  BY <1>0, <1>2 DEF TakeSkippedJump, WithCpu, Machines, Registers, Keeps
<1>3. ASSUME NEW c \in Handled(m.cpu), r = Save(WithCpu(m, c)) PROVE Keeps(m, r)
  <2>1. c.slot = m.cpu.slot /\ c.unsafe = m.cpu.unsafe
    BY <1>0, HandledKeepsFlags
  <2>2. WithCpu(m, c).cpu = c /\ WithCpu(m, c).job = m.job /\ WithCpu(m, c).saved = m.saved
    BY <1>0 DEF WithCpu, Machines
  <2>3. r = WithCpu(m, c)
    BY <1>3, <2>1, <2>2 DEF Save, Unsafe
  <2> QED
    BY <2>1, <2>2, <2>3 DEF Keeps
<1> QED
  BY <1>1, <1>2, <1>3 DEF Dispatch, GenInterrupt, Unsafe

(* The instructions.                                                       *)
SameFlags(c, d) == d.slot = c.slot /\ d.unsafe = c.unsafe

LEMMA SignalsKeepFlags ==
    ASSUME NEW c \in Registers, NEW line
    PROVE  /\ SameFlags(c, ClearRcp(c, line))
           /\ line \in Lines => SameFlags(c, SignalRcp(c, line))
<1>1. ASSUME NEW lines \in SUBSET Lines
      PROVE  SameFlags(c, CheckInterrupt([c EXCEPT !.intr = lines]))
  <2> DEFINE d == [c EXCEPT !.intr = lines]
  <2>1. d \in Registers /\ SameFlags(c, d)
    BY DEF Registers, SameFlags
  <2> HIDE DEF d
  <2> QED
    BY <2>1, CheckKeepsFlags DEF SameFlags, d
<1>2. c.intr \ {line} \in SUBSET Lines /\ (line \in Lines => c.intr \cup {line} \in SUBSET Lines)
  BY DEF Registers
<1> QED
  BY <1>1, <1>2 DEF ClearRcp, SignalRcp

LEMMA StoresKeep ==
    ASSUME NEW m, SoundMachine(m), NEW r \in Stores(m) PROVE Keeps(m, r)
<1> DEFINE a == Advance(m.cpu)
<1>1. m \in Machines /\ m.cpu \in Registers /\ Sound(a) /\ a \in Registers
      /\ SameFlags(m.cpu, a)
  BY AdvanceFacts, AdvanceIsSound DEF SoundMachine, Sound, Shown, SameFlags
<1> HIDE DEF a
<1>2. ASSUME NEW c, SameFlags(a, c), r = WithCpu(m, c) PROVE Keeps(m, r)
  BY <1>1, <1>2 DEF Keeps, WithCpu, Machines, SameFlags
<1>3. CASE r \in Plain(m)
  BY <1>2, <1>3 DEF Plain, SameFlags, a
<1>4. CASE r \in WriteCompare(m)
  <2>1. SameFlags(a, [a EXCEPT !.cause = @ \ {IP7}])
    BY <1>1 DEF Registers, SameFlags
  <2> QED
    BY <1>2, <1>4, <2>1 DEF WriteCompare, a
<1>5. CASE r \in WriteDevice(m)
  <2>1. PICK line \in Lines : r \in {WithCpu(m, ClearRcp(a, line)), WithCpu(m, SignalRcp(a, line))}
    BY <1>5, LinesAssumption DEF WriteDevice, a
  <2> QED
    BY <1>1, <1>2, <2>1, SignalsKeepFlags
<1>6. CASE r \in WriteSpStatus(m)
  <2>1. PICK d \in SpSignalled(a) :
            \/ r = WithCpu(m, d)
            \/ \E task \in Tasks, waits \in BOOLEAN : r = WithCpu(m, RunTask(d, task, waits))
    BY <1>6 DEF WriteSpStatus, a
  <2>2. d \in Registers
    BY <1>1, SpSignalledIsSound DEF Sound, Shown
  <2>3. SameFlags(a, d)
    <3> DEFINE e == ClearRcp(a, "SP")
    <3>1. e \in Registers /\ SameFlags(a, e) /\ SameFlags(a, a)
      BY <1>1, SignalsAreSound, SignalsKeepFlags DEF Sound, Shown, SameFlags
    <3>2. \/ d \in {a, e}
          \/ "SP" \in Lines /\ d \in {SignalRcp(a, "SP"), SignalRcp(e, "SP")}
      BY LinesAssumption DEF SpSignalled
    <3> HIDE DEF e
    <3> QED
      BY <1>1, <3>1, <3>2, SignalsKeepFlags DEF SameFlags
  <2>4. \A task, waits : SameFlags(d, RunTask(d, task, waits))
    BY <2>2 DEF RunTask, Registers, SameFlags
  <2> QED
    BY <1>2, <2>1, <2>3, <2>4 DEF SameFlags
<1> QED
  BY <1>3, <1>4, <1>5, <1>6 DEF Stores

LEMMA SyscallKeeps ==
    ASSUME NEW m, SoundMachine(m), NEW r \in Syscall(m) PROVE Keeps(m, r)
<1> DEFINE b == [m.cpu EXCEPT !.cause = {}]
           x == ExceptionGeneral(b)
           n == Plus(m.cpu.pc, IF m.cpu.slot THEN Length - 1 ELSE 0)
<1>1. m \in Machines /\ b \in Registers /\ b.slot = m.cpu.slot /\ b.unsafe = m.cpu.unsafe
  BY DEF SoundMachine, Sound, Shown, Registers
<1>2. r = WithCpu(m, [x EXCEPT !.next = n])
  BY DEF Syscall
<1> HIDE DEF b, n
<1>3. x.slot = m.cpu.slot /\ x.unsafe = m.cpu.unsafe /\ x \in Registers
  <2>1. x.slot = m.cpu.slot /\ x.unsafe = m.cpu.unsafe
    BY <1>1, ExceptionKeepsFlags
  <2>2. Shown(b)
    BY DEF b, SoundMachine, Sound, Shown, Registers
  <2> QED
    BY <2>1, <2>2, ExceptionIsSound DEF Sound, Shown
<1> HIDE DEF x
<1>4. [x EXCEPT !.next = n].slot = x.slot /\ [x EXCEPT !.next = n].unsafe = x.unsafe
  BY <1>3 DEF Registers
<1> QED
  BY <1>1, <1>2, <1>3, <1>4 DEF WithCpu, Machines, Keeps

LEMMA WriteStatusKeeps ==
    ASSUME NEW m, Settled(m) \/ (SoundMachine(m) /\ ~m.cpu.unsafe),
           NEW ie \in BOOLEAN, NEW im \in Pendings, NEW r \in WriteStatus(m, ie, im)
    PROVE  Keeps(m, r)
<1> DEFINE a == Advance(m.cpu)
           s == [a EXCEPT !.ie = ie, !.im = im]
           c == CheckInterrupt(s)
           d == [c EXCEPT !.unsafe = TRUE]
<1>0. SoundMachine(m) /\ m \in Machines /\ m.cpu \in Registers /\ m.cpu.unsafe = FALSE
  BY DEF Settled, Between, SoundMachine, Sound, Shown, Registers
<1>1. a \in Registers /\ a.slot = m.cpu.slot
  BY <1>0, AdvanceFacts
<1> HIDE DEF a
<1>2. s \in Registers /\ s.slot = a.slot
  BY <1>1 DEF Registers, Pendings
<1> HIDE DEF s
<1>3. Sound(c) /\ c.slot = a.slot
  BY <1>2, CheckIsSound, CheckKeepsFlags
<1>4. PICK t \in Dispatch(WithCpu(m, d)) : r = [t EXCEPT !.cpu.unsafe = FALSE]
  BY DEF WriteStatus, a, s
<1> HIDE DEF c
<1>5. Sound(d) /\ d.unsafe = TRUE /\ d.slot = c.slot /\ d \in Registers
  <2>1. d.unsafe = TRUE /\ d.slot = c.slot /\ d \in Registers /\ SameLines(c, d)
    BY <1>3 DEF Sound, Shown, Registers, SameLines
  <2> QED
    BY <1>3, <2>1, SameLinesAreSound
<1> HIDE DEF d
<1>6. /\ SoundMachine(WithCpu(m, d)) /\ WithCpu(m, d).cpu = d
      /\ WithCpu(m, d).job = m.job /\ WithCpu(m, d).saved = m.saved
  BY <1>0, <1>5, WithCpuIsSound, WithCpuFacts
<1>7. Keeps(WithCpu(m, d), t) /\ SoundMachine(t)
  BY <1>4, <1>5, <1>6, UnsafeKeeps, DispatchIsSound
<1>8. t \in Machines /\ t.cpu \in Registers
  BY <1>7 DEF SoundMachine, Sound, Shown
<1>9. r.job = t.job /\ r.saved = t.saved /\ r.cpu.slot = t.cpu.slot /\ r.cpu.unsafe = FALSE
  BY <1>4, <1>8 DEF Machines, Registers
<1> QED
  BY <1>0, <1>1, <1>3, <1>5, <1>6, <1>7, <1>9 DEF Keeps

(* A write of the mask and ERET dispatch when they are through.            *)
LEMMA DispatchAfterCheck ==
    ASSUME NEW m, Settled(m), NEW c \in Registers, Between(c),
           NEW r \in Dispatch(WithCpu(m, CheckInterrupt(c)))
    PROVE  Settled(r) /\ Restores(m, r)
<1> DEFINE k == CheckInterrupt(c)
           w == WithCpu(m, k)
<1>1. Sound(k) /\ Between(k)
  BY CheckIsSound, CheckKeepsFlags DEF Between
<1> HIDE DEF k
<1>2. SoundMachine(w) /\ w.cpu = k /\ w.job = m.job /\ w.saved = m.saved
  BY <1>1, WithCpuIsSound, WithCpuFacts DEF Settled, SoundMachine, Sound, Shown
<1> HIDE DEF w
<1>3. Settled(w)
  BY <1>1, <1>2 DEF Settled
<1>4. Settled(r) /\ Restores(w, r)
  BY <1>3, DispatchRestores DEF w, k
<1> QED
  BY <1>2, <1>4 DEF Restores

LEMMA WriteMaskRestores ==
    ASSUME NEW m, Settled(m), NEW mask \in Masks, NEW r \in WriteMask(m, mask)
    PROVE  Settled(r) /\ Restores(m, r)
<1> DEFINE a == Advance(m.cpu)
           c == [a EXCEPT !.mask = mask]
<1>1. a \in Registers /\ Between(a)
  BY AdvanceFacts DEF Settled, SoundMachine, Sound, Shown, Between
<1>2. r \in Dispatch(WithCpu(m, CheckInterrupt(c)))
  BY DEF WriteMask
<1> HIDE DEF a
<1>3. c \in Registers /\ Between(c)
  BY <1>1 DEF Registers, Masks, Between
<1> HIDE DEF c
<1> QED
  BY <1>2, <1>3, DispatchAfterCheck

LEMMA EretRestores ==
    ASSUME NEW m, Settled(m), NEW r \in Eret(m) PROVE Settled(r) /\ Restores(m, r)
<1> DEFINE c == [m.cpu EXCEPT !.exl = FALSE, !.pc = m.cpu.epc]
<1>1. c \in Registers /\ Between(c)
  BY DEF Settled, SoundMachine, Sound, Shown, Registers, Between
<1>2. r \in Dispatch(WithCpu(m, CheckInterrupt(c)))
  BY DEF Eret
<1> HIDE DEF c
<1> QED
  BY <1>1, <1>2, DispatchAfterCheck

(* cp0.h asks that a write which may dispatch in the middle of an          *)
(* instruction sets an unsafe bit; a store to the MI mask does not, so it  *)
(* is kept out of delay slots here.                                        *)
NoMaskInSlot == "mask" \notin SlotWrites

LEMMA SlotKeeps ==
    ASSUME NoMaskInSlot, NEW m, SoundMachine(m), ~m.cpu.unsafe, NEW r \in Slot(m)
    PROVE  Keeps(m, r)
<1>1. CASE r \in Stores(m)
  BY <1>1, StoresKeep
<1>2. CASE r \in IF SlotFaults /\ m.cpu.pc \in Main THEN Syscall(m) ELSE {}
  BY <1>2, SyscallKeeps
<1>3. CASE r \in UNION {WriteMask(m, mask) : mask \in {k \in Masks : "mask" \in SlotWrites}}
  BY <1>3 DEF NoMaskInSlot
<1>4. CASE r \in UNION {WriteStatus(m, TRUE, im) :
                           im \in {k \in Pendings : "status" \in SlotWrites}}
  BY <1>4, WriteStatusKeeps, ZenonT(30)
<1> QED
  BY <1>1, <1>2, <1>3, <1>4 DEF Slot, Stores

LEMMA JumpRestores ==
    ASSUME NoMaskInSlot, NEW m, Settled(m), NEW taken \in BOOLEAN, NEW r \in Jump(m, taken)
    PROVE  Settled(r) /\ Restores(m, r)
<1> DEFINE a == m.cpu.pc
           to == IF taken THEN Base(a) ELSE Plus(a, 2)
           inside == [m.cpu EXCEPT !.pc = Plus(a, 1), !.slot = TRUE,
                                   !.next = IF a \in Main THEN to ELSE @]
           w == WithCpu(m, inside)
           out(t) == [t.cpu EXCEPT !.slot = FALSE,
                                   !.pc = IF taken /\ t.cpu.skip = NoJump THEN to ELSE @]
<1>1. m.cpu \in Registers /\ a \in Addresses /\ SoundMachine(m) /\ ~m.cpu.unsafe
  BY DEF Settled, Between, SoundMachine, Sound, Shown, Registers
<1>2. /\ to \in Addresses /\ (a \in Main => to \in Main)
      /\ Plus(a, 1) \in Addresses
  BY <1>1, PlusStays, BaseStays
<1>3. PICK t \in Slot(w) : r \in Dispatch(WithCpu(t, out(t)))
  BY DEF Jump
<1> HIDE DEF to
<1>4. Sound(inside) /\ inside \in Registers /\ ~inside.unsafe
  <2>1. inside \in Registers /\ ~inside.unsafe /\ SameLines(m.cpu, inside)
    BY <1>1, <1>2 DEF Registers, SameLines
  <2> QED
    BY <1>1, <2>1, SameLinesAreSound DEF SoundMachine
<1> HIDE DEF inside
<1>5. SoundMachine(w) /\ w.cpu = inside /\ w.job = m.job /\ w.saved = m.saved
  BY <1>1, <1>4, WithCpuIsSound, WithCpuFacts DEF SoundMachine
<1> HIDE DEF w
<1>6. Keeps(w, t) /\ SoundMachine(t) /\ t.cpu \in Registers
  BY <1>3, <1>4, <1>5, SlotKeeps, SlotIsSound DEF SoundMachine, Sound, Shown
<1>7. Sound(out(t)) /\ Between(out(t)) /\ out(t) \in Registers
  <2> DEFINE goes == IF taken /\ t.cpu.skip = NoJump THEN to ELSE t.cpu.pc
  <2>1. goes \in Addresses
    BY <1>2, <1>6 DEF Registers
  <2>2. out(t) = [t.cpu EXCEPT !.slot = FALSE, !.pc = goes]
    BY <1>6 DEF Registers
  <2> HIDE DEF goes
  <2>3. ~t.cpu.unsafe
    BY <1>4, <1>5, <1>6 DEF Keeps
  <2>4. [t.cpu EXCEPT !.slot = FALSE, !.pc = goes] \in Registers
    BY <1>6, <2>1 DEF Registers
  <2> QED
    BY <1>6, <2>2, <2>3, <2>4, SameLinesAreSound
       DEF SoundMachine, SameLines, Registers, Between
<1> HIDE DEF out
<1> DEFINE v == WithCpu(t, out(t))
<1>8. SoundMachine(v) /\ v.cpu = out(t) /\ v.job = m.job /\ v.saved = m.saved
  BY <1>5, <1>6, <1>7, WithCpuIsSound, WithCpuFacts DEF Keeps, SoundMachine
<1> HIDE DEF v
<1>9. Settled(v)
  BY <1>7, <1>8 DEF Settled
<1>10. Settled(r) /\ Restores(v, r)
  BY <1>3, <1>9, DispatchRestores DEF v
<1> QED
  BY <1>8, <1>10 DEF Restores

-----------------------------------------------------------------------------
IsSettled == Settled(Machine)
LoadStep ==
    job = "load" /\ job' = "nothing" /\ saved # NoState
        => cpu' = [saved EXCEPT !.skip = cpu'.skip]

LEMMA InitIsSettled == Init => IsSettled
<1> SUFFICES ASSUME Init PROVE IsSettled
  OBVIOUS
<1>1. SoundMachine(Machine)
  BY InitIsSound DEF IsSound
<1>2. Machine.cpu = PowerOnCpu /\ Machine.saved = NoState
  BY DEF Init, Machine
<1> QED
  BY <1>1, <1>2 DEF IsSettled, Settled, Between, PowerOnCpu

LEMMA BecomeSettled ==
    ASSUME NEW m, Settled(m) /\ Restores(Machine, m), Become(m)
    PROVE  IsSettled' /\ LoadStep
<1>1. m = [cpu |-> m.cpu, job |-> m.job, reset |-> m.reset, saved |-> m.saved]
  BY DEF Settled, SoundMachine, Machines
<1>2. Machine' = m
  BY <1>1 DEF Become, Machine
<1>3. Settled(Machine') /\ Restores(Machine, Machine')
  BY <1>2
<1>4. Restores(Machine, Machine') => LoadStep
  BY DEF Restores, LoadStep, Machine
<1> QED
  BY <1>3, <1>4 DEF IsSettled

LEMMA StepIsSettled ==
    ASSUME NoMaskInSlot PROVE IsSettled /\ [Next]_vars => IsSettled' /\ [LoadStep]_vars
<1> SUFFICES ASSUME Settled(Machine), [Next]_vars PROVE IsSettled' /\ [LoadStep]_vars
  BY DEF IsSettled
<1>0. Machine.cpu = cpu /\ SoundMachine(Machine)
  BY DEF Machine, Settled
<1>1. ASSUME NEW m, SoundMachine(m), Keeps(Machine, m), Become(m)
      PROVE  IsSettled' /\ LoadStep
  BY <1>1, KeepingStaysSettled, BecomeSettled
<1>2. CASE ExecutePlain \/ ExecuteCompare \/ ExecuteDevice \/ ExecuteSpStatus
  BY <1>0, <1>1, <1>2, StoresAreSound, StoresKeep
     DEF ExecutePlain, ExecuteCompare, ExecuteDevice, ExecuteSpStatus, Stores
<1>3. CASE ExecuteMask
  BY <1>3, WriteMaskRestores, BecomeSettled DEF ExecuteMask
<1>4. CASE ExecuteStatus
  BY <1>0, <1>1, <1>4, WriteStatusIsSound, WriteStatusKeeps DEF ExecuteStatus
<1>5. CASE ExecuteSyscall
  BY <1>0, <1>1, <1>5, SyscallIsSound, SyscallKeeps DEF ExecuteSyscall
<1>6. CASE ExecuteEret
  BY <1>6, EretRestores, BecomeSettled DEF ExecuteEret
<1>7. CASE ExecuteJump
  BY <1>7, JumpRestores, BecomeSettled DEF ExecuteJump
<1>8. SoundMachine(Machine')
  BY <1>0, StepIsSound DEF IsSound
<1>9. CASE RequestState \/ RequestReset
  <2>1. cpu' = cpu /\ saved' = saved /\ (job = "load" => job' # "nothing")
    BY <1>9, OptionsAssumption DEF RequestState, RequestReset
  <2> QED
    BY <1>8, <2>1 DEF IsSettled, Settled, Machine, LoadStep
<1>10. CASE UNCHANGED vars
  BY <1>8, <1>10 DEF IsSettled, Settled, Machine, vars
<1> QED
  BY <1>2, <1>3, <1>4, <1>5, <1>6, <1>7, <1>9, <1>10 DEF Next

(* A state that is loaded goes on exactly where it was saved, whatever the *)
(* program is doing when the load is served (savestates_load, called from  *)
(* gen_interrupt): the flags that are not in the file, delay_slot and the  *)
(* unsafe bits, never differ from what they were when it was written.      *)
THEOREM StateIsRestored == ASSUME NoMaskInSlot PROVE Spec => LoadResumes
<1>1. IsSettled /\ [Next]_vars => IsSettled' /\ [LoadStep]_vars
  BY StepIsSettled
<1> QED
  BY <1>1, InitIsSettled, PTL DEF Spec, LoadResumes, LoadStep
=============================================================================
