# A verification development for m64p

m64p is a Nintendo 64 emulator: `mupen64plus-core` (the machine, its scheduler,
netplay, save states and the API a front-end drives it with), `mupen64plus-gui` (the
Qt front-end), audio and input plugins and two third-party renderers. This directory
holds TLA+ models of the parts whose correctness depends on order: of events, of
threads, of packets, of register writes and of the events that answer them. Paths are
relative to `src/mupen64plus-core/src` unless they start with `src/`. `PROJECT.json`
lists every component with its sources and status, maps every definition to the lines
it translates, and lists the hazards the properties are for.

1. The system  2. Modules  3. Runs and bounds  4. Fairness  5. Proofs
6. Where code and expectation differ  7. What is left out  8. Plan

## 1. The system

| component | state | operations | interacts with | what makes it correct |
|---|---|---|---|---|
| CP0 event queue (`device/r4300/interrupt.c`, `cp0.c`) | Count, Compare, `cycle_count`, `next_interrupt`, 16 nodes, a list ordered modulo 2^32 | add, remove, translate, save, load, dispatch | every device schedules into it, the CPU dispatches at jumps | no event lost, early, late or out of order when Count wraps or is rewritten |
| MI and interrupt entry (`device/rcp/mi`, `r4300_check_interrupt`, exceptions) | MI_INTR, MI_MASK, Cause, Status, EPC, `delay_slot`, `skip_jump`, the unsafe bits | raise, signal, acknowledge, mask, exception, ERET; save, load and reset jobs | devices raise, the program masks; the queue carries CHECK_INT | Cause follows the MI up to what an RSP task changed last; a pending interrupt is taken; the program goes on where it was |
| work queue (`main/workqueue.c`) | list of works, list of free threads, one lock | queue, thread loop, dismiss, shutdown | save states, screenshots | each work runs once, in order; no lost wake-up; shutdown is complete |
| save states (`main/savestates.c`) | one pending job with type and name, slot, a lock | set job, serve, write on the worker, init, deinit | front-end thread, emulation thread, worker | a load gives a whole state of that file; the newest save stands; nobody hangs |
| core control (`api/frontend.c`, `main/main.c`, `run_r4300`) | ROM open, running, stop, pause, frame advance | M64CMD_*, hot keys, `new_frame`, `new_vi` | plain globals of two threads, callback to the front-end | commands take effect; the front-end knows the state; the ROM stays open |
| netplay (`main/netplay.c`) | a list of inputs per player, counts, lag, two sockets | send, request, receive, wait, use | server over UDP, an asking thread, speed limiter | the game gets what the server assigned; a wait ends |
| audio interface (`device/rcp/ai`) | AI_STATUS, a FIFO of two buffers, `last_read`, the 0x2000-byte carry, the rate and whether it changed | write AI_LEN or the rate, read AI_LEN, end of a buffer, NMI | queue, MI, audio back-end | every sample goes to the back-end once, in order and at the rate its buffer began with |
| RSP, RDP and VI (`device/rcp/rsp/rsp_core.c`, `rdp/rdp_core.c`, `vi/vi_controller.c`) | SP_STATUS, `rsp_task_locked`, `do_on_unfreeze`, FREEZE, a FIFO of two transfers | write SP_STATUS, run a task, write DPC_STATUS or DPC_END, SP/DP/VI/DMA events, NMI | queue, MI, RSP and graphics plugins | each task is reported, no DP interrupt and no picture is lost to a freeze or made up twice |
| serial interface and PIF (`device/rcp/si`, `device/pif`) | SI_STATUS, `dma_dir`, PIF RAM, the channels' pointers into it | DMA both ways, CPU write, the block when its SI_INT comes, NMI | queue, MI, controllers | an answer belongs to the command in the block that is in the PIF, and to this read |
| parallel interface and 64DD (`device/rcp/pi`, `device/dd`) | PI_STATUS, sector buffers, buffer-manager state, IP3 | DMA, CPU write, seek, start, status reads, reset, NMI | queue, MI, Cause IP3, the disk image | every sector is moved once and in its place; the drive never waits without having called |
| storages (`backends/file_storage.c`, `main/util.c`, `main/main.c`) | the memory, `first_access`, the file | open, first save, later saves, close, netplay | FlashRAM, SRAM, EEPROM, Controller Paks | the file has what the game saved; the next session finds it |
| controllers, paks, CIC; FlashRAM, EEPROM, RTC; Game Boy | command automata | commands of a block, PI DMA | PIF, PI, storages | a command sequence reaches only its legal states |
| cheats, breakpoints, configuration | lists | user commands | front-end and emulation thread | lists agree with what was applied or saved |
| recompilers, cached interpreter | code blocks | compile, invalidate | memory writes | no stale block is run |
| ROM database, plugins, video extension, OSD, back-ends | tables, handles | mostly sequential | libraries | guards before use |
| Qt front-end, audio and input plugins | windows, device maps | events | API, plugin API | the environment of core control |
| parallel-rdp, parallel-rsp, md5, minizip, oglft, xxhash | | | | third-party |

The hard behaviours are of five kinds. *Modular time*: the queue is ordered
relative to a present that moves, wraps and is rewritten. *Instructions interrupted in
the middle*: register writes call `gen_interrupt` before the instruction is over.
*Threads without locks*: the front-end, the emulation thread, the worker and netplay's
asking thread share plain variables. *Answers that come later*: a device starts
something, the program goes on, an event ends it, and an NMI may drop that event while
the device's registers stay. *An unreliable network and files that fail.*

## 2. Modules

**InterruptQueue** has the functions of `interrupt.c` as operators on a record of the
`struct cp0` fields, so a handler that makes several calls is a composition. The
32-bit counter is the constant `2*Half`, the pool is `Capacity`.
**EventDispatch** makes actions of the instructions and device writes that call them,
and of `gen_interrupt`; its outcome is a set, because a device may schedule itself
again. Between jumps the interpreter does not update Count, so each action executes
`n` instructions at once, and `since` bounds the block. Which interrupts are enabled is
open here: wherever the code checks, a CHECK_INT may be pushed or not.

**R4300Interrupts** goes from a device's line to the handler and back. One action is
one instruction of the pure interpreter, a jump with its delay slot. The program is
*any* program: at each address any instruction may be executed. `cpu.next` is a
history variable, the place where the main program has to go on. CHECK_INT nodes are
counted; when the other events come up is left open (EventDispatch has that). A store
to SP_STATUS may run an RSP task (`Tasks`: a display list, another, or another that
draws). `do_SP_Task` changes MI_INTR_REG without `r4300_check_interrupt`: SP and a
display list's DP are taken back, the plugin may have raised DP; the history
`cpu.unseen` is what it has changed since Cause was last compared. `waits` is
INTR_UNSAFE_RSP, a task that waits for the CPU and keeps loads and saves away. The
cached interpreter and the recompilers have delay-slot code of their own and are not
covered.

**WorkPromise** is the abstract specification, a FIFO queue whose works begin once, in
order, and that stops after the last. **WorkQueue** is `workqueue.c`: critical sections
are steps, a thread may wake without a signal. `WorkQueue => WorkPromise` is both
checked (`KeepsPromise`) and proved (`QueueRefines`); SaveStates uses WorkPromise in
the worker's place.

**SaveStates** has three threads. `savestates_set_job` is split into its four
assignments, because the emulation thread reads them without a lock, and so is its call
by the emulation thread that clears them after a service (`ClearName`, `ClearJob`,
`ClearType`); the worker takes the lock, opens
(truncates), writes, unlocks. A state is the number of the save; a file has the
number, format and completeness of what was written to it.

**CoreControl** has every write of `stop`, `pause` and `l_FrameAdvance` as a step of
its own, of one of two threads; a test goes with the step it decides, and the callback
of `main_run`'s begin and end with the write of `running` before it. A frozen variable
chooses how the front-end behaves: `"orderly"` waits until the game runs, keeps its
calls from overlapping with hot keys and lets none follow a stop; `"racing"` gives any
command at any moment. `ShownAgrees` and `StopStops` are about the first,
`PauseTakesHold` about both.

**Netplay** is one emulator with its threads, an open server and an open network. The
server assigns inputs to counts; a request may be answered with any of what it has
assigned, again and again until the request is lost, so loss, duplication and delay
need no list of packets. A packet with several events is received in several steps.
Other emulators appear through what the server assigns to their players.

**Rcp** puts four devices into one machine: **AudioInterface**, **RspTasks**,
**SerialInterface** and **DiskDrive** (with the PI). Each is a module of its own with
the lines of MI_INTR as a variable `mi`; Rcp instantiates them with one `mi`, one
program, one event queue per device and one NMI, which drops all their events.
**RcpData** has the constants they share, **MCRcp** their values for TLC. The devices
share nothing else: no register of one is read by another. An interleaving of two
devices is therefore, device for device, an interleaving of one with steps that leave
it alone, and the variable `unit`, frozen in `Init`, lets the program use one of them
(which one is open) instead of the product of all four. What is left open: how long a
buffer, a task or a transfer lasts (EventDispatch has that), what a task does (it
breaks or waits for the CPU, raises SP and DP or not), and what a block of PIF commands
says beyond what it does to each channel.

**AudioStream** is the abstract specification of the audio interface: a queue of at
most two buffers, of which each sample is heard once, in order. AudioInterface
implements it (`AudioPlays`) with registers that pass samples on early, when AI_LEN is
read, and late, when the buffer ends.

**DiskDrive** counts the places of a track (`Sectors`, `C2Sectors` and a gap to a
block); the history variable `plan` is what the program asked for, so that a call of
the buffer manager too many or too few shows as a sector at its neighbour's place.

**Storage** is a file and the memory it is to have a copy of, in `Cells`; `Parts` are
the Controller Paks that share a file. A first save may be cut short anywhere, a later
one within its chunk, the process may end at any moment.

The modules named ...**Proofs** hold the proofs. Definitions
commented "Mutant" are plausible mistakes; `PROJECT.json` pairs each with the property
that detects it.

## 3. Runs and bounds

| run | asks | bounds, and why they are enough |
|---|---|---|
| `event_order` | no event passed over, early or misplaced, also after a load; the VI keeps coming | counter of 64 values, so it wraps within three frames; written values at both ends and in the middle of the range; `MaxLate` the least that the hypothesis of the theorems (`Punctual`, section 5) allows for this pool and these blocks; VI and device delays below half a turn, as in the code, where half a turn is about 45 s of machine time |
| `event_pool` | with a pool that overflows, the timer and the wrap-around event stay | 4 nodes, fewer than there are event types, with soft and hard resets |
| `interrupt_entry` | Cause follows MI; the program resumes; `skip_jump` is spent; a pending interrupt is taken | two loops of 4 instructions reach every pair of jump, slot and target; two lines, so that one is left pending when the other is acknowledged; tasks that take SP back unseen (those that lower or raise DP too are covered by `CauseIsRight`; one that raises it refutes `Resumes`, section 6); a pool of 3 that fills with CHECK_INT; reset jobs |
| `load_resumes` | a loaded state goes on where it was saved | two instructions in the main program and in the handler give every pc a state can be saved or loaded at; no device line, the timer is the interrupt; a task may wait, and keeps the jobs away |
| `work_queue` | order, no lost wake-up, complete shutdown, refinement | 3 works on 2 threads: more works than threads, so the list is longer than its takers; the proofs remove the bound |
| `save_states` | whole loads, newest save, no hang, lock outlives use | two slots with increment and a named file, three requests, so that one is served, one written and one set at once; two saves meet in one file |
| `save_keeps_lock` | finding, section 6 | one slot, one save, two requests |
| `control` | the front-end knows the state, a stop ends the game, a pause takes hold | all commands and hot keys, orderly or racing; finite, `frames` saturates at 2 |
| `netplay` | lockstep, list of inputs, waits, limiter | two players (own and remote), two readings of each; the proofs remove the bound for the safety part |
| `rcp` | samples, tasks, DP interrupts, answers, sectors; what is busy comes free | one device at a time (section 2); two buffers, one of them on a boundary, so that the carry matters; two events of a kind at the same time, more than the interlocks let through; two channels, three blocks that set them up differently; two sectors and two C2 sectors to a block, the least with a first, a last and a neighbour |
| `storage` | the file has what was saved, the next session finds it | 3 cells of one part, so that a chunk has something on both sides; two values; faults and crashes anywhere, in any number of sessions |
| `mempak_saved` | finding, section 6 | two paks of two cells, no faults |

`CHECK_DEADLOCK FALSE` stands where the system really stops: after shutdown, when the
requests are used up, when the connection is lost. Elsewhere deadlock is checked.

The type invariants of R4300Interrupts, WorkQueue, SaveStates, CoreControl, Netplay,
Rcp and Storage hold under the same configurations, but are not listed in them: those
that are proved need no run, and the others say little that the properties do not use.

All counters that grow in the code without limit are bounded by the constants named
"bound" in the modules; nothing else is.

## 4. Fairness

- EventDispatch and R4300Interrupts: `[]<>` a jump is executed. The CPU always runs,
  and every loop of a program has a jump, the only place where interrupts are looked
  for. `ViKeepsComing` holds under no more than this.
- WorkQueue, SaveStates, CoreControl: weak fairness of each thread. Nobody has to
  queue, ask, press or shut down.
- CoreControl: strong fairness of `VerticalInterrupt`. The emulated program may be in
  the middle of a frame, and so not at a vertical interrupt, infinitely often; that
  the interrupt comes again is what `ViKeepsComing` shows of the queue.
- Rcp: weak fairness of the audio, SI, DP and SP DMA events. An event that is queued is
  handled (EventDispatch); nothing the program does is fair, so it may write registers
  for ever in between, and an NMI may come at any time.
- Netplay: weak fairness of its two threads. Fairness of the network and of the clock
  is the antecedent of the property that needs it: `AnswersEndWaits` assumes a server
  that goes on assigning and a network that delivers an answer if one is asked for
  again and again; `TimeEndsWaits` assumes only the clock.

## 5. Proofs

No theorem depends on the bounds of section 3. Each module's assumptions on its
constants are named there and are all that is assumed.

**EventDispatch** (`TypeCorrect`, `TimerAndWrapStay`, `CopiesAgree`): for every counter width, rate,
pool of at least three nodes, devices, delays and written values, the timer and the
wrap-around event are on the queue exactly once. Once in the queue each time is not
inductive by itself: it depends on the pool having a node whenever an event is put
back, which holds because it was taken out just before. `Good(c)` (the record's type,
the queue fits the pool, both events once) is the invariant; the first part of
EventDispatchProofs shows for each operation of the queue what it does to `Good`, the
second composes them along the handlers. `TranslateProperties` is the case of a
rewritten Count, where both events are taken out and put back around a queue moved as a
whole. `CopiesAgree` is about
`next_interrupt` and `cycle_count`. `remove_event` leaves them stale, so they do not
agree after every operation: the third part has which operations restore them
(`Cached(c)`), which keep them and which need a queue with room, and that each handler
ends with one of the first. The distances are equal only modulo the counter's width, so
`Cached` is stated with the congruence `Same` instead of with `%`.

The theorems about *time* (`QueueStaysInOrder`, `NoEventIsMissed`, `JumpSeesDue`,
`NothingIsEarly`, `OrderIsRestored`) have a hypothesis, `Punctual`: code between two jumps
makes no interrupt pending (with `Signals` section 6 refutes `DueIsSeen`), no delay is
longer than half a turn of the counter, and `(2*Capacity - 1) * BlockLength * CountPerOp <=
MaxLate`, which is less than half a turn and no more than a vertical interval. In the code
a VI comes about every 800,000 counts and the pool has 16 nodes, so that two counts for
an instruction allow blocks of some 13,000 instructions without a jump; a PAL interval is
longer. The hypothesis is met by the run `event_order`, and they are about `SpecVi`, as
the run is: behaviours of a program that has set up the VI.

- A count on the queue is a word; `Time(c, e)` is the integer it stands for, relative to
  the present. The code has no such number. It is the first one not before what
  `cycle_count` says of the present (`Lag`) that has that word, so that a timer written
  to be now is a whole turn away and an event that is late is in the past.
- `Timed` is the invariant: the queue is in the order of time and not ahead of
  `cycle_count` (`Lined`); `cycle_count` is the distance to the first event as an integer,
  not only modulo 2^32 (`Exact`); and all but the timer are at most half a turn ahead and
  late by no more than `Allowed` (`Bounded`).
- That lateness is bounded is what needs an argument. Each jump handles one event, so an
  event waits for a jump for each event in front of it (`Jumps`), and while it does it
  gets later by a block a jump. But the program may write Compare so that the timer is due
  again, once for each of these jumps: the timer is counted for every event in front, not
  once, whence the factor two. An insertion moves `Jumps` and `Allowed` of what is behind
  it (`InsertedTimes`, `AllowedFacts`, `AddIsTimed`), a removal gives the jump back
  (`RemoveIsTimed`), MTC0 Count moves all times together (`TranslateIsTimed`), and
  AddCompare looks at the queue one instruction later than it is (`AddCompareIsTimed`).
- Without `Exact` a comparison that is right modulo 2^32 could be of the wrong sign;
  without `Bounded` an event could be so late that `before_event` takes it for one to come.
  `CyclicOrder`, `OnTime`, `DueIsSeen` and `NotEarly` follow from `TInv`.
- `OrderIsRestored`: the load is a fold over the saved nodes, unfolded in `LoadUnfolds`.
  By induction each node but the last is linked in behind those before it (`NextIsBehind`);
  the last is, too, unless it is the timer, which a count equal to Count puts in front
  (`LoadKeepsOrder`, section 6). Leaving the timer out makes the queues equal again
  (`CutUndoes`, `CutsCommute`).

Before it was proved, TLC checked `TInv` on six instances of up to a million states, with
one and two devices, delays 0 to half a turn, rates 1 and 2, with soft resets and without.

**WorkQueue** (`TypeCorrect`, `NoWakeUpLost`, `ShutdownIsComplete`, `QueueRefines`) for
any finite set of threads. `NoWorkSleeps` is not inductive: a thread that woke
spuriously is still in the list of free threads and may get a signal meant for a
sleeper. `Enough` therefore counts by list membership, not by sleep. `Dismissals` says
that dismiss works are at the end of the list and that one is left for every thread
that is still there, so that no work is stranded; `Accounted`, `InOrder` and
`OneThreadEach` say where each work is, and give the refinement, step by step.

**Netplay** (`TypeCorrect`, `ServerDecides`, `NoLeftovers`, `ListOutlivesAsker`,
`LimiterComesBack`) for any number of players, readings and inputs. `Lockstep` needs
that the list holds what was assigned (`BufferIsLogged`) and holds no past count twice
(`BufferIsAhead`); `Good` collects these for one player, and three lemmas
(`GoodAssign`, `GoodRecord`, `GoodTake`) cover the three ways the inputs change.

**Rcp**. The proofs extend Rcp, so that a theorem is about the whole machine: a lemma
(`NextAi`, `NextRsp`, `NextSi`, `NextDd`) shows that each of its steps is one of the
device's or leaves the device alone. They hold for any buffers, rates, writes, transfers,
blocks, channels, sectors and any bound on queued events.

- `StreamRefines` (and `AudioIsConsistent`): the audio interface implements AudioStream.
  The invariant `Consistent` says that the registers agree: a busy interface has its
  event, a full one its second buffer, `last_read` is at most the first one's length, a
  rate not marked as changed is the back-end's. Without it an end of DMA could promote
  a buffer nobody wrote. Each action then maps to one of the stream's, reads to `Play`
  or, after an NMI, to `PlayRemains`.
- `PutOffIsMadeUpOnce`, `NoTaskIsLost`, `NoInterruptIsLost`: what is put off is put off
  only while the RDP is frozen; each task is reported; an RDP interrupt that is owed is
  queued or was put off (`OwedIsPending`, the safety half of `DpComes`, which needs the
  fact that an unfreeze makes up for it in the same step).
- `BusyHasItsEvent`: a full audio FIFO, a transfer of the SP and a busy serial interface
  each have the event that ends them queued, unless an NMI dropped it: the safety half of
  `TransfersEnd`. The FIFO of the SP has one event, put back for the transfer
  that is left (`SpDmaIsScheduled`); the events of the SI are counted (`SiIsScheduled`).
- `AnswersBelong`, under the assumption `Polite` (the program waits before it writes to
  the PIF, its blocks say something about every channel; section 6 says what happens
  otherwise). A block is understood later than it is copied, so the invariant is
  disjunctive: the channels agree with the block, or its flag is still there and its
  event queued.
- `DriveCalls`: a running drive has its interrupt up, or a DMA is on its way that will
  make it go on. `SectorsGoToTheirPlaces`, if the program waits before it writes to the
  cartridge (`~EarlyIo`): `TransferIsWhole` counts sectors, so the invariant
  `DdProgress` says at each place of the track how many were moved: the drive has called
  for the next sector (`DataCalled`), the program moves it (`DataMoves`), the drive is in
  the C2 sectors, the gap or before the block (`Between`), or through (`Ended`). It is
  inductive because the flags the program has read are part of it: a program that has
  not read DATA_RQ since the last sector cannot prepare a DMA for a sector it was not
  called for. `ReadGoesOn` and `SectorIsMoved` go through the cases of `dd_update_bm`.

**R4300Interrupts** (`CauseIsRight`, `TasksAloneAreUnseen`, `ProgramResumes`,
`SkippedJumpIsTaken`) for programs of any length, any lines and any pool of nodes. The
actions are operators from a record of the variables to the set of possible ones, so
the lemmas are about records: `Sound(c)` (Cause agrees with the MI but for the lines in
`unseen`, in the file of a save state too) is kept by every instruction, exception, RSP
task, load and reset without further assumptions. `unseen` is empty if there are no
tasks, so that they alone come between Cause and the MI: `TasksAloneAreUnseen` proves
`CauseIsCurrent`, refuted in section 6, for programs that start none. `Resumes` and
`SkipIsSpent` need `Calm`, which excludes four cases: a line raised by a store, or by a
task, between two jumps, a register write in a delay slot, and a load. It holds in the
run interrupt_entry. Their invariant is `Steady(c)`: the program is where it should be,
`skip_jump` and the zeroed `cycle_count` are spent, and no CHECK_INT waits. The last
conjunct is what makes it inductive: a store that is not followed by a dispatch must
not leave a CHECK_INT behind, which in turn needs `Sound`: a line that only a task has
raised would be found by the next acknowledge of another. Within a jump it is weaker,
`Ready(c)` (at most one CHECK_INT, for an enabled interrupt) or `Thrown(c)` (an
exception in the delay slot, on its way to the vector), and `DispatchIsSteady` shows
that gen_interrupt leads from both back to `Steady`.
`StateIsRestored` is the action property `LoadResumes`: a loaded state goes on where it was
saved. Its invariant `IsSettled` says that between two instructions, and in the file, what
the file does not hold (delay slot, unsafe bits) has its resting value. It assumes only
`NoMaskInSlot`, which excludes the case section 6 refutes.

**Storage** (`StorageIsTyped`, `SavedIsFound`, `SessionIsSaved`) for storages of any
size. `SavedIsFound` holds for Controller Paks that share a file, too: the history
`kept` is a part of the file (`KeptIsThere`), and a write that fails or is cut short
leaves the places it did not reach as they were. That the file has what is in *memory*
needs `Parts = 1`, the assumption of `SessionIsSaved`; the other case is refuted in
section 6. Its invariant adds that a session has asked for a save exactly when its first
access is over (`AskedIsAccessed`), since only then has the whole of the memory been
written.

**SaveStates** (`SavesAreTyped`, `LoadIsASave`, `SlotHoldsLastSave`, `LockIsLast`,
`SlotCanBeLoaded`) for any slots, files, failures, requests and saves. The worker does
the queued saves in order and each once, those of the slots among them (`QueueInOrder`);
a file that is whole holds a save that was made to it and is through
(`WholeIsWritten`), from which what is loaded follows; the last save begun for a slot is
what the slot holds (`LastStands`). That a slot stays loadable while it is written over
needs `SlotsHoldStates` and that a busy writer holds the lock; that the lock outlives its
users, that a queue once stopped takes no save any more (`StoppedForGood`).

**CoreControl** (`ControlIsTyped`, `FrontEndKnows`, `NoPauseOutlivesStop`,
`RomOutlivesGame`) for any commands and keys. The types hold for racing threads, too; the
others are about the orderly. `ShownAgrees` is not inductive: between the callback and the
write of the flag, in either order, front-end and core disagree by one known step. `Told`
says by how much at each place of a thread, `Turns` that one thread at a time is in the
middle of a change, `PauseIsOurs` that the game is paused only while it runs and nobody has
stopped it. From the last follow `StopWakes`, on which `StopStops` rests, and that the ROM
is not closed under a game.

Every invariant and every action property of the passing runs is stated by a theorem.
Only model-checked are the temporal properties beyond these: `ViKeepsComing`,
`PendingIsTaken`, `QueuedIsDone`, `ShutdownReturns`, `LoadsComplete`, `StopStops`,
`PauseTakesHold`, `AnswersEndWaits`, `TimeEndsWaits`, `DpComes`, `TransfersEnd` (liveness
under fairness is outside the prover's reach), and the two findings.

## 6. Where code and expectation differ

Two runs show a disagreement with a text of the repository:

- `save_keeps_lock`: a save whose write fails returns without releasing
  `savestates_lock` (`main/savestates.c:1496`); the next load of a Mupen64Plus state
  waits for ever, its completion callback (`:1464`) never comes.
- `mempak_saved`: "later saves write only the updated chunk"
  (`backends/file_storage.c:102`), but for a Controller Pak the start within the pak is
  used as the start within the file of all paks (`:128`, with `main/main.c:1658`): what
  pak 1 to 3 saves after the first save is not in the file, the chunk of pak 0 is
  written again.

These formulas are stated in the modules and do not hold. They are not part of the
suite; each is refuted with the constants given, others as in the cfg named (those of
R4300Interrupts with `Tasks = {}` unless the row says otherwise).

| module, formula | refuted with | what happens |
|---|---|---|
| EventDispatch, `TimerRearmedLast` | Spec `SpecVi`; Half 32, Capacity 6, Delays {14}, ViDelay 20, NmiDelay 9, BlockLength 3, Values {0,31,63}, MaxLate 20, no signals or resets | `interrupt.c:405`: the timer handled while another event has its count is put back behind that event, still now, and fires twice |
| EventDispatch, `LoadKeepsOrder` | the same | `interrupt.c:321`: a state saved when Count = Compare fires the timer again after the load |
| EventDispatch, `NotEarly` | the same under `Spec`, Values {5} | `interrupt.c:427`: before the program sets up the VI, the wrap event may leave a timer more than half a turn ahead first, which looks overdue |
| EventDispatch, `DueIsSeen` | `Signals = TRUE` | `interrupt.c:364`: a CHECK_INT in front of a late event resets `cycle_count`, so that the order no longer counts the event as late: one inserted next goes in front of it and holds it up until its own time |
| R4300Interrupts, `QueuedIsPending` | Length 2, Lines = SignalLines = {"SP"}, Capacity 3, no slot faults, writes or jobs | `mi_controller.c:122`: the CHECK_INT outlives an acknowledge or a mask and enters the handler unasked |
| R4300Interrupts, `CauseIsCurrent` | as `interrupt_entry`, Lines {"SP","DP"}, Tasks {"other"} or {"draws"} | `rsp_core.c:379`, `:331`: with SP pending and shown in Cause, a write to SP_STATUS that starts a task takes SP back and Cause.IP2 stays, with nothing behind it, until the next `r4300_check_interrupt`; conversely a DP raised by the plugin for a task that is no display list is pending, and Cause does not show it |
| R4300Interrupts, `Resumes` | the same, Tasks {"draws"} | `mi_controller.c:133`: a store that acknowledges another device finds the DP such a task has raised and pushes a CHECK_INT, without a dispatch; an unmasking before the next jump pushes another and takes one, and the second is taken inside the handler and overwrites EPC |
| R4300Interrupts, `SkipIsSpent` | Jobs {"load","save"}, Length 3, Lines {"SP"}, Capacity 1, SlotFaults TRUE | `interrupt.c:553`: a load served at the jump of an excepting slot leaves `skip_jump`, and the next taken jump is lost |
| R4300Interrupts, `LoadResumes` | SlotWrites {"mask"}, Length 3, Lines {"SP"}, SignalLines {}, Capacity 1, no slot faults, Jobs {"load","save"} | `mi_controller.c:109`: a store to the mask in a delay slot calls `gen_interrupt` without an unsafe bit (`cp0.h:183` asks for one); the jump overwrites the loaded pc |
| SaveStates, `SaveIsReported` | as `save_states` | `savestates.c:2173`: the callback says 1 before the worker has written (Core-Front-End.mediawiki:296) |
| SaveStates, `Pj64IsReported` | as `save_states` | `:2110`: success is returned from the clean-up label, also after a failure |
| SaveStates, `NoRequestLost` | as `save_states` | `:2175`: a request set while another is served is cleared with it |
| SaveStates, `FileIsTheOneAsked` | Files {100} | `:160`: job, type and name are set one by one; a request is served with another's name |
| SaveStates, `RequestsAreOfThisGame` | MaxRequests 2, MaxSaves 2 | `frontend.c:269`: a load asked for without a game is served by the next one |
| CoreControl, `StopIsObeyed` | Commands {"stop"}, HotKeys {} | `r4300_core.c:132`: a stop given between `g_EmulatorRunning = 1` and the clearing of the flag in `run_r4300` is forgotten (Core-Front-End.mediawiki:120 says that it stops the emulator); with "pause" too, `main.c:947`: a pause that follows the stop keeps `pause_loop` waiting |
| CoreControl, `ShownAgrees` without `Orderly` | Commands {"pause"}; or {"advance"} | `r4300_core.c:133`: the flag is cleared after the callback; `main.c:506`: the callbacks of two threads come in either order |
| CoreControl, `RomStaysOpen` | Commands {"close"} | `frontend.c:193`: the ROM is closed before `main_run` says that it runs |
| CoreControl, `AdvanceIsOneFrame` | Commands {"advance"} | `main.c:848`: frames go on until the next vertical interrupt |
| Netplay, `LostIsMissing` | as `netplay` | `netplay.c:227`: the input comes between the asking thread's look and its time-out; the thread's verdict counts and the game is stopped |
| SerialInterface, `AnswersAreForTheBlock` | EarlyIo TRUE | `pif.c:309`: a CPU write of the flags during a read turns its SI_INT into one of a write: nothing is copied and the block is understood anew |
| DiskDrive, `TransferIsWhole` | EarlyIo TRUE | `cart_rom.c:80`: a write to the cartridge while PI_CART_ADDR still has a buffer of the drive ends in a PI_INT that `pi_controller.c` takes for the end of a DMA on that buffer: the drive goes on once too often |
| SerialInterface, `AnswersAreForTheBlock` | a block with `"keep"` for a channel, or with flag `"none"` | `pif.c:235`: a block that ends before the last channel leaves its pointer; answers are then written over this block where another had its command |

And some consequences of an NMI and of failures that the properties except by name, so
that they show in the modules:

- `TransfersEnd`: an NMI in the middle of an SI transfer leaves SI_STATUS busy, in the
  middle of two SP transfers the FIFO full, as their events are dropped and no register
  is reset (`interrupt.c:449`). A busy SI takes a CPU write (`WritePif`), which clears
  it; nothing empties the SP FIFO.
- `TaskIsReported`: a task that breaks and has not asked for an interrupt
  (`INTR_BREAK`) leaves no SP_INT, so that HALT and BROKE are not set until the next
  write; a later write that clears nothing does not start it again.
- `NextSessionFindsIt`: a first save that is cut short has truncated the file before
  (`main/util.c:108`) and wiped out what was there; `first_access` is cleared all the
  same (`file_storage.c:104`), so that the rest is not written again in this session.
- `Open`: of a file that is too short only a part is read, the rest of the memory is
  whatever was allocated. "EEP files are all EEPROM_MAX_SIZE bytes long"
  (`main/main.c:1043`) is so for a game with 16 kbit only: for one with 4 kbit the size
  is set to 0x200 (`:1057`), the first save writes no more than that, and the next
  session's read of 0x800 bytes is a short one. What it leaves unset is behind the end of
  what such a game can address.
- `drive.ip3`: where BM_INT alone is cleared, IP3 is lowered although MECHA_INT may
  still be set; only the write of the control register looks at both
  (`dd_controller.c:483`).

## 7. What is left out, and why

- EventDispatch: exceptions zero `cycle_count` for the rest of an instruction
  (`HeadCached` would not hold there; R4300Interrupts has them). NMI is a soft reset
  only. The random delay added to SI events is one of `Delays`.
- R4300Interrupts: MTC0 Count and Cause, ERL, the TLB and coprocessor exceptions; a
  load that fails (it leaves its CHECK_INT). Main program and handler are loops. Which
  bits of SP_STATUS a write sets and whether the RSP was halted are left open (RspTasks
  has them), so that a task may run at every write. `PendingIsTaken` is about what Cause
  shows; a line that a task raises unseen is taken after the next comparison only.
- SaveStates: what a state holds; the file's name is read once per service;
  Project64 files are written in one step; allocation failures; netplay's guard, which
  refuses loads.
- RspTasks: TASKDONE, single step, the signal bits and the semaphore, DPS and most of
  DPC and VI are plain stores. SerialInterface: the bytes of a command, the CIC.
  DiskDrive: the clock, the disk formats; the other users of the PI. AudioInterface:
  AI_CONTROL, buffers of length 0.
- Storage: read-only storages and the merging of a changed disk. A chunk written behind
  the end of a file leaves a gap, which the model fills with a default value (`Patched`);
  no property depends on it.
- A soft reset from the front-end's thread inserts into the event queue while the
  emulation thread walks it (`device.c:277`): a data race whose outcomes cannot be
  enumerated.
- CoreControl: setting `g_EmulatorRunning` and its callback are one step; reset, speed,
  volume, screenshots, video and plugin commands.
- Netplay: TCP (registration, settings, save files), sync data and status byte, start
  and stop of a session. `count` never passes 2^31, where the comparison of
  `netplay_process` would turn around. The plugin byte goes with the keys.
- Components with status `not_modelled`: either on the plan below, or arithmetic on
  data (floating point, address maps, ROM headers), generated code, pure I/O,
  third-party code.

By far the most lines under `src/` are of the last kinds: shaders compiled into a
header, the Vulkan headers and their wrapper, three recompilers and the assemblers
behind them, a renderer, compression, hashing and archive libraries, tables of
instructions. What keeps state and decides, in the sense of section 1, is a few
thousand lines of `mupen64plus-core`, most of which the map covers.

## 8. Plan

In the order of importance:

1. **CartStorage**: FlashRAM and EEPROM command automata against a map from pages to
   contents, composed with Storage.
2. **Paks**: the pak switch of `input_plugin_compat.c`, the Transfer Pak and the bank
   registers behind it; the inputs of Netplay enter here.
3. **Cheats** and **Breakpoints**: lists changed by one thread and walked by another.
4. **CodeCache**: blocks, invalidation by writes, links.
5. Netplay's session: start, registration, stop after the game (the lists are local to
   `main_run`, `netplay.c:144`), `M64CMD_NETPLAY_CLOSE` during a game.

Theorems to come: the safety half of `PendingIsTaken` (what is pending has its CHECK_INT
or a due event in front of it).

Abstract specifications to come: an event set keyed by real time, which EventDispatch
implements as long as no event is further away than half a turn; a file per slot with
atomic saves, which SaveStates implements where nothing fails.
