----------------------------- MODULE CoreControl -----------------------------
(***************************************************************************)
(* How a game is started, paused, advanced by one frame and stopped        *)
(* (api/frontend.c, main/main.c, run_r4300).  The front-end calls          *)
(* CoreDoCommand on a thread of its own; M64CMD_EXECUTE keeps another one, *)
(* the emulation thread, busy until the game is over, and hot keys are     *)
(* handled on that one in main_check_inputs.  The flags are plain globals: *)
(* the two threads meet between any two accesses.                          *)
(***************************************************************************)
EXTENDS Naturals

CONSTANTS
    Commands,  \* what the front-end asks for: "pause", "resume", "stop", "advance", "close"
    HotKeys    \* what the user presses: "pause", "advance", "stop"

ASSUME ChoiceAssumption ==
    /\ Commands \subseteq {"pause", "resume", "stop", "advance", "close"}
    /\ HotKeys \subseteq {"pause", "stop", "advance"}

VARIABLES
    style,    \* how the front-end and the user go about it, "orderly" or "racing"
    rom,      \* l_ROMOpen
    emumode,  \* "pure" interpreter or another
    running,  \* g_EmulatorRunning
    stop,     \* r4300.stop
    pause,    \* g_rom_pause
    advance,  \* l_FrameAdvance
    emu,      \* where the emulation thread is
    at,       \* where each thread is in main_toggle_pause, main_stop, ...
    shown,    \* the M64CORE_EMU_STATE last given to the front-end's callback
    frames    \* history: frames since the last call of main_advance_one, at most 2

vars == <<style, rom, emumode, running, stop, pause, advance, emu, at, shown, frames>>

Threads == {"front", "emu"}
Emulating == {"run", "vi", "paused"}

(* The orderly wait until the game runs, one for the other, and for the    *)
(* end after a stop, and advance no frames.                                *)
Orderly == style = "orderly"

Init ==
    /\ style \in {"orderly", "racing"}
    /\ rom = FALSE /\ running = FALSE /\ emumode = "pure"
    /\ stop = FALSE /\ pause = FALSE /\ advance = 0
    /\ emu = "idle"
    /\ at = [t \in Threads |-> "idle"]
    /\ shown = "stopped"
    /\ frames = 2

-----------------------------------------------------------------------------
(* Who may call what.                                                      *)

MayAsk(c) ==
    /\ c \in Commands
    /\ at["front"] = "idle"
    /\ Orderly => /\ emu \in Emulating \cup {"idle"}
                  /\ at["emu"] = "idle" /\ (~stop \/ emu = "idle")
                  /\ c # "advance"

MayPress(k) ==
    /\ k \in HotKeys
    /\ at["emu"] = "idle"
    /\ emu \in {"vi", "paused"}
    /\ Orderly => at["front"] = "idle" /\ ~stop /\ k # "advance"

Go(t, step) == at' = [at EXCEPT ![t] = step]

(* main_core_state_set, M64CORE_EMU_STATE, past its tests.                 *)
Pause == MayAsk("pause") /\ running /\ ~pause /\ Go("front", "toggle")
Resume == MayAsk("resume") /\ running /\ pause /\ Go("front", "toggle")
Stop == MayAsk("stop") /\ running /\ Go("front", "stop")
Advance == MayAsk("advance") /\ running /\ Go("front", "advance")

Press ==
    \/ MayPress("pause") /\ Go("emu", "toggle")
    \/ MayPress("stop") /\ Go("emu", "stop")
    \/ MayPress("advance") /\ Go("emu", "advance")

Call ==
    /\ Pause \/ Resume \/ Stop \/ Advance \/ Press
    /\ UNCHANGED <<style, rom, emumode, running, stop, pause, advance, emu, shown, frames>>

OpenRom ==
    /\ at["front"] = "idle"
    /\ ~running /\ ~rom
    /\ rom' = TRUE
    /\ UNCHANGED <<style, emumode, running, stop, pause, advance, emu, at, shown, frames>>

CloseRom ==
    /\ MayAsk("close")
    /\ ~running /\ rom
    /\ rom' = FALSE
    /\ UNCHANGED <<style, emumode, running, stop, pause, advance, emu, at, shown, frames>>

-----------------------------------------------------------------------------
(* main_toggle_pause: the front-end is told before the flag is turned.     *)
Toggle(t) ==
    /\ at[t] = "toggle"
    /\ IF running
       THEN Go(t, "flip") /\ shown' = IF pause THEN "running" ELSE "paused"
       ELSE Go(t, "idle") /\ UNCHANGED shown
    /\ UNCHANGED <<pause, advance, stop, frames>>

(* g_rom_pause = !g_rom_pause is a read ...                                *)
Flip(t) ==
    /\ at[t] = "flip"
    /\ Go(t, IF pause THEN "write0" ELSE "write1")
    /\ UNCHANGED <<pause, advance, stop, shown, frames>>

(* ... and a write.                                                        *)
Write(t) ==
    /\ at[t] \in {"write0", "write1"}
    /\ pause' = (at[t] = "write1")
    /\ Go(t, "forget")
    /\ UNCHANGED <<advance, stop, shown, frames>>

Forget(t) ==
    /\ at[t] = "forget"
    /\ advance' = 0
    /\ Go(t, "idle")
    /\ UNCHANGED <<pause, stop, shown, frames>>

(* main_advance_one.                                                       *)
SetAdvance(t) ==
    /\ at[t] = "advance"
    /\ advance' = 1
    /\ frames' = 0
    /\ Go(t, "unpause")
    /\ UNCHANGED <<pause, stop, shown>>

Unpause(t) ==
    /\ at[t] = "unpause"
    /\ pause' = FALSE
    /\ Go(t, "show")
    /\ UNCHANGED <<advance, stop, shown, frames>>

ShowRunning(t) ==
    /\ at[t] = "show"
    /\ shown' = "running"
    /\ Go(t, "idle")
    /\ UNCHANGED <<pause, advance, stop, frames>>

(* Mutant: a paused game is not woken up.                                  *)
StopAsleep(t) ==
    /\ at[t] = "stop"
    /\ Go(t, "halt")
    /\ UNCHANGED <<pause, advance, stop, shown, frames>>

(* main_stop: a paused game goes on, ...                                   *)
StopPause(t) ==
    /\ at[t] = "stop"
    /\ \/ ~running /\ Go(t, "idle")
       \/ running /\ pause /\ Go(t, "stopclear")
       \/ running /\ ~pause /\ Go(t, "halt")
    /\ UNCHANGED <<pause, advance, stop, shown, frames>>

(* Mutant: the front-end does not hear that the game goes on.              *)
StopSilently(t) ==
    /\ at[t] = "stopclear"
    /\ pause' = FALSE
    /\ Go(t, "halt")
    /\ UNCHANGED <<advance, stop, shown, frames>>

StopClear(t) ==
    /\ at[t] = "stopclear"
    /\ pause' = FALSE
    /\ Go(t, "stopshow")
    /\ UNCHANGED <<advance, stop, shown, frames>>

StopShow(t) ==
    /\ at[t] = "stopshow"
    /\ shown' = "running"
    /\ Go(t, "halt")
    /\ UNCHANGED <<pause, advance, stop, frames>>

(* ... and stop_device sets the flag.                                      *)
Halt(t) ==
    /\ at[t] = "halt"
    /\ stop' = TRUE
    /\ Go(t, "idle")
    /\ UNCHANGED <<pause, advance, shown, frames>>

Continue(t) ==
    /\ \/ Toggle(t) \/ Flip(t) \/ Write(t) \/ Forget(t)
       \/ SetAdvance(t) \/ Unpause(t) \/ ShowRunning(t)
       \/ StopPause(t) \/ StopClear(t) \/ StopShow(t) \/ Halt(t)
    /\ UNCHANGED <<style, rom, emumode, running, emu>>

-----------------------------------------------------------------------------
(* The emulation thread: main_run.                                         *)

Execute ==
    /\ emu = "idle"
    /\ ~running /\ rom
    /\ emu' = "opening"
    /\ emumode' \in {"pure", "other"}
    /\ UNCHANGED <<style, rom, running, stop, pause, advance, at, shown, frames>>

(* A plugin or the device does not open.                                   *)
OpenFails ==
    /\ emu = "opening"
    /\ emu' = "idle"
    /\ UNCHANGED <<style, rom, emumode, running, stop, pause, advance, at, shown, frames>>

Begin ==
    /\ emu = "opening"
    /\ running' = TRUE /\ shown' = "running"
    /\ emu' = "started"
    /\ UNCHANGED <<style, rom, emumode, stop, pause, advance, at, frames>>

(* run_r4300.                                                              *)
ResetStop ==
    /\ emu = "started"
    /\ stop' = FALSE
    /\ emu' = "reset"
    /\ UNCHANGED <<style, rom, emumode, running, pause, advance, at, shown, frames>>

ResetPause ==
    /\ emu = "reset"
    /\ pause' = FALSE
    /\ emu' = IF emumode = "pure" THEN "entered" ELSE "run"
    /\ UNCHANGED <<style, rom, emumode, running, stop, advance, at, shown, frames>>

(* run_pure_interpreter.                                                   *)
ClearStop ==
    /\ emu = "entered"
    /\ stop' = FALSE
    /\ emu' = "run"
    /\ UNCHANGED <<style, rom, emumode, running, pause, advance, at, shown, frames>>

(* The RSP has done a graphics task: new_frame.                            *)
Frame ==
    /\ emu = "run" /\ ~stop /\ at["emu"] = "idle"
    /\ frames' = IF frames < 2 THEN frames + 1 ELSE 2
    /\ IF advance = 1 THEN Go("emu", "frame") ELSE UNCHANGED at
    /\ UNCHANGED <<style, rom, emumode, running, stop, pause, advance, emu, shown>>

FramePause ==
    /\ at["emu"] = "frame"
    /\ pause' = TRUE
    /\ Go("emu", "framed")
    /\ UNCHANGED <<style, rom, emumode, running, stop, advance, emu, shown, frames>>

FrameDone ==
    /\ at["emu"] = "framed"
    /\ advance' = 0
    /\ Go("emu", "frameshow")
    /\ UNCHANGED <<style, rom, emumode, running, stop, pause, emu, shown, frames>>

FrameShow ==
    /\ at["emu"] = "frameshow"
    /\ shown' = "paused"
    /\ Go("emu", "idle")
    /\ UNCHANGED <<style, rom, emumode, running, stop, pause, advance, emu, frames>>

(* A vertical interrupt, up to main_check_inputs in new_vi.                *)
VerticalInterrupt ==
    /\ emu = "run" /\ ~stop /\ at["emu"] = "idle"
    /\ emu' = "vi"
    /\ UNCHANGED <<style, rom, emumode, running, stop, pause, advance, at, shown, frames>>

(* Mutant: the game rests when the front-end was told so.                  *)
PauseAsShown ==
    /\ emu = "vi" /\ at["emu"] = "idle"
    /\ emu' = IF shown = "paused" THEN "paused" ELSE "run"
    /\ UNCHANGED <<style, rom, emumode, running, stop, pause, advance, at, shown, frames>>

(* pause_loop, before its wait.                                            *)
PauseLoop ==
    /\ emu = "vi" /\ at["emu"] = "idle"
    /\ emu' = IF pause THEN "paused" ELSE "run"
    /\ UNCHANGED <<style, rom, emumode, running, stop, pause, advance, at, shown, frames>>

(* Its wait is a poll: a game that stays paused is no deadlock.            *)
EndPause ==
    /\ emu = "paused" /\ at["emu"] = "idle"
    /\ emu' = IF pause THEN "paused" ELSE "run"
    /\ UNCHANGED <<style, rom, emumode, running, stop, pause, advance, at, shown, frames>>

(* The interpreter's loop ends.                                            *)
Leave ==
    /\ emu = "run" /\ stop /\ at["emu"] = "idle"
    /\ emu' = "closing"
    /\ UNCHANGED <<style, rom, emumode, running, stop, pause, advance, at, shown, frames>>

End ==
    /\ emu = "closing"
    /\ running' = FALSE /\ shown' = "stopped"
    /\ emu' = "idle"
    /\ UNCHANGED <<style, rom, emumode, stop, pause, advance, at, frames>>

Emulate ==
    \/ Begin \/ OpenFails \/ ResetStop \/ ResetPause \/ ClearStop
    \/ Frame \/ FramePause \/ FrameDone \/ FrameShow
    \/ VerticalInterrupt \/ PauseLoop \/ EndPause
    \/ Leave \/ End

Next ==
    \/ OpenRom \/ CloseRom \/ Call
    \/ \E t \in Threads : Continue(t)
    \/ Execute \/ Emulate

Spec == Init /\ [][Next]_vars

(* Both threads go on, and vertical interrupts keep coming.                *)
Fairness ==
    /\ \A t \in Threads : WF_vars(Continue(t))
    /\ WF_vars(Emulate)
    /\ SF_vars(VerticalInterrupt)

LiveSpec == Spec /\ Fairness
-----------------------------------------------------------------------------
TypeOK ==
    /\ {rom, running, stop, pause} \subseteq BOOLEAN
    /\ advance \in {0, 1} /\ emumode \in {"pure", "other"}
    /\ emu \in Emulating \cup {"idle", "opening", "started", "reset", "entered", "closing"}
    /\ at \in [Threads -> {"idle", "toggle", "flip", "write0", "write1", "forget", "advance",
                           "unpause", "show", "stop", "stopclear", "stopshow", "halt", "frame",
                           "framed", "frameshow"}]
    /\ shown \in {"stopped", "running", "paused"}
    /\ frames \in 0 .. 2

(* What M64CMD_CORE_STATE_QUERY answers.                                   *)
State == IF ~running THEN "stopped" ELSE IF pause THEN "paused" ELSE "running"

(* The state the front-end was last told is the state the core is in,      *)
(* whenever no thread is in the middle of changing it, if the two threads  *)
(* do so in turns.                                                         *)
ShownAgrees ==
    Orderly /\ (\A t \in Threads : at[t] = "idle") => shown = State

(* A stop ends the game, paused or not, if the two threads take turns.     *)
StopStops == (Orderly /\ stop /\ emu \in Emulating) ~> (emu = "idle")

(* A pause takes hold: the game comes to rest, unless somebody resumes or  *)
(* stops it.                                                               *)
PauseTakesHold == (pause /\ emu \in Emulating) ~> (emu \in {"paused", "closing"} \/ ~pause)

-----------------------------------------------------------------------------
(* What the documentation and the code disagree about.                     *)

(* "This will stop the emulator, if it is currently running".              *)
StopIsObeyed == (at["front"] = "halt") ~> (emu = "idle")

(* g_EmulatorRunning is to keep the ROM open under a game that runs or is  *)
(* being started.                                                          *)
RomStaysOpen == emu # "idle" => rom

(* "the emulator will run until the next frame, then pause".               *)
AdvanceIsOneFrame == emu = "paused" => frames # 2
=============================================================================
