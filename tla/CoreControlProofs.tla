-------------------------- MODULE CoreControlProofs --------------------------
(***************************************************************************)
(* The safety of CoreControl, for whatever commands the front-end gives    *)
(* and whatever keys the user presses: what the front-end is told, and     *)
(* what keeps the ROM under a game.                                        *)
(*                                                                         *)
(* The two threads write the same globals without a lock.  What makes the  *)
(* orderly of them safe is that one of them at a time is in the middle of  *)
(* changing the state (Turns), and only while a game runs that nobody has  *)
(* stopped; the front-end is told before the pause flag changes or after,  *)
(* and Told says at each point between the two by how much it is ahead.    *)
(***************************************************************************)
EXTENDS CoreControl, TLAPS

Busy == {"started", "reset", "entered", "run", "vi", "paused", "closing"}

(* g_EmulatorRunning is set while main_run is between its two callbacks.   *)
RunningIsBusy == running <=> emu \in Busy

(* A frame advance is a command of the racing only.                        *)
NoAdvance ==
    /\ advance = 0
    /\ \A t \in Threads :
          at[t] \in {"idle", "toggle", "flip", "write0", "write1", "forget",
                     "stop", "stopclear", "stopshow", "halt"}

Turns ==
    /\ \E t \in Threads : at[t] = "idle"
    /\ \A t \in Threads : at[t] # "idle" => emu \in Emulating /\ ~stop

(* The flag is of this game: no game ends, and none begins, with it set.   *)
PauseIsOurs == pause => emu \in Emulating /\ ~stop

(* What the front-end was told, at each point of the two functions.        *)
Told ==
    \/ (\A t \in Threads : at[t] \in {"idle", "toggle", "forget", "stop"}) /\ shown = State
    \/ (\E t \in Threads : at[t] = "flip") /\ shown = IF pause THEN "running" ELSE "paused"
    \/ (\E t \in Threads : at[t] = "write0") /\ shown = "running" /\ pause
    \/ (\E t \in Threads : at[t] = "write1") /\ shown = "paused" /\ ~pause
    \/ (\E t \in Threads : at[t] = "stopclear") /\ shown = "paused" /\ pause
    \/ (\E t \in Threads : at[t] = "stopshow") /\ shown = "paused" /\ ~pause
    \/ (\E t \in Threads : at[t] = "halt") /\ shown = "running" /\ ~pause

OrderlyInv == NoAdvance /\ Turns /\ PauseIsOurs /\ Told /\ RomStaysOpen

IInv == TypeOK /\ RunningIsBusy /\ (Orderly => OrderlyInv)

-----------------------------------------------------------------------------
LEMMA TypeStep == TypeOK /\ [Next]_vars => TypeOK'
<1> SUFFICES ASSUME TypeOK, [Next]_vars PROVE TypeOK'
  OBVIOUS
<1> USE DEF TypeOK
<1>1. CASE UNCHANGED vars
  BY <1>1 DEF vars
<1>2. CASE OpenRom
  BY <1>2 DEF OpenRom
<1>3. CASE CloseRom
  BY <1>3 DEF CloseRom
<1>4. CASE Call
  BY <1>4 DEF Call, Pause, Resume, Stop, Advance, Press, Go, Threads
<1>5. ASSUME NEW t \in Threads, Continue(t) PROVE TypeOK'
  <2> USE DEF Go
  <2>1. CASE Toggle(t)
    BY <1>5, <2>1 DEF Continue, Toggle
  <2>2. CASE Flip(t)
    BY <1>5, <2>2 DEF Continue, Flip
  <2>3. CASE Write(t)
    BY <1>5, <2>3 DEF Continue, Write
  <2>4. CASE Forget(t)
    BY <1>5, <2>4 DEF Continue, Forget
  <2>5. CASE SetAdvance(t)
    BY <1>5, <2>5 DEF Continue, SetAdvance
  <2>6. CASE Unpause(t)
    BY <1>5, <2>6 DEF Continue, Unpause
  <2>7. CASE ShowRunning(t)
    BY <1>5, <2>7 DEF Continue, ShowRunning
  <2>8. CASE StopPause(t)
    BY <1>5, <2>8 DEF Continue, StopPause
  <2>11. CASE StopClear(t)
    BY <1>5, <2>11 DEF Continue, StopClear
  <2>9. CASE StopShow(t)
    BY <1>5, <2>9 DEF Continue, StopShow
  <2>10. CASE Halt(t)
    BY <1>5, <2>10 DEF Continue, Halt
  <2> QED
    BY <1>5, <2>1, <2>2, <2>3, <2>4, <2>5, <2>6, <2>7, <2>8, <2>9, <2>10, <2>11 DEF Continue
<1>6. CASE Execute
  BY <1>6 DEF Execute
<1>7. CASE Emulate
  <2>1. CASE Begin \/ OpenFails \/ ResetStop \/ ResetPause \/ ClearStop
    BY <2>1 DEF Begin, OpenFails, ResetStop, ResetPause, ClearStop, Emulating
  <2>2. CASE Frame
    <3>1. frames' \in 0 .. 2
      BY <2>2 DEF Frame
    <3>3. pause' = pause /\ at' \in {at, [at EXCEPT !["emu"] = "frame"]}
      BY <2>2, Zenon DEF Frame, Go
    <3>2. rom' = rom /\ running' = running /\ stop' = stop /\ advance' = advance
          /\ emumode' = emumode /\ emu' = emu /\ shown' = shown
      BY <2>2 DEF Frame
    <3> QED
      BY <3>1, <3>2, <3>3 DEF Threads
  <2>3. CASE FramePause \/ FrameDone \/ FrameShow
    BY <2>3 DEF FramePause, FrameDone, FrameShow, Go
  <2>4. CASE VerticalInterrupt \/ PauseLoop \/ EndPause \/ Leave \/ End
    BY <2>4 DEF VerticalInterrupt, PauseLoop, EndPause, Leave, End, Emulating
  <2> QED
    BY <1>7, <2>1, <2>2, <2>3, <2>4 DEF Emulate
<1> QED
  BY <1>1, <1>2, <1>3, <1>4, <1>5, <1>6, <1>7 DEF Next

(* Who is orderly stays so, and a step of a thread leaves the other alone. *)
LEMMA StyleStep == [Next]_vars => style' = style
BY DEF vars, Next, OpenRom, CloseRom, Call, Continue, Execute, Emulate, Begin, OpenFails,
       ResetStop, ResetPause, ClearStop, Frame, FramePause, FrameDone, FrameShow, VerticalInterrupt, PauseLoop,
       EndPause, Leave, End

LEMMA RunningStep == TypeOK /\ RunningIsBusy /\ [Next]_vars => RunningIsBusy'
<1> SUFFICES ASSUME TypeOK, RunningIsBusy, [Next]_vars PROVE RunningIsBusy'
  OBVIOUS
<1> USE DEF TypeOK, RunningIsBusy, Busy, Emulating
<1>1. CASE UNCHANGED <<running, emu>>
  BY <1>1
<1>2. CASE Emulate
  <2>1. CASE Begin \/ OpenFails \/ ResetStop \/ ResetPause \/ ClearStop
    BY <2>1 DEF Begin, OpenFails, ResetStop, ResetPause, ClearStop
  <2>2. CASE Frame \/ FramePause \/ FrameDone \/ FrameShow
    BY <1>1, <2>2 DEF Frame, FramePause, FrameDone, FrameShow
  <2>3. CASE VerticalInterrupt \/ PauseLoop \/ EndPause
    BY <2>3 DEF VerticalInterrupt, PauseLoop, EndPause
  <2>4. CASE Leave \/ End
    BY <2>4 DEF Leave, End
  <2> QED
    BY <1>2, <2>1, <2>2, <2>3, <2>4 DEF Emulate
<1>3. CASE Execute
  BY <1>3 DEF Execute
<1>4. ASSUME NEW t \in Threads, Continue(t) PROVE UNCHANGED <<running, emu>>
  BY <1>4 DEF Continue
<1>5. CASE OpenRom \/ CloseRom \/ Call \/ UNCHANGED vars
  BY <1>1, <1>5 DEF OpenRom, CloseRom, Call, vars
<1> QED
  BY <1>1, <1>2, <1>3, <1>4, <1>5 DEF Next

LEMMA OrderlyStep ==
    ASSUME TypeOK, RunningIsBusy, Orderly, OrderlyInv, [Next]_vars
    PROVE  OrderlyInv'
<1> USE DEF OrderlyInv, NoAdvance, Turns, PauseIsOurs, Told, State, RomStaysOpen, Threads,
            Emulating
<1>0. at = [u \in Threads |-> at[u]]
  BY DEF TypeOK
<1>1. CASE UNCHANGED vars
  BY <1>1 DEF vars
<1>2. CASE OpenRom
  BY <1>2 DEF OpenRom
<1>3. CASE CloseRom
  BY <1>3 DEF CloseRom, MayAsk, RunningIsBusy, Busy
<1>4. CASE Call
  <2>1. CASE Pause
    BY <1>0, <1>4, <2>1 DEF Call, Pause, MayAsk, Go, RunningIsBusy, Busy
  <2>2. CASE Resume
    BY <1>0, <1>4, <2>2 DEF Call, Resume, MayAsk, Go, RunningIsBusy, Busy
  <2>3. CASE Stop
    BY <1>0, <1>4, <2>3 DEF Call, Stop, MayAsk, Go, RunningIsBusy, Busy
  <2>4. CASE Advance
    BY <2>4 DEF Advance, MayAsk
  <2>5. CASE Press
    BY <1>0, <1>4, <2>5 DEF Call, Press, MayPress, Go
  <2> QED
    BY <1>4, <2>1, <2>2, <2>3, <2>4, <2>5 DEF Call
<1>5. ASSUME NEW t \in Threads, Continue(t) PROVE OrderlyInv'
  <2> USE DEF Go
  <2>0. running /\ \A u \in Threads : u # t => at[u] = "idle"
    BY <1>5 DEF RunningIsBusy, Busy, Continue, Toggle, Flip, Write, Forget, SetAdvance,
                Unpause, ShowRunning, StopPause, StopClear, StopShow, Halt
  <2>1. CASE Toggle(t)
    BY <1>0, <1>5, <2>0, <2>1 DEF Continue, Toggle
  <2>2. CASE Flip(t)
    BY <1>0, <1>5, <2>0, <2>2 DEF Continue, Flip
  <2>3. CASE Write(t)
    BY <1>0, <1>5, <2>0, <2>3 DEF Continue, Write
  <2>4. CASE Forget(t)
    BY <1>0, <1>5, <2>0, <2>4 DEF Continue, Forget
  <2>5. CASE SetAdvance(t) \/ Unpause(t) \/ ShowRunning(t)
    BY <2>5 DEF SetAdvance, Unpause, ShowRunning
  <2>8. CASE StopPause(t)
    BY <1>0, <1>5, <2>0, <2>8 DEF Continue, StopPause
  <2>11. CASE StopClear(t)
    BY <1>0, <1>5, <2>0, <2>11 DEF Continue, StopClear
  <2>9. CASE StopShow(t)
    BY <1>0, <1>5, <2>0, <2>9 DEF Continue, StopShow
  <2>10. CASE Halt(t)
    BY <1>0, <1>5, <2>0, <2>10 DEF Continue, Halt
  <2> QED
    BY <1>5, <2>1, <2>2, <2>3, <2>4, <2>5, <2>8, <2>9, <2>10, <2>11 DEF Continue
<1>6. CASE Execute
  BY <1>6 DEF Execute, RunningIsBusy, Busy
<1>7. CASE Emulate
  <2>1. CASE Begin \/ OpenFails
    BY <2>1 DEF Begin, OpenFails
  <2>2. CASE ResetStop \/ ResetPause \/ ClearStop
    BY <2>2 DEF ResetStop, ResetPause, ClearStop
  <2>3. CASE Frame \/ FramePause \/ FrameDone \/ FrameShow
    BY <2>3 DEF Frame, FramePause, FrameDone, FrameShow
  <2>4. CASE VerticalInterrupt \/ PauseLoop \/ EndPause
    BY <2>4 DEF VerticalInterrupt, PauseLoop, EndPause
  <2>5. CASE Leave \/ End
    BY <2>5 DEF Leave, End
  <2> QED
    BY <1>7, <2>1, <2>2, <2>3, <2>4, <2>5 DEF Emulate
<1> QED
  BY <1>1, <1>2, <1>3, <1>4, <1>5, <1>6, <1>7 DEF Next

LEMMA InitHolds == Init => IInv
<1> SUFFICES ASSUME Init PROVE IInv
  OBVIOUS
<1> USE DEF Init, Threads, Emulating
<1>1. TypeOK
  <2>1. {rom, running, stop, pause} \subseteq BOOLEAN
    OBVIOUS
  <2>2. at \in [Threads -> {"idle"}]
    OBVIOUS
  <2> QED
    BY <2>1, <2>2 DEF TypeOK
<1>2. RunningIsBusy
  BY DEF RunningIsBusy, Busy
<1>3. at["front"] = "idle" /\ at["emu"] = "idle"
  OBVIOUS
<1>4. OrderlyInv
  BY <1>3 DEF OrderlyInv, NoAdvance, Turns, PauseIsOurs, Told, State, RomStaysOpen
<1> QED
  BY <1>1, <1>2, <1>4 DEF IInv

LEMMA InductiveStep == IInv /\ [Next]_vars => IInv'
<1> SUFFICES ASSUME IInv, [Next]_vars PROVE IInv'
  OBVIOUS
<1>1. TypeOK' /\ RunningIsBusy'
  BY TypeStep, RunningStep DEF IInv
<1>2. Orderly' => Orderly
  BY StyleStep DEF Orderly
<1>3. Orderly => OrderlyInv'
  BY OrderlyStep DEF IInv
<1> QED
  BY <1>1, <1>2, <1>3 DEF IInv

LEMMA IInvHolds == Spec => []IInv
BY InitHolds, InductiveStep, PTL DEF Spec

(* The flags and the threads' places are those of the code.                *)
THEOREM ControlIsTyped == Spec => []TypeOK
<1>1. IInv => TypeOK
  BY DEF IInv
<1> QED
  BY <1>1, IInvHolds, PTL

(* Whatever the front-end asks and the user presses in turns, the state    *)
(* the front-end was last told (StateChanged, from main_toggle_pause,      *)
(* main_stop and main_run) is the state the core is in.                    *)
THEOREM FrontEndKnows == Spec => []ShownAgrees
<1>1. IInv => ShownAgrees
  BY DEF IInv, OrderlyInv, Told, Threads, ShownAgrees
<1> QED
  BY <1>1, IInvHolds, PTL

(* A stop leaves no pause behind: pause_loop, which does not look at       *)
(* r4300.stop, is never entered or kept waiting after main_stop, as long   *)
(* as the commands come in turns.  StopStops rests on it.                  *)
StopWakes == Orderly /\ stop => ~pause

THEOREM NoPauseOutlivesStop == Spec => []StopWakes
<1>1. IInv => StopWakes
  BY DEF IInv, OrderlyInv, PauseIsOurs, StopWakes
<1> QED
  BY <1>1, IInvHolds, PTL

(* M64CMD_ROM_CLOSE tests g_EmulatorRunning, which is set long after       *)
(* M64CMD_EXECUTE has begun to use the ROM; a front-end that waits for     *)
(* that does not close it under a game.                                    *)
OrderlyKeepsRom == Orderly => RomStaysOpen

THEOREM RomOutlivesGame == Spec => []OrderlyKeepsRom
<1>1. IInv => OrderlyKeepsRom
  BY DEF IInv, OrderlyInv, OrderlyKeepsRom
<1> QED
  BY <1>1, IInvHolds, PTL
=============================================================================
