------------------------------- MODULE Netplay -------------------------------
(***************************************************************************)
(* Netplay (main/netplay.c): the emulators of several players run the same *)
(* game, and each of them gives it only inputs that a server has assigned  *)
(* to a count, the number of a reading of that player's controller.  The   *)
(* inputs come in UDP packets that may be lost, doubled or late.  When the *)
(* next one is missing the emulation thread receives packets, while a      *)
(* thread of its own asks for them again and again and gives up after ten  *)
(* seconds.                                                                *)
(*                                                                         *)
(* This is one of the emulators.  The server is not in the repository: it  *)
(* assigns inputs of this emulator's players, of players elsewhere, or     *)
(* none (NoKeys), and answers a request with any of what it has assigned   *)
(* so far, so that a late or doubled packet is one more answer.  An input  *)
(* stands for the keys and the plugin sent with them.  2^31 readings,      *)
(* after which counts are taken for past ones, are never made.             *)
(* Registration, settings and save files (TCP) are left out, and so is     *)
(* the status byte, which is only shown to the user.                       *)
(***************************************************************************)
EXTENDS Integers, SequencesExt

CONSTANTS
    Count,       \* the number of players, GAME_CONTROLLERS_COUNT at most
    Own,         \* those this emulator has registered for
    Keys,        \* inputs a player may give
    NoKeys,      \* the input of a player who gives none
    Target,      \* l_buffer_target
    MaxReads     \* bound: readings of the controllers

Players == 0 .. (Count - 1)

ASSUME CountAssumption  == Count \in Nat \ {0}
ASSUME OwnAssumption    == Own \subseteq Players
ASSUME KeysAssumption   == NoKeys \notin Keys
ASSUME TargetAssumption == Target \in Nat /\ MaxReads \in Nat

VARIABLES
    log,      \* the server: the inputs of each player, by count
    sent,     \* the server: the inputs it has got for each player
    asked,    \* whether a request for a player is on its way, or an answer
    at,       \* where the emulation thread is
    turn,     \* the player whose controller it reads
    count,    \* netplay_count
    buffer,   \* event_first: the list of events received
    canFF,    \* l_canFF
    limiter,  \* l_MainSpeedLimit
    channel,  \* l_udpChannel # -1
    asking,   \* where the thread that asks for an input is
    over,     \* the connection is lost, the game is to stop
    given     \* history: the inputs given to the game

server == <<log, sent>>
speed == <<canFF, limiter>>
local == <<count, buffer, given>>
control == <<at, turn, over>>
vars == <<server, asked, control, local, speed, channel, asking>>

Each(x) == [p \in Players |-> x]

Init ==
    /\ log = [p \in Players |-> <<>>]
    /\ sent = [p \in Players |-> IF p \in Own THEN {} ELSE Keys]
    /\ asked = Each(FALSE)
    /\ at = "game" /\ turn = 0 /\ over = FALSE
    /\ count = Each(0)
    /\ buffer = Each(<<>>)
    /\ given = Each(<<>>)
    /\ canFF = FALSE /\ limiter = TRUE
    /\ channel = TRUE
    /\ asking = "no thread"

-----------------------------------------------------------------------------
(* The server and the network.                                             *)

(* An input is assigned to a player's next count, for good.                *)
Assign(p) ==
    /\ Len(log[p]) < MaxReads
    /\ \E k \in sent[p] \cup {NoKeys} : log' = [log EXCEPT ![p] = Append(@, k)]
    /\ UNCHANGED <<sent, asked, control, local, speed, channel, asking>>

(* A request, or the answer to it, is lost.                                *)
Lose(p) ==
    /\ asked[p]
    /\ asked' = [asked EXCEPT ![p] = FALSE]
    /\ UNCHANGED <<server, control, local, speed, channel, asking>>

-----------------------------------------------------------------------------
(* The events received, newest first.                                      *)

Valid(list, n) == \E i \in DOMAIN list : list[i].count = n

(* Mutant: an event that has already happened is recorded again.           *)
RecordPast(list, next, e) == IF Valid(list, e.count) THEN list ELSE <<e>> \o list

(* Events that have happened or are in the list are skipped.               *)
Record(list, next, e) ==
    IF e.count < next \/ Valid(list, e.count) THEN list ELSE <<e>> \o list

(* netplay_process: one of the events in a packet, the n-th input.         *)
Receive(p, n) ==
    /\ at \in {"process", "wait"}
    /\ asked[p]
    /\ n < Len(log[p])
    /\ buffer' = [buffer EXCEPT ![p] =
                     Record(@, count[p], [count |-> n, keys |-> log[p][n + 1]])]
    /\ UNCHANGED <<server, asked, control, count, given, speed, channel, asking>>

-----------------------------------------------------------------------------
(* The emulation thread: netplay_update_input.                             *)

Player == turn
HasNext == Valid(buffer[Player], count[Player])

(* The game reads the controllers; the keys pressed go to the server only. *)
Send ==
    /\ at = "game" /\ ~over
    /\ \A p \in Players : count[p] < MaxReads
    /\ \E k \in Keys :
          sent' = [p \in Players |-> IF p \in Own THEN sent[p] \cup {k} ELSE sent[p]]
    /\ at' = "process"
    /\ turn' = 0
    /\ UNCHANGED <<log, asked, over, local, speed, channel, asking>>

(* main_set_speedlimiter, which does nothing while netplay has no lag.     *)
SetSpeedLimiter(on, ff, old) == IF ff THEN on ELSE old

(* Behind the others with inputs in store, the game may run faster.        *)
FollowLag(late) ==
    /\ canFF' = late
    /\ limiter' = SetSpeedLimiter(~late, late \/ canFF, limiter)

(* netplay_get_input, after the packets that have come are received; the   *)
(* last of them says whether the game lags behind (l_player_lag).          *)
Request ==
    /\ at = "process"
    /\ asked' = [asked EXCEPT ![Player] = TRUE]
    /\ \E lags \in BOOLEAN :
          FollowLag(lags /\ Len(buffer[Player]) > Target)
    /\ at' = "ensure"
    /\ UNCHANGED <<server, turn, over, local, channel, asking>>

(* The next player's turn, or the end of the reading.                      *)
NextPlayer ==
    IF turn + 1 \in Players
    THEN /\ turn' = turn + 1
         /\ at' = "process"
    ELSE /\ at' = "game"
         /\ UNCHANGED turn

(* Mutant: the newest event is taken, whatever its count.                  *)
TakeNewest ==
    LET p == Player
    IN  /\ given' = [given EXCEPT ![p] = Append(@, buffer[p][1].keys)]
        /\ buffer' = [buffer EXCEPT ![p] = Tail(@)]
        /\ count' = [count EXCEPT ![p] = @ + 1]
        /\ NextPlayer
        /\ UNCHANGED over

(* The event with the current count is used and deleted.                   *)
Take ==
    LET p == Player
    IN  /\ \E i \in DOMAIN buffer[p] :
              /\ buffer[p][i].count = count[p]
              /\ \A j \in 1 .. (i - 1) : buffer[p][j].count # count[p]
              /\ given' = [given EXCEPT ![p] = Append(@, buffer[p][i].keys)]
              /\ buffer' = [buffer EXCEPT ![p] = RemoveAt(@, i)]
        /\ count' = [count EXCEPT ![p] = @ + 1]
        /\ NextPlayer
        /\ UNCHANGED over

(* No input: "lost connection to server", and the game is stopped.         *)
GiveUp ==
    /\ over' = TRUE
    /\ NextPlayer
    /\ UNCHANGED local

(* netplay_ensure_valid.                                                   *)
Ensure ==
    /\ at = "ensure"
    /\ \/ HasNext /\ Take /\ UNCHANGED asking
       \/ ~HasNext /\ ~channel /\ GiveUp /\ UNCHANGED asking
       \/ /\ ~HasNext /\ channel
          /\ at' = "wait"
          /\ asking' = "look"
          /\ UNCHANGED <<turn, over, local>>
    /\ UNCHANGED <<server, asked, speed, channel>>

(* The loop that receives packets ends.                                    *)
Leave ==
    /\ at = "wait"
    /\ HasNext \/ ~channel
    /\ at' = "join"
    /\ UNCHANGED <<server, asked, turn, over, local, speed, channel, asking>>

(* SDL_WaitThread, whose result counts, whatever has come in since.        *)
Join ==
    /\ at = "join"
    /\ \/ asking = "found" /\ Take
       \/ asking = "gave up" /\ GiveUp
    /\ asking' = "no thread"
    /\ UNCHANGED <<server, asked, speed, channel>>

-----------------------------------------------------------------------------
(* The asking thread: netplay_require_response.                            *)

Look ==
    /\ asking = "look"
    /\ asking' = IF HasNext THEN "found" ELSE "missing"
    /\ UNCHANGED <<server, asked, control, local, speed, channel>>

(* Mutant: once must do.                                                   *)
AskNoMore ==
    /\ asking = "missing"
    /\ asking' = "look"
    /\ UNCHANGED <<server, asked, control, local, speed, channel>>

Ask ==
    /\ asking = "missing"
    /\ asked' = [asked EXCEPT ![Player] = TRUE]
    /\ asking' = "look"
    /\ UNCHANGED <<server, control, local, speed, channel>>

(* Mutant: the thread ends, but does not tell.                             *)
TimeOutSilently ==
    /\ asking = "missing"
    /\ asking' = "gave up"
    /\ UNCHANGED <<server, asked, control, local, speed, channel>>

(* Ten seconds have passed.                                                *)
TimeOut ==
    /\ asking = "missing"
    /\ channel' = FALSE
    /\ asking' = "gave up"
    /\ UNCHANGED <<server, asked, control, local, speed>>

-----------------------------------------------------------------------------
Emulate == Send \/ Request \/ Ensure \/ Leave \/ Join

Next ==
    \/ \E p \in Players :
          \/ Assign(p)
          \/ Lose(p)
          \/ \E n \in 0 .. (MaxReads - 1) : Receive(p, n)
    \/ Emulate
    \/ Look \/ Ask \/ TimeOut

Spec == Init /\ [][Next]_vars

(* Both threads run; nothing is assumed of the network or of the clock.    *)
Fairness == WF_vars(Emulate) /\ WF_vars(Look) /\ WF_vars(Ask \/ TimeOut)

LiveSpec == Spec /\ Fairness
-----------------------------------------------------------------------------
Event == [count : 0 .. (MaxReads - 1), keys : Keys \cup {NoKeys}]

TypeOK ==
    /\ log \in [Players -> Seq(Keys \cup {NoKeys})]
    /\ sent \in [Players -> SUBSET Keys]
    /\ asked \in [Players -> BOOLEAN]
    /\ at \in {"game", "process", "ensure", "wait", "join"}
    /\ turn \in Players
    /\ count \in [Players -> 0 .. MaxReads]
    /\ buffer \in [Players -> Seq(Event)]
    /\ given \in [Players -> Seq(Keys \cup {NoKeys})]
    /\ {canFF, limiter, channel, over} \subseteq BOOLEAN
    /\ asking \in {"no thread", "look", "missing", "found", "gave up"}

(* "The server is the source of truth for input data" (Netplay-API): the   *)
(* game gets the inputs the server has assigned, at their counts, however  *)
(* packets are lost, doubled or reordered; so all emulators agree.         *)
Lockstep ==
    \A p \in Players :
        /\ Len(given[p]) = count[p]
        /\ IsPrefix(given[p], log[p])

(* "It skips events that we have already recorded" or that have happened:  *)
(* the list holds inputs to come, each once, and does not grow for ever.   *)
BufferIsAhead ==
    \A p \in Players :
        \A i \in DOMAIN buffer[p] :
            /\ buffer[p][i].count >= count[p]
            /\ \A j \in DOMAIN buffer[p] :
                   buffer[p][j].count = buffer[p][i].count => j = i

(* The asking thread walks the list without a lock: nothing is deleted     *)
(* from it, and no other reading begins, before the thread has ended.      *)
AskerIsJoined == asking # "no thread" => at \in {"wait", "join"}

(* The speed is limited exactly when the game is not catching up.          *)
LimiterFollowsLag == limiter = ~canFF

Waits == at \in {"wait", "join"}

(* A reading that waits comes to an end if the server keeps answering: a   *)
(* request that is lost is made again.                                     *)
AnswersEndWaits ==
    /\ \A p \in Players : WF_vars(Assign(p))
    /\ SF_vars(\E p \in Players : Waits /\ Player = p /\ Receive(p, count[p]))
    => (Waits ~> ~Waits)

(* "After 10 seconds a timeout occurs": if nobody answers it ends as well. *)
TimeEndsWaits == SF_vars(TimeOut) => (Waits ~> ~Waits)

-----------------------------------------------------------------------------
(* What does not hold: the connection is given up only if the input is     *)
(* missing.                                                                *)
LostIsMissing == [][~over /\ over' => ~HasNext]_vars
=============================================================================
