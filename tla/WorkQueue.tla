------------------------------ MODULE WorkQueue ------------------------------
(***************************************************************************)
(* The background work queue of main/workqueue.c: a list of works, threads *)
(* that take them and sleep on a condition variable of their own when      *)
(* there is none, and a shutdown that queues one "dismiss" work for each   *)
(* thread and joins them all.                                              *)
(*                                                                         *)
(* What happens between SDL_LockMutex and SDL_UnlockMutex, or until        *)
(* SDL_CondWait gives the lock away, is one step.  A thread may wake up    *)
(* from SDL_CondWait without a signal.  The free threads are kept as a     *)
(* set: which of them is signalled is left open.                           *)
(***************************************************************************)
EXTENDS Sequences, FiniteSets, Naturals

CONSTANTS
    Works,     \* the works there are to queue, each allocated once
    Threads,   \* WORKQUEUE_THREADS of them
    Dismiss    \* a work whose function is workqueue_dismiss

ASSUME ThreadsAssumption == IsFiniteSet(Threads) /\ Threads # {}
ASSUME DismissAssumption == Dismiss \notin Works

VARIABLES
    work_queue,    \* the list of works
    thread_queue,  \* the threads that found it empty
    at,            \* where each thread is
    work,          \* the work each thread runs
    main,          \* where workqueue_shutdown is
    dismissed,     \* how many dismiss works it has queued
    queued,        \* history: the works in the order they were queued
    taken,         \* history: how many of them a thread has taken
    finished       \* history: the works whose function has returned

vars == <<work_queue, thread_queue, at, work, main, dismissed, queued, taken, finished>>

Places == {"look", "asleep", "signalled", "run", "exited"}

Init ==
    /\ work_queue = <<>>
    /\ thread_queue = {}
    /\ at = [t \in Threads |-> "look"]
    /\ work = [t \in Threads |-> Dismiss]
    /\ main = "open"
    /\ dismissed = 0
    /\ queued = <<>>
    /\ taken = 0
    /\ finished = {}

-----------------------------------------------------------------------------
(* Mutant: new works go to the head of the list.                           *)
QueueFirst(w) ==
    /\ work_queue' = <<w>> \o work_queue
    /\ \/ thread_queue = {} /\ UNCHANGED <<thread_queue, at>>
       \/ \E t \in thread_queue :
              /\ thread_queue' = thread_queue \ {t}
              /\ at' = [at EXCEPT ![t] = IF @ = "asleep" THEN "signalled" ELSE @]

(* Mutant: the list is not empty, so somebody must be awake.               *)
QueueSignalFirst(w) ==
    /\ work_queue' = Append(work_queue, w)
    /\ \/ thread_queue = {} /\ UNCHANGED <<thread_queue, at>>
       \/ work_queue # <<>> /\ UNCHANGED <<thread_queue, at>>
       \/ \E t \in thread_queue :
              /\ work_queue = <<>>
              /\ thread_queue' = thread_queue \ {t}
              /\ at' = [at EXCEPT ![t] = IF @ = "asleep" THEN "signalled" ELSE @]

(* Mutant: the thread leaves the list but is not signalled.                *)
QueueWithoutSignal(w) ==
    /\ work_queue' = Append(work_queue, w)
    /\ \/ thread_queue = {} /\ UNCHANGED thread_queue
       \/ \E t \in thread_queue : thread_queue' = thread_queue \ {t}
    /\ UNCHANGED at

(* A free thread leaves thread_queue and is signalled; the signal is lost  *)
(* if it has woken up by itself.                                           *)
QueueWork(w) ==
    /\ work_queue' = Append(work_queue, w)
    /\ \/ thread_queue = {} /\ UNCHANGED <<thread_queue, at>>
       \/ \E t \in thread_queue :
              /\ thread_queue' = thread_queue \ {t}
              /\ at' = [at EXCEPT ![t] = IF @ = "asleep" THEN "signalled" ELSE @]

(* savestates.c, on the emulation thread; the frontend shuts the core down *)
(* when that one has ended.                                                *)
Queue(w) ==
    /\ main = "open"
    /\ \A i \in DOMAIN queued : queued[i] # w
    /\ QueueWork(w)
    /\ queued' = Append(queued, w)
    /\ UNCHANGED <<work, main, dismissed, taken, finished>>

(* workqueue_get_work, up to SDL_CondWait or the return of a work.         *)
GetWork(t) ==
    /\ at[t] = "look"
    /\ IF work_queue # <<>>
       THEN /\ work_queue' = Tail(work_queue)
            /\ work' = [work EXCEPT ![t] = Head(work_queue)]
            /\ at' = [at EXCEPT ![t] = IF Head(work_queue) = Dismiss THEN "exited" ELSE "run"]
            /\ thread_queue' = thread_queue \ {t}
            /\ taken' = IF Head(work_queue) = Dismiss THEN taken ELSE taken + 1
       ELSE /\ thread_queue' = thread_queue \cup {t}
            /\ at' = [at EXCEPT ![t] = "asleep"]
            /\ UNCHANGED <<work_queue, work, taken>>
    /\ UNCHANGED <<main, dismissed, queued, finished>>

Wake(t) ==
    /\ at[t] = "signalled"
    /\ at' = [at EXCEPT ![t] = "look"]
    /\ UNCHANGED <<work_queue, thread_queue, work, main, dismissed, queued, taken, finished>>

WakeSpuriously(t) ==
    /\ at[t] = "asleep"
    /\ at' = [at EXCEPT ![t] = "look"]
    /\ UNCHANGED <<work_queue, thread_queue, work, main, dismissed, queued, taken, finished>>

(* work->func(work) returns.                                               *)
Finish(t) ==
    /\ at[t] = "run"
    /\ at' = [at EXCEPT ![t] = "look"]
    /\ finished' = finished \cup {work[t]}
    /\ UNCHANGED <<work_queue, thread_queue, work, main, dismissed, queued, taken>>

(* Mutant: one dismiss work has to do for all threads.                     *)
DismissOnce ==
    /\ main = "open"
    /\ QueueWork(Dismiss)
    /\ dismissed' = Cardinality(Threads)
    /\ main' = "joining"
    /\ UNCHANGED <<work, queued, taken, finished>>

(* workqueue_shutdown: a round of its first loop.                          *)
DismissThread ==
    /\ main \in {"open", "dismissing"}
    /\ QueueWork(Dismiss)
    /\ dismissed' = dismissed + 1
    /\ main' = IF dismissed' = Cardinality(Threads) THEN "joining" ELSE "dismissing"
    /\ UNCHANGED <<work, queued, taken, finished>>

(* SDL_WaitThread has returned for every thread.                           *)
JoinThreads ==
    /\ main = "joining"
    /\ \A t \in Threads : at[t] = "exited"
    /\ main' = "stopped"
    /\ UNCHANGED <<work_queue, thread_queue, at, work, dismissed, queued, taken, finished>>

Next ==
    \/ \E w \in Works : Queue(w)
    \/ \E t \in Threads : GetWork(t) \/ Wake(t) \/ WakeSpuriously(t) \/ Finish(t)
    \/ DismissThread
    \/ JoinThreads

Spec == Init /\ [][Next]_vars

(* Every thread runs; no work and no shutdown has to come.                 *)
Fairness ==
    /\ \A t \in Threads : WF_vars(GetWork(t) \/ Wake(t) \/ Finish(t))
    /\ WF_vars(main = "dismissing" /\ DismissThread)
    /\ WF_vars(JoinThreads)

LiveSpec == Spec /\ Fairness
-----------------------------------------------------------------------------
TypeOK ==
    /\ work_queue \in Seq(Works \cup {Dismiss})
    /\ thread_queue \subseteq Threads
    /\ at \in [Threads -> Places]
    /\ work \in [Threads -> Works \cup {Dismiss}]
    /\ main \in {"open", "dismissing", "joining", "stopped"}
    /\ dismissed \in 0 .. Cardinality(Threads)
    /\ queued \in Seq(Works)
    /\ taken \in 0 .. Len(queued)
    /\ finished \subseteq Works

(* Threads on their way to the list.                                       *)
Coming == {t \in Threads : at[t] \in {"look", "signalled"} /\ t \notin thread_queue}

(* No wake-up is lost: while a thread sleeps, every work in the list has a *)
(* thread of its own on the way to it.                                     *)
NoWorkSleeps ==
    (\E t \in Threads : at[t] = "asleep") => Len(work_queue) <= Cardinality(Coming)

(* "Stopped workqueue with work still pending" is never shown: shutdown    *)
(* returns when every queued work has been done and every thread has gone. *)
StoppedIsDone ==
    main = "stopped" =>
        /\ work_queue = <<>>
        /\ \A i \in DOMAIN queued : queued[i] \in finished
        /\ \A t \in Threads : at[t] = "exited"

(* Every work that is queued is done.                                      *)
QueuedIsDone ==
    \A w \in Works : (\E i \in DOMAIN queued : queued[i] = w) ~> (w \in finished)

(* Shutdown returns.                                                       *)
ShutdownReturns == (main = "dismissing" \/ main = "joining") ~> (main = "stopped")

Promise == INSTANCE WorkPromise WITH
    started <- taken,
    stopped <- main = "stopped"

(* Each work is started once, in the order of queue_work, whatever the     *)
(* threads do.                                                             *)
KeepsPromise == Promise!Spec
=============================================================================
