----------------------------- MODULE WorkPromise -----------------------------
(***************************************************************************)
(* What main/workqueue.h promises to the code that queues work: each work  *)
(* is started once, in the order it was queued, and the queue is not       *)
(* stopped before the last of them is done.  WorkQueue implements it.      *)
(***************************************************************************)
EXTENDS Sequences, Naturals

CONSTANT Works

VARIABLES
    queued,    \* the works in the order queue_work was called
    started,   \* how many of them a thread has begun
    finished,  \* those whose function has returned
    stopped    \* workqueue_shutdown has returned

promise == <<queued, started, finished, stopped>>

Init ==
    /\ queued = <<>>
    /\ started = 0
    /\ finished = {}
    /\ stopped = FALSE

Queue(w) ==
    /\ ~stopped
    /\ queued' = Append(queued, w)
    /\ UNCHANGED <<started, finished, stopped>>

Start ==
    /\ started < Len(queued)
    /\ started' = started + 1
    /\ UNCHANGED <<queued, finished, stopped>>

Finish(w) ==
    /\ w \notin finished
    /\ \E i \in 1 .. started : queued[i] = w
    /\ finished' = finished \cup {w}
    /\ UNCHANGED <<queued, started, stopped>>

Stop ==
    /\ ~stopped
    /\ \A i \in 1 .. Len(queued) : queued[i] \in finished
    /\ stopped' = TRUE
    /\ UNCHANGED <<queued, started, finished>>

Next == (\E w \in Works : Queue(w) \/ Finish(w)) \/ Start \/ Stop

Spec == Init /\ [][Next]_promise
=============================================================================
