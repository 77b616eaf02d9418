--------------------------- MODULE WorkQueueProofs ---------------------------
(***************************************************************************)
(* For any number of threads and works: no wake-up is lost, shutdown      *)
(* returns only when every work is done, and WorkPromise is implemented.   *)
(***************************************************************************)
EXTENDS WorkQueue, FiniteSetTheorems, TLAPS

Exited == {t \in Threads : at[t] = "exited"}

(* The dismiss works still in the list: those no thread has taken.         *)
Left == dismissed - Cardinality(Exited)

(* A thread that sleeps is in thread_queue, one that runs is not.          *)
Listed ==
    /\ \A t \in Threads : at[t] = "asleep" => t \in thread_queue
    /\ \A t \in thread_queue : at[t] \in {"asleep", "look"}
    /\ \A t \in Threads : at[t] = "run" => work[t] \in Works

Enough == thread_queue # {} => Len(work_queue) <= Cardinality(Coming)

(* Dismiss works are at the end of the list, and nothing is behind them.   *)
Dismissals ==
    /\ Left \in 0 .. Len(work_queue)
    /\ \A i \in 1 .. Len(work_queue) :
           work_queue[i] = Dismiss <=> i > Len(work_queue) - Left
    /\ main # "open" /\ work_queue # <<>> => Left > 0
    /\ main = "open" => dismissed = 0
    /\ main = "dismissing" => dismissed < Cardinality(Threads)
    /\ main \in {"joining", "stopped"} => dismissed = Cardinality(Threads)
    /\ main = "stopped" => Exited = Threads

(* A work is in the list, with a thread, or done.                          *)
Somewhere(w) ==
    \/ w \in finished
    \/ \E j \in 1 .. Len(work_queue) : work_queue[j] = w
    \/ \E t \in Threads : at[t] = "run" /\ work[t] = w

Accounted == \A i \in DOMAIN queued : Somewhere(queued[i])

(* The works still in the list are the last ones queued, in their order;   *)
(* the others are finished or with one thread each.                        *)
InOrder ==
    /\ Len(queued) - taken = Len(work_queue) - Left
    /\ \A i \in 1 .. (Len(work_queue) - Left) : work_queue[i] = queued[taken + i]
    /\ \A i, j \in 1 .. Len(queued) : queued[i] = queued[j] => i = j

Begun(w) == \E i \in 1 .. taken : queued[i] = w

OneThreadEach ==
    /\ \A t \in Threads : at[t] = "run" => Begun(work[t]) /\ work[t] \notin finished
    /\ \A t, u \in Threads :
           at[t] = "run" /\ at[u] = "run" /\ work[t] = work[u] => t = u
    /\ \A w \in finished : Begun(w)

IInv ==
    TypeOK /\ Listed /\ Enough /\ Dismissals /\ Accounted /\ InOrder /\ OneThreadEach

-----------------------------------------------------------------------------
LEMMA Finite ==
    /\ IsFiniteSet(Coming) /\ Cardinality(Coming) \in Nat
    /\ IsFiniteSet(Exited) /\ Cardinality(Exited) \in Nat
    /\ Cardinality(Threads) \in Nat \ {0}
    /\ Cardinality(Exited) <= Cardinality(Threads)
    /\ Cardinality(Exited) = Cardinality(Threads) => Exited = Threads
<1>1. Coming \in SUBSET Threads /\ Exited \in SUBSET Threads
  BY DEF Coming, Exited
<1>2. IsFiniteSet(Coming) /\ IsFiniteSet(Exited)
  BY <1>1, ThreadsAssumption, FS_Subset
<1>3. /\ Cardinality(Exited) <= Cardinality(Threads)
      /\ Cardinality(Exited) = Cardinality(Threads) => Exited = Threads
  BY <1>1, ThreadsAssumption, FS_Subset
<1>4. Cardinality(Coming) \in Nat /\ Cardinality(Exited) \in Nat
  BY <1>2, FS_CardinalityType
<1>5. Cardinality(Threads) \in Nat /\ Cardinality(Threads) # 0
  BY ThreadsAssumption, FS_CardinalityType, FS_EmptySet
<1> QED
  BY <1>2, <1>3, <1>4, <1>5

(* A set of threads and one more.                                          *)
LEMMA OneMore ==
    ASSUME NEW S, NEW x, IsFiniteSet(S), x \notin S
    PROVE  Cardinality(S \cup {x}) = Cardinality(S) + 1
BY FS_AddElement

LEMMA InitIInv == Init => IInv
<1> SUFFICES ASSUME Init PROVE IInv
  OBVIOUS
<1> USE DEF Init
<1>1. TypeOK
  BY Finite DEF TypeOK, Places
<1>2. Listed /\ Enough /\ Accounted
  BY DEF Listed, Enough, Accounted
<1>3. Cardinality(Exited) = 0
  <2>1. Exited = {}
    BY DEF Exited
  <2> QED
    BY <2>1, FS_EmptySet
<1>4. Dismissals
  BY <1>3 DEF Dismissals, Left
<1>5. InOrder /\ OneThreadEach
  BY <1>3 DEF InOrder, OneThreadEach, Left
<1> QED
  BY <1>1, <1>2, <1>4, <1>5 DEF IInv

-----------------------------------------------------------------------------
(* queue_work: the list grows by w, and a thread comes for it if one was   *)
(* free.                                                                   *)
LEMMA QueueWorkKeeps ==
    ASSUME IInv, NEW w \in Works \cup {Dismiss}, QueueWork(w), work' = work
    PROVE  /\ work_queue' \in Seq(Works \cup {Dismiss})
           /\ thread_queue' \subseteq Threads
           /\ at' \in [Threads -> Places]
           /\ Listed'
           /\ Enough'
           /\ Exited' = Exited
           /\ \A t \in Threads : at'[t] = "run" <=> at[t] = "run"
<1> USE DEF IInv
<1>1. work_queue' \in Seq(Works \cup {Dismiss}) /\ Len(work_queue') = Len(work_queue) + 1
  BY DEF QueueWork, TypeOK
<1>2. CASE thread_queue = {} /\ UNCHANGED <<thread_queue, at>>
  BY <1>1, <1>2 DEF Listed, Enough, Exited, TypeOK
<1>3. ASSUME NEW t \in thread_queue,
             thread_queue' = thread_queue \ {t},
             at' = [at EXCEPT ![t] = IF @ = "asleep" THEN "signalled" ELSE @]
      PROVE  /\ thread_queue' \subseteq Threads
             /\ at' \in [Threads -> Places]
             /\ Listed'
             /\ Enough'
             /\ Exited' = Exited
             /\ \A u \in Threads : at'[u] = "run" <=> at[u] = "run"
  <2>1. t \in Threads /\ at[t] \in {"asleep", "look"}
    BY DEF TypeOK, Listed
  <2>2. /\ at' \in [Threads -> Places]
        /\ at'[t] \in {"signalled", "look"}
        /\ \A u \in Threads \ {t} : at'[u] = at[u]
    BY <1>3, <2>1 DEF TypeOK, Places
  <2>3. Listed'
    BY <1>3, <2>1, <2>2 DEF Listed, TypeOK
  <2>4. Coming' = Coming \cup {t} /\ t \notin Coming
    BY <1>3, <2>1, <2>2 DEF Coming
  <2>5. Cardinality(Coming') = Cardinality(Coming) + 1
    BY <2>4, Finite, OneMore
  <2>6. Len(work_queue) <= Cardinality(Coming)
    BY DEF Enough
  <2>7. Enough'
    BY <2>5, <2>6, <1>1, Finite DEF Enough, TypeOK
  <2>8. Exited' = Exited
    BY <2>1, <2>2 DEF Exited
  <2>9. thread_queue' \subseteq Threads
    BY <1>3 DEF TypeOK
  <2>10. \A u \in Threads : at'[u] = "run" <=> at[u] = "run"
    BY <2>1, <2>2
  <2> QED
    BY <2>2, <2>3, <2>7, <2>8, <2>9, <2>10
<1> QED
  BY <1>1, <1>2, <1>3 DEF QueueWork

LEMMA QueueStep ==
    ASSUME IInv, NEW w \in Works, Queue(w) PROVE IInv'
<1> USE DEF IInv, Queue
<1>1. /\ work_queue' \in Seq(Works \cup {Dismiss})
      /\ thread_queue' \subseteq Threads
      /\ at' \in [Threads -> Places]
      /\ Listed' /\ Enough' /\ Exited' = Exited
      /\ \A t \in Threads : at'[t] = "run" <=> at[t] = "run"
  BY QueueWorkKeeps
<1>2. TypeOK'
  BY <1>1 DEF TypeOK
<1>7. /\ queued \in Seq(Works) /\ queued' = Append(queued, w)
      /\ Len(queued') = Len(queued) + 1
      /\ \A i \in 1 .. Len(queued) : queued'[i] = queued[i]
      /\ queued'[Len(queued) + 1] = w
      /\ taken' = taken /\ taken \in 0 .. Len(queued)
  BY DEF TypeOK
<1>3. /\ work_queue \in Seq(Works \cup {Dismiss})
      /\ work_queue' = Append(work_queue, w)
      /\ Len(work_queue') = Len(work_queue) + 1
      /\ \A i \in 1 .. Len(work_queue) : work_queue'[i] = work_queue[i]
      /\ work_queue'[Len(work_queue) + 1] = w
  BY DEF QueueWork, TypeOK
<1>4. Left = 0 /\ Left' = 0
  <2>1. dismissed = 0 /\ Cardinality(Exited) \in Nat /\ Left \in Nat
    BY Finite DEF Dismissals
  <2> QED
    BY <2>1, <1>1 DEF Left
<1>5. Dismissals'
  <2>1. \A i \in 1 .. Len(work_queue') : work_queue'[i] # Dismiss
    BY <1>3, <1>4, DismissAssumption DEF Dismissals
  <2> QED
    BY <2>1, <1>3, <1>4 DEF Dismissals
<1>6. Accounted'
  <2>1. Somewhere(w)'
    BY <1>3 DEF Somewhere
  <2>2. ASSUME NEW v, Somewhere(v) PROVE Somewhere(v)'
    BY <2>2, <1>1, <1>3 DEF Somewhere
  <2>3. queued \in Seq(Works) /\ queued' = Append(queued, w)
    BY DEF TypeOK
  <2>4. \A i \in DOMAIN queued' : queued'[i] = w \/ \E j \in DOMAIN queued : queued'[i] = queued[j]
    BY <2>3
  <2> QED
    BY <2>1, <2>2, <2>4 DEF Accounted
<1>8. InOrder'
  <2>a. Len(queued) \in Nat /\ taken \in Nat /\ Len(work_queue) \in Nat
    BY DEF TypeOK
  <2>1. Len(queued) = taken + Len(work_queue)
    <3>1. Len(queued) - taken = Len(work_queue) - 0
      BY <1>4 DEF InOrder
    <3> QED
      BY <3>1, <2>a
  <2>2. Len(queued') - taken' = Len(work_queue') - Left'
    <3>1. /\ Len(queued') = Len(queued) + 1 /\ taken' = taken
          /\ Len(work_queue') = Len(work_queue) + 1 /\ Left' = 0
      BY <1>3, <1>4, <1>7
    <3> HIDE DEF Queue, IInv
    <3> QED
      BY <3>1, <2>1, <2>a
  <2>3. \A i \in 1 .. (Len(work_queue') - Left') : work_queue'[i] = queued'[taken' + i]
    <3> SUFFICES ASSUME NEW i \in 1 .. Len(work_queue')
                 PROVE  work_queue'[i] = queued'[taken' + i]
      <4>1. Len(work_queue') - Left' = Len(work_queue')
        BY <1>3, <1>4, <2>a
      <4> QED
        BY <4>1
    <3>1. CASE i \in 1 .. Len(work_queue)
      <4>1. taken + i \in 1 .. Len(queued)
        BY <3>1, <2>1, <2>a
      <4>2. i \in 1 .. (Len(work_queue) - Left)
        BY <3>1, <1>4, <2>a
      <4>3. work_queue[i] = queued[taken + i]
        BY <4>2 DEF InOrder
      <4> QED
        BY <4>1, <4>3, <3>1, <1>3, <1>7
    <3>2. CASE i = Len(work_queue) + 1
      <4>1. taken + i = Len(queued) + 1
        BY <3>2, <2>1, <2>a
      <4> QED
        BY <4>1, <3>2, <1>3, <1>7
    <3>3. i \in 1 .. Len(work_queue) \/ i = Len(work_queue) + 1
      BY <1>3, <2>a
    <3> QED
      BY <3>1, <3>2, <3>3
  <2>4. \A i, j \in 1 .. Len(queued') : queued'[i] = queued'[j] => i = j
    <3>1. \A i \in 1 .. Len(queued) : queued[i] # w
      BY <1>7
    <3> QED
      BY <3>1, <1>7 DEF InOrder
  <2> QED
    BY <2>2, <2>3, <2>4 DEF InOrder
<1>9. OneThreadEach'
  <2>1. \A v : Begun(v) => Begun(v)'
    BY <1>7 DEF Begun
  <2> QED
    BY <2>1, <1>1 DEF OneThreadEach
<1> QED
  BY <1>1, <1>2, <1>5, <1>6, <1>8, <1>9

LEMMA DismissStep ==
    ASSUME IInv, DismissThread PROVE IInv'
<1> USE DEF IInv, DismissThread
<1>1. /\ work_queue' \in Seq(Works \cup {Dismiss})
      /\ thread_queue' \subseteq Threads
      /\ at' \in [Threads -> Places]
      /\ Listed' /\ Enough' /\ Exited' = Exited
      /\ \A t \in Threads : at'[t] = "run" <=> at[t] = "run"
  BY QueueWorkKeeps
<1>2. dismissed \in Nat /\ dismissed < Cardinality(Threads)
  BY Finite DEF Dismissals, TypeOK
<1>3. TypeOK'
  BY <1>1, <1>2, Finite DEF TypeOK
<1>4. /\ work_queue \in Seq(Works \cup {Dismiss})
      /\ work_queue' = Append(work_queue, Dismiss)
      /\ Len(work_queue') = Len(work_queue) + 1
      /\ \A i \in 1 .. Len(work_queue) : work_queue'[i] = work_queue[i]
      /\ work_queue'[Len(work_queue) + 1] = Dismiss
  BY DEF QueueWork, TypeOK
<1>5. Left' = Left + 1 /\ Left \in 0 .. Len(work_queue)
  BY <1>1, <1>2, Finite DEF Left, Dismissals
<1>6. Dismissals'
  <2>1. \A i \in 1 .. Len(work_queue') :
            work_queue'[i] = Dismiss <=> i > Len(work_queue') - Left'
    <3> SUFFICES ASSUME NEW i \in 1 .. Len(work_queue')
                 PROVE  work_queue'[i] = Dismiss <=> i > Len(work_queue') - Left'
      OBVIOUS
    <3>1. CASE i \in 1 .. Len(work_queue)
      BY <3>1, <1>4, <1>5 DEF Dismissals
    <3>2. CASE i = Len(work_queue) + 1
      BY <3>2, <1>4, <1>5
    <3> QED
      BY <3>1, <3>2, <1>4
  <2>2. Left' \in 0 .. Len(work_queue') /\ Left' > 0
    BY <1>4, <1>5
  <2>3. /\ main' # "open" /\ main' # "stopped"
        /\ main' = "dismissing" => dismissed' < Cardinality(Threads)
        /\ main' = "joining" => dismissed' = Cardinality(Threads)
    BY <1>2, Finite
  <2> QED
    BY <2>1, <2>2, <2>3 DEF Dismissals
<1>7. Accounted'
  <2>1. ASSUME NEW v, Somewhere(v) PROVE Somewhere(v)'
    BY <2>1, <1>1, <1>4 DEF Somewhere
  <2> QED
    BY <2>1 DEF Accounted
<1>8. InOrder'
  <2>1. /\ Len(queued') - taken' = Len(work_queue') - Left'
        /\ Len(work_queue') - Left' = Len(work_queue) - Left
    BY <1>4, <1>5 DEF InOrder
  <2>2. \A i \in 1 .. (Len(work_queue) - Left) : work_queue'[i] = queued[taken + i]
    BY <1>4, <1>5 DEF InOrder
  <2> QED
    BY <2>1, <2>2 DEF InOrder
<1>9. OneThreadEach'
  BY <1>1 DEF OneThreadEach, Begun
<1> QED
  BY <1>1, <1>3, <1>6, <1>7, <1>8, <1>9

LEMMA TailOf ==
    ASSUME NEW S, NEW q \in Seq(S), q # <<>>
    PROVE  /\ Len(q) \in Nat \ {0}
           /\ Head(q) \in S /\ Head(q) = q[1]
           /\ Tail(q) \in Seq(S)
           /\ Len(Tail(q)) = Len(q) - 1
           /\ \A i \in 1 .. Len(Tail(q)) : Tail(q)[i] = q[i + 1]
OBVIOUS

(* A thread takes the first work of the list.                              *)
LEMMA TakeStep ==
    ASSUME IInv, NEW t \in Threads, GetWork(t), work_queue # <<>> PROVE IInv'
<1> DEFINE w == Head(work_queue)
<1>a. TypeOK /\ Listed /\ Enough /\ Dismissals /\ Accounted /\ InOrder /\ OneThreadEach
  BY DEF IInv
<1>b. work_queue \in Seq(Works \cup {Dismiss}) /\ work_queue' = Tail(work_queue)
  BY <1>a DEF TypeOK, GetWork
<1>c. UNCHANGED <<main, dismissed, queued, finished>>
  BY DEF GetWork
<1>1. /\ work_queue \in Seq(Works \cup {Dismiss})
      /\ Len(work_queue) \in Nat \ {0}
      /\ w \in Works \cup {Dismiss} /\ w = work_queue[1]
      /\ work_queue' = Tail(work_queue)
      /\ work_queue' \in Seq(Works \cup {Dismiss})
      /\ Len(work_queue') = Len(work_queue) - 1
      /\ \A i \in 1 .. Len(work_queue') : work_queue'[i] = work_queue[i + 1]
  BY <1>b, TailOf
<1>2. /\ at[t] = "look"
      /\ at' = [at EXCEPT ![t] = IF w = Dismiss THEN "exited" ELSE "run"]
      /\ work' = [work EXCEPT ![t] = w]
      /\ thread_queue' = thread_queue \ {t}
      /\ taken' = IF w = Dismiss THEN taken ELSE taken + 1
  BY DEF GetWork
<1> HIDE DEF w
<1>3. /\ at' \in [Threads -> Places] /\ work' \in [Threads -> Works \cup {Dismiss}]
      /\ at'[t] = IF w = Dismiss THEN "exited" ELSE "run"
      /\ work'[t] = w
      /\ \A u \in Threads \ {t} : at'[u] = at[u] /\ work'[u] = work[u]
  BY <1>a, <1>c, <1>1, <1>2 DEF TypeOK, Places
<1>d. w # Dismiss => /\ Left \in 0 .. (Len(work_queue) - 1)
                     /\ Len(queued) - taken = Len(work_queue) - Left
                     /\ w = queued[taken + 1]
                     /\ taken + 1 \in 1 .. Len(queued)
  <2> SUFFICES ASSUME w # Dismiss
               PROVE  /\ Left \in 0 .. (Len(work_queue) - 1)
                      /\ Len(queued) - taken = Len(work_queue) - Left
                      /\ w = queued[taken + 1]
                      /\ taken + 1 \in 1 .. Len(queued)
    OBVIOUS
  <2>1. Left \in 0 .. (Len(work_queue) - 1)
    BY <1>a, <1>1 DEF Dismissals
  <2>2. Len(queued) - taken = Len(work_queue) - Left
    BY <1>a DEF InOrder
  <2>3. taken \in 0 .. Len(queued) /\ Len(queued) \in Nat
    BY <1>a DEF TypeOK
  <2>4. 1 \in 1 .. (Len(work_queue) - Left)
    BY <2>1, <1>1
  <2>5. w = queued[taken + 1]
    BY <2>4, <1>a, <1>1 DEF InOrder
  <2>6. taken + 1 \in 1 .. Len(queued)
    BY <2>1, <2>2, <2>3
  <2> QED
    BY <2>1, <2>2, <2>5, <2>6
<1>e. taken \in Nat /\ taken' \in 0 .. Len(queued)
  <2>1. taken \in 0 .. Len(queued) /\ Len(queued) \in Nat
    BY <1>a DEF TypeOK
  <2> QED
    BY <2>1, <1>2, <1>d
<1>4. TypeOK'
  BY <1>a, <1>c, <1>e, <1>1, <1>2, <1>3 DEF TypeOK
<1>5. Listed'
  BY <1>a, <1>c, <1>1, <1>2, <1>3 DEF Listed, TypeOK
<1>6. Enough'
  <2>1. Coming' = Coming \ {t}
    BY <1>2, <1>3 DEF Coming
  <2>2. Cardinality(Coming') >= Cardinality(Coming) - 1
    <3>1. IsFiniteSet(Coming) /\ Cardinality(Coming) \in Nat
      BY Finite
    <3>2. Cardinality(Coming \ {t}) =
              IF t \in Coming THEN Cardinality(Coming) - 1 ELSE Cardinality(Coming)
      BY <3>1, FS_RemoveElement
    <3> QED
      BY <2>1, <3>1, <3>2
  <2>3. Cardinality(Coming') \in Nat
    BY <2>1, Finite, FS_RemoveElement, FS_CardinalityType
  <2>4. thread_queue' # {} => thread_queue # {}
    BY <1>2
  <2> QED
    BY <1>a, <1>c, <2>2, <2>3, <2>4, <1>1, Finite DEF Enough
<1>f. /\ w = Dismiss => /\ Exited' = Exited \cup {t}
                        /\ Left = Len(work_queue) /\ Left' = Len(work_queue')
      /\ w # Dismiss => Exited' = Exited /\ Left' = Left
  <2>1. CASE w = Dismiss
    <3>1. Exited' = Exited \cup {t} /\ t \notin Exited
      BY <2>1, <1>2, <1>3 DEF Exited
    <3>2. Cardinality(Exited') = Cardinality(Exited) + 1
      BY <3>1, Finite, OneMore
    <3>3. dismissed \in Nat /\ Cardinality(Exited) \in Nat /\ dismissed' = dismissed
      BY <1>a, <1>c, Finite DEF TypeOK
    <3>4. Left' = Left - 1
      BY <3>2, <3>3 DEF Left
    <3>5. 1 \in 1 .. Len(work_queue) /\ work_queue[1] = Dismiss
      BY <1>1, <2>1
    <3>6. 1 > Len(work_queue) - Left /\ Left \in 0 .. Len(work_queue)
      BY <1>a, <3>5 DEF Dismissals
    <3>7. Len(work_queue) \in Nat \ {0} /\ Len(work_queue') = Len(work_queue) - 1
      BY <1>1
    <3>8. Left = Len(work_queue)
      BY <3>6, <3>7
    <3> QED
      BY <2>1, <3>1, <3>4, <3>7, <3>8
  <2>2. CASE w # Dismiss
    <3>1. Exited' = Exited
      BY <2>2, <1>2, <1>3 DEF Exited
    <3> QED
      BY <2>2, <3>1, <1>c DEF Left
  <2> QED
    BY <2>1, <2>2
<1>7. Dismissals'
  <2>1. CASE w = Dismiss
    <3>4. Left = Len(work_queue) /\ Left' = Len(work_queue')
      BY <2>1, <1>f
    <3>5. \A i \in 1 .. Len(work_queue') : work_queue'[i] = Dismiss
      BY <1>a, <1>c, <3>4, <1>1 DEF Dismissals
    <3>6. main # "stopped"
      BY <1>a, <1>c, <1>2 DEF Dismissals, Exited
    <3> QED
      BY <1>a, <1>c, <3>4, <3>5, <3>6, <1>1, Finite DEF Dismissals
  <2>2. CASE w # Dismiss
    <3>1. Exited' = Exited
      BY <2>2, <1>2, <1>3 DEF Exited
    <3>2. Left' = Left
      BY <1>a, <1>c, <3>1 DEF Left
    <3>3. Left \in 0 .. (Len(work_queue) - 1)
      BY <1>a, <1>c, <2>2, <1>1 DEF Dismissals
    <3>4. \A i \in 1 .. Len(work_queue') :
              work_queue'[i] = Dismiss <=> i > Len(work_queue') - Left
      <4> SUFFICES ASSUME NEW i \in 1 .. Len(work_queue')
                   PROVE  work_queue'[i] = Dismiss <=> i > Len(work_queue') - Left
        OBVIOUS
      <4>1. i + 1 \in 1 .. Len(work_queue)
        BY <1>1
      <4>2. work_queue[i + 1] = Dismiss <=> i + 1 > Len(work_queue) - Left
        BY <1>a, <1>c, <4>1 DEF Dismissals
      <4> QED
        BY <4>2, <3>3, <1>1
    <3>5. main' # "open" /\ work_queue' # <<>> => Left' > 0
      BY <1>a, <1>c, <3>2, <1>1 DEF Dismissals
    <3> QED
      BY <1>a, <1>c, <3>1, <3>2, <3>3, <3>4, <3>5, <1>1 DEF Dismissals
  <2> QED
    BY <2>1, <2>2
<1>8. Accounted'
  <2>1. ASSUME NEW v \in Works, Somewhere(v) PROVE Somewhere(v)'
    <3>1. CASE v \in finished
      BY <1>a, <1>c, <3>1 DEF Somewhere
    <3>2. ASSUME NEW j \in 1 .. Len(work_queue), work_queue[j] = v PROVE Somewhere(v)'
      <4>1. CASE j = 1
        BY <1>a, <1>c, <4>1, <3>2, <1>1, <1>3, DismissAssumption DEF Somewhere
      <4>2. CASE j # 1
        <5>1. j - 1 \in 1 .. Len(work_queue') /\ work_queue'[j - 1] = v
          BY <4>2, <3>2, <1>1
        <5> QED
          BY <1>a, <1>c, <5>1 DEF Somewhere
      <4> QED
        BY <4>1, <4>2
    <3>3. CASE \E u \in Threads : at[u] = "run" /\ work[u] = v
      BY <1>a, <1>c, <3>3, <1>2, <1>3 DEF Somewhere
    <3> QED
      BY <1>a, <1>c, <2>1, <3>1, <3>2, <3>3 DEF Somewhere
  <2>2. \A i \in DOMAIN queued : queued[i] \in Works
    BY <1>a, <1>c DEF TypeOK
  <2> QED
    BY <1>a, <1>c, <2>1, <2>2 DEF Accounted
<1>9. InOrder'
  <2>1. CASE w = Dismiss
    <3>1. Left = Len(work_queue) /\ Left' = Len(work_queue')
      BY <2>1, <1>f
    <3>a. Len(work_queue) \in Nat /\ Len(work_queue') \in Nat
      BY <1>1
    <3>2. Len(queued) - taken = Len(work_queue) - Left /\ taken' = taken
      BY <2>1, <1>a, <1>2 DEF InOrder
    <3>3. Len(work_queue') - Left' = 0 /\ Len(work_queue) - Left = 0
      BY <3>1, <3>a
    <3>4. Len(queued') - taken' = Len(work_queue') - Left'
      BY <3>2, <3>3, <1>c
    <3>5. \A i \in 1 .. (Len(work_queue') - Left') : work_queue'[i] = queued'[taken' + i]
      BY <3>3
    <3> QED
      BY <3>4, <3>5, <1>a, <1>c DEF InOrder
  <2>2. CASE w # Dismiss
    <3>1. Left' = Left /\ taken' = taken + 1 /\ Left \in 0 .. (Len(work_queue) - 1)
      BY <2>2, <1>f, <1>d, <1>2
    <3>2. Len(queued) - taken = Len(work_queue) - Left /\ Len(queued) \in Nat
      BY <1>a DEF InOrder, TypeOK
    <3>3. Len(queued') - taken' = Len(work_queue') - Left'
      BY <3>1, <3>2, <1>c, <1>e, <1>1
    <3>4. \A i \in 1 .. (Len(work_queue') - Left') : work_queue'[i] = queued'[taken' + i]
      <4> SUFFICES ASSUME NEW i \in 1 .. (Len(work_queue') - Left')
                   PROVE  work_queue'[i] = queued'[taken' + i]
        OBVIOUS
      <4>1. i \in 1 .. Len(work_queue') /\ i + 1 \in 1 .. (Len(work_queue) - Left)
        BY <3>1, <1>1
      <4>2. work_queue'[i] = work_queue[i + 1] /\ work_queue[i + 1] = queued[taken + (i + 1)]
        BY <4>1, <1>a, <1>1 DEF InOrder
      <4>3. taken + (i + 1) = taken' + i
        BY <4>1, <3>1, <1>e
      <4> QED
        BY <4>2, <4>3, <1>c
    <3> QED
      BY <3>3, <3>4, <1>a, <1>c DEF InOrder
  <2> QED
    BY <2>1, <2>2
<1>10. OneThreadEach'
  <2>1. \A v : Begun(v) => Begun(v)'
    BY <1>c, <1>e, <1>2 DEF Begun
  <2>f. finished' = finished
    BY <1>c
  <2>2. CASE w = Dismiss
    <3>1. \A u \in Threads : at'[u] = "run" =>
              u # t /\ at[u] = "run" /\ work'[u] = work[u]
      BY <2>2, <1>3
    <3>2. \A u \in Threads : at'[u] = "run" =>
              (\E i \in 1 .. taken' : queued'[i] = work'[u]) /\ work'[u] \notin finished'
      <4>1. \A u \in Threads : at[u] = "run" =>
                (\E i \in 1 .. taken' : queued'[i] = work[u]) /\ work[u] \notin finished
        BY <2>1, <1>a DEF OneThreadEach, Begun
      <4> QED
        BY <4>1, <3>1, <2>f
    <3>3. \A u, v \in Threads :
              at'[u] = "run" /\ at'[v] = "run" /\ work'[u] = work'[v] => u = v
      BY <3>1, <1>a DEF OneThreadEach
    <3>4. \A v \in finished' : Begun(v)'
      BY <2>1, <2>f, <1>a DEF OneThreadEach
    <3> QED
      BY <3>2, <3>3, <3>4 DEF OneThreadEach, Begun
  <2>3. CASE w # Dismiss
    <3>1. \E i \in 1 .. taken' : queued'[i] = w
      <4>1. taken' = taken + 1 /\ taken + 1 \in 1 .. taken'
        BY <2>3, <1>e, <1>2
      <4>2. queued'[taken + 1] = w
        BY <2>3, <1>d, <1>c
      <4> QED
        BY <4>1, <4>2
    <3>2. ~Begun(w)
      <4> SUFFICES ASSUME NEW i \in 1 .. taken, queued[i] = w PROVE FALSE
        BY DEF Begun
      <4>1. i \in 1 .. Len(queued) /\ taken + 1 \in 1 .. Len(queued) /\ i # taken + 1
        BY <2>3, <1>d, <1>e
      <4>2. i = taken + 1
        BY <4>1, <2>3, <1>a, <1>d DEF InOrder
      <4> QED
        BY <4>1, <4>2
    <3>3. w \notin finished /\ \A u \in Threads : at[u] = "run" => work[u] # w
      BY <3>2, <1>a DEF OneThreadEach
    <3>4. \A u \in Threads : at'[u] = "run" =>
              \/ u = t
              \/ u # t /\ at[u] = "run" /\ work'[u] = work[u]
      BY <1>3
    <3>5. \A u \in Threads : at'[u] = "run" =>
              (\E i \in 1 .. taken' : queued'[i] = work'[u]) /\ work'[u] \notin finished'
      <4>1. SUFFICES ASSUME NEW u \in Threads, at'[u] = "run"
                     PROVE  /\ \E i \in 1 .. taken' : queued'[i] = work'[u]
                            /\ work'[u] \notin finished'
        OBVIOUS
      <4>2. CASE u = t
        <5>1. work'[u] = w
          BY <4>2, <1>3
        <5> QED
          BY <5>1, <3>1, <3>3, <2>f
      <4>3. CASE u # t /\ at[u] = "run" /\ work'[u] = work[u]
        <5>1. Begun(work[u]) /\ work[u] \notin finished
          BY <4>3, <1>a DEF OneThreadEach
        <5>2. \E i \in 1 .. taken' : queued'[i] = work[u]
          BY <5>1, <2>1 DEF Begun
        <5> QED
          BY <5>1, <5>2, <4>3, <2>f
      <4> QED
        BY <4>1, <4>2, <4>3, <3>4
    <3>6. \A u, v \in Threads :
              at'[u] = "run" /\ at'[v] = "run" /\ work'[u] = work'[v] => u = v
      <4>1. \A u \in Threads : at'[u] = "run" /\ u # t => work'[u] # work'[t]
        BY <3>3, <3>4, <1>3
      <4>2. \A u, v \in Threads :
                at[u] = "run" /\ at[v] = "run" /\ work[u] = work[v] => u = v
        BY <1>a DEF OneThreadEach
      <4> QED
        BY <4>1, <4>2, <3>4
    <3>7. \A v \in finished' : Begun(v)'
      BY <2>1, <2>f, <1>a DEF OneThreadEach
    <3> QED
      BY <3>5, <3>6, <3>7 DEF OneThreadEach, Begun
  <2> QED
    BY <2>2, <2>3
<1> QED
  BY <1>4, <1>5, <1>6, <1>7, <1>8, <1>9, <1>10 DEF IInv

LEMMA SleepStep ==
    ASSUME IInv, NEW t \in Threads, GetWork(t), work_queue = <<>> PROVE IInv'
<1> USE DEF IInv, GetWork
<1>1. /\ at' = [at EXCEPT ![t] = "asleep"] /\ at[t] = "look"
      /\ thread_queue' = thread_queue \cup {t}
      /\ UNCHANGED <<work_queue, work, main, dismissed, queued, taken, finished>>
  OBVIOUS
<1>2. /\ at' \in [Threads -> Places] /\ at'[t] = "asleep"
      /\ \A u \in Threads \ {t} : at'[u] = at[u]
  BY <1>1 DEF TypeOK, Places
<1>3. TypeOK' /\ Listed'
  BY <1>1, <1>2 DEF TypeOK, Listed
<1>4. Enough'
  <2>1. Coming' \in SUBSET Threads
    BY DEF Coming
  <2>2. Cardinality(Coming') \in Nat
    BY <2>1, ThreadsAssumption, FS_Subset, FS_CardinalityType
  <2>3. Len(work_queue') = 0
    BY <1>1
  <2> QED
    BY <2>2, <2>3 DEF Enough
<1>5. Exited' = Exited
  BY <1>1, <1>2 DEF Exited
<1>6. Dismissals'
  BY <1>1, <1>5 DEF Dismissals, Left
<1>7. Accounted'
  <2>1. ASSUME NEW v, Somewhere(v) PROVE Somewhere(v)'
    BY <2>1, <1>1, <1>2 DEF Somewhere
  <2> QED
    BY <2>1, <1>1 DEF Accounted
<1>8. InOrder'
  BY <1>1, <1>5 DEF InOrder, Left
<1>9. OneThreadEach'
  BY <1>1, <1>2 DEF OneThreadEach, Begun
<1> QED
  BY <1>3, <1>4, <1>6, <1>7, <1>8, <1>9

(* A thread that slept looks at the list again, signalled or not.          *)
LEMMA WakeStep ==
    ASSUME IInv, NEW t \in Threads, Wake(t) \/ WakeSpuriously(t) PROVE IInv'
<1> USE DEF IInv, Wake, WakeSpuriously
<1>1. /\ at' = [at EXCEPT ![t] = "look"] /\ at[t] \in {"asleep", "signalled"}
      /\ UNCHANGED <<work_queue, thread_queue, work, main, dismissed, queued, taken, finished>>
  OBVIOUS
<1>2. /\ at' \in [Threads -> Places] /\ at'[t] = "look"
      /\ \A u \in Threads \ {t} : at'[u] = at[u]
  BY <1>1 DEF TypeOK, Places
<1>3. TypeOK' /\ Listed'
  BY <1>1, <1>2 DEF TypeOK, Listed
<1>4. Enough'
  <2>1. Coming' = Coming
    BY <1>1, <1>2 DEF Coming, Listed
  <2> QED
    BY <2>1, <1>1 DEF Enough
<1>5. Exited' = Exited
  BY <1>1, <1>2 DEF Exited
<1>6. Dismissals'
  BY <1>1, <1>5 DEF Dismissals, Left
<1>7. Accounted'
  <2>1. ASSUME NEW v, Somewhere(v) PROVE Somewhere(v)'
    BY <2>1, <1>1, <1>2 DEF Somewhere
  <2> QED
    BY <2>1, <1>1 DEF Accounted
<1>8. InOrder'
  BY <1>1, <1>5 DEF InOrder, Left
<1>9. OneThreadEach'
  BY <1>1, <1>2 DEF OneThreadEach, Begun
<1> QED
  BY <1>3, <1>4, <1>6, <1>7, <1>8, <1>9

LEMMA FinishStep ==
    ASSUME IInv, NEW t \in Threads, Finish(t) PROVE IInv'
<1> USE DEF IInv, Finish
<1>1. /\ at' = [at EXCEPT ![t] = "look"] /\ at[t] = "run"
      /\ finished' = finished \cup {work[t]}
      /\ UNCHANGED <<work_queue, thread_queue, work, main, dismissed, queued, taken>>
  OBVIOUS
<1>2. /\ at' \in [Threads -> Places] /\ at'[t] = "look"
      /\ \A u \in Threads \ {t} : at'[u] = at[u]
  BY <1>1 DEF TypeOK, Places
<1>3. TypeOK' /\ Listed' /\ t \notin thread_queue
  BY <1>1, <1>2 DEF TypeOK, Listed
<1>4. Enough'
  <2>1. Coming' = Coming \cup {t} /\ t \notin Coming
    BY <1>1, <1>2, <1>3 DEF Coming
  <2>2. IsFiniteSet(Coming) /\ Cardinality(Coming) \in Nat
    BY Finite
  <2>3. Cardinality(Coming') = Cardinality(Coming) + 1
    BY <2>1, <2>2, OneMore
  <2>4. Len(work_queue) \in Nat
    BY DEF TypeOK
  <2> QED
    BY <2>2, <2>3, <2>4, <1>1 DEF Enough
<1>5. Exited' = Exited
  BY <1>1, <1>2 DEF Exited
<1>6. Dismissals'
  BY <1>1, <1>5 DEF Dismissals, Left
<1>7. Accounted'
  <2>1. ASSUME NEW v, Somewhere(v) PROVE Somewhere(v)'
    BY <2>1, <1>1, <1>2 DEF Somewhere
  <2> QED
    BY <2>1, <1>1 DEF Accounted
<1>8. InOrder'
  BY <1>1, <1>5 DEF InOrder, Left
<1>9. OneThreadEach'
  BY <1>1, <1>2 DEF OneThreadEach, Begun
<1> QED
  BY <1>3, <1>4, <1>6, <1>7, <1>8, <1>9

LEMMA JoinStep ==
    ASSUME IInv, JoinThreads PROVE IInv'
<1> USE DEF IInv, JoinThreads
<1>1. UNCHANGED <<Exited, Left>>
  BY DEF Exited, Left
<1>2. Exited = Threads
  BY DEF Exited
<1>3. TypeOK' /\ Listed' /\ Enough'
  BY DEF TypeOK, Listed, Enough, Coming
<1>4. Dismissals'
  BY <1>1, <1>2 DEF Dismissals
<1>5. Accounted'
  BY DEF Accounted, Somewhere
<1>6. InOrder' /\ OneThreadEach'
  BY <1>1 DEF InOrder, OneThreadEach, Begun
<1> QED
  BY <1>3, <1>4, <1>5, <1>6

LEMMA NextIInv == IInv /\ [Next]_vars => IInv'
<1> SUFFICES ASSUME IInv, [Next]_vars PROVE IInv'
  OBVIOUS
<1>1. ASSUME NEW w \in Works, Queue(w) PROVE IInv'
  BY <1>1, QueueStep
<1>2. ASSUME NEW t \in Threads, GetWork(t) PROVE IInv'
  BY <1>2, TakeStep, SleepStep
<1>3. ASSUME NEW t \in Threads, Wake(t) \/ WakeSpuriously(t) PROVE IInv'
  BY <1>3, WakeStep
<1>4. ASSUME NEW t \in Threads, Finish(t) PROVE IInv'
  BY <1>4, FinishStep
<1>5. CASE DismissThread
  BY <1>5, DismissStep
<1>6. CASE JoinThreads
  BY <1>6, JoinStep
<1>7. CASE UNCHANGED vars
  BY <1>7 DEF vars, IInv, TypeOK, Listed, Enough, Coming, Dismissals, Left, Exited,
              Accounted, Somewhere, InOrder, OneThreadEach, Begun
<1> QED
  BY <1>1, <1>2, <1>3, <1>4, <1>5, <1>6, <1>7 DEF Next

-----------------------------------------------------------------------------
(* While a thread sleeps, every work in the list has a thread of its own   *)
(* on the way to it, for any number of threads: queue_work and             *)
(* workqueue_get_work lose no wake-up.                                     *)
THEOREM NoWakeUpLost == Spec => []NoWorkSleeps
<1>1. IInv => NoWorkSleeps
  BY DEF IInv, Listed, Enough, NoWorkSleeps
<1> QED
  BY <1>1, InitIInv, NextIInv, PTL DEF Spec

LEMMA StoppedFollows == IInv => StoppedIsDone
<1> SUFFICES ASSUME IInv, main = "stopped" PROVE StoppedIsDone
  BY DEF StoppedIsDone
<1>1. Exited = Threads /\ dismissed = Cardinality(Threads)
  BY DEF IInv, Dismissals
<1>2. Left = 0
  BY <1>1, Finite DEF Left
<1>3. work_queue = <<>>
  BY <1>2 DEF IInv, Dismissals
<1>4. \A t \in Threads : at[t] = "exited"
  BY <1>1 DEF Exited
<1>5. \A w : Somewhere(w) => w \in finished
  BY <1>3, <1>4 DEF Somewhere
<1> QED
  BY <1>3, <1>4, <1>5 DEF IInv, Accounted, StoppedIsDone

(* When workqueue_shutdown returns, every work that was ever queued has    *)
(* been done, the list is empty and every thread has ended.                *)
THEOREM ShutdownIsComplete == Spec => []StoppedIsDone
BY StoppedFollows, InitIInv, NextIInv, PTL DEF Spec

(* The type invariant, for any number of threads and works.                *)
THEOREM TypeCorrect == Spec => []TypeOK
<1>1. IInv => TypeOK
  BY DEF IInv
<1> QED
  BY <1>1, InitIInv, NextIInv, PTL DEF Spec

-----------------------------------------------------------------------------
LEMMA InitPromise == Init => Promise!Init
BY DEF Init, Promise!Init

(* What a step of the work queue is to those who queue works.              *)
LEMMA NextPromise == IInv /\ [Next]_vars => [Promise!Next]_Promise!promise
<1> SUFFICES ASSUME IInv, [Next]_vars PROVE [Promise!Next]_Promise!promise
  OBVIOUS
<1>1. ASSUME NEW w \in Works, Queue(w) PROVE Promise!Queue(w)
  BY <1>1 DEF Queue, Promise!Queue
<1>2. ASSUME NEW t \in Threads, GetWork(t)
      PROVE  Promise!Start \/ UNCHANGED Promise!promise
  <2>1. UNCHANGED <<main, queued, finished>>
    BY <1>2 DEF GetWork
  <2>2. CASE taken' = taken
    BY <2>1, <2>2 DEF Promise!promise
  <2>3. CASE taken' # taken
    <3>1. IInv' /\ taken \in 0 .. Len(queued) /\ Len(queued) \in Nat
      BY <1>2, NextIInv DEF IInv, TypeOK
    <3>2. taken' \in 0 .. Len(queued)
      BY <3>1, <2>1 DEF IInv, TypeOK
    <3>3. taken' = taken + 1
      BY <1>2, <2>3 DEF GetWork
    <3>4. taken < Len(queued)
      BY <3>1, <3>2, <3>3
    <3> QED
      BY <3>3, <3>4, <2>1 DEF Promise!Start
  <2> QED
    BY <2>2, <2>3
<1>3. ASSUME NEW t \in Threads, Wake(t) \/ WakeSpuriously(t)
      PROVE  UNCHANGED Promise!promise
  BY <1>3 DEF Wake, WakeSpuriously, Promise!promise
<1>4. ASSUME NEW t \in Threads, Finish(t)
      PROVE  work[t] \in Works /\ Promise!Finish(work[t])
  <2>1. at[t] = "run"
    BY <1>4 DEF Finish
  <2>2. work[t] \in Works /\ Begun(work[t]) /\ work[t] \notin finished
    BY <2>1 DEF IInv, Listed, OneThreadEach
  <2> QED
    BY <1>4, <2>2 DEF Finish, Begun, Promise!Finish
<1>5. CASE DismissThread
  <2>1. main # "stopped" /\ main' # "stopped" /\ UNCHANGED <<queued, taken, finished>>
    BY <1>5 DEF DismissThread
  <2>2. (main' = "stopped") = (main = "stopped")
    BY <2>1
  <2> QED
    BY <2>1, <2>2, Zenon DEF Promise!promise
<1>6. ASSUME JoinThreads PROVE Promise!Stop
  <2>1. IInv' /\ main = "joining" /\ main' = "stopped"
        /\ UNCHANGED <<queued, taken, finished>>
    BY <1>6, JoinStep DEF JoinThreads
  <2>2. StoppedIsDone'
    BY <2>1, StoppedFollows, PTL
  <2>3. \A i \in DOMAIN queued : queued[i] \in finished
    BY <2>1, <2>2 DEF StoppedIsDone
  <2>4. queued \in Seq(Works)
    BY DEF IInv, TypeOK
  <2>5. \A i \in 1 .. Len(queued) : queued[i] \in finished
    BY <2>3, <2>4
  <2>6. (main = "stopped") = FALSE /\ (main' = "stopped") = TRUE
    BY <2>1
  <2> QED
    BY <2>1, <2>5, <2>6 DEF Promise!Stop
<1>7. CASE UNCHANGED vars
  BY <1>7 DEF vars, Promise!promise
<1> QED
  BY <1>1, <1>2, <1>3, <1>4, <1>5, <1>6, <1>7 DEF Next, Promise!Next

(* Works are begun once each, in the order of queue_work, and the queue    *)
(* stops only after the last is done: the threads, their list and their    *)
(* condition variables implement the queue the callers are promised.       *)
THEOREM QueueRefines == Spec => KeepsPromise
<1>1. Spec => []IInv
  BY InitIInv, NextIInv, PTL DEF Spec
<1> QED
  BY <1>1, InitPromise, NextPromise, PTL DEF Spec, KeepsPromise, Promise!Spec
=============================================================================
