------------------------- MODULE EventDispatchProofs -------------------------
(***************************************************************************)
(* Theorems about EventDispatch: for every rate of the counter, every pool *)
(* of at least three nodes and every set of devices, delays and written    *)
(* values, the timer event and the wrap-around event stay on the queue,    *)
(* and the cached copies of the first event agree with it; and if blocks   *)
(* and delays are short against the counter (Punctual), events come up in  *)
(* order and in time, and do so after a load.                              *)
(*                                                                         *)
(* The first part has what each operation on the queue does to the two     *)
(* events, the second the handlers and the actions, the third the copies;  *)
(* the fourth has the times the counts stand for, and the fifth what a     *)
(* saved queue becomes when it is loaded.                                  *)
(***************************************************************************)
EXTENDS EventDispatch, SequenceTheorems, WellFoundedInduction, TLAPS

(* The record has its type and its queue fits into the pool of nodes.      *)
Fits(c) == c \in Cp0 /\ Len(c.q) <= Capacity

(* And both events that are never off the queue are on it.                 *)
Good(c) == Fits(c) /\ Once(c.q, COMPARE) /\ Once(c.q, SPECIAL)

(* r is q with e linked in as node i; r is q with node i taken out.        *)
Inserted(q, i, e, r) ==
    /\ i \in 1 .. (Len(q) + 1)
    /\ r \in Seq(Events)
    /\ Len(r) = Len(q) + 1
    /\ \A j \in 1 .. (Len(q) + 1) :
         r[j] = IF j < i THEN q[j] ELSE IF j = i THEN e ELSE q[j - 1]

Removed(q, i, r) ==
    /\ i \in 1 .. Len(q)
    /\ r \in Seq(Events)
    /\ Len(r) = Len(q) - 1
    /\ \A j \in 1 .. (Len(q) - 1) : r[j] = IF j < i THEN q[j] ELSE q[j + 1]

-----------------------------------------------------------------------------
(* A nonempty set of natural numbers has a least element, so Min is one.   *)
LEMMA MinOfNaturals ==
    ASSUME NEW T, T \subseteq Nat, T # {}
    PROVE  /\ Min(T) \in T
           /\ \A y \in T : Min(T) <= y
<1>1. \E x \in T : \A y \in T : x <= y
  <2> DEFINE R == OpToRel(<, Nat)
  <2>1. \A x, y \in Nat : <<x, y>> \in R <=> x < y
    BY DEF OpToRel
  <2>2. IsWellFoundedOn(R, Nat)
    BY NatLessThanWellFounded
  <2> HIDE DEF R
  <2>3. \E x \in T : \A y \in T : ~ (<<y, x>> \in R)
    BY <2>2, WFMin
  <2>4. \A x, y \in T : ~ (<<y, x>> \in R) => x <= y
    BY <2>1
  <2> QED  BY <2>3, <2>4
<1> QED  BY <1>1 DEF Min

(* InsertAt puts e at place i and moves what was there up by one.          *)
LEMMA InsertAtProperties ==
    ASSUME NEW S, NEW s \in Seq(S), NEW e \in S, NEW i \in 1 .. (Len(s) + 1)
    PROVE  /\ InsertAt(s, i, e) \in Seq(S)
           /\ Len(InsertAt(s, i, e)) = Len(s) + 1
           /\ \A j \in 1 .. (Len(s) + 1) :
                InsertAt(s, i, e)[j] = IF j < i THEN s[j]
                                       ELSE IF j = i THEN e ELSE s[j - 1]
<1> DEFINE front == SubSeq(s, 1, i - 1)
           back  == SubSeq(s, i, Len(s))
<1>0. Len(s) \in Nat /\ \A j \in 1 .. Len(s) : s[j] \in S
  BY LenProperties, ElementOfSeq
<1>1. /\ front \in Seq(S)
      /\ Len(front) = i - 1
      /\ \A j \in 1 .. (i - 1) : front[j] = s[j]
  BY <1>0, SubSeqProperties
<1>2. /\ back \in Seq(S)
      /\ Len(back) = Len(s) - i + 1
      /\ \A j \in 1 .. (Len(s) - i + 1) : back[j] = s[i + j - 1]
  BY <1>0, SubSeqProperties
<1>3. <<e>> \in Seq(S) /\ Len(<<e>>) = 1 /\ <<e>>[1] = e
  OBVIOUS
<1> DEFINE start == front \o <<e>>
<1>4. /\ start \in Seq(S)
      /\ Len(start) = i
      /\ \A j \in 1 .. i : start[j] = IF j < i THEN s[j] ELSE e
  <2>1. \A j \in 1 .. i : start[j] = IF j <= i - 1 THEN front[j] ELSE <<e>>[j - (i - 1)]
    BY <1>1, <1>3, ConcatProperties
  <2>2. start \in Seq(S) /\ Len(start) = i
    BY <1>1, <1>3, ConcatProperties
  <2> QED  BY <2>1, <2>2, <1>1, <1>3
<1> HIDE DEF start, back
<1>5. /\ start \o back \in Seq(S)
      /\ Len(start \o back) = Len(s) + 1
      /\ \A j \in 1 .. (Len(s) + 1) :
            (start \o back)[j] = IF j <= i THEN start[j] ELSE back[j - i]
  <2>1. /\ start \o back \in Seq(S)
        /\ Len(start \o back) = Len(start) + Len(back)
        /\ \A j \in 1 .. Len(start) + Len(back) :
              (start \o back)[j] = IF j <= Len(start) THEN start[j] ELSE back[j - Len(start)]
    BY <1>2, <1>4, ConcatProperties
  <2>2. Len(start) + Len(back) = Len(s) + 1
    BY <1>0, <1>2, <1>4
  <2> QED  BY <2>1, <2>2, <1>4
<1>6. \A j \in 1 .. (Len(s) + 1) :
         (start \o back)[j] = IF j < i THEN s[j] ELSE IF j = i THEN e ELSE s[j - 1]
  BY <1>0, <1>2, <1>4, <1>5
<1>7. InsertAt(s, i, e) = start \o back
  BY DEF InsertAt, start, back
<1> QED  BY <1>5, <1>6, <1>7

(* RemoveAt moves what was behind place i down by one.                     *)
LEMMA RemoveAtProperties ==
    ASSUME NEW S, NEW s \in Seq(S), NEW i \in 1 .. Len(s)
    PROVE  /\ RemoveAt(s, i) \in Seq(S)
           /\ Len(RemoveAt(s, i)) = Len(s) - 1
           /\ \A j \in 1 .. (Len(s) - 1) :
                RemoveAt(s, i)[j] = IF j < i THEN s[j] ELSE s[j + 1]
<1> DEFINE front == SubSeq(s, 1, i - 1)
           back  == SubSeq(s, i + 1, Len(s))
<1>0. Len(s) \in Nat /\ \A j \in 1 .. Len(s) : s[j] \in S
  BY LenProperties, ElementOfSeq
<1>1. /\ front \in Seq(S)
      /\ Len(front) = i - 1
      /\ \A j \in 1 .. (i - 1) : front[j] = s[j]
  BY <1>0, SubSeqProperties
<1>2. /\ back \in Seq(S)
      /\ Len(back) = Len(s) - i
      /\ \A j \in 1 .. (Len(s) - i) : back[j] = s[i + j]
  BY <1>0, SubSeqProperties
<1> HIDE DEF front, back
<1>3. /\ front \o back \in Seq(S)
      /\ Len(front \o back) = Len(s) - 1
      /\ \A j \in 1 .. (Len(s) - 1) :
            (front \o back)[j] = IF j <= i - 1 THEN front[j] ELSE back[j - (i - 1)]
  <2>1. /\ front \o back \in Seq(S)
        /\ Len(front \o back) = Len(front) + Len(back)
        /\ \A j \in 1 .. Len(front) + Len(back) :
              (front \o back)[j] = IF j <= Len(front) THEN front[j] ELSE back[j - Len(front)]
    BY <1>1, <1>2, ConcatProperties
  <2>2. Len(front) + Len(back) = Len(s) - 1
    BY <1>0, <1>1, <1>2
  <2> QED  BY <2>1, <2>2, <1>1
<1>4. \A j \in 1 .. (Len(s) - 1) :
         (front \o back)[j] = IF j < i THEN s[j] ELSE s[j + 1]
  <2> SUFFICES ASSUME NEW j \in 1 .. (Len(s) - 1)
               PROVE  (front \o back)[j] = IF j < i THEN s[j] ELSE s[j + 1]
    OBVIOUS
  <2>1. CASE j < i
    BY <2>1, <1>0, <1>1, <1>3
  <2>2. CASE ~(j < i)
    <3>1. j - (i - 1) \in 1 .. (Len(s) - i) /\ i + (j - (i - 1)) = j + 1
      BY <2>2, <1>0
    <3>2. (front \o back)[j] = back[j - (i - 1)]
      BY <2>2, <1>0, <1>3
    <3>3. back[j - (i - 1)] = s[j + 1]
      BY <3>1, <1>2
    <3> QED  BY <2>2, <3>2, <3>3
  <2> QED  BY <2>1, <2>2
<1>5. RemoveAt(s, i) = front \o back
  BY DEF RemoveAt, front, back
<1> QED  BY <1>3, <1>4, <1>5

-----------------------------------------------------------------------------
(* Arithmetic modulo the width of the counter.                             *)
LEMMA WordArithmetic ==
    /\ Modulus \in Nat \ {0}
    /\ Half \in Word /\ 0 \in Word
    /\ \A n \in Int : n % Modulus \in Word
    /\ \A n \in Int : Signed(n) \in Int
<1>1. Modulus \in Nat \ {0} /\ Half \in Word /\ 0 \in Word
  BY HalfAssumption DEF Modulus, Word
<1>2. \A n \in Int : n % Modulus \in Word
  BY <1>1 DEF Word
<1>3. \A n \in Int : Signed(n) \in Int
  BY <1>1, <1>2, HalfAssumption DEF Signed, Word
<1> QED  BY <1>1, <1>2, <1>3

(* The place of a new event is a place in the queue or just behind it.     *)
LEMMA PlaceInQueue ==
    ASSUME NEW c \in Cp0, NEW n
    PROVE  Place(c, n) \in 1 .. (Len(c.q) + 1)
<1> DEFINE later == {i \in 1 .. Len(c.q) : BeforeEvent(c, n, c.q[i].count)}
<1>1. Len(c.q) \in Nat
  BY DEF Cp0
<1>2. CASE later = {}
  BY <1>1, <1>2 DEF Place
<1>3. CASE later # {}
  <2>0. later \subseteq Nat
    BY <1>1
  <2>1. \E i \in later : \A j \in later : i <= j
    <3> HIDE DEF later
    <3> QED  BY <1>3, <2>0, MinOfNaturals
  <2> DEFINE first == CHOOSE i \in later : \A j \in later : i <= j
  <2>2. Place(c, n) = first
    BY <1>3, Zenon DEF Place
  <2> HIDE DEF later
  <2>3. first \in later
    BY <2>1, Zenon
  <2> HIDE DEF first
  <2>4. first \in 1 .. Len(c.q)
    BY <2>3 DEF later
  <2> QED  BY <1>1, <2>2, <2>4
<1> QED  BY <1>2, <1>3

LEMMA InsertAtInserts ==
    ASSUME NEW q \in Seq(Events), NEW e \in Events, NEW i \in 1 .. (Len(q) + 1)
    PROVE  Inserted(q, i, e, InsertAt(q, i, e))
BY InsertAtProperties, SMTT(20) DEF Inserted

(* An insertion keeps what is known of the events of the other types.      *)
LEMMA InsertedTypes ==
    ASSUME NEW q \in Seq(Events), NEW i, NEW e \in Events, NEW r,
           Inserted(q, i, e, r), NEW t
    PROVE  /\ e.type # t /\ Once(q, t) => Once(r, t)
           /\ e.type # t /\ ~Scheduled(q, t) => ~Scheduled(r, t)
           /\ e.type = t /\ ~Scheduled(q, t) => Once(r, t)
<1>0. /\ Len(q) \in Nat
      /\ i \in 1 .. (Len(q) + 1)
      /\ Len(r) = Len(q) + 1
      /\ \A j \in 1 .. (Len(q) + 1) :
           r[j] = IF j < i THEN q[j] ELSE IF j = i THEN e ELSE q[j - 1]
  BY DEF Inserted
<1>1. ASSUME e.type # t, Once(q, t)  PROVE Once(r, t)
  <2>1. PICK k \in 1 .. Len(q) :
            q[k].type = t /\ \A j \in 1 .. Len(q) : q[j].type = t => j = k
    BY <1>1 DEF Once
  <2> DEFINE m == IF k < i THEN k ELSE k + 1
  <2>2. m \in 1 .. Len(r) /\ r[m].type = t
    BY <1>0, <2>1, SMTT(30)
  <2>3. ASSUME NEW j \in 1 .. Len(r), r[j].type = t  PROVE j = m
    <3>1. CASE j < i
      BY <1>0, <2>1, <2>3, <3>1
    <3>2. CASE j = i
      BY <1>0, <1>1, <2>3, <3>2
    <3>3. CASE j > i
      <4>1. j - 1 \in 1 .. Len(q) /\ r[j] = q[j - 1]
        BY <1>0, <3>3
      <4>2. j - 1 = k
        BY <2>1, <2>3, <4>1
      <4> QED  BY <1>0, <3>3, <4>2
    <3> QED  BY <1>0, <3>1, <3>2, <3>3
  <2> QED  BY <2>2, <2>3 DEF Once
<1>2. ASSUME e.type # t, ~Scheduled(q, t), NEW j \in 1 .. Len(r)
      PROVE  r[j].type # t
  <2>1. CASE j < i
    BY <1>0, <1>2, <2>1 DEF Scheduled
  <2>2. CASE j = i
    BY <1>0, <1>2, <2>2
  <2>3. CASE j > i
    <3>1. j - 1 \in 1 .. Len(q) /\ r[j] = q[j - 1]
      BY <1>0, <2>3
    <3> QED  BY <1>2, <3>1 DEF Scheduled
  <2> QED  BY <1>0, <2>1, <2>2, <2>3
<1>3. ASSUME e.type = t, ~Scheduled(q, t)  PROVE Once(r, t)
  <2>1. i \in 1 .. Len(r) /\ r[i].type = t
    BY <1>0, <1>3
  <2>2. ASSUME NEW j \in 1 .. Len(r), r[j].type = t  PROVE j = i
    <3>1. CASE j < i
      BY <1>0, <1>3, <2>2, <3>1 DEF Scheduled
    <3>2. CASE j > i
      <4>1. j - 1 \in 1 .. Len(q) /\ r[j] = q[j - 1]
        BY <1>0, <3>2
      <4> QED  BY <1>3, <2>2, <4>1 DEF Scheduled
    <3> QED  BY <1>0, <3>1, <3>2
  <2> QED  BY <2>1, <2>2 DEF Once
<1> QED  BY <1>1, <1>2, <1>3 DEF Scheduled

LEMMA InsertedHead ==
    ASSUME NEW q \in Seq(Events), NEW i, NEW e \in Events, NEW r,
           Inserted(q, i, e, r)
    PROVE  /\ q # <<>> => r[1] = q[1] \/ r[1] = e
           /\ r # <<>>
BY DEF Inserted

(* So does a removal, and what was there once is gone.                     *)
LEMMA RemovedTypes ==
    ASSUME NEW q \in Seq(Events), NEW i, NEW r, Removed(q, i, r), NEW t
    PROVE  /\ q[i].type # t /\ Once(q, t) => Once(r, t)
           /\ ~Scheduled(q, t) => ~Scheduled(r, t)
           /\ q[i].type = t /\ Once(q, t) => ~Scheduled(r, t)
<1>0. /\ Len(q) \in Nat
      /\ i \in 1 .. Len(q)
      /\ Len(r) = Len(q) - 1
      /\ \A j \in 1 .. (Len(q) - 1) : r[j] = IF j < i THEN q[j] ELSE q[j + 1]
  BY DEF Removed
<1>1. ASSUME q[i].type # t, Once(q, t)  PROVE Once(r, t)
  <2>1. PICK k \in 1 .. Len(q) :
            q[k].type = t /\ \A j \in 1 .. Len(q) : q[j].type = t => j = k
    BY <1>1 DEF Once
  <2>2. k # i
    BY <1>1, <2>1
  <2> DEFINE m == IF k < i THEN k ELSE k - 1
  <2>3. m \in 1 .. Len(r) /\ r[m].type = t
    BY <1>0, <2>1, <2>2
  <2>4. ASSUME NEW j \in 1 .. Len(r), r[j].type = t  PROVE j = m
    BY <1>0, <2>1, <2>2, <2>4, SMTT(30)
  <2> QED  BY <2>3, <2>4 DEF Once
<1>2. ASSUME ~Scheduled(q, t)  PROVE ~Scheduled(r, t)
  BY <1>0, <1>2 DEF Scheduled
<1>3. ASSUME q[i].type = t, Once(q, t)  PROVE ~Scheduled(r, t)
  <2>1. \A j \in 1 .. Len(q) : q[j].type = t => j = i
    BY <1>0, <1>3 DEF Once
  <2>2. \A j \in 1 .. Len(r) : r[j].type # t
    BY <1>0, <2>1
  <2> QED  BY <2>2 DEF Scheduled
<1> QED  BY <1>1, <1>2, <1>3

-----------------------------------------------------------------------------
(* The operations on the record.                                           *)

(* Taking over a queue changes the cached fields only.                     *)
LEMMA WithQueueType ==
    ASSUME NEW c \in Cp0, NEW r \in Seq(Events)
    PROVE  /\ WithQueue(c, r) \in Cp0
           /\ WithQueue(c, r).q = r
           /\ WithQueue(c, r).count = c.count
           /\ WithQueue(c, r).compare = c.compare
<1>1. r # <<>> => r[1] \in Events
  BY LenProperties, ElementOfSeq
<1>2. r # <<>> => r[1].count \in Word /\ Signed(c.count - r[1].count) \in Int
  <2> SUFFICES ASSUME r # <<>>
               PROVE  r[1].count \in Word /\ Signed(c.count - r[1].count) \in Int
    OBVIOUS
  <2>1. r[1].count \in Word /\ c.count \in Word
    BY <1>1 DEF Events, Cp0
  <2>2. c.count - r[1].count \in Int
    BY <2>1 DEF Word
  <2> QED  BY <2>1, <2>2, WordArithmetic
<1>3. 0 \in Word /\ 0 \in Int
  BY WordArithmetic
<1> QED  BY <1>2, <1>3 DEF WithQueue, Cp0

(* add_interrupt_event_count loses the new event when the pool is full and *)
(* otherwise links it in, leaving every other event in the queue.          *)
LEMMA AddProperties ==
    ASSUME NEW c, Fits(c), NEW t \in Types, NEW n \in Int
    PROVE  LET d == AddInterruptEventCount(c, t, n)
           IN  /\ Fits(d)
               /\ d.count = c.count /\ d.compare = c.compare
               /\ \A u : u # t /\ Once(c.q, u) => Once(d.q, u)
               /\ \A u : u # t /\ ~Scheduled(c.q, u) => ~Scheduled(d.q, u)
               /\ c.q # <<>> => d.q[1] = c.q[1] \/ d.q[1].type = t
               /\ Len(c.q) < Capacity =>
                    /\ Len(d.q) = Len(c.q) + 1
                    /\ d.q # <<>>
                    /\ ~Scheduled(c.q, t) => Once(d.q, t)
<1> DEFINE d == AddInterruptEventCount(c, t, n)
           e == [type |-> t, count |-> n % Modulus]
           i == Place(c, n % Modulus)
           r == InsertAt(c.q, i, e)
<1>0. c \in Cp0 /\ c.q \in Seq(Events) /\ Len(c.q) \in Nat /\ Len(c.q) <= Capacity
  BY DEF Fits, Cp0
<1>1. e \in Events /\ e.type = t
  BY WordArithmetic DEF Events
<1>2. i \in 1 .. (Len(c.q) + 1)
  BY <1>0, PlaceInQueue
<1>3. Inserted(c.q, i, e, r)
  <2> HIDE DEF e, i
  <2> QED  BY <1>0, <1>1, <1>2, InsertAtInserts
<1>4. CASE Len(c.q) >= Capacity
  <2>1. d = c
    BY <1>4 DEF AddInterruptEventCount
  <2> QED  BY <1>0, <1>4, <2>1, CapacityAssumption
<1>5. CASE ~(Len(c.q) >= Capacity)
  <2>1. d = WithQueue(c, r)
    BY <1>5 DEF AddInterruptEventCount
  <2> HIDE DEF d, e, i, r
  <2>2. r \in Seq(Events) /\ Len(r) = Len(c.q) + 1
    BY <1>3 DEF Inserted
  <2>3. /\ d \in Cp0 /\ d.q = r
        /\ d.count = c.count /\ d.compare = c.compare
    BY <1>0, <2>1, <2>2, WithQueueType
  <2>4. Fits(d) /\ Len(d.q) = Len(c.q) + 1
    BY <1>0, <1>5, <2>2, <2>3, CapacityAssumption DEF Fits
  <2>5. PICK k \in 1 .. (Len(c.q) + 1), f \in Events : Inserted(c.q, k, f, d.q) /\ f.type = t
    BY <1>1, <1>2, <1>3, <2>3
  <2> HIDE DEF d
  <2>6. \A u : /\ u # t /\ Once(c.q, u) => Once(d.q, u)
               /\ u # t /\ ~Scheduled(c.q, u) => ~Scheduled(d.q, u)
               /\ u = t /\ ~Scheduled(c.q, u) => Once(d.q, u)
    BY <1>0, <2>5, InsertedTypes
  <2>7. /\ c.q # <<>> => d.q[1] = c.q[1] \/ d.q[1].type = t
        /\ d.q # <<>>
    BY <1>0, <2>5, InsertedHead
  <2> QED  BY <2>3, <2>4, <2>6, <2>7 DEF d
<1> QED  BY <1>4, <1>5

(* remove_interrupt_event frees the first node.                            *)
LEMMA RemoveInterruptProperties ==
    ASSUME NEW c, Fits(c), c.q # <<>>
    PROVE  LET d == RemoveInterruptEvent(c)
           IN  /\ Fits(d)
               /\ Len(d.q) < Capacity
               /\ d.count = c.count /\ d.compare = c.compare
               /\ \A u : c.q[1].type # u /\ Once(c.q, u) => Once(d.q, u)
               /\ \A u : ~Scheduled(c.q, u) => ~Scheduled(d.q, u)
               /\ \A u : c.q[1].type = u /\ Once(c.q, u) => ~Scheduled(d.q, u)
<1> DEFINE d == RemoveInterruptEvent(c)
<1>0. c \in Cp0 /\ c.q \in Seq(Events) /\ Len(c.q) \in Nat /\ Len(c.q) <= Capacity
  BY DEF Fits, Cp0
<1>1. Removed(c.q, 1, Tail(c.q))
  <2>1. /\ Tail(c.q) \in Seq(Events)
        /\ Len(Tail(c.q)) = Len(c.q) - 1
        /\ \A j \in 1 .. Len(Tail(c.q)) : Tail(c.q)[j] = c.q[j + 1]
    BY <1>0, HeadTailProperties
  <2>2. 1 \in 1 .. Len(c.q)
    BY <1>0, EmptySeq
  <2> QED  BY <1>0, <2>1, <2>2 DEF Removed
<1>2. /\ d \in Cp0 /\ d.q = Tail(c.q)
      /\ d.count = c.count /\ d.compare = c.compare
  BY <1>0, <1>1, WithQueueType DEF RemoveInterruptEvent, Removed
<1>3. Len(d.q) = Len(c.q) - 1
  BY <1>1, <1>2 DEF Removed
<1>4. \A u : /\ c.q[1].type # u /\ Once(c.q, u) => Once(d.q, u)
             /\ ~Scheduled(c.q, u) => ~Scheduled(d.q, u)
             /\ c.q[1].type = u /\ Once(c.q, u) => ~Scheduled(d.q, u)
  BY <1>0, <1>1, <1>2, RemovedTypes
<1> QED  BY <1>0, <1>2, <1>3, <1>4, CapacityAssumption DEF Fits

(* remove_event frees the first node of a type, wherever it is.            *)
LEMMA RemoveEventProperties ==
    ASSUME NEW c, Fits(c), NEW t
    PROVE  LET d == RemoveEvent(c, t)
           IN  /\ Fits(d)
               /\ d.count = c.count /\ d.compare = c.compare
               /\ d.cycleCount = c.cycleCount
               /\ \A u : u # t /\ Once(c.q, u) => Once(d.q, u)
               /\ \A u : ~Scheduled(c.q, u) => ~Scheduled(d.q, u)
               /\ Len(d.q) <= Len(c.q)
               /\ Once(c.q, t) => ~Scheduled(d.q, t) /\ Len(d.q) = Len(c.q) - 1
<1> DEFINE d == RemoveEvent(c, t)
           I == {k \in 1 .. Len(c.q) : c.q[k].type = t}
           i == Min(I)
<1>0. c \in Cp0 /\ c.q \in Seq(Events) /\ Len(c.q) \in Nat /\ Len(c.q) <= Capacity
  BY DEF Fits, Cp0
<1>1. CASE I = {}
  <2>1. ~Scheduled(c.q, t) /\ ~Once(c.q, t)
    BY <1>1 DEF Scheduled, Once
  <2>2. d = [c EXCEPT !.q = @]
    BY <2>1 DEF RemoveEvent, RemoveFirstMatch, Scheduled
  <2>3. d = c
    BY <1>0, <2>2 DEF Cp0
  <2> QED  BY <1>0, <2>1, <2>3
<1>2. CASE I # {}
  <2>1. i \in I
    <3>1. I \subseteq Nat
      BY <1>0
    <3> HIDE DEF I
    <3> QED  BY <1>2, <3>1, MinOfNaturals
  <2>2. d = [c EXCEPT !.q = RemoveAt(c.q, i)]
    BY <1>2 DEF RemoveEvent, RemoveFirstMatch, SelectInSeq
  <2> DEFINE r == RemoveAt(c.q, i)
  <2>3. i \in 1 .. Len(c.q) /\ c.q[i].type = t
    BY <2>1
  <2> HIDE DEF i, I
  <2>4. Removed(c.q, i, r)
    BY <1>0, <2>3, RemoveAtProperties DEF Removed
  <2>5. r \in Seq(Events) /\ Len(r) = Len(c.q) - 1
    BY <2>4 DEF Removed
  <2>6. /\ d \in Cp0 /\ d.q = r /\ d.cycleCount = c.cycleCount
        /\ d.count = c.count /\ d.compare = c.compare
    <3> HIDE DEF r, d
    <3> QED  BY <1>0, <2>2, <2>5 DEF Cp0, r
  <2>7. Fits(d)
    BY <1>0, <2>5, <2>6, CapacityAssumption DEF Fits
  <2>8. \A u : /\ u # t /\ Once(c.q, u) => Once(d.q, u)
               /\ ~Scheduled(c.q, u) => ~Scheduled(d.q, u)
               /\ u = t /\ Once(c.q, u) => ~Scheduled(d.q, u)
    BY <1>0, <2>3, <2>4, <2>6, RemovedTypes
  <2> HIDE DEF d, r
  <2> QED  BY <1>0, <2>5, <2>6, <2>7, <2>8 DEF d
<1> QED  BY <1>1, <1>2

-----------------------------------------------------------------------------
(* The two events in flight: out of the queue between their removal and    *)
(* their return, when there is a free node for them.                       *)
CompareOut(c) ==
    /\ Fits(c) /\ Len(c.q) < Capacity
    /\ ~Scheduled(c.q, COMPARE)

LEMMA TypesOfOwnEvents ==
    /\ OwnTypes \subseteq Types /\ Devices \subseteq Types
    /\ COMPARE # SPECIAL
    /\ \A t \in OwnTypes \ {COMPARE, SPECIAL} : t # COMPARE /\ t # SPECIAL
    /\ \A t \in Devices : t # COMPARE /\ t # SPECIAL
    /\ COMPARE \in OwnTypes /\ SPECIAL \in OwnTypes
BY DeviceAssumption DEF Types, OwnTypes, VI, COMPARE, CHECK, SPECIAL, HW2, NMI

LEMMA SomethingScheduled ==
    ASSUME NEW c, Fits(c), NEW t, Once(c.q, t)
    PROVE  c.q # <<>> /\ Len(c.q) > 0 /\ Scheduled(c.q, t)
<1>1. c.q \in Seq(Events) /\ Len(c.q) \in Nat
  BY DEF Fits, Cp0
<1> QED  BY <1>1, EmptySeq DEF Once, Scheduled

(* Putting the wrap-around event back loses nothing.                       *)
LEMMA AddSpecialProperties ==
    ASSUME NEW c, Fits(c), Len(c.q) < Capacity, ~Scheduled(c.q, SPECIAL)
    PROVE  LET d == AddSpecial(c)
           IN  /\ Fits(d)
               /\ Once(d.q, SPECIAL)
               /\ Len(d.q) = Len(c.q) + 1
               /\ d.count = c.count /\ d.compare = c.compare
               /\ Once(c.q, COMPARE) => Once(d.q, COMPARE)
               /\ ~Scheduled(c.q, COMPARE) => ~Scheduled(d.q, COMPARE)
<1>1. SpecialCount(c.count) \in Int
  BY WordArithmetic, HalfAssumption DEF SpecialCount
<1>2. SPECIAL \in Types /\ COMPARE # SPECIAL
  BY TypesOfOwnEvents
<1> QED  BY <1>1, <1>2, AddProperties DEF AddSpecial

(* Putting the timer event back loses nothing, whatever Compare is.        *)
LEMMA AddCompareProperties ==
    ASSUME NEW c, CompareOut(c), NEW n \in Word
    PROVE  LET d == AddCompare(c, n)
           IN  /\ Fits(d)
               /\ Once(d.q, COMPARE)
               /\ Once(c.q, SPECIAL) => Once(d.q, SPECIAL)
               /\ d.compare = c.compare /\ d.count = c.count
<1> DEFINE ahead  == [c EXCEPT !.count = (@ + CountPerOp) % Modulus,
                               !.cycleCount = @ + CountPerOp]
           placed == AddInterruptEventCount(ahead, COMPARE, n)
           d == AddCompare(c, n)
<1>0. c \in Cp0 /\ Fits(c) /\ Len(c.q) < Capacity /\ ~Scheduled(c.q, COMPARE)
  BY DEF CompareOut, Fits
<1>1. (c.count + CountPerOp) % Modulus \in Word /\ c.cycleCount + CountPerOp \in Int
  <2>1. c.count \in Int /\ c.cycleCount \in Int
    BY <1>0 DEF Cp0, Word
  <2> QED  BY <2>1, WordArithmetic, RateAssumption
<1>2. ahead \in Cp0 /\ ahead.q = c.q /\ ahead.compare = c.compare
  BY <1>0, <1>1 DEF Cp0
<1>3. Fits(ahead)
  BY <1>0, <1>2 DEF Fits
<1>4. n \in Int /\ COMPARE \in Types /\ COMPARE # SPECIAL
  BY TypesOfOwnEvents DEF Word
<1> HIDE DEF ahead
<1>5. /\ Fits(placed) /\ placed.q # <<>>
      /\ placed.compare = c.compare
      /\ Once(placed.q, COMPARE)
      /\ Once(c.q, SPECIAL) => Once(placed.q, SPECIAL)
  <2>1. Len(ahead.q) < Capacity /\ ~Scheduled(ahead.q, COMPARE)
    BY <1>0, <1>2
  <2>2. Fits(placed) /\ placed.compare = ahead.compare
    BY <1>3, <1>4, AddProperties
  <2>3. placed.q # <<>> /\ Once(placed.q, COMPARE)
    BY <1>3, <1>4, <2>1, AddProperties
  <2>4. Once(ahead.q, SPECIAL) => Once(placed.q, SPECIAL)
    BY <1>3, <1>4, AddProperties
  <2> QED  BY <1>2, <2>2, <2>3, <2>4
<1>6. d = [placed EXCEPT !.count = c.count,
                         !.cycleCount = Signed(c.count - placed.q[1].count)]
  BY DEF AddCompare, ahead
<1> HIDE DEF placed, d
<1>7. c.count \in Word /\ Signed(c.count - placed.q[1].count) \in Int
  <2>1. placed.q[1] \in Events
    BY <1>5, LenProperties, ElementOfSeq DEF Fits, Cp0
  <2>2. c.count \in Word /\ placed.q[1].count \in Word
    BY <1>0, <2>1 DEF Cp0, Events
  <2>3. c.count - placed.q[1].count \in Int
    BY <2>2 DEF Word
  <2> QED  BY <2>2, <2>3, WordArithmetic
<1>8. /\ d \in Cp0 /\ d.q = placed.q
      /\ d.count = c.count /\ d.compare = placed.compare
  BY <1>5, <1>6, <1>7 DEF Fits, Cp0
<1>9. Fits(d)
  BY <1>5, <1>8 DEF Fits
<1> QED  BY <1>5, <1>8, <1>9 DEF d

(* Time passing does not touch the queue.                                  *)
LEMMA UpdateCountProperties ==
    ASSUME NEW c, Good(c), NEW n \in Nat
    PROVE  Good(UpdateCount(c, n)) /\ UpdateCount(c, n).q = c.q
<1> DEFINE d == UpdateCount(c, n)
<1>0. c \in Cp0
  BY DEF Good, Fits
<1>1. (c.count + n * CountPerOp) % Modulus \in Word /\ c.cycleCount + n * CountPerOp \in Int
  <2>1. c.count \in Int /\ c.cycleCount \in Int /\ n * CountPerOp \in Int
    BY <1>0, RateAssumption DEF Cp0, Word
  <2>2. c.count + n * CountPerOp \in Int
    BY <2>1
  <2> QED  BY <2>1, <2>2, WordArithmetic
<1>2. d \in Cp0 /\ d.q = c.q
  BY <1>0, <1>1 DEF UpdateCount, Cp0
<1> QED  BY <1>2 DEF Good, Fits

(* A CHECK_INT in front of the queue leaves the other events.              *)
LEMMA PushCheckProperties ==
    ASSUME NEW c, Good(c)
    PROVE  Good(PushCheck(c))
<1> DEFINE d == PushCheck(c)
           e == [type |-> CHECK, count |-> c.count]
           r == <<e>> \o c.q
<1>0. /\ c \in Cp0 /\ c.q \in Seq(Events) /\ Len(c.q) \in Nat
      /\ Len(c.q) <= Capacity /\ c.count \in Word
      /\ Once(c.q, COMPARE) /\ Once(c.q, SPECIAL)
  BY DEF Good, Fits, Cp0
<1>1. CASE Len(c.q) >= Capacity
  BY <1>1 DEF PushCheck
<1>2. CASE ~(Len(c.q) >= Capacity)
  <2>1. CHECK \in Types /\ CHECK # COMPARE /\ CHECK # SPECIAL
    BY DEF Types, OwnTypes, VI, COMPARE, CHECK, SPECIAL, HW2, NMI
  <2>2. e \in Events /\ e.type = CHECK
    BY <1>0, <2>1 DEF Events
  <2>3. Inserted(c.q, 1, e, r)
    <3> HIDE DEF e
    <3>1. <<e>> \in Seq(Events) /\ Len(<<e>>) = 1 /\ <<e>>[1] = e
      BY <2>2
    <3>2. /\ r \in Seq(Events) /\ Len(r) = 1 + Len(c.q)
          /\ \A j \in 1 .. 1 + Len(c.q) :
                r[j] = IF j <= 1 THEN <<e>>[j] ELSE c.q[j - 1]
      BY <1>0, <3>1, ConcatProperties
    <3>3. \A j \in 1 .. 1 + Len(c.q) : r[j] = IF j = 1 THEN e ELSE c.q[j - 1]
      BY <1>0, <3>1, <3>2
    <3> HIDE DEF r
    <3> QED  BY <1>0, <3>2, <3>3 DEF Inserted
  <2>4. d = [c EXCEPT !.q = r, !.nextInterrupt = c.count, !.cycleCount = 0]
    BY <1>2 DEF PushCheck
  <2>5. r \in Seq(Events) /\ Len(r) = Len(c.q) + 1
    BY <2>3 DEF Inserted
  <2>6. d \in Cp0 /\ d.q = r
    <3>1. r \in Seq(Events) /\ c \in Cp0 /\ c.count \in Word
      BY <1>0, <2>5
    <3>2. PICK z \in Int : z = 0
      OBVIOUS
    <3>3. d = [c EXCEPT !.q = r, !.nextInterrupt = c.count, !.cycleCount = z]
      BY <2>4, <3>2
    <3> HIDE DEF r, d
    <3> QED  BY <3>1, <3>3 DEF Cp0
  <2> HIDE DEF r, d, e
  <2>7. Fits(d)
    BY <1>0, <1>2, <2>5, <2>6, CapacityAssumption DEF Fits
  <2>8. PICK f \in Events : f.type = CHECK /\ Inserted(c.q, 1, f, d.q)
    BY <2>2, <2>3, <2>6
  <2>9. Once(d.q, COMPARE) /\ Once(d.q, SPECIAL)
    BY <1>0, <2>1, <2>8, InsertedTypes
  <2> QED  BY <2>7, <2>9 DEF Good, d
<1> QED  BY <1>1, <1>2

(* When the whole queue is moved to another value of Count, the wrap-around*)
(* event is back before the timer event is put back.                       *)
LEMMA TranslateFacts ==
    ASSUME NEW c, Good(c), NEW base \in Word
    PROVE  \E back : /\ CompareOut(back) /\ Once(back.q, SPECIAL)
                     /\ TranslateEventQueue(c, base) = AddCompare(back, c.compare)
<1> DEFINE kept0 == RemoveEvent(c, COMPARE)
           kept == RemoveEvent(kept0, SPECIAL)
           shifted == [i \in 1 .. Len(kept.q) |->
                         [kept.q[i] EXCEPT !.count = ((@ - c.count) + base) % Modulus]]
           moved == [kept EXCEPT !.q = shifted, !.count = base]
<1>0. /\ Fits(c) /\ c.compare \in Word /\ c.count \in Word
      /\ Len(c.q) \in Nat /\ Len(c.q) <= Capacity
      /\ Once(c.q, COMPARE) /\ Once(c.q, SPECIAL)
      /\ COMPARE # SPECIAL
  BY TypesOfOwnEvents DEF Good, Fits, Cp0
<1>1. /\ Fits(kept0) /\ Once(kept0.q, SPECIAL) /\ ~Scheduled(kept0.q, COMPARE)
      /\ Len(kept0.q) = Len(c.q) - 1
      /\ kept0.compare = c.compare
  BY <1>0, RemoveEventProperties
<1>2. /\ Fits(kept) /\ ~Scheduled(kept.q, SPECIAL) /\ ~Scheduled(kept.q, COMPARE)
      /\ Len(kept.q) = Len(kept0.q) - 1
      /\ kept.compare = c.compare
  <2> HIDE DEF kept0
  <2> QED  BY <1>1, RemoveEventProperties
<1> HIDE DEF kept, kept0
<1>3. kept \in Cp0 /\ kept.q \in Seq(Events) /\ Len(kept.q) \in Nat
  BY <1>2 DEF Fits, Cp0
<1>4. \A i \in 1 .. Len(kept.q) :
         shifted[i] \in Events /\ shifted[i].type = kept.q[i].type
  <2> SUFFICES ASSUME NEW i \in 1 .. Len(kept.q)
               PROVE  shifted[i] \in Events /\ shifted[i].type = kept.q[i].type
    OBVIOUS
  <2>1. kept.q[i] \in Events
    BY <1>3, ElementOfSeq
  <2>2. kept.q[i].count \in Int /\ c.count \in Int /\ base \in Int
    BY <1>0, <2>1 DEF Events, Word
  <2>3. (kept.q[i].count - c.count) + base \in Int
    BY <2>2
  <2>4. ((kept.q[i].count - c.count) + base) % Modulus \in Word
    BY <2>3, WordArithmetic
  <2>5. shifted[i] = [kept.q[i] EXCEPT
                        !.count = ((kept.q[i].count - c.count) + base) % Modulus]
    OBVIOUS
  <2> HIDE DEF shifted
  <2> QED  BY <2>1, <2>4, <2>5 DEF Events
<1>5. shifted \in Seq(Events) /\ Len(shifted) = Len(kept.q)
  <2>1. shifted \in [1 .. Len(kept.q) -> Events]
    <3>1. shifted = [i \in 1 .. Len(kept.q) |-> shifted[i]]
      OBVIOUS
    <3> HIDE DEF shifted
    <3> QED  BY <1>4, <3>1
  <2> HIDE DEF shifted
  <2> QED  BY <1>3, <2>1, LenProperties
<1> HIDE DEF shifted
<1>6. moved \in Cp0 /\ moved.q = shifted /\ moved.count = base /\ moved.compare = c.compare
  BY <1>2, <1>3, <1>5 DEF Cp0
<1>7. ~Scheduled(moved.q, SPECIAL) /\ ~Scheduled(moved.q, COMPARE)
  BY <1>2, <1>4, <1>5, <1>6 DEF Scheduled
<1>8. Fits(moved) /\ Len(moved.q) + 2 <= Capacity /\ Len(moved.q) \in Nat
  BY <1>0, <1>1, <1>2, <1>3, <1>5, <1>6, CapacityAssumption DEF Fits
<1>9. TranslateEventQueue(c, base) = AddCompare(AddSpecial(moved), c.compare)
  BY DEF TranslateEventQueue, moved, shifted, kept, kept0
<1> HIDE DEF moved
<1> DEFINE back == AddSpecial(moved)
<1>10. /\ Fits(back) /\ Once(back.q, SPECIAL) /\ ~Scheduled(back.q, COMPARE)
       /\ Len(back.q) = Len(moved.q) + 1
  BY <1>7, <1>8, CapacityAssumption, AddSpecialProperties
<1> HIDE DEF back
<1>11. CompareOut(back)
  BY <1>8, <1>10, CapacityAssumption DEF CompareOut
<1> QED  BY <1>9, <1>10, <1>11 DEF back

(* Moving the whole queue keeps both events.                               *)
LEMMA TranslateProperties ==
    ASSUME NEW c, Good(c), NEW base \in Word
    PROVE  Good(TranslateEventQueue(c, base))
<1>1. PICK back : /\ CompareOut(back) /\ Once(back.q, SPECIAL)
                  /\ TranslateEventQueue(c, base) = AddCompare(back, c.compare)
  BY TranslateFacts
<1>2. c.compare \in Word
  BY DEF Good, Fits, Cp0
<1> QED  BY <1>1, <1>2, AddCompareProperties DEF Good

(* init_interrupt leaves a queue of the two events, whatever was there.    *)
LEMMA InitInterruptProperties ==
    ASSUME NEW c \in Cp0
    PROVE  Good(InitInterrupt(c)) /\ InitInterrupt(c).count = c.count
<1> DEFINE empty == [c EXCEPT !.q = <<>>]
           one == AddInterruptEventCount(empty, SPECIAL, Half)
           two == AddInterruptEventCount(one, COMPARE, 0)
<1>1. <<>> \in Seq(Events) /\ Len(<<>>) = 0
  OBVIOUS
<1>2. empty \in Cp0 /\ empty.q = <<>> /\ empty.count = c.count
  BY <1>1 DEF Cp0
<1>3. Fits(empty) /\ Len(empty.q) < Capacity
  BY <1>1, <1>2, CapacityAssumption DEF Fits
<1>4. ~Scheduled(empty.q, SPECIAL) /\ ~Scheduled(empty.q, COMPARE)
  BY <1>1, <1>2 DEF Scheduled
<1>5. /\ SPECIAL \in Types /\ COMPARE \in Types /\ COMPARE # SPECIAL
      /\ Half \in Int /\ 0 \in Int
  BY TypesOfOwnEvents, HalfAssumption
<1> HIDE DEF empty
<1>6. /\ Fits(one) /\ Once(one.q, SPECIAL) /\ one.count = c.count
      /\ Len(one.q) = Len(empty.q) + 1
      /\ ~Scheduled(one.q, COMPARE)
  <2>1. Fits(one) /\ one.count = c.count
    BY <1>2, <1>3, <1>5, AddProperties
  <2>2. Once(one.q, SPECIAL) /\ Len(one.q) = Len(empty.q) + 1
    BY <1>3, <1>4, <1>5, AddProperties
  <2>3. ~Scheduled(one.q, COMPARE)
    BY <1>3, <1>4, <1>5, AddProperties
  <2> QED  BY <2>1, <2>2, <2>3
<1>7. Len(one.q) < Capacity
  BY <1>1, <1>2, <1>6, CapacityAssumption
<1> HIDE DEF one
<1>8. Fits(two) /\ Once(two.q, COMPARE) /\ Once(two.q, SPECIAL) /\ two.count = c.count
  <2>1. Fits(two) /\ two.count = c.count
    BY <1>5, <1>6, AddProperties
  <2>2. Once(two.q, COMPARE)
    BY <1>5, <1>6, <1>7, AddProperties
  <2>3. Once(two.q, SPECIAL)
    BY <1>5, <1>6, AddProperties
  <2> QED  BY <2>1, <2>2, <2>3
<1>9. InitInterrupt(c) = two
  BY DEF InitInterrupt, one, empty
<1> QED  BY <1>8, <1>9 DEF Good

LEMMA PowerOnProperties == Good(PowerOn)
<1> DEFINE c == [count |-> PowerOnCount, compare |-> 0, cycleCount |-> 0,
                 nextInterrupt |-> 0, q |-> <<>>]
<1>1. <<>> \in Seq(Events) /\ 0 \in Int /\ 0 \in Word /\ PowerOnCount \in Word
  BY WordArithmetic, PowerOnAssumption, HalfAssumption DEF Word, Modulus
<1>2. c \in Cp0
  BY <1>1 DEF Cp0
<1> HIDE DEF c
<1>3. Good(InitInterrupt(c))
  BY <1>2, InitInterruptProperties
<1> QED  BY <1>3 DEF PowerOn, c

(* The inductive invariant: TypeOK alone is not one, since a queue without *)
(* its two permanent events may be emptied by the next handler.            *)
IInv == Good(cp0) /\ since \in 0 .. BlockLength

LEMMA CheckedIsGood ==
    ASSUME NEW c, Good(c)
    PROVE  /\ c \in Cp0 /\ c.count \in Int /\ Fits(c)
           /\ c.q # <<>> /\ c.q[1] \in Events
           /\ c.q[1].type \in Types /\ c.q[1].count \in Int
           /\ c.compare \in Word /\ c.cycleCount \in Int
<1>1. c \in Cp0 /\ Fits(c) /\ c.q \in Seq(Events) /\ c.compare \in Word
      /\ c.count \in Int /\ c.cycleCount \in Int
  BY DEF Good, Fits, Cp0, Word
<1>2. c.q # <<>>
  BY SomethingScheduled DEF Good
<1>3. c.q[1] \in Events
  BY <1>1, <1>2, LenProperties, EmptySeq, ElementOfSeq
<1> QED  BY <1>1, <1>2, <1>3 DEF Events, Word

(* An event of another type never costs the machine its two events.        *)
LEMMA AddKeepsGood ==
    ASSUME NEW c, Good(c), NEW t \in Types, t # COMPARE, t # SPECIAL, NEW n \in Int
    PROVE  /\ Good(AddInterruptEventCount(c, t, n))
           /\ AddInterruptEventCount(c, t, n).count = c.count
           /\ \/ AddInterruptEventCount(c, t, n).q[1] = c.q[1]
              \/ AddInterruptEventCount(c, t, n).q[1].type = t
<1>0. Fits(c) /\ Once(c.q, COMPARE) /\ Once(c.q, SPECIAL) /\ c.q # <<>>
  BY CheckedIsGood DEF Good
<1>1. Fits(AddInterruptEventCount(c, t, n))
  BY <1>0, AddProperties
<1>2. /\ Once(AddInterruptEventCount(c, t, n).q, COMPARE)
      /\ Once(AddInterruptEventCount(c, t, n).q, SPECIAL)
  <2>1. \A u : u # t /\ Once(c.q, u) => Once(AddInterruptEventCount(c, t, n).q, u)
    BY <1>0, AddProperties
  <2> QED  BY <1>0, <2>1
<1>3. /\ AddInterruptEventCount(c, t, n).count = c.count
      /\ \/ AddInterruptEventCount(c, t, n).q[1] = c.q[1]
         \/ AddInterruptEventCount(c, t, n).q[1].type = t
  BY <1>0, AddProperties
<1> QED  BY <1>1, <1>2, <1>3 DEF Good

LEMMA AddDelayKeepsGood ==
    ASSUME NEW c, Good(c), NEW t \in Types, t # COMPARE, t # SPECIAL, NEW n \in Nat
    PROVE  /\ Good(AddInterruptEvent(c, t, n))
           /\ \/ AddInterruptEvent(c, t, n).q[1] = c.q[1]
              \/ AddInterruptEvent(c, t, n).q[1].type = t
<1>1. c.count + n \in Int
  BY CheckedIsGood
<1> QED  BY <1>1, AddKeepsGood DEF AddInterruptEvent

LEMMA RemoveKeepsGood ==
    ASSUME NEW c, Good(c), c.q[1].type # COMPARE, c.q[1].type # SPECIAL
    PROVE  /\ Good(RemoveInterruptEvent(c))
           /\ RemoveInterruptEvent(c).count = c.count
<1>0. Fits(c) /\ Once(c.q, COMPARE) /\ Once(c.q, SPECIAL) /\ c.q # <<>>
  BY CheckedIsGood DEF Good
<1> QED  BY <1>0, RemoveInterruptProperties DEF Good

-----------------------------------------------------------------------------
(* The handlers.                                                           *)
LEMMA SoftResetKeepsGood ==
    ASSUME NEW c, Good(c), c.q[1].type = VI
    PROVE  /\ Good(SoftReset(c))
           /\ SoftReset(c).q[1].type # COMPARE /\ SoftReset(c).q[1].type # SPECIAL
<1>1. /\ VI \in Types /\ HW2 \in Types /\ NMI \in Types
      /\ VI # COMPARE /\ VI # SPECIAL /\ HW2 # COMPARE /\ HW2 # SPECIAL
      /\ NMI # COMPARE /\ NMI # SPECIAL
  BY DEF Types, OwnTypes, VI, COMPARE, CHECK, SPECIAL, HW2, NMI
<1>2. c.q[1].count + ViDelay \in Int /\ NmiDelay \in Nat /\ 0 \in Nat
  BY CheckedIsGood, DelayAssumption
<1> DEFINE half == AddInterruptEvent(c, HW2, 0)
<1>3. /\ Good(half)
      /\ half.q[1].type # COMPARE /\ half.q[1].type # SPECIAL
  BY <1>1, <1>2, AddDelayKeepsGood
<1> HIDE DEF half
<1>4. /\ Good(AddInterruptEvent(half, NMI, NmiDelay))
      /\ AddInterruptEvent(half, NMI, NmiDelay).q[1].type # COMPARE
      /\ AddInterruptEvent(half, NMI, NmiDelay).q[1].type # SPECIAL
  BY <1>1, <1>2, <1>3, AddDelayKeepsGood
<1>5. /\ Good(SoftReset(c))
      /\ SoftReset(c).q[1].type # COMPARE /\ SoftReset(c).q[1].type # SPECIAL
  BY <1>4 DEF SoftReset, half
<1> QED  BY <1>5

LEMMA ViHandlerKeepsGood ==
    ASSUME NEW c, Good(c), c.q[1].type = VI, NEW d \in ViHandler(c)
    PROVE  Good(d)
<1>1. VI \in Types /\ VI # COMPARE /\ VI # SPECIAL
  BY DEF Types, OwnTypes, VI, COMPARE, SPECIAL
<1>2. c.q[1].count + ViDelay \in Int
  BY CheckedIsGood, DelayAssumption
<1>3. PICK r \in {c, SoftReset(c)} :
         d = AddInterruptEventCount(RemoveInterruptEvent(r), VI, c.q[1].count + ViDelay)
  BY DEF ViHandler
<1>4. Good(r) /\ r.q[1].type # COMPARE /\ r.q[1].type # SPECIAL
  BY <1>1, <1>3, SoftResetKeepsGood
<1>5. Good(RemoveInterruptEvent(r))
  BY <1>4, RemoveKeepsGood
<1> QED  BY <1>1, <1>2, <1>3, <1>5, AddKeepsGood

LEMMA CompareHandlerKeepsGood ==
    ASSUME NEW c, Good(c), c.q[1].type = COMPARE
    PROVE  Good(CompareHandler(c))
<1> DEFINE r == RemoveInterruptEvent(c)
<1>0. /\ Fits(c) /\ Once(c.q, COMPARE) /\ Once(c.q, SPECIAL) /\ c.q # <<>>
      /\ c.compare \in Word /\ COMPARE # SPECIAL
  BY CheckedIsGood, TypesOfOwnEvents DEF Good
<1>1. /\ Fits(r) /\ Len(r.q) < Capacity /\ ~Scheduled(r.q, COMPARE)
      /\ Once(r.q, SPECIAL)
  BY <1>0, RemoveInterruptProperties
<1> HIDE DEF r
<1>2. Good(AddCompare(r, c.compare))
  BY <1>0, <1>1, AddCompareProperties DEF CompareOut, Good
<1> QED  BY <1>2 DEF CompareHandler, r

LEMMA SpecialHandlerKeepsGood ==
    ASSUME NEW c, Good(c), c.q[1].type = SPECIAL
    PROVE  Good(SpecialHandler(c))
<1> DEFINE r == RemoveInterruptEvent(c)
<1>0. /\ Fits(c) /\ Once(c.q, COMPARE) /\ Once(c.q, SPECIAL) /\ c.q # <<>>
      /\ COMPARE # SPECIAL
  BY CheckedIsGood, TypesOfOwnEvents DEF Good
<1>1. /\ Fits(r) /\ Len(r.q) < Capacity /\ ~Scheduled(r.q, SPECIAL)
      /\ Once(r.q, COMPARE)
  BY <1>0, RemoveInterruptProperties
<1> HIDE DEF r
<1>2. Good(AddSpecial(r))
  BY <1>1, AddSpecialProperties DEF Good
<1> QED  BY <1>2 DEF SpecialHandler, r

LEMMA NmiHandlerKeepsGood ==
    ASSUME NEW c, Good(c)
    PROVE  Good(NmiHandler(c))
<1> DEFINE r == RemoveInterruptEvent(c)
           z == [r EXCEPT !.count = 0]
           i == InitInterrupt(z)
<1>1. r \in Cp0
  BY CheckedIsGood, RemoveInterruptProperties DEF Fits
<1>2. z \in Cp0
  <2> HIDE DEF r
  <2> QED  BY <1>1, WordArithmetic DEF Cp0
<1> HIDE DEF z
<1>3. Good(i)
  BY <1>2, InitInterruptProperties
<1> HIDE DEF i
<1>4. VI \in Types /\ VI # COMPARE /\ VI # SPECIAL /\ ViDelay \in Nat
  BY DelayAssumption DEF Types, OwnTypes, VI, COMPARE, CHECK, SPECIAL, HW2, NMI
<1>5. Good(AddInterruptEvent(i, VI, ViDelay))
  BY <1>3, <1>4, AddDelayKeepsGood
<1> QED  BY <1>5 DEF NmiHandler, i, z

LEMMA DeviceHandlerKeepsGood ==
    ASSUME NEW c, Good(c), c.q[1].type \in Devices, NEW d \in DeviceHandler(c)
    PROVE  Good(d)
<1> DEFINE r == RemoveInterruptEvent(c)
           t == c.q[1].type
<1>1. t \in Types /\ t # COMPARE /\ t # SPECIAL
  BY TypesOfOwnEvents
<1>2. Good(r)
  BY <1>1, RemoveKeepsGood
<1>3. d = r \/ \E n \in Delays : d = AddInterruptEvent(r, t, n)
  BY DEF DeviceHandler
<1> HIDE DEF r, t
<1> QED  BY <1>1, <1>2, <1>3, AddDelayKeepsGood, DelayAssumption

(* Whatever gen_interrupt handles, both events are there afterwards.       *)
LEMMA GenInterruptKeepsGood ==
    ASSUME NEW c, Good(c), NEW d \in GenInterruptIfDue(c)
    PROVE  Good(d)
<1> DEFINE t == c.q[1].type
<1>1. t \in Types
  BY CheckedIsGood
<1>2. CASE ~(c.cycleCount >= 0)
  BY <1>2 DEF GenInterruptIfDue
<1>3. CASE c.cycleCount >= 0
  <2>0. d \in GenInterrupt(c)
    BY <1>3 DEF GenInterruptIfDue
  <2>1. CASE t = VI
    <3>1. d \in ViHandler(c)
      BY <2>0, <2>1 DEF GenInterrupt, VI, COMPARE, CHECK, SPECIAL, HW2, NMI
    <3> QED  BY <2>1, <3>1, ViHandlerKeepsGood
  <2>2. CASE t = COMPARE
    <3>1. d = CompareHandler(c)
      BY <2>0, <2>2 DEF GenInterrupt, VI, COMPARE, CHECK, SPECIAL, HW2, NMI
    <3> QED  BY <2>2, <3>1, CompareHandlerKeepsGood
  <2>3. CASE t \in {CHECK, HW2}
    <3>1. d = RemoveInterruptEvent(c)
      BY <2>0, <2>3 DEF GenInterrupt, VI, COMPARE, CHECK, SPECIAL, HW2, NMI
    <3>2. t # COMPARE /\ t # SPECIAL
      BY <2>3 DEF COMPARE, CHECK, SPECIAL, HW2
    <3> QED  BY <3>1, <3>2, RemoveKeepsGood
  <2>4. CASE t = SPECIAL
    <3>1. d = SpecialHandler(c)
      BY <2>0, <2>4 DEF GenInterrupt, VI, COMPARE, CHECK, SPECIAL, HW2, NMI
    <3> QED  BY <2>4, <3>1, SpecialHandlerKeepsGood
  <2>5. CASE t = NMI
    <3>1. d = NmiHandler(c)
      BY <2>0, <2>5 DEF GenInterrupt, VI, COMPARE, CHECK, SPECIAL, HW2, NMI
    <3> QED  BY <3>1, NmiHandlerKeepsGood
  <2>6. CASE t \notin OwnTypes
    <3>1. d \in DeviceHandler(c)
      BY <2>0, <2>6 DEF GenInterrupt, OwnTypes, VI, COMPARE, CHECK, SPECIAL, HW2, NMI
    <3>2. t \in Devices
      BY <1>1, <2>6 DEF Types
    <3> QED  BY <3>1, <3>2, DeviceHandlerKeepsGood
  <2> QED  BY <2>1, <2>2, <2>3, <2>4, <2>5, <2>6 DEF OwnTypes
<1> QED  BY <1>2, <1>3

(* A jump to itself moves Count to the first event.                        *)
LEMMA IdleIsGood ==
    ASSUME NEW now, Good(now)
    PROVE  Good([now EXCEPT !.count = (@ - now.cycleCount) % Modulus, !.cycleCount = 0])
<1> DEFINE d == [now EXCEPT !.count = (@ - now.cycleCount) % Modulus, !.cycleCount = 0]
<1>1. now.count - now.cycleCount \in Int /\ now \in Cp0
  BY CheckedIsGood
<1>2. PICK z \in Int : z = 0
  OBVIOUS
<1>3. (now.count - now.cycleCount) % Modulus \in Word
  BY <1>1, WordArithmetic
<1>4. d = [now EXCEPT !.count = (now.count - now.cycleCount) % Modulus, !.cycleCount = z]
  BY <1>2
<1> HIDE DEF d
<1>5. d \in Cp0 /\ d.q = now.q
  BY <1>1, <1>3, <1>4 DEF Cp0
<1>6. Good(d)
  BY <1>5 DEF Good, Fits
<1> QED  BY <1>6 DEF d

-----------------------------------------------------------------------------
(* The inductive step, one case per action.                                *)
LEMMA InductiveStep == IInv /\ [Next]_vars => IInv'
<1> SUFFICES ASSUME IInv, [Next]_vars  PROVE IInv'
  OBVIOUS
<1>0. Good(cp0) /\ since \in 0 .. BlockLength /\ BlockLength \in Nat \ {0}
  BY BlockAssumption DEF IInv
<1>1. \A n \in 1 .. BlockLength : Good(UpdateCount(cp0, n))
  BY <1>0, UpdateCountProperties
<1>2. \A n \in 1 .. BlockLength : InBlock(n) => since' \in 0 .. BlockLength
  BY <1>0 DEF InBlock
<1>3. ASSUME NEW n \in 1 .. BlockLength, ReadCount(n)  PROVE IInv'
  BY <1>1, <1>2, <1>3 DEF ReadCount, IInv
<1>4. ASSUME NEW n \in 1 .. BlockLength, NEW value \in Values, WriteCompare(n, value)
      PROVE  IInv'
  <2> DEFINE now == UpdateCount(cp0, n)
             c == RemoveEvent(now, COMPARE)
             d == AddCompare(c, value)
  <2>1. Good(now) /\ value \in Word
    BY <1>1, ValuesAssumption DEF Word, Modulus
  <2> HIDE DEF now
  <2>2. /\ Fits(now) /\ Once(now.q, COMPARE) /\ Once(now.q, SPECIAL)
        /\ COMPARE # SPECIAL /\ Len(now.q) \in Nat /\ Len(now.q) <= Capacity
    BY <2>1, TypesOfOwnEvents DEF Good, Fits, Cp0
  <2>3. /\ Fits(c) /\ ~Scheduled(c.q, COMPARE) /\ Once(c.q, SPECIAL)
        /\ Len(c.q) = Len(now.q) - 1
    BY <2>2, RemoveEventProperties
  <2>4. CompareOut(c)
    BY <2>2, <2>3, CapacityAssumption DEF CompareOut
  <2> HIDE DEF c
  <2>5. Good(d)
    BY <2>1, <2>3, <2>4, AddCompareProperties DEF Good
  <2>6. cp0' = [d EXCEPT !.compare = value]
    BY <1>4 DEF WriteCompare, c, now
  <2> HIDE DEF d
  <2>7. cp0' \in Cp0 /\ cp0'.q = d.q
    BY <2>1, <2>5, <2>6 DEF Good, Fits, Cp0
  <2>8. Good(cp0)'
    BY <2>5, <2>7 DEF Good, Fits
  <2> QED  BY <1>2, <1>4, <2>8 DEF IInv, WriteCompare
<1>5. ASSUME NEW n \in 1 .. BlockLength, NEW value \in Values, WriteCount(n, value)
      PROVE  IInv'
  <2>1. PICK c \in GenInterruptIfDue(UpdateCount(cp0, n)) :
            cp0' = TranslateEventQueue(c, value)
    BY <1>5 DEF WriteCount
  <2>2. Good(c)
    BY <1>1, <2>1, GenInterruptKeepsGood
  <2>3. value \in Word
    BY ValuesAssumption DEF Word, Modulus
  <2> QED  BY <1>2, <1>5, <2>1, <2>2, <2>3, TranslateProperties DEF IInv, WriteCount
<1>6. ASSUME NEW n \in 1 .. BlockLength, NEW t, NEW delay, Schedule(n, t, delay),
             t \in Types, t # COMPARE, t # SPECIAL, delay \in Nat
      PROVE  IInv'
  BY <1>1, <1>2, <1>6, AddDelayKeepsGood DEF Schedule, IInv
<1>7. ASSUME NEW n \in 1 .. BlockLength, WriteStatus(n)  PROVE IInv'
  <2>1. PICK checked \in {UpdateCount(cp0, n), PushCheck(UpdateCount(cp0, n))} :
            cp0' \in GenInterruptIfDue(checked)
    BY <1>7 DEF WriteStatus
  <2>2. Good(checked)
    BY <1>1, <2>1, PushCheckProperties
  <2> QED  BY <1>2, <1>7, <2>1, <2>2, GenInterruptKeepsGood DEF IInv, WriteStatus
<1>8. ASSUME NEW n \in 1 .. BlockLength, WriteMask(n)  PROVE IInv'
  <2>1. PICK checked \in {cp0, PushCheck(cp0)} :
            cp0' \in GenInterruptIfDue(UpdateCount(checked, n))
    BY <1>8 DEF WriteMask
  <2>2. Good(checked)
    BY <1>0, <2>1, PushCheckProperties
  <2>3. Good(UpdateCount(checked, n))
    BY <2>2, UpdateCountProperties
  <2> QED  BY <1>2, <1>8, <2>1, <2>3, GenInterruptKeepsGood DEF IInv, WriteMask
<1>9. ASSUME NEW n \in 1 .. BlockLength, Jump(n)  PROVE IInv'
  BY <1>0, <1>1, <1>9, GenInterruptKeepsGood DEF Jump, IInv
<1>10. ASSUME Signal  PROVE IInv'
  BY <1>0, <1>10, PushCheckProperties DEF Signal, IInv
<1>11. ASSUME IdleJump  PROVE IInv'
  <2> DEFINE now == UpdateCount(cp0, 1)
             skipped == [now EXCEPT !.count = (@ - now.cycleCount) % Modulus,
                                    !.cycleCount = 0]
             idle == IF now.cycleCount < 0 THEN skipped ELSE now
  <2>1. Good(now)
    BY <1>0, <1>1
  <2>2. cp0' \in GenInterruptIfDue(idle) /\ since' = 0
    BY <1>11 DEF IdleJump
  <2> HIDE DEF now
  <2>3. Good(skipped)
    BY <2>1, IdleIsGood
  <2> HIDE DEF skipped
  <2>4. Good(idle)
    BY <2>1, <2>3
  <2> HIDE DEF idle
  <2> QED  BY <1>0, <2>2, <2>4, GenInterruptKeepsGood DEF IInv
<1>12. ASSUME NEW n \in 1 .. BlockLength, HardReset(n)  PROVE IInv'
  BY <1>0, <1>12, PowerOnProperties DEF HardReset, IInv
<1>13. ASSUME UNCHANGED vars  PROVE IInv'
  BY <1>13 DEF IInv, vars
<1>14. ASSUME NEW n \in 1 .. BlockLength, Schedule(n, VI, ViDelay)  PROVE IInv'
  <2>1. VI \in Types /\ VI # COMPARE /\ VI # SPECIAL /\ ViDelay \in Nat
    BY DelayAssumption DEF Types, OwnTypes, VI, COMPARE, SPECIAL
  <2> QED  BY <1>6, <1>14, <2>1
<1>15. ASSUME NEW n \in 1 .. BlockLength, NEW t \in Devices, NEW delay \in Delays,
              Schedule(n, t, delay)
       PROVE  IInv'
  <2>1. t \in Types /\ t # COMPARE /\ t # SPECIAL /\ delay \in Nat
    BY TypesOfOwnEvents, DelayAssumption
  <2> QED  BY <1>6, <1>15, <2>1
<1> QED  BY <1>3, <1>4, <1>5, <1>7, <1>8, <1>9, <1>10, <1>11, <1>12, <1>13, <1>14,
            <1>15 DEF Next, Step

LEMMA IInvHolds == Spec => []IInv
<1>1. Init => IInv
  BY PowerOnProperties, BlockAssumption DEF Init, IInv
<1> QED  BY <1>1, InductiveStep, PTL DEF Spec

(* Every reachable state is one the code's types and the pool allow.       *)
THEOREM TypeCorrect == Spec => []TypeOK
<1>1. IInv => TypeOK
  BY DEF IInv, Good, Fits, TypeOK
<1> QED  BY <1>1, IInvHolds, PTL

(* No behaviour loses or doubles the timer event or the wrap-around event, *)
(* whatever fills the pool and however resets and writes interleave.       *)
THEOREM TimerAndWrapStay == Spec => []TimerAndWrapScheduled
<1>1. IInv => TimerAndWrapScheduled
  BY DEF IInv, Good, TimerAndWrapScheduled
<1> QED  BY <1>1, IInvHolds, PTL

-----------------------------------------------------------------------------
(* The copies: next_interrupt and cycle_count.                             *)

(* The same word, when cut to the width of the counter.                    *)
Same(a, b) == \E k \in Int : a - b = k * Modulus

Cached(c) ==
    /\ c.q # <<>>
    /\ c.nextInterrupt = c.q[1].count
    /\ Same(c.cycleCount, c.count - c.q[1].count)

LEMMA SameIsZero ==
    ASSUME NEW a \in Int, NEW b \in Int, Same(a, b) PROVE (a - b) % Modulus = 0
BY WordArithmetic DEF Same

LEMMA SameModulo ==
    ASSUME NEW a \in Int
    PROVE  Same(a % Modulus, a) /\ Same(a, a % Modulus) /\ Same(Signed(a), a) /\ Same(a, a)
<1>0. Modulus \in Nat \ {0}
  BY WordArithmetic
<1> DEFINE k == a \div Modulus
           m == a % Modulus
<1>1. m = a - Modulus * k /\ k \in Int /\ m \in Int
  <2>1. a % Modulus = a - Modulus * (a \div Modulus)
    BY <1>0
  <2>2. a \div Modulus \in Int /\ a % Modulus \in Int
    BY <1>0
  <2> QED
    BY <2>1, <2>2
<1>2. Signed(a) \in {m, m - Modulus}
  BY DEF Signed
<1> HIDE DEF k, m
<1>3. /\ m - a = (-k) * Modulus /\ a - m = k * Modulus /\ a - a = 0 * Modulus
      /\ (m - Modulus) - a = (-k - 1) * Modulus /\ -k \in Int /\ -k - 1 \in Int
  BY <1>0, <1>1
<1>4. Same(m, a) /\ Same(a, m) /\ Same(a, a) /\ Same(m - Modulus, a)
  BY <1>1, <1>3 DEF Same
<1> QED
  BY <1>2, <1>4 DEF m

LEMMA SameSum ==
    ASSUME NEW a \in Int, NEW b \in Int, NEW c \in Int, NEW d \in Int,
           Same(a, b), Same(c, d)
    PROVE  Same(a + c, b + d) /\ Same(a - c, b - d)
<1>0. Modulus \in Nat \ {0}
  BY WordArithmetic
<1>1. PICK k \in Int : a - b = k * Modulus
  BY DEF Same
<1>2. PICK l \in Int : c - d = l * Modulus
  BY DEF Same
<1>3. (a + c) - (b + d) = (k + l) * Modulus /\ (a - c) - (b - d) = (k - l) * Modulus
      /\ k + l \in Int /\ k - l \in Int
  BY <1>0, <1>1, <1>2
<1> QED
  BY <1>3 DEF Same

LEMMA SameTransitive ==
    ASSUME NEW a \in Int, NEW b \in Int, NEW c \in Int, Same(a, b), Same(b, c)
    PROVE  Same(a, c)
<1>1. PICK k \in Int : a - b = k * Modulus
  BY DEF Same
<1>2. PICK l \in Int : b - c = l * Modulus
  BY DEF Same
<1>3. a - c = (k + l) * Modulus /\ k + l \in Int
  BY <1>1, <1>2, WordArithmetic
<1> QED
  BY <1>3 DEF Same

LEMMA HeadIsWord ==
    ASSUME NEW c \in Cp0, c.q # <<>>
    PROVE  c.q[1].count \in Word /\ c.q[1].count \in Int /\ c.count \in Int
<1>1. c.q \in Seq(Events) /\ c.count \in Int
  BY DEF Cp0, Word
<1>2. c.q[1] \in Events
  BY <1>1, LenProperties, EmptySeq, ElementOfSeq
<1> QED
  BY <1>1, <1>2 DEF Events, Word

(* A queue that is taken over is a queue whose head is copied.             *)
LEMMA WithQueueIsCached ==
    ASSUME NEW c \in Cp0, NEW r \in Seq(Events), r # <<>>
    PROVE  Cached(WithQueue(c, r))
<1> DEFINE d == WithQueue(c, r)
<1>1. d \in Cp0 /\ d.q = r /\ d.count = c.count
  BY WithQueueType
<1>2. d.nextInterrupt = r[1].count /\ d.cycleCount = Signed(c.count - r[1].count)
  BY DEF WithQueue, Cp0
<1> HIDE DEF d
<1>3. d.count - d.q[1].count \in Int
  BY <1>1, HeadIsWord
<1> QED
  BY <1>1, <1>2, <1>3, SameModulo DEF Cached, d

LEMMA AddIsCached ==
    ASSUME NEW c, Fits(c), NEW t \in Types, NEW n \in Int,
           Cached(c) \/ Len(c.q) < Capacity
    PROVE  Cached(AddInterruptEventCount(c, t, n))
<1> DEFINE d == AddInterruptEventCount(c, t, n)
           r == InsertAt(c.q, Place(c, n % Modulus), [type |-> t, count |-> n % Modulus])
<1>0. c \in Cp0 /\ Len(c.q) \in Nat
  BY DEF Fits, Cp0
<1>1. CASE Len(c.q) >= Capacity
  BY <1>0, <1>1, CapacityAssumption DEF AddInterruptEventCount
<1>2. CASE Len(c.q) < Capacity
  <2>1. d = WithQueue(c, r)
    BY <1>0, <1>2, CapacityAssumption DEF AddInterruptEventCount
  <2>2. Fits(d) /\ d.q # <<>>
    BY <1>2, AddProperties
  <2> HIDE DEF d, r
  <2>3. d.q = r
    BY <1>0, <2>1 DEF WithQueue, Cp0
  <2>4. r \in Seq(Events) /\ r # <<>>
    BY <2>2, <2>3 DEF Fits, Cp0
  <2>5. Cached(d)
    BY <1>0, <2>1, <2>4, WithQueueIsCached
  <2> QED
    BY <2>5 DEF d
<1> QED
  BY <1>0, <1>1, <1>2, CapacityAssumption

LEMMA AddDelayIsCached ==
    ASSUME NEW c, Good(c), Cached(c), NEW t \in Types, NEW n \in Nat
    PROVE  Cached(AddInterruptEvent(c, t, n))
<1>1. c.count + n \in Int /\ Fits(c)
  BY CheckedIsGood
<1> QED
  BY <1>1, AddIsCached DEF AddInterruptEvent

(* One of the two permanent events is left when the first is taken out.    *)
LEMMA RemoveIsCached ==
    ASSUME NEW c, Good(c) PROVE Cached(RemoveInterruptEvent(c))
<1> DEFINE d == RemoveInterruptEvent(c)
<1>1. c \in Cp0 /\ Fits(c) /\ c.q # <<>> /\ Once(c.q, COMPARE) /\ Once(c.q, SPECIAL)
      /\ COMPARE # SPECIAL
  BY CheckedIsGood, TypesOfOwnEvents DEF Good
<1>2. Fits(d) /\ (Once(d.q, COMPARE) \/ Once(d.q, SPECIAL))
  BY <1>1, RemoveInterruptProperties
<1>3. d = WithQueue(c, Tail(c.q)) /\ d.q = Tail(c.q)
  BY <1>1 DEF RemoveInterruptEvent, WithQueue, Cp0
<1> HIDE DEF d
<1>4. d.q # <<>> /\ d.q \in Seq(Events)
  BY <1>2, SomethingScheduled DEF Fits, Cp0
<1>5. Cached(d)
  BY <1>1, <1>3, <1>4, WithQueueIsCached
<1> QED
  BY <1>5 DEF d

(* remove_event leaves stale copies; what follows it always redoes them.   *)
LEMMA AddCompareIsCached ==
    ASSUME NEW c, CompareOut(c), NEW n \in Word PROVE Cached(AddCompare(c, n))
<1> DEFINE ahead  == [c EXCEPT !.count = (@ + CountPerOp) % Modulus,
                               !.cycleCount = @ + CountPerOp]
           placed == AddInterruptEventCount(ahead, COMPARE, n)
           d == AddCompare(c, n)
<1>0. c \in Cp0 /\ Fits(c) /\ Len(c.q) < Capacity
  BY DEF CompareOut, Fits
<1>1. (c.count + CountPerOp) % Modulus \in Word /\ c.cycleCount + CountPerOp \in Int
  <2>1. c.count \in Int /\ c.cycleCount \in Int
    BY <1>0 DEF Cp0, Word
  <2> QED
    BY <2>1, WordArithmetic, RateAssumption
<1>2. Fits(ahead) /\ ahead.q = c.q
  BY <1>0, <1>1 DEF Cp0, Fits
<1>3. n \in Int /\ COMPARE \in Types
  BY TypesOfOwnEvents DEF Word
<1> HIDE DEF ahead
<1>4. Fits(placed) /\ Cached(placed)
  BY <1>0, <1>2, <1>3, AddProperties, AddIsCached
<1>5. d = [placed EXCEPT !.count = c.count,
                         !.cycleCount = Signed(c.count - placed.q[1].count)]
  BY DEF AddCompare, ahead
<1> HIDE DEF placed, d
<1>6. placed \in Cp0 /\ placed.q # <<>> /\ placed.nextInterrupt = placed.q[1].count
  BY <1>4 DEF Fits, Cached
<1>7. /\ d.q = placed.q /\ d.nextInterrupt = placed.nextInterrupt /\ d.count = c.count
      /\ d.cycleCount = Signed(c.count - placed.q[1].count)
  BY <1>5, <1>6 DEF Cp0
<1>8. c.count - placed.q[1].count \in Int
  BY <1>0, <1>6, HeadIsWord DEF Cp0, Word
<1> QED
  BY <1>6, <1>7, <1>8, SameModulo DEF Cached, d

LEMMA UpdateCountIsCached ==
    ASSUME NEW c, Good(c), Cached(c), NEW n \in Nat PROVE Cached(UpdateCount(c, n))
<1> DEFINE d == UpdateCount(c, n)
           p == n * CountPerOp
<1>0. c \in Cp0 /\ c.q # <<>> /\ c.cycleCount \in Int /\ c.count \in Int
      /\ c.q[1].count \in Int
  BY CheckedIsGood
<1>1. p \in Int
  BY RateAssumption
<1>2. d.q = c.q /\ d.nextInterrupt = c.nextInterrupt
      /\ d.count = (c.count + p) % Modulus /\ d.cycleCount = c.cycleCount + p
  BY <1>0 DEF UpdateCount, Cp0
<1> HIDE DEF d, p
<1> DEFINE h == c.q[1].count
           w == c.count + p
<1>3. h \in Int /\ w \in Int /\ w % Modulus \in Int /\ (c.count - h) + p = w - h
      /\ c.count - h \in Int /\ w - h \in Int /\ (w % Modulus) - h \in Int
      /\ c.cycleCount + p \in Int
  <2>1. h \in Int /\ w \in Int
    BY <1>0, <1>1
  <2>2. w % Modulus \in Int
    BY <2>1, WordArithmetic
  <2> QED
    BY <1>0, <1>1, <2>1, <2>2, SMTT(30)
<1>4. Same(c.cycleCount, c.count - h)
  BY DEF Cached
<1> HIDE DEF h
<1>5. Same(c.cycleCount + p, w - h)
  <2>1. Same(p, p)
    BY <1>1, SameModulo
  <2>2. Same(c.cycleCount + p, (c.count - h) + p)
    BY <1>0, <1>1, <1>3, <1>4, <2>1, SameSum
  <2> QED
    BY <1>3, <2>2
<1> HIDE DEF w
<1>6. Same(w - h, (w % Modulus) - h)
  BY <1>3, SameModulo, SameSum
<1>7. Same(c.cycleCount + p, (w % Modulus) - h)
  BY <1>3, <1>5, <1>6, SameTransitive
<1> QED
  BY <1>0, <1>2, <1>7 DEF Cached, d, h, w

LEMMA PushCheckIsCached ==
    ASSUME NEW c, Good(c), Cached(c) PROVE Cached(PushCheck(c))
<1> DEFINE e == [type |-> CHECK, count |-> c.count]
           r == <<e>> \o c.q
           d == PushCheck(c)
<1>0. c \in Cp0 /\ c.q \in Seq(Events) /\ c.count \in Int
  BY CheckedIsGood DEF Cp0
<1>1. CASE Len(c.q) >= Capacity
  BY <1>1 DEF PushCheck
<1>2. CASE ~(Len(c.q) >= Capacity)
  <2>1. d = [c EXCEPT !.q = r, !.nextInterrupt = c.count, !.cycleCount = 0]
    BY <1>2 DEF PushCheck
  <2>2. d.q = r /\ d.nextInterrupt = c.count /\ d.cycleCount = 0 /\ d.count = c.count
    <3> HIDE DEF r, d
    <3> QED
      BY <1>0, <2>1 DEF Cp0
  <2>3. e \in Events /\ e.count = c.count
    BY <1>0 DEF Events, Cp0, Types, OwnTypes
  <2>4. r # <<>> /\ r[1] = e
    <3> HIDE DEF e
    <3>1. <<e>> \in Seq(Events) /\ Len(<<e>>) = 1 /\ <<e>>[1] = e
      BY <2>3
    <3>2. /\ r \in Seq(Events) /\ Len(r) = 1 + Len(c.q)
          /\ \A j \in 1 .. 1 + Len(c.q) :
                r[j] = IF j <= 1 THEN <<e>>[j] ELSE c.q[j - 1]
      BY <1>0, <3>1, ConcatProperties
    <3>3. Len(c.q) \in Nat
      BY <1>0
    <3> HIDE DEF r
    <3>4. 1 \in 1 .. 1 + Len(c.q)
      BY <3>3
    <3> QED
      BY <3>1, <3>2, <3>3, <3>4, EmptySeq
  <2> HIDE DEF r, d, e
  <2>5. c.count - c.count = 0 /\ Same(0, 0)
    BY <1>0, SameModulo
  <2> QED
    BY <2>2, <2>3, <2>4, <2>5 DEF Cached, d
<1> QED
  BY <1>1, <1>2

LEMMA InitInterruptIsCached ==
    ASSUME NEW c \in Cp0 PROVE Cached(InitInterrupt(c))
<1> DEFINE empty == [c EXCEPT !.q = <<>>]
           one == AddInterruptEventCount(empty, SPECIAL, Half)
<1>1. <<>> \in Seq(Events) /\ Len(<<>>) = 0
  OBVIOUS
<1>2. empty \in Cp0 /\ empty.q = <<>>
  BY <1>1 DEF Cp0
<1>3. Fits(empty) /\ Len(empty.q) < Capacity
  BY <1>1, <1>2, CapacityAssumption DEF Fits
<1>4. /\ SPECIAL \in Types /\ COMPARE \in Types /\ Half \in Int /\ 0 \in Int
  BY TypesOfOwnEvents, HalfAssumption
<1> HIDE DEF empty
<1>5. Fits(one) /\ Cached(one)
  BY <1>3, <1>4, AddProperties, AddIsCached
<1> HIDE DEF one
<1>6. Cached(AddInterruptEventCount(one, COMPARE, 0))
  BY <1>4, <1>5, AddIsCached
<1> QED
  BY <1>6 DEF InitInterrupt, one, empty

(* The whole queue moved: the last event put back redoes the copies.       *)
LEMMA TranslateIsCached ==
    ASSUME NEW c, Good(c), NEW base \in Word
    PROVE  Cached(TranslateEventQueue(c, base))
<1>1. PICK b : CompareOut(b) /\ TranslateEventQueue(c, base) = AddCompare(b, c.compare)
  BY TranslateFacts
<1> QED
  BY <1>1, AddCompareIsCached, CheckedIsGood

(* The handlers.                                                           *)
LEMMA ViHandlerIsCached ==
    ASSUME NEW c, Good(c), c.q[1].type = VI, NEW d \in ViHandler(c)
    PROVE  Cached(d)
<1>1. PICK r \in {c, SoftReset(c)} :
         d = AddInterruptEventCount(RemoveInterruptEvent(r), VI, c.q[1].count + ViDelay)
  BY DEF ViHandler
<1>2. Good(r) /\ Good(RemoveInterruptEvent(r))
  BY <1>1, SoftResetKeepsGood, RemoveKeepsGood
     DEF VI, COMPARE, SPECIAL
<1>3. Cached(RemoveInterruptEvent(r)) /\ Fits(RemoveInterruptEvent(r))
  BY <1>2, RemoveIsCached DEF Good
<1>4. VI \in Types /\ c.q[1].count + ViDelay \in Int
  BY CheckedIsGood, DelayAssumption DEF Types, OwnTypes
<1> QED
  BY <1>1, <1>3, <1>4, AddIsCached

LEMMA NmiHandlerIsCached ==
    ASSUME NEW c, Good(c) PROVE Cached(NmiHandler(c))
<1> DEFINE r == RemoveInterruptEvent(c)
           z == [r EXCEPT !.count = 0]
           i == InitInterrupt(z)
<1>1. r \in Cp0
  BY CheckedIsGood, RemoveInterruptProperties DEF Fits
<1>2. z \in Cp0
  <2> HIDE DEF r
  <2> QED
    BY <1>1, WordArithmetic DEF Cp0
<1> HIDE DEF z
<1>3. Good(i) /\ Cached(i)
  BY <1>2, InitInterruptProperties, InitInterruptIsCached
<1> HIDE DEF i
<1>4. VI \in Types /\ ViDelay \in Nat
  BY DelayAssumption DEF Types, OwnTypes
<1>5. Cached(AddInterruptEvent(i, VI, ViDelay))
  BY <1>3, <1>4, AddDelayIsCached
<1> QED
  BY <1>5 DEF NmiHandler, i, z

LEMMA GenInterruptIsCached ==
    ASSUME NEW c, Good(c), Cached(c), NEW d \in GenInterruptIfDue(c)
    PROVE  Cached(d)
<1> DEFINE t == c.q[1].type
           r == RemoveInterruptEvent(c)
<1>1. t \in Types /\ c.compare \in Word
  BY CheckedIsGood
<1>2. CASE ~(c.cycleCount >= 0)
  BY <1>2 DEF GenInterruptIfDue
<1>3. CASE c.cycleCount >= 0
  <2>0. d \in GenInterrupt(c)
    BY <1>3 DEF GenInterruptIfDue
  <2>1. CASE t = VI
    <3>1. d \in ViHandler(c)
      BY <2>0, <2>1 DEF GenInterrupt, VI, COMPARE, CHECK, SPECIAL, HW2, NMI
    <3> QED
      BY <2>1, <3>1, ViHandlerIsCached
  <2>2. CASE t = COMPARE
    <3>1. d = CompareHandler(c)
      BY <2>0, <2>2 DEF GenInterrupt, VI, COMPARE, CHECK, SPECIAL, HW2, NMI
    <3>2. CompareOut(r)
      BY <2>2, RemoveInterruptProperties, CheckedIsGood DEF CompareOut, Good
    <3> HIDE DEF r
    <3>3. Cached(AddCompare(r, c.compare))
      BY <1>1, <3>2, AddCompareIsCached
    <3> QED
      BY <3>1, <3>3 DEF CompareHandler, r
  <2>3. CASE t \in {CHECK, HW2}
    <3>1. d = r
      BY <2>0, <2>3 DEF GenInterrupt, VI, COMPARE, CHECK, SPECIAL, HW2, NMI
    <3> QED
      BY <3>1, RemoveIsCached
  <2>4. CASE t = SPECIAL
    <3>1. d = SpecialHandler(c)
      BY <2>0, <2>4 DEF GenInterrupt, VI, COMPARE, CHECK, SPECIAL, HW2, NMI
    <3>2. Fits(r) /\ Len(r.q) < Capacity
      BY CheckedIsGood, RemoveInterruptProperties
    <3> HIDE DEF r
    <3>3. SpecialCount(r.count) \in Int /\ SPECIAL \in Types
      BY TypesOfOwnEvents, HalfAssumption DEF SpecialCount
    <3>4. Cached(AddSpecial(r))
      BY <3>2, <3>3, AddIsCached DEF AddSpecial
    <3> QED
      BY <3>1, <3>4 DEF SpecialHandler, r
  <2>5. CASE t = NMI
    <3>1. d = NmiHandler(c)
      BY <2>0, <2>5 DEF GenInterrupt, VI, COMPARE, CHECK, SPECIAL, HW2, NMI
    <3> QED
      BY <3>1, NmiHandlerIsCached
  <2>6. CASE t \notin OwnTypes
    <3>1. d \in DeviceHandler(c)
      BY <2>0, <2>6 DEF GenInterrupt, OwnTypes, VI, COMPARE, CHECK, SPECIAL, HW2, NMI
    <3>2. t \in Devices
      BY <1>1, <2>6 DEF Types
    <3>3. Good(r) /\ Cached(r)
      BY <3>2, TypesOfOwnEvents, RemoveKeepsGood, RemoveIsCached
    <3>4. d = r \/ \E n \in Delays : d = AddInterruptEvent(r, t, n)
      BY <3>1 DEF DeviceHandler
    <3> HIDE DEF r, t
    <3> QED
      BY <1>1, <3>3, <3>4, AddDelayIsCached, DelayAssumption
  <2> QED
    BY <2>1, <2>2, <2>3, <2>4, <2>5, <2>6 DEF OwnTypes
<1> QED
  BY <1>2, <1>3

LEMMA IdleIsCached ==
    ASSUME NEW now, Good(now), Cached(now)
    PROVE  Cached([now EXCEPT !.count = (@ - now.cycleCount) % Modulus, !.cycleCount = 0])
<1> DEFINE w == now.count - now.cycleCount
           h == now.q[1].count
           d == [now EXCEPT !.count = (@ - now.cycleCount) % Modulus, !.cycleCount = 0]
<1>0. now \in Cp0 /\ now.cycleCount \in Int /\ now.count \in Int /\ h \in Int
  BY CheckedIsGood
<1>1. /\ d.q = now.q /\ d.nextInterrupt = now.nextInterrupt
      /\ d.count = w % Modulus /\ d.cycleCount = 0
  BY <1>0 DEF Cp0
<1>2. w \in Int /\ w % Modulus \in Int /\ now.count - h \in Int
  <2>1. w \in Int /\ now.count - h \in Int
    BY <1>0
  <2> QED
    BY <2>1, WordArithmetic DEF Word
<1>3. Same(now.cycleCount, now.count - h)
  BY DEF Cached
<1>4. now.cycleCount - now.cycleCount = 0 /\ Same(now.cycleCount, now.cycleCount)
      /\ (now.count - h) - now.cycleCount = w - h
  BY <1>0, SameModulo
<1>5. Same(0, w - h)
  BY <1>0, <1>2, <1>3, <1>4, SameSum
<1> HIDE DEF w, h, d
<1>6. Same(w - h, (w % Modulus) - h) /\ w - h \in Int /\ (w % Modulus) - h \in Int
  <2>1. Same(w, w % Modulus)
    BY <1>2, SameModulo
  <2>2. Same(h, h)
    BY <1>0, SameModulo
  <2>3. Same(w - h, (w % Modulus) - h)
    BY <1>0, <1>2, <2>1, <2>2, SameSum
  <2>4. w - h \in Int
    BY <1>0, <1>2
  <2> DEFINE m == w % Modulus
  <2>5. m \in Int
    BY <1>2
  <2> HIDE DEF m
  <2>6. m - h \in Int
    BY <1>0, <2>5
  <2> QED
    BY <2>3, <2>4, <2>6 DEF m
<1>7. Same(0, (w % Modulus) - h)
  BY <1>5, <1>6, SameTransitive
<1> QED
  BY <1>1, <1>7 DEF Cached, d, h

LEMMA PowerOnIsCached == Cached(PowerOn)
<1> DEFINE c == [count |-> PowerOnCount, compare |-> 0, cycleCount |-> 0,
                 nextInterrupt |-> 0, q |-> <<>>]
<1>1. <<>> \in Seq(Events) /\ 0 \in Int /\ 0 \in Word /\ PowerOnCount \in Word
  BY WordArithmetic, PowerOnAssumption, HalfAssumption DEF Word, Modulus
<1>2. c \in Cp0
  BY <1>1 DEF Cp0
<1> HIDE DEF c
<1> QED
  BY <1>2, InitInterruptIsCached DEF PowerOn, c

(* A step of the machine keeps the copies true.                            *)
CInv == IInv /\ Cached(cp0)

LEMMA CachedStep == CInv /\ [Next]_vars => CInv'
<1> SUFFICES ASSUME IInv, Cached(cp0), [Next]_vars  PROVE Cached(cp0')
  BY InductiveStep DEF CInv
<1>0. Good(cp0) /\ BlockLength \in Nat \ {0} /\ Values \subseteq Word
  BY BlockAssumption, ValuesAssumption DEF IInv, Word, Modulus
<1>1. \A n \in 1 .. BlockLength : Good(UpdateCount(cp0, n)) /\ Cached(UpdateCount(cp0, n))
  BY <1>0, UpdateCountProperties, UpdateCountIsCached
<1>2. ASSUME NEW n \in 1 .. BlockLength, ReadCount(n) \/ Jump(n)  PROVE Cached(cp0')
  BY <1>1, <1>2, GenInterruptIsCached DEF ReadCount, Jump
<1>3. ASSUME NEW n \in 1 .. BlockLength, NEW value \in Values, WriteCompare(n, value)
      PROVE  Cached(cp0')
  <2> DEFINE now == UpdateCount(cp0, n)
             c == RemoveEvent(now, COMPARE)
             d == AddCompare(c, value)
  <2>1. Good(now)
    BY <1>1
  <2> HIDE DEF now
  <2>2. Fits(now) /\ Once(now.q, COMPARE) /\ Len(now.q) \in Nat /\ Len(now.q) <= Capacity
    BY <2>1 DEF Good, Fits, Cp0
  <2>3. Fits(c) /\ ~Scheduled(c.q, COMPARE) /\ Len(c.q) = Len(now.q) - 1
    BY <2>2, RemoveEventProperties
  <2>4. CompareOut(c)
    BY <2>2, <2>3, CapacityAssumption DEF CompareOut
  <2> HIDE DEF c
  <2>5. Cached(d) /\ d \in Cp0
    BY <1>0, <2>4, AddCompareIsCached, AddCompareProperties DEF Fits
  <2>6. cp0' = [d EXCEPT !.compare = value]
    BY <1>3 DEF WriteCompare, c, now
  <2> HIDE DEF d
  <2>7. /\ cp0'.q = d.q /\ cp0'.nextInterrupt = d.nextInterrupt
        /\ cp0'.cycleCount = d.cycleCount /\ cp0'.count = d.count
    BY <2>5, <2>6 DEF Cp0
  <2> QED
    BY <2>5, <2>7 DEF Cached
<1>4. ASSUME NEW n \in 1 .. BlockLength, NEW value \in Values, WriteCount(n, value)
      PROVE  Cached(cp0')
  <2>1. PICK c \in GenInterruptIfDue(UpdateCount(cp0, n)) :
            cp0' = TranslateEventQueue(c, value)
    BY <1>4 DEF WriteCount
  <2> QED
    BY <1>0, <1>1, <2>1, GenInterruptKeepsGood, TranslateIsCached
<1>5. ASSUME NEW n \in 1 .. BlockLength, NEW t \in Types, NEW delay \in Nat,
             Schedule(n, t, delay)
      PROVE  Cached(cp0')
  BY <1>1, <1>5, AddDelayIsCached DEF Schedule
<1>6. ASSUME NEW n \in 1 .. BlockLength, WriteStatus(n)  PROVE Cached(cp0')
  <2>1. PICK checked \in {UpdateCount(cp0, n), PushCheck(UpdateCount(cp0, n))} :
            cp0' \in GenInterruptIfDue(checked)
    BY <1>6 DEF WriteStatus
  <2>2. Good(checked) /\ Cached(checked)
    BY <1>1, <2>1, PushCheckProperties, PushCheckIsCached
  <2> QED
    BY <2>1, <2>2, GenInterruptIsCached
<1>7. ASSUME NEW n \in 1 .. BlockLength, WriteMask(n)  PROVE Cached(cp0')
  <2>1. PICK checked \in {cp0, PushCheck(cp0)} :
            cp0' \in GenInterruptIfDue(UpdateCount(checked, n))
    BY <1>7 DEF WriteMask
  <2>2. Good(checked) /\ Cached(checked)
    BY <1>0, <2>1, PushCheckProperties, PushCheckIsCached
  <2>3. Good(UpdateCount(checked, n)) /\ Cached(UpdateCount(checked, n))
    BY <2>2, UpdateCountProperties, UpdateCountIsCached
  <2> QED
    BY <2>1, <2>3, GenInterruptIsCached
<1>8. ASSUME Signal  PROVE Cached(cp0')
  BY <1>0, <1>8, PushCheckIsCached DEF Signal
<1>9. ASSUME IdleJump  PROVE Cached(cp0')
  <2> DEFINE now == UpdateCount(cp0, 1)
             skipped == [now EXCEPT !.count = (@ - now.cycleCount) % Modulus,
                                    !.cycleCount = 0]
             idle == IF now.cycleCount < 0 THEN skipped ELSE now
  <2>1. Good(now) /\ Cached(now)
    BY <1>0, <1>1
  <2>2. cp0' \in GenInterruptIfDue(idle)
    BY <1>9 DEF IdleJump
  <2> HIDE DEF now
  <2>3. Good(skipped) /\ Cached(skipped)
    BY <2>1, IdleIsGood, IdleIsCached
  <2> HIDE DEF skipped
  <2>4. Good(idle) /\ Cached(idle)
    BY <2>1, <2>3
  <2> HIDE DEF idle
  <2> QED
    BY <2>2, <2>4, GenInterruptIsCached
<1>10. ASSUME NEW n \in 1 .. BlockLength, HardReset(n)  PROVE Cached(cp0')
  BY <1>10, PowerOnIsCached DEF HardReset
<1>11. ASSUME UNCHANGED vars  PROVE Cached(cp0')
  BY <1>11 DEF vars
<1>12. VI \in Types /\ ViDelay \in Nat /\ Devices \subseteq Types /\ Delays \subseteq Nat
  BY TypesOfOwnEvents, DelayAssumption DEF Types, OwnTypes
<1> QED
  BY <1>2, <1>3, <1>4, <1>5, <1>6, <1>7, <1>8, <1>9, <1>10, <1>11, <1>12 DEF Next, Step

(* next_interrupt and cycle_count always are the first event's count and   *)
(* its distance from the present, though remove_event leaves them stale    *)
(* and MTC0 Count moves the queue underneath them.                         *)
THEOREM CopiesAgree == Spec => []HeadCached
<1>1. Init => CInv
  BY PowerOnProperties, PowerOnIsCached, BlockAssumption DEF Init, IInv, CInv
<1>2. CInv => HeadCached
  <2> SUFFICES ASSUME CInv PROVE HeadCached
    OBVIOUS
  <2>1. cp0 \in Cp0 /\ Cached(cp0) /\ cp0.cycleCount \in Int
    BY CheckedIsGood DEF CInv, IInv
  <2>2. cp0.count - cp0.q[1].count \in Int
    BY <2>1, HeadIsWord DEF Cached
  <2> QED
    BY <2>1, <2>2, SameIsZero DEF Cached, HeadCached
<1> QED
  BY <1>1, <1>2, CachedStep, PTL DEF Spec
-----------------------------------------------------------------------------
(* Time. The counts on the queue are words; what they stand for are times, *)
(* integers relative to the present. An event is taken to be due at the    *)
(* first time that is not before the one cycle_count stands for, nor, if   *)
(* that is in the future, before the next instruction.                     *)

Lag(c) == IF c.cycleCount > -CountPerOp THEN c.cycleCount ELSE -CountPerOp

Time(c, e) == ((e.count - (c.count - Lag(c))) % Modulus) - Lag(c)

(* The queue is in the order of time, and cycle_count not ahead of it.     *)
Lined(c) ==
    /\ \A i, j \in 1 .. Len(c.q) : i < j => Time(c, c.q[i]) <= Time(c, c.q[j])
    /\ \A i \in 1 .. Len(c.q) : -c.cycleCount <= Time(c, c.q[i])

(* cycle_count is the distance to the first event, not only modulo 2^32.   *)
Exact(c) == c.q # <<>> /\ c.cycleCount = -Time(c, c.q[1])

(* Seen from the present, as before_event does, no event is a whole turn   *)
(* of the counter away.                                                    *)
Late(c) == IF c.cycleCount > 0 THEN c.cycleCount ELSE 0
Fresh(c) == \A i \in 1 .. Len(c.q) : Time(c, c.q[i]) + Late(c) < Modulus

(* How many jumps an event waits for, once it is due: one for each event   *)
(* in front of it and one for itself; and one for the timer in front of    *)
(* each of them, which the program may write to again and again.           *)
TimerBefore(q, i) == \E j \in 1 .. (i - 1) : q[j].type = COMPARE
Rank(q, i) == IF TimerBefore(q, i) THEN i - 1 ELSE i
Jumps(q, i) == 2 * Rank(q, i) - (IF q[1].type = COMPARE THEN 0 ELSE 1)

(* How late an event may be that has j jumps to wait for, s instructions   *)
(* into the block.                                                         *)
Block == BlockLength * CountPerOp
Most == 2 * (Capacity - 1)
Allowed(j, s) == (Most - j) * Block + s * CountPerOp

Bounded(c, s) ==
    /\ \A i \in 1 .. Len(c.q) :
          c.q[i].type # COMPARE =>
             /\ Time(c, c.q[i]) <= Half
             /\ -Time(c, c.q[i]) <= Allowed(Jumps(c.q, i), s)
    /\ c.cycleCount <= Allowed(0, s)

Loose(c, s) == Lined(c) /\ Bounded(c, s)
Timed(c, s) == Loose(c, s) /\ Exact(c)

(* The constants: no code between two jumps makes interrupts pending, the  *)
(* longest wait is far shorter than the delays, and these shorter than     *)
(* half a turn of the counter.                                             *)
Punctual ==
    /\ Signals = FALSE
    /\ (2 * Capacity - 1) * Block <= MaxLate
    /\ MaxLate < Half /\ MaxLate <= ViDelay
    /\ ViDelay <= Half /\ NmiDelay <= Half
    /\ \A d \in Delays : d <= Half

(* The inductive invariant, from the moment the vertical interrupt is on   *)
(* the queue.                                                              *)
Running(c, s) == Good(c) /\ Once(c.q, VI) /\ Timed(c, s)
TInv == since \in 0 .. (BlockLength - 1) /\ Running(cp0, since)
IsPunctual == Punctual

-----------------------------------------------------------------------------
(* Arithmetic: a number is determined by its word and a bound.             *)
LEMMA SameSmall ==
    ASSUME NEW a \in Int, NEW b \in Int, Same(a, b), a - b < Modulus, b - a < Modulus
    PROVE  a = b
<1>0. Modulus \in Nat \ {0}
  BY WordArithmetic
<1>1. PICK k \in Int : a - b = k * Modulus
  BY DEF Same
<1>2. ~(k >= 1)
  <2> SUFFICES ASSUME k >= 1 PROVE FALSE
    OBVIOUS
  <2>1. k * Modulus >= Modulus
    BY <1>0
  <2> QED
    BY <1>0, <1>1, <2>1
<1>3. ~(k <= -1)
  <2> SUFFICES ASSUME k <= -1 PROVE FALSE
    OBVIOUS
  <2>1. k * Modulus <= -Modulus
    BY <1>0
  <2> QED
    BY <1>0, <1>1, <2>1
<1>4. k = 0
  BY <1>2, <1>3
<1>5. a - b = 0
  BY <1>0, <1>1, <1>4
<1> QED
  BY <1>5

LEMMA SameSymmetric ==
    ASSUME NEW a \in Int, NEW b \in Int, Same(a, b) PROVE Same(b, a)
<1>1. PICK k \in Int : a - b = k * Modulus
  BY DEF Same
<1>2. b - a = (-k) * Modulus /\ -k \in Int
  BY <1>1, WordArithmetic
<1> QED
  BY <1>2 DEF Same

LEMMA SameMoved ==
    ASSUME NEW a \in Int, NEW b \in Int, NEW p \in Int, Same(a, b)
    PROVE  Same(a + p, b + p) /\ Same(a - p, b - p)
<1>1. PICK k \in Int : a - b = k * Modulus
  BY DEF Same
<1>2. (a + p) - (b + p) = k * Modulus /\ (a - p) - (b - p) = k * Modulus
  BY <1>1, WordArithmetic
<1> QED
  BY <1>2 DEF Same

LEMMA ModuloIs ==
    ASSUME NEW a \in Int, NEW b \in Int, Same(a, b), 0 <= a, a < Modulus
    PROVE  b % Modulus = a
<1>1. b % Modulus \in Int /\ 0 <= b % Modulus /\ b % Modulus < Modulus
  BY WordArithmetic DEF Word
<1>2. Same(b, b % Modulus)
  BY SameModulo
<1>3. Same(a, b % Modulus)
  BY <1>1, <1>2, SameTransitive
<1> HIDE DEF Same
<1> DEFINE m == b % Modulus
<1>4. m \in Int /\ 0 <= m /\ m < Modulus /\ Same(a, m)
  BY <1>1, <1>3
<1> HIDE DEF m
<1>5. a = m
  BY <1>4, SameSmall, WordArithmetic
<1> QED
  BY <1>5 DEF m

LEMMA SignedIs ==
    ASSUME NEW a \in Int, NEW b \in Int, Same(a, b), -Half <= a, a < Half
    PROVE  Signed(b) = a
<1>0. Half \in Nat \ {0} /\ Modulus = 2 * Half
  BY HalfAssumption DEF Modulus
<1>1. CASE a >= 0
  <2>1. b % Modulus = a
    BY <1>0, <1>1, ModuloIs
  <2> QED
    BY <2>1 DEF Signed
<1>2. CASE a < 0
  <2>1. PICK k \in Int : a - b = k * Modulus
    BY DEF Same
  <2>2. (a + Modulus) - b = (k + 1) * Modulus /\ k + 1 \in Int /\ a + Modulus \in Int
    BY <1>0, <2>1
  <2>3. Same(a + Modulus, b)
    BY <2>2 DEF Same
  <2>4. b % Modulus = a + Modulus
    BY <1>0, <1>2, <2>2, <2>3, ModuloIs
  <2> QED
    BY <1>0, <1>2, <2>4 DEF Signed
<1> QED
  BY <1>1, <1>2

-----------------------------------------------------------------------------
(* What Time is, and that it is the only number of its kind.               *)
LEMMA TimeFacts ==
    ASSUME NEW c \in Cp0, NEW e \in Events
    PROVE  /\ Lag(c) \in Int /\ Lag(c) >= -CountPerOp /\ Lag(c) >= c.cycleCount
           /\ c.cycleCount > -CountPerOp => Lag(c) = c.cycleCount
           /\ c.cycleCount <= -CountPerOp => Lag(c) = -CountPerOp
           /\ Time(c, e) \in Int
           /\ Same(Time(c, e), e.count - c.count)
           /\ -Lag(c) <= Time(c, e) /\ Time(c, e) < Modulus - Lag(c)
<1>0. /\ c.count \in Int /\ c.cycleCount \in Int /\ e.count \in Int
      /\ CountPerOp \in Nat \ {0}
  BY RateAssumption DEF Cp0, Events, Word
<1>1. /\ Lag(c) \in Int /\ Lag(c) >= -CountPerOp /\ Lag(c) >= c.cycleCount
      /\ c.cycleCount > -CountPerOp => Lag(c) = c.cycleCount
      /\ c.cycleCount <= -CountPerOp => Lag(c) = -CountPerOp
  BY <1>0 DEF Lag
<1> DEFINE g == Lag(c)
           w == e.count - (c.count - g)
           m == w % Modulus
<1>2. g \in Int /\ Time(c, e) = m - g
  BY <1>1 DEF Time
<1> HIDE DEF g
<1>3. w \in Int /\ w - g = e.count - c.count
  BY <1>0, <1>2
<1> HIDE DEF w
<1>4. m \in Int /\ 0 <= m /\ m < Modulus /\ Modulus \in Int
  BY <1>3, WordArithmetic DEF Word
<1>5. Same(m, w)
  BY <1>3, SameModulo
<1> HIDE DEF m
<1>6. Same(m - g, w - g)
  BY <1>2, <1>3, <1>4, <1>5, SameMoved
<1> QED
  BY <1>1, <1>2, <1>3, <1>4, <1>6 DEF g

LEMMA TimeIs ==
    ASSUME NEW c \in Cp0, NEW e \in Events, NEW x \in Int,
           Same(x, e.count - c.count), -Lag(c) <= x, x < Modulus - Lag(c)
    PROVE  Time(c, e) = x
<1>1. e.count - c.count \in Int /\ Modulus \in Int
  BY WordArithmetic DEF Cp0, Events, Word
<1>2. /\ Time(c, e) \in Int /\ Same(Time(c, e), e.count - c.count) /\ Lag(c) \in Int
      /\ -Lag(c) <= Time(c, e) /\ Time(c, e) < Modulus - Lag(c)
  BY TimeFacts
<1> HIDE DEF Time, Lag
<1>3. Same(Time(c, e), x)
  BY <1>1, <1>2, SameSymmetric, SameTransitive
<1> QED
  BY <1>1, <1>2, <1>3, SameSmall

LEMMA ShiftedTime ==
    ASSUME NEW x \in Int, NEW e \in Int, NEW c \in Int, NEW d \in Int, NEW p \in Int,
           Same(x, e - c), Same(d, c + p)
    PROVE  Same(x - p, e - d)
<1>1. PICK k \in Int : x - (e - c) = k * Modulus
  BY DEF Same
<1>2. PICK l \in Int : d - (c + p) = l * Modulus
  BY DEF Same
<1>3. (x - p) - (e - d) = (k + l) * Modulus /\ k + l \in Int
  BY <1>1, <1>2, WordArithmetic
<1> QED
  BY <1>3 DEF Same

LEMMA NegatedTime ==
    ASSUME NEW x \in Int, NEW e \in Int, NEW c \in Int, Same(x, e - c)
    PROVE  Same(-x, c - e)
<1>1. PICK k \in Int : x - (e - c) = k * Modulus
  BY DEF Same
<1>2. (-x) - (c - e) = (-k) * Modulus /\ -k \in Int
  BY <1>1, WordArithmetic
<1> QED
  BY <1>2 DEF Same

LEMMA EventsOfQueue ==
    ASSUME NEW c \in Cp0
    PROVE  /\ c.q \in Seq(Events) /\ Len(c.q) \in Nat
           /\ \A i \in 1 .. Len(c.q) : c.q[i] \in Events /\ c.q[i].count \in Int
           /\ c.count \in Int /\ c.cycleCount \in Int
           /\ c.q # <<>> => Len(c.q) >= 1 /\ 1 \in 1 .. Len(c.q)
<1>1. c.q \in Seq(Events) /\ Len(c.q) \in Nat /\ c.count \in Int /\ c.cycleCount \in Int
  BY DEF Cp0, Word
<1>2. \A i \in 1 .. Len(c.q) : c.q[i] \in Events /\ c.q[i].count \in Int
  <2> TAKE i \in 1 .. Len(c.q)
  <2>1. c.q[i] \in Events
    BY <1>1, ElementOfSeq
  <2> QED
    BY <2>1 DEF Events, Word
<1>3. c.q # <<>> => Len(c.q) >= 1
  BY <1>1, EmptySeq
<1> QED
  BY <1>1, <1>2, <1>3

(* Time passes: p counts later every event is p counts nearer, and the     *)
(* timer, which may have been a whole turn away, no longer is.             *)
LEMMA TimePasses ==
    ASSUME NEW c \in Cp0, NEW d \in Cp0, NEW p \in Nat, Lined(c),
           d.q = c.q, Same(d.count, c.count + p),
           d.cycleCount = c.cycleCount + p
    PROVE  /\ \A i \in 1 .. Len(c.q) : Time(d, c.q[i]) = Time(c, c.q[i]) - p
           /\ Lined(d)
           /\ Exact(c) => Exact(d)
           /\ p >= CountPerOp => Fresh(d)
<1>0. /\ c.count \in Int /\ c.cycleCount \in Int /\ d.count \in Int /\ d.cycleCount \in Int
      /\ CountPerOp \in Nat \ {0} /\ Modulus \in Nat \ {0} /\ Len(c.q) \in Nat
  BY EventsOfQueue, RateAssumption, WordArithmetic
<1>2. /\ Lag(c) \in Int /\ Lag(d) \in Int
      /\ Lag(d) <= Lag(c) + p
      /\ Lag(c) >= c.cycleCount /\ Lag(c) >= -CountPerOp
      /\ -Lag(d) <= -d.cycleCount
      /\ Late(d) \in Int
      /\ p >= CountPerOp => Late(d) <= Lag(c) + p
  BY <1>0 DEF Lag, Late
<1>3. ASSUME NEW i \in 1 .. Len(c.q)
      PROVE  /\ Time(c, c.q[i]) \in Int
             /\ Time(d, c.q[i]) = Time(c, c.q[i]) - p
             /\ -c.cycleCount <= Time(c, c.q[i])
             /\ Time(c, c.q[i]) < Modulus - Lag(c)
  <2> DEFINE e == c.q[i]
             x == Time(c, e)
  <2>1. e \in Events /\ e.count \in Int
    BY EventsOfQueue DEF Events, Word
  <2>2. /\ x \in Int /\ Same(x, e.count - c.count)
        /\ -Lag(c) <= x /\ x < Modulus - Lag(c)
        /\ -c.cycleCount <= x
    BY <2>1, TimeFacts DEF Lined
  <2> HIDE DEF e, x
  <2>3. Same(x - p, e.count - d.count)
    <3>1. p \in Int /\ Same(x, e.count - c.count) /\ Same(d.count, c.count + p)
      BY <2>2
    <3>2. x \in Int /\ e.count \in Int /\ c.count \in Int /\ d.count \in Int
      BY <1>0, <2>1, <2>2
    <3> QED
      BY <3>1, <3>2, ShiftedTime, Zenon
  <2>4. x - p \in Int /\ -Lag(d) <= x - p /\ x - p < Modulus - Lag(d)
    <3> DEFINE g == Lag(c)
               h == Lag(d)
    <3>1. g \in Int /\ h \in Int /\ h <= g + p /\ x < Modulus - g
      BY <1>2, <2>2
    <3>2. -h <= -d.cycleCount /\ -d.cycleCount = -c.cycleCount - p
      BY <1>0, <1>2
    <3> HIDE DEF g, h
    <3>3. x - p \in Int /\ x - p < Modulus - h
      BY <1>0, <2>2, <3>1
    <3>4. -h <= x - p
      BY <1>0, <2>2, <3>1, <3>2
    <3> QED
      BY <3>3, <3>4 DEF h
  <2>5. Time(d, e) = x - p
    BY <2>1, <2>3, <2>4, TimeIs
  <2> QED
    BY <2>2, <2>5 DEF e, x
<1>4. Lined(d)
  <2>1. \A i, j \in 1 .. Len(c.q) : i < j => Time(d, c.q[i]) <= Time(d, c.q[j])
    BY <1>0, <1>3 DEF Lined
  <2>2. \A i \in 1 .. Len(c.q) : -d.cycleCount <= Time(d, c.q[i])
    BY <1>0, <1>3, SMTT(30)
  <2> QED
    BY <2>1, <2>2 DEF Lined
<1>5. Exact(c) => Exact(d)
  <2> SUFFICES ASSUME Exact(c) PROVE Exact(d)
    OBVIOUS
  <2>1. c.q # <<>> /\ c.cycleCount = -Time(c, c.q[1]) /\ 1 \in 1 .. Len(c.q)
    BY EventsOfQueue DEF Exact
  <2> QED
    BY <1>0, <1>3, <2>1 DEF Exact
<1>6. p >= CountPerOp => Fresh(d)
  <2> SUFFICES ASSUME p >= CountPerOp, NEW i \in 1 .. Len(c.q)
               PROVE  Time(d, c.q[i]) + Late(d) < Modulus
    BY DEF Fresh
  <2>1. Time(d, c.q[i]) = Time(c, c.q[i]) - p /\ Time(c, c.q[i]) < Modulus - Lag(c)
        /\ Time(c, c.q[i]) \in Int
    BY <1>3
  <2> QED
    BY <1>0, <1>2, <2>1
<1> QED
  BY <1>3, <1>4, <1>5, <1>6

(* A late queue is fresh.                                                  *)
LEMMA LateIsFresh ==
    ASSUME NEW c \in Cp0, c.cycleCount >= 0
    PROVE  Fresh(c)
<1> SUFFICES ASSUME NEW i \in 1 .. Len(c.q)
             PROVE  Time(c, c.q[i]) + Late(c) < Modulus
  BY DEF Fresh
<1>1. c.q[i] \in Events /\ c.cycleCount \in Int
  BY EventsOfQueue
<1>2. /\ Time(c, c.q[i]) \in Int /\ Lag(c) = c.cycleCount
      /\ Time(c, c.q[i]) < Modulus - Lag(c)
  BY <1>1, TimeFacts, RateAssumption
<1>3. Late(c) = c.cycleCount
  BY <1>1 DEF Late
<1>4. Modulus \in Int
  BY WordArithmetic
<1> QED
  BY <1>1, <1>2, <1>3, <1>4

(* The times of a queue that has been taken over, and cycle_count with it. *)
LEMMA Retimed ==
    ASSUME NEW d \in Cp0, d.q # <<>>,
           d.cycleCount = Signed(d.count - d.q[1].count),
           NEW X \in [1 .. Len(d.q) -> Int],
           \A i \in 1 .. Len(d.q) : Same(X[i], d.q[i].count - d.count),
           \A i, j \in 1 .. Len(d.q) : i < j => X[i] <= X[j],
           -Half < X[1], X[1] <= Half,
           \A i \in 1 .. Len(d.q) : X[i] < Modulus + X[1] /\ X[i] < Modulus + CountPerOp
    PROVE  /\ \A i \in 1 .. Len(d.q) : Time(d, d.q[i]) = X[i]
           /\ d.cycleCount = -X[1]
           /\ Lined(d) /\ Exact(d)
<1>0. /\ d.count \in Int /\ d.cycleCount \in Int /\ Len(d.q) \in Nat /\ 1 \in 1 .. Len(d.q)
      /\ CountPerOp \in Nat \ {0} /\ Modulus \in Nat \ {0} /\ Half \in Nat \ {0}
      /\ \A i \in 1 .. Len(d.q) : d.q[i] \in Events /\ d.q[i].count \in Int
  BY EventsOfQueue, RateAssumption, WordArithmetic, HalfAssumption
<1>1. d.cycleCount = -X[1]
  <2>1. X[1] \in Int /\ d.q[1].count \in Int /\ Same(X[1], d.q[1].count - d.count)
    BY <1>0
  <2>3. Same(-X[1], d.count - d.q[1].count)
    BY <1>0, <2>1, NegatedTime
  <2>4. -X[1] \in Int /\ -Half <= -X[1] /\ -X[1] < Half /\ d.count - d.q[1].count \in Int
    BY <1>0, <2>1, SMTT(30)
  <2> QED
    BY <2>3, <2>4, SignedIs
<1>2. /\ Lag(d) \in Int
      /\ d.cycleCount > -CountPerOp => Lag(d) = d.cycleCount
      /\ d.cycleCount <= -CountPerOp => Lag(d) = -CountPerOp
  BY <1>0 DEF Lag
<1>3. \A i \in 1 .. Len(d.q) : X[1] <= X[i]
  BY <1>0
<1>4. \A i \in 1 .. Len(d.q) : Time(d, d.q[i]) = X[i]
  <2> TAKE i \in 1 .. Len(d.q)
  <2>0. X[i] \in Int /\ X[1] \in Int /\ X[1] <= X[i]
        /\ X[i] < Modulus + X[1] /\ X[i] < Modulus + CountPerOp
    BY <1>0, <1>3
  <2>1. X[i] \in Int /\ -Lag(d) <= X[i] /\ X[i] < Modulus - Lag(d)
    BY <1>0, <1>1, <1>2, <2>0, SMTT(30)
  <2> QED
    BY <1>0, <2>1, TimeIs
<1>5. Lined(d)
  <2>1. \A i, j \in 1 .. Len(d.q) : i < j => Time(d, d.q[i]) <= Time(d, d.q[j])
    BY <1>4
  <2>2. ASSUME NEW i \in 1 .. Len(d.q)  PROVE -d.cycleCount <= Time(d, d.q[i])
    <3>1. X[i] \in Int /\ X[1] \in Int /\ X[1] <= X[i]
      BY <1>0, <1>3
    <3>2. Time(d, d.q[i]) = X[i]
      BY <1>4
    <3> QED
      BY <1>1, <3>1, <3>2
  <2> QED
    BY <2>1, <2>2 DEF Lined
<1>6. Exact(d)
  BY <1>0, <1>1, <1>4 DEF Exact
<1> QED
  BY <1>1, <1>4, <1>5, <1>6

-----------------------------------------------------------------------------
(* A new event among the times.                                            *)
LEMMA PlaceFacts ==
    ASSUME NEW c \in Cp0, NEW n
    PROVE  /\ Place(c, n) \in 1 .. (Len(c.q) + 1)
           /\ \A j \in 1 .. Len(c.q) : j < Place(c, n) => ~BeforeEvent(c, n, c.q[j].count)
           /\ Place(c, n) <= Len(c.q) => BeforeEvent(c, n, c.q[Place(c, n)].count)
<1> DEFINE later == {i \in 1 .. Len(c.q) : BeforeEvent(c, n, c.q[i].count)}
           first == CHOOSE i \in later : \A j \in later : i <= j
<1>0. Len(c.q) \in Nat
  BY EventsOfQueue
<1>1. CASE later = {}
  <2>1. Place(c, n) = Len(c.q) + 1
    BY <1>1 DEF Place
  <2>2. \A j \in 1 .. Len(c.q) : ~BeforeEvent(c, n, c.q[j].count)
    BY <1>1
  <2> HIDE DEF later
  <2> QED
    BY <1>0, <2>1, <2>2
<1>2. CASE later # {}
  <2>0. later \subseteq Nat
    BY <1>0
  <2>1. \E i \in later : \A j \in later : i <= j
    <3> HIDE DEF later
    <3> QED
      BY <1>2, <2>0, MinOfNaturals
  <2>2. Place(c, n) = first
    BY <1>2, Zenon DEF Place
  <2> HIDE DEF later
  <2>3. first \in later /\ \A j \in later : first <= j
    BY <2>1, Zenon
  <2> HIDE DEF first
  <2>4. first \in 1 .. Len(c.q) /\ BeforeEvent(c, n, c.q[first].count)
    BY <2>3 DEF later
  <2>5. \A j \in 1 .. Len(c.q) : j < first => ~BeforeEvent(c, n, c.q[j].count)
    <3> SUFFICES ASSUME NEW j \in 1 .. Len(c.q), j < first,
                        BeforeEvent(c, n, c.q[j].count)
                 PROVE  FALSE
      OBVIOUS
    <3>1. j \in later
      BY DEF later
    <3> QED
      BY <1>0, <2>3, <2>4, <3>1
  <2> QED
    BY <1>0, <2>2, <2>4, <2>5
<1> QED
  BY <1>1, <1>2

(* before_event's base is the present, or the first event if it is late.   *)
LEMMA TimeFromBase ==
    ASSUME NEW c \in Cp0, NEW x \in Int, NEW n \in Int, Same(x, n - c.count),
           -Late(c) <= x, x + Late(c) < Modulus
    PROVE  (n - Base(c)) % Modulus = x + Late(c)
<1>0. c.count \in Int /\ c.cycleCount \in Int /\ Modulus \in Int
  BY EventsOfQueue, WordArithmetic
<1>1. Late(c) \in Int /\ Base(c) = c.count - Late(c)
  BY <1>0 DEF Base, Late
<1> DEFINE g == Late(c)
           a == n - c.count
<1>2. g \in Int /\ a \in Int /\ n - Base(c) = a + g /\ Same(x, a)
  BY <1>0, <1>1
<1>3. 0 <= x + g /\ x + g < Modulus
  BY <1>0, <1>1
<1> HIDE DEF g, a
<1>4. Same(x + g, a + g)
  BY <1>2, SameMoved
<1>5. (a + g) % Modulus = x + g
  BY <1>2, <1>3, <1>4, ModuloIs
<1> QED
  BY <1>2, <1>5 DEF g

(* Node i is where an event with time y belongs; g is how late the queue   *)
(* is taken to be.                                                         *)
Belongs(c, i, y, g) ==
    /\ y \in Int /\ g \in Int
    /\ -CountPerOp <= g /\ -g <= y /\ y < Modulus - g
    /\ \A j \in 1 .. Len(c.q) :
          /\ -g <= Time(c, c.q[j])
          /\ Time(c, c.q[j]) < Modulus - g
          /\ j < i => Time(c, c.q[j]) <= y
          /\ j >= i => y <= Time(c, c.q[j])
    /\ i = 1 => -Half < y /\ y <= Half
    /\ i > 1 => -Half < Time(c, c.q[1]) /\ Time(c, c.q[1]) <= Half

LEMMA InsertedTimes ==
    ASSUME NEW c \in Cp0, NEW d \in Cp0, NEW e \in Events, NEW i, NEW y, NEW g,
           Lined(c), Belongs(c, i, y, g), Same(y, e.count - c.count),
           Inserted(c.q, i, e, d.q), d.count = c.count,
           d.cycleCount = Signed(d.count - d.q[1].count)
    PROVE  /\ \A j \in 1 .. Len(d.q) :
                 Time(d, d.q[j]) = IF j < i THEN Time(c, c.q[j])
                                   ELSE IF j = i THEN y ELSE Time(c, c.q[j - 1])
           /\ Lined(d) /\ Exact(d)
           /\ d.cycleCount <= g
           /\ g >= 0 => Fresh(d)
<1> DEFINE q == c.q
           r == d.q
           T == [j \in 1 .. Len(q) |-> Time(c, q[j])]
           X == [j \in 1 .. Len(r) |->
                   IF j < i THEN Time(c, q[j]) ELSE IF j = i THEN y ELSE Time(c, q[j - 1])]
<1>a. /\ y \in Int /\ g \in Int
      /\ -CountPerOp <= g /\ -g <= y /\ y < Modulus - g
  BY DEF Belongs
<1>b. \A j \in 1 .. Len(q) : /\ -g <= Time(c, q[j])
                             /\ Time(c, q[j]) < Modulus - g
                             /\ j < i => Time(c, q[j]) <= y
                             /\ j >= i => y <= Time(c, q[j])
  BY DEF Belongs
<1>c. /\ i = 1 => -Half < y /\ y <= Half
      /\ i > 1 => -Half < Time(c, q[1]) /\ Time(c, q[1]) <= Half
  BY DEF Belongs
<1>0. /\ Len(q) \in Nat /\ i \in 1 .. (Len(q) + 1)
      /\ Len(r) = Len(q) + 1 /\ Len(r) \in Nat
      /\ \A j \in 1 .. Len(r) : r[j] = IF j < i THEN q[j] ELSE IF j = i THEN e ELSE q[j - 1]
  BY EventsOfQueue DEF Inserted
<1>1. /\ c.count \in Int /\ d.count \in Int /\ Modulus \in Int /\ CountPerOp \in Nat
      /\ Half \in Nat /\ e.count \in Int
  BY EventsOfQueue, WordArithmetic, RateAssumption, HalfAssumption DEF Events, Word
<1>2. \A j \in 1 .. Len(q) : /\ Time(c, q[j]) \in Int
                             /\ Same(Time(c, q[j]), q[j].count - c.count)
  <2> TAKE j \in 1 .. Len(q)
  <2>1. q[j] \in Events
    BY EventsOfQueue
  <2> QED
    BY <2>1, TimeFacts
<1>3. \A j \in 1 .. Len(r) : /\ j < i => j \in 1 .. Len(q)
                             /\ j > i => j - 1 \in 1 .. Len(q)
  BY <1>0
<1>4. X \in [1 .. Len(r) -> Int]
  BY <1>a, <1>0, <1>2, <1>3
<1>5. \A j \in 1 .. Len(r) : Same(X[j], r[j].count - d.count)
  <2> SUFFICES ASSUME NEW j \in 1 .. Len(r) PROVE Same(X[j], r[j].count - d.count)
    OBVIOUS
  <2>1. CASE j < i
    <3>1. X[j] = Time(c, q[j]) /\ r[j] = q[j] /\ j \in 1 .. Len(q)
      BY <1>0, <1>3, <2>1
    <3> HIDE DEF X, q, r
    <3> QED
      BY <1>2, <3>1
  <2>2. CASE j = i
    <3>1. X[j] = y /\ r[j] = e
      BY <1>0, <2>2
    <3> HIDE DEF X, q, r
    <3> QED
      BY <3>1
  <2>3. CASE j > i
    <3>1. X[j] = Time(c, q[j - 1]) /\ r[j] = q[j - 1] /\ j - 1 \in 1 .. Len(q)
      BY <1>0, <1>3, <2>3
    <3> HIDE DEF X, q, r
    <3> QED
      BY <1>2, <3>1
  <2> QED
    BY <1>0, <2>1, <2>2, <2>3
<1>6. \A j, k \in 1 .. Len(r) : j < k => X[j] <= X[k]
  <2> SUFFICES ASSUME NEW j \in 1 .. Len(r), NEW k \in 1 .. Len(r), j < k
               PROVE  X[j] <= X[k]
    OBVIOUS
  <2>0. \A m, l \in 1 .. Len(q) : m < l => Time(c, q[m]) <= Time(c, q[l])
    BY DEF Lined
  <2>1. CASE k < i
    <3>1. X[j] = Time(c, q[j]) /\ X[k] = Time(c, q[k]) /\ j \in 1 .. Len(q) /\ k \in 1 .. Len(q)
      BY <1>0, <1>3, <2>1
    <3> QED
      BY <2>0, <3>1
  <2>2. CASE k = i
    <3>1. X[j] = Time(c, q[j]) /\ X[k] = y /\ j \in 1 .. Len(q) /\ j < i
      BY <1>0, <1>3, <2>2
    <3> QED
      BY <1>b, <3>1
  <2>3. CASE k > i /\ j < i
    <3>1. X[j] = Time(c, q[j]) /\ X[k] = Time(c, q[k - 1])
          /\ j \in 1 .. Len(q) /\ k - 1 \in 1 .. Len(q) /\ j < i /\ k - 1 >= i
      BY <1>0, <1>3, <2>3
    <3>2. Time(c, q[j]) <= y /\ y <= Time(c, q[k - 1])
      BY <1>b, <3>1
    <3>3. Time(c, q[j]) \in Int /\ Time(c, q[k - 1]) \in Int
      BY <1>2, <3>1
    <3>4. Time(c, q[j]) <= Time(c, q[k - 1])
      BY <1>a, <3>2, <3>3
    <3> QED
      BY <3>1, <3>4
  <2>4. CASE k > i /\ j = i
    <3>1. X[j] = y /\ X[k] = Time(c, q[k - 1]) /\ k - 1 \in 1 .. Len(q) /\ k - 1 >= i
      BY <1>0, <1>3, <2>4
    <3> QED
      BY <1>b, <3>1
  <2>5. CASE k > i /\ j > i
    <3>1. X[j] = Time(c, q[j - 1]) /\ X[k] = Time(c, q[k - 1])
          /\ j - 1 \in 1 .. Len(q) /\ k - 1 \in 1 .. Len(q) /\ j - 1 < k - 1
      BY <1>0, <1>3, <2>5
    <3> QED
      BY <2>0, <3>1
  <2> QED
    BY <1>0, <2>1, <2>2, <2>3, <2>4, <2>5
<1>7. 1 \in 1 .. Len(r) /\ r # <<>>
  BY <1>0
<1>8. -Half < X[1] /\ X[1] <= Half
  <2>1. CASE i = 1
    <3>1. X[1] = y
      BY <1>7, <2>1
    <3> QED
      BY <1>c, <2>1, <3>1
  <2>2. CASE i > 1
    <3>1. X[1] = Time(c, q[1])
      BY <1>7, <2>2
    <3> QED
      BY <1>c, <2>2, <3>1
  <2> QED
    BY <1>0, <2>1, <2>2
<1>9. \A j \in 1 .. Len(r) : -g <= X[j] /\ X[j] < Modulus - g
  <2> SUFFICES ASSUME NEW j \in 1 .. Len(r) PROVE -g <= X[j] /\ X[j] < Modulus - g
    OBVIOUS
  <2>1. CASE j < i
    BY <1>b, <1>3, <2>1
  <2>2. CASE j = i
    BY <1>a, <2>2
  <2>3. CASE j > i
    BY <1>b, <1>0, <1>3, <2>3
  <2> QED
    BY <1>0, <2>1, <2>2, <2>3
<1>10. \A j \in 1 .. Len(r) : X[j] = IF j < i THEN Time(c, q[j])
                                     ELSE IF j = i THEN y ELSE Time(c, q[j - 1])
  OBVIOUS
<1> HIDE DEF X
<1>11. \A j \in 1 .. Len(r) : X[j] < Modulus + X[1] /\ X[j] < Modulus + CountPerOp
  <2> TAKE j \in 1 .. Len(r)
  <2>1. X[j] \in Int /\ X[1] \in Int /\ -g <= X[1] /\ X[j] < Modulus - g
    BY <1>4, <1>7, <1>9
  <2> QED
    BY <1>a, <1>1, <2>1
<1>12. /\ \A j \in 1 .. Len(r) : Time(d, r[j]) = X[j]
       /\ d.cycleCount = -X[1] /\ Lined(d) /\ Exact(d)
  BY <1>4, <1>5, <1>6, <1>7, <1>8, <1>11, Retimed
<1>13. d.cycleCount <= g /\ X[1] \in Int
  BY <1>a, <1>4, <1>7, <1>9, <1>12
<1>14. g >= 0 => Fresh(d)
  <2> SUFFICES ASSUME g >= 0, NEW j \in 1 .. Len(r)
               PROVE  Time(d, r[j]) + Late(d) < Modulus
    BY DEF Fresh
  <2>1. Time(d, r[j]) = X[j] /\ X[j] \in Int /\ X[j] < Modulus - g
    BY <1>4, <1>9, <1>12
  <2>2. Late(d) \in Int /\ Late(d) <= g
    BY <1>a, <1>12, <1>13 DEF Late
  <2> QED
    BY <1>a, <1>1, <2>1, <2>2
<1> QED
  BY <1>10, <1>12, <1>13, <1>14

-----------------------------------------------------------------------------
(* How late an event may be.                                               *)
LEMMA AllowedFacts ==
    ASSUME NEW j \in Int, NEW s \in Nat
    PROVE  /\ Allowed(j, s) \in Int
           /\ \A k \in Int : j <= k => Allowed(k, s) <= Allowed(j, s)
           /\ j <= Most => Allowed(j, s) >= 0
           /\ \A k \in Int : s <= BlockLength /\ k + 1 <= j => Allowed(j, s) <= Allowed(k, 0)
           /\ \A n \in Nat : Allowed(j, s + n) = Allowed(j, s) + n * CountPerOp
           /\ Punctual /\ s <= BlockLength /\ 0 <= j => Allowed(j, s) <= MaxLate
<1>0. /\ Block \in Nat /\ Most \in Nat /\ CountPerOp \in Nat /\ BlockLength \in Nat
      /\ Most = 2 * (Capacity - 1) /\ Block = BlockLength * CountPerOp
      /\ Capacity \in Nat /\ MaxLate \in Nat
  BY BlockAssumption, RateAssumption, CapacityAssumption, DelayAssumption DEF Block, Most
<1> DEFINE sc == s * CountPerOp
<1>1. sc \in Nat /\ (s <= BlockLength => sc <= Block)
  BY <1>0
<1>2. \A k \in Int : (Most - k) * Block \in Int
  BY <1>0
<1>3. \A k \in Int : Allowed(k, s) = (Most - k) * Block + sc /\ Allowed(k, 0) = (Most - k) * Block
  BY <1>0, <1>2 DEF Allowed
<1> HIDE DEF sc
<1>4. ASSUME NEW k \in Int, j <= k  PROVE (Most - k) * Block <= (Most - j) * Block
  <2>1. PICK m \in Nat : m = k - j
    BY <1>4
  <2>2. Most - j = (Most - k) + m /\ Most - k \in Int
    BY <1>0, <2>1
  <2> DEFINE u == Most - k
  <2>3. u \in Int /\ Most - j = u + m
    BY <2>2
  <2> HIDE DEF u
  <2>4. (u + m) * Block = u * Block + m * Block /\ m * Block \in Nat /\ u * Block \in Int
    BY <1>0, <2>3
  <2>5. u * Block <= (u + m) * Block
    BY <2>4
  <2> QED
    BY <2>3, <2>5 DEF u
<1>5. \A k \in Int : j <= k => Allowed(k, s) <= Allowed(j, s)
  BY <1>1, <1>2, <1>3, <1>4
<1>6. j <= Most => Allowed(j, s) >= 0
  <2> SUFFICES ASSUME j <= Most PROVE Allowed(j, s) >= 0
    OBVIOUS
  <2>1. Allowed(Most, s) <= Allowed(j, s)
    BY <1>0, <1>5
  <2>2. Most - Most = 0 /\ 0 * Block = 0
    BY <1>0
  <2>3. Allowed(Most, s) = sc
    BY <1>0, <1>1, <1>3, <2>2
  <2> QED
    BY <1>1, <1>2, <1>3, <2>1, <2>3
<1>7. ASSUME NEW k \in Int, s <= BlockLength, k + 1 <= j
      PROVE  Allowed(j, s) <= Allowed(k, 0)
  <2>1. Allowed(j, s) <= Allowed(k + 1, s)
    <3>1. PICK m \in Nat : m = j - (k + 1)
      BY <1>7
    <3> DEFINE u == Most - j
    <3>2. u \in Int /\ Most - (k + 1) = u + m
      BY <1>0, <3>1
    <3>3. Allowed(j, s) = u * Block + sc /\ Allowed(k + 1, s) = (u + m) * Block + sc
      BY <1>3, <3>2
    <3> HIDE DEF u
    <3>4. (u + m) * Block = u * Block + m * Block /\ m * Block \in Nat /\ u * Block \in Int
      BY <1>0, <3>2
    <3> QED
      BY <1>1, <3>3, <3>4
  <2> DEFINE u == Most - (k + 1)
  <2>2. u \in Int /\ Most - k = u + 1
    BY <1>0
  <2>3. Allowed(k + 1, s) = u * Block + sc /\ Allowed(k, 0) = (u + 1) * Block
    BY <1>3, <2>2
  <2> HIDE DEF u
  <2>4. (u + 1) * Block = u * Block + Block /\ u * Block \in Int
    BY <1>0, <2>2
  <2>5. Allowed(k + 1, s) <= Allowed(k, 0) /\ Allowed(k + 1, s) \in Int /\ Allowed(k, 0) \in Int
    BY <1>0, <1>1, <1>7, <2>3, <2>4
  <2>6. Allowed(j, s) \in Int
    BY <1>1, <1>2, <1>3
  <2> QED
    BY <2>1, <2>5, <2>6
<1>8. ASSUME NEW n \in Nat  PROVE Allowed(j, s + n) = Allowed(j, s) + n * CountPerOp
  <2>1. (s + n) * CountPerOp = sc + n * CountPerOp
    BY <1>0 DEF sc
  <2>2. Allowed(j, s + n) = (Most - j) * Block + (s + n) * CountPerOp
    BY DEF Allowed
  <2>3. n * CountPerOp \in Int
    BY <1>0
  <2> QED
    BY <1>1, <1>2, <1>3, <2>1, <2>2, <2>3
<1>9. Punctual /\ s <= BlockLength /\ 0 <= j => Allowed(j, s) <= MaxLate
  <2> SUFFICES ASSUME Punctual, s <= BlockLength, 0 <= j PROVE Allowed(j, s) <= MaxLate
    OBVIOUS
  <2>1. Allowed(j, s) <= Allowed(-1, 0)
    BY <1>7
  <2>2. Most - (-1) = 2 * Capacity - 1
    BY <1>0
  <2>3. Allowed(-1, 0) = (2 * Capacity - 1) * Block
    BY <1>3, <2>2
  <2>4. (2 * Capacity - 1) * Block <= MaxLate /\ (2 * Capacity - 1) * Block \in Int
    BY <1>0 DEF Punctual
  <2> QED
    BY <1>0, <1>1, <1>2, <1>3, <2>1, <2>3, <2>4
<1> QED
  BY <1>1, <1>2, <1>3, <1>5, <1>6, <1>7, <1>8, <1>9

(* The queue has the timer on it, or a free node for it.                   *)
Room(c) == Fits(c) /\ (Once(c.q, COMPARE) \/ CompareOut(c))

(* So no event waits for more jumps than the longest queue has.            *)
LEMMA JumpsFit ==
    ASSUME NEW c, Room(c), NEW i \in 1 .. Len(c.q), c.q[i].type # COMPARE
    PROVE  /\ Rank(c.q, i) \in Int /\ Jumps(c.q, i) \in Int
           /\ 1 <= Jumps(c.q, i) /\ Jumps(c.q, i) <= Most
           /\ c.q[1].type = COMPARE => Jumps(c.q, i) = 2 * Rank(c.q, i)
           /\ c.q[1].type # COMPARE => Jumps(c.q, i) = 2 * Rank(c.q, i) - 1
<1>0. /\ Len(c.q) \in Nat /\ Len(c.q) <= Capacity /\ Capacity \in Nat
      /\ Most = 2 * (Capacity - 1)
  BY EventsOfQueue, CapacityAssumption DEF Room, Fits, Most
<1>1. TimerBefore(c.q, i) => i >= 2
  BY <1>0 DEF TimerBefore
<1>2. Rank(c.q, i) = IF TimerBefore(c.q, i) THEN i - 1 ELSE i
  BY DEF Rank
<1>3. ~TimerBefore(c.q, i) => i + 1 <= Capacity
  <2> SUFFICES ASSUME ~TimerBefore(c.q, i) PROVE i + 1 <= Capacity
    OBVIOUS
  <2>1. CASE Once(c.q, COMPARE)
    <3>1. PICK k \in 1 .. Len(c.q) : c.q[k].type = COMPARE
      BY <2>1 DEF Once
    <3>2. ~(k < i) /\ k # i
      BY <1>0, <3>1 DEF TimerBefore
    <3> QED
      BY <1>0, <3>1, <3>2
  <2>2. CASE CompareOut(c)
    BY <1>0, <2>2 DEF CompareOut
  <2> QED
    BY <2>1, <2>2 DEF Room
<1>4. Rank(c.q, i) \in Int /\ 1 <= Rank(c.q, i) /\ Rank(c.q, i) <= Capacity - 1
  BY <1>0, <1>1, <1>2, <1>3
<1>5. Jumps(c.q, i) = 2 * Rank(c.q, i) - (IF c.q[1].type = COMPARE THEN 0 ELSE 1)
  BY DEF Jumps
<1> HIDE DEF Rank, Jumps
<1> QED
  BY <1>0, <1>4, <1>5

(* An event in front of a new one waits for as many jumps as before.       *)
LEMMA JumpsInFront ==
    ASSUME NEW q, NEW r, NEW j \in Nat \ {0}, \A k \in 1 .. j : r[k] = q[k]
    PROVE  Jumps(r, j) = Jumps(q, j)
<1>1. r[1] = q[1]
  OBVIOUS
<1>2. TimerBefore(r, j) <=> TimerBefore(q, j)
  BY DEF TimerBefore
<1> QED
  BY <1>1, <1>2 DEF Jumps, Rank

(* What add_interrupt_event_count does when there is a free node.          *)
LEMMA AddLinks ==
    ASSUME NEW c, Fits(c), Len(c.q) < Capacity, NEW t \in Types, NEW n \in Int
    PROVE  LET d == AddInterruptEventCount(c, t, n)
           IN  /\ d \in Cp0 /\ d.count = c.count /\ d.q # <<>>
               /\ d.cycleCount = Signed(d.count - d.q[1].count)
               /\ \E e \in Events :
                     /\ e.type = t /\ e.count = n % Modulus
                     /\ Inserted(c.q, Place(c, n % Modulus), e, d.q)
<1> DEFINE d == AddInterruptEventCount(c, t, n)
           e == [type |-> t, count |-> n % Modulus]
           i == Place(c, n % Modulus)
           r == InsertAt(c.q, i, e)
<1>0. c \in Cp0 /\ c.q \in Seq(Events) /\ Len(c.q) \in Nat /\ Capacity \in Nat
  BY CapacityAssumption DEF Fits, Cp0
<1>1. e \in Events /\ e.type = t /\ e.count = n % Modulus
  BY WordArithmetic DEF Events
<1>2. i \in 1 .. (Len(c.q) + 1)
  BY <1>0, PlaceInQueue
<1>3. d = WithQueue(c, r)
  BY <1>0 DEF AddInterruptEventCount
<1> HIDE DEF e, i
<1>4. Inserted(c.q, i, e, r)
  BY <1>0, <1>1, <1>2, InsertAtInserts
<1>5. r \in Seq(Events) /\ r # <<>>
  BY <1>0, <1>1, <1>4, InsertedHead DEF Inserted
<1> HIDE DEF r, d
<1>6. d \in Cp0 /\ d.q = r /\ d.count = c.count
  BY <1>0, <1>3, <1>5, WithQueueType
<1>7. d.cycleCount = Signed(c.count - r[1].count)
  BY <1>0, <1>3, <1>5 DEF WithQueue, Cp0
<1> QED
  BY <1>1, <1>4, <1>5, <1>6, <1>7 DEF d, i

(* A queue that is behind by no more than it may be, with an event other   *)
(* than the timer on it, starts with an event that is near.                *)
LEMMA HeadIsNear ==
    ASSUME Punctual, NEW c \in Cp0, NEW s \in 0 .. BlockLength, Loose(c, s),
           NEW k \in 1 .. Len(c.q), c.q[k].type # COMPARE
    PROVE  /\ Time(c, c.q[1]) \in Int /\ -c.cycleCount <= Time(c, c.q[1])
           /\ -Half < Time(c, c.q[1]) /\ Time(c, c.q[1]) <= Half
           /\ c.cycleCount <= MaxLate /\ Late(c) \in Nat /\ Late(c) <= MaxLate
           /\ Late(c) < Half /\ c.cycleCount <= Late(c)
           /\ Late(c) <= Allowed(0, s)
<1>0. /\ c.cycleCount \in Int /\ Half \in Nat /\ MaxLate \in Nat /\ MaxLate < Half
      /\ 0 <= MaxLate /\ BlockLength \in Nat /\ s \in Nat /\ s <= BlockLength
  BY EventsOfQueue, HalfAssumption, DelayAssumption, BlockAssumption DEF Punctual
<1>1. 1 \in 1 .. Len(c.q) /\ c.q[1] \in Events /\ c.q[k] \in Events /\ k \in Int /\ k >= 1
  BY EventsOfQueue
<1>2. Time(c, c.q[1]) \in Int /\ Time(c, c.q[k]) \in Int
  BY <1>1, TimeFacts
<1>3. -c.cycleCount <= Time(c, c.q[1]) /\ Time(c, c.q[1]) <= Time(c, c.q[k])
  BY <1>1, <1>2 DEF Loose, Lined
<1>4. Time(c, c.q[k]) <= Half /\ c.cycleCount <= Allowed(0, s)
  BY DEF Loose, Bounded
<1>5. /\ Allowed(0, s) \in Int /\ Allowed(0, s) <= MaxLate
      /\ 0 <= Allowed(0, s)
  <2>1. 0 <= Most
    BY CapacityAssumption DEF Most
  <2> QED
    BY <1>0, <2>1, AllowedFacts
<1>6. Late(c) = IF c.cycleCount > 0 THEN c.cycleCount ELSE 0
  BY DEF Late
<1> QED
  BY <1>0, <1>2, <1>3, <1>4, <1>5, <1>6

(* An event other than the timer that lies no more than half a turn ahead  *)
(* keeps every time as it is, and makes cycle_count exact.                 *)
LEMMA AddIsTimed ==
    ASSUME Punctual, NEW c, Fits(c), Len(c.q) < Capacity,
           NEW s \in 0 .. BlockLength, Loose(c, s), Fresh(c),
           NEW k \in 1 .. Len(c.q), c.q[k].type # COMPARE,
           NEW t \in Types, t # COMPARE, NEW n \in Int,
           Room(AddInterruptEventCount(c, t, n)),
           NEW y \in 0 .. Half, Same(y, n - c.count)
    PROVE  LET d == AddInterruptEventCount(c, t, n)
           IN  /\ Timed(d, s) /\ Fresh(d)
               /\ Time(c, c.q[1]) <= 0 =>
                     d.q[1] = c.q[1] /\ Time(d, d.q[1]) = Time(c, c.q[1])
<1> DEFINE d == AddInterruptEventCount(c, t, n)
           i == Place(c, n % Modulus)
<1>0. /\ c \in Cp0 /\ c.q \in Seq(Events) /\ Len(c.q) \in Nat /\ c.count \in Int
      /\ c.cycleCount \in Int /\ n \in Int /\ y \in Int /\ 0 <= y /\ y <= Half
      /\ Half \in Nat \ {0} /\ Modulus = 2 * Half /\ CountPerOp \in Nat
      /\ c.q # <<>>
  BY EventsOfQueue, HalfAssumption, RateAssumption, EmptySeq DEF Fits, Modulus
<1>1. /\ Time(c, c.q[1]) \in Int /\ -Half < Time(c, c.q[1]) /\ Time(c, c.q[1]) <= Half
      /\ Late(c) \in Nat /\ Late(c) < Half /\ c.cycleCount <= Late(c)
      /\ Late(c) <= Allowed(0, s)
  BY <1>0, HeadIsNear
<1>2. /\ d \in Cp0 /\ d.count = c.count /\ d.q # <<>>
      /\ d.cycleCount = Signed(d.count - d.q[1].count)
  BY <1>0, AddLinks
<1>3. PICK e \in Events : /\ e.type = t /\ e.count = n % Modulus
                          /\ Inserted(c.q, i, e, d.q)
  BY <1>0, AddLinks
<1> HIDE DEF d
<1>4. n % Modulus \in Int /\ Same(y, (n % Modulus) - c.count)
  <2>0. n % Modulus \in Word /\ Same(n, n % Modulus)
    BY WordArithmetic, SameModulo
  <2>1. n % Modulus \in Int /\ Same(n, n % Modulus)
    BY <2>0 DEF Word
  <2> DEFINE m == n % Modulus
  <2>2. m \in Int /\ Same(n, m)
    BY <2>1
  <2> HIDE DEF m
  <2>3. Same(n - c.count, m - c.count)
    BY <1>0, <2>2, SameMoved
  <2>4. Same(y, m - c.count)
    BY <1>0, <2>2, <2>3, SameTransitive
  <2> QED
    BY <2>2, <2>4 DEF m
<1> DEFINE m == n % Modulus
<1> HIDE DEF m
<1>5. (m - Base(c)) % Modulus = y + Late(c)
  <2>1. -Late(c) <= y /\ y + Late(c) < Modulus
    BY <1>0, <1>1, SMTT(30)
  <2>2. m \in Int /\ Same(y, m - c.count)
    BY <1>4 DEF m
  <2> QED
    BY <1>0, <2>1, <2>2, TimeFromBase
<1>6. \A j \in 1 .. Len(c.q) :
         /\ Time(c, c.q[j]) \in Int /\ -Late(c) <= Time(c, c.q[j])
         /\ Time(c, c.q[j]) + Late(c) < Modulus
         /\ (c.q[j].count - Base(c)) % Modulus = Time(c, c.q[j]) + Late(c)
  <2> TAKE j \in 1 .. Len(c.q)
  <2>1. c.q[j] \in Events /\ c.q[j].count \in Int
    BY <1>0, EventsOfQueue
  <2>2. Time(c, c.q[j]) \in Int /\ Same(Time(c, c.q[j]), c.q[j].count - c.count)
    BY <1>0, <2>1, TimeFacts
  <2>3. -c.cycleCount <= Time(c, c.q[j]) /\ Time(c, c.q[j]) + Late(c) < Modulus
    BY DEF Loose, Lined, Fresh
  <2>4. -Late(c) <= Time(c, c.q[j])
    BY <1>0, <1>1, <2>2, <2>3, SMTT(30)
  <2> QED
    BY <1>0, <2>1, <2>2, <2>3, <2>4, TimeFromBase
<1>7. /\ i \in 1 .. (Len(c.q) + 1)
      /\ \A j \in 1 .. Len(c.q) : j < i => Time(c, c.q[j]) <= y
      /\ i <= Len(c.q) => y < Time(c, c.q[i])
  <2>1. /\ i \in 1 .. (Len(c.q) + 1)
        /\ \A j \in 1 .. Len(c.q) : j < i => ~BeforeEvent(c, m, c.q[j].count)
        /\ i <= Len(c.q) => BeforeEvent(c, m, c.q[i].count)
    BY <1>0, PlaceFacts DEF m
  <2>2. \A j \in 1 .. Len(c.q) : BeforeEvent(c, m, c.q[j].count) <=> y < Time(c, c.q[j])
    <3> TAKE j \in 1 .. Len(c.q)
    <3>1. BeforeEvent(c, m, c.q[j].count) <=> y + Late(c) < Time(c, c.q[j]) + Late(c)
      BY <1>5, <1>6 DEF BeforeEvent
    <3> QED
      BY <1>0, <1>1, <1>6, <3>1, SMTT(30)
  <2> HIDE DEF i
  <2>3. i <= Len(c.q) => i \in 1 .. Len(c.q)
    BY <1>0, <2>1
  <2>4. \A j \in 1 .. Len(c.q) : j < i => Time(c, c.q[j]) <= y
    BY <1>0, <1>6, <2>1, <2>2
  <2> QED
    BY <2>1, <2>2, <2>3, <2>4
<1> HIDE DEF i
<1>8. \A j \in 1 .. Len(c.q) : j >= i => y <= Time(c, c.q[j])
  <2> SUFFICES ASSUME NEW j \in 1 .. Len(c.q), j >= i PROVE y <= Time(c, c.q[j])
    OBVIOUS
  <2>1. i \in 1 .. Len(c.q) /\ y < Time(c, c.q[i])
    BY <1>0, <1>7
  <2>2. Time(c, c.q[i]) <= Time(c, c.q[j])
    <3>1. i = j \/ i < j
      BY <1>0, <1>7
    <3> QED
      BY <1>6, <2>1, <3>1 DEF Loose, Lined
  <2> QED
    BY <1>0, <1>6, <2>1, <2>2
<1> DEFINE g == Late(c)
<1>9. /\ g \in Int /\ -CountPerOp <= g /\ -g <= y /\ y < Modulus - g /\ g >= 0
      /\ \A j \in 1 .. Len(c.q) : -g <= Time(c, c.q[j]) /\ Time(c, c.q[j]) < Modulus - g
  <2>1. g \in Int /\ -CountPerOp <= g /\ -g <= y /\ y < Modulus - g /\ g >= 0
    BY <1>0, <1>1, SMTT(30)
  <2>2. ASSUME NEW j \in 1 .. Len(c.q)
        PROVE  -g <= Time(c, c.q[j]) /\ Time(c, c.q[j]) < Modulus - g
    <3>1. /\ Time(c, c.q[j]) \in Int /\ -g <= Time(c, c.q[j])
          /\ Time(c, c.q[j]) + g < Modulus
      BY <1>6
    <3> HIDE DEF g
    <3> QED
      BY <1>0, <2>1, <3>1
  <2> QED
    BY <2>1, <2>2
<1> HIDE DEF g
<1>10. /\ \A j \in 1 .. Len(d.q) :
             Time(d, d.q[j]) = IF j < i THEN Time(c, c.q[j])
                               ELSE IF j = i THEN y ELSE Time(c, c.q[j - 1])
       /\ Lined(d) /\ Exact(d) /\ d.cycleCount <= g /\ Fresh(d)
  <2>1. Lined(c) /\ Same(y, e.count - c.count) /\ Inserted(c.q, i, e, d.q)
    BY <1>3, <1>4 DEF Loose
  <2>2. \A j \in 1 .. Len(c.q) : /\ -g <= Time(c, c.q[j])
                                 /\ Time(c, c.q[j]) < Modulus - g
                                 /\ j < i => Time(c, c.q[j]) <= y
                                 /\ j >= i => y <= Time(c, c.q[j])
    BY <1>7, <1>8, <1>9
  <2>3. /\ i = 1 => -Half < y /\ y <= Half
        /\ i > 1 => -Half < Time(c, c.q[1]) /\ Time(c, c.q[1]) <= Half
    BY <1>0, <1>1
  <2>4. Belongs(c, i, y, g)
    BY <1>0, <1>9, <2>2, <2>3 DEF Belongs
  <2> QED
    BY <1>0, <1>2, <1>9, <2>1, <2>4, InsertedTimes
<1>11. /\ Len(d.q) = Len(c.q) + 1
       /\ \A j \in 1 .. Len(d.q) :
             d.q[j] = IF j < i THEN c.q[j] ELSE IF j = i THEN e ELSE c.q[j - 1]
  BY <1>0, <1>3 DEF Inserted
<1>12. ASSUME NEW j \in 1 .. Len(d.q), d.q[j].type # COMPARE
       PROVE  /\ Time(d, d.q[j]) <= Half
              /\ -Time(d, d.q[j]) <= Allowed(Jumps(d.q, j), s)
  <2>0. /\ Jumps(d.q, j) \in Int /\ Jumps(d.q, j) <= Most
        /\ Allowed(Jumps(d.q, j), s) \in Int /\ Allowed(Jumps(d.q, j), s) >= 0
    <3>1. Jumps(d.q, j) \in Int /\ Jumps(d.q, j) <= Most
      BY <1>12, JumpsFit DEF d
    <3> QED
      BY <3>1, AllowedFacts, BlockAssumption
  <2>1. CASE j < i
    <3>1. j \in 1 .. Len(c.q) /\ d.q[j] = c.q[j] /\ Time(d, d.q[j]) = Time(c, c.q[j])
      BY <1>0, <1>7, <1>10, <1>11, <2>1
    <3>2. \A l \in 1 .. j : d.q[l] = c.q[l]
      BY <1>0, <1>7, <1>11, <2>1, SMTT(30)
    <3>3. Jumps(d.q, j) = Jumps(c.q, j)
      BY <3>2, JumpsInFront
    <3> QED
      BY <1>12, <3>1, <3>3 DEF Loose, Bounded
  <2>2. CASE j = i
    BY <1>0, <1>10, <2>0, <2>2
  <2>3. CASE j > i
    <3>1. j - 1 \in 1 .. Len(c.q) /\ d.q[j] = c.q[j - 1] /\ j - 1 >= i
          /\ Time(d, d.q[j]) = Time(c, c.q[j - 1])
      BY <1>0, <1>7, <1>10, <1>11, <2>3
    <3>2. Time(c, c.q[j - 1]) <= Half
      BY <1>12, <3>1 DEF Loose, Bounded
    <3>3. y <= Time(c, c.q[j - 1]) /\ Time(c, c.q[j - 1]) \in Int
      BY <1>6, <1>8, <3>1
    <3> QED
      BY <1>0, <2>0, <3>1, <3>2, <3>3
  <2> QED
    BY <1>0, <1>7, <2>1, <2>2, <2>3
<1>13. d.cycleCount <= Allowed(0, s)
  <2>1. d.cycleCount \in Int
    BY <1>2, EventsOfQueue
  <2>2. 0 \in Int /\ s \in Nat
    BY BlockAssumption
  <2>3. Allowed(0, s) \in Int
    BY <2>2, AllowedFacts
  <2>4. g = Late(c)
    BY DEF g
  <2> QED
    BY <1>1, <1>9, <1>10, <2>1, <2>3, <2>4
<1>14. Timed(d, s)
  BY <1>10, <1>12, <1>13 DEF Timed, Loose, Bounded
<1>15. Time(c, c.q[1]) <= 0 => d.q[1] = c.q[1] /\ Time(d, d.q[1]) = Time(c, c.q[1])
  <2> SUFFICES ASSUME Time(c, c.q[1]) <= 0
               PROVE  d.q[1] = c.q[1] /\ Time(d, d.q[1]) = Time(c, c.q[1])
    OBVIOUS
  <2>1. 1 \in 1 .. Len(c.q) /\ 1 \in 1 .. Len(d.q)
    BY <1>0, <1>11, SMTT(30)
  <2>2. i > 1
    <3> SUFFICES ASSUME i = 1 PROVE FALSE
      BY <1>0, <1>7
    <3>1. y < Time(c, c.q[1])
      BY <1>0, <1>7, <2>1
    <3> QED
      BY <1>0, <1>1, <3>1
  <2> QED
    BY <1>10, <1>11, <2>1, <2>2
<1> QED
  BY <1>10, <1>14, <1>15 DEF d

-----------------------------------------------------------------------------
(* The timer is put back as seen one instruction later.                    *)
LEMMA DistanceIs ==
    ASSUME NEW c \in Cp0, NEW e \in Events, NEW b \in Int, Same(b, c.count - Lag(c))
    PROVE  (e.count - b) % Modulus = Time(c, e) + Lag(c)
<1> DEFINE p == c.count
           h == e.count
           g == Lag(c)
           x == Time(c, e)
<1>1. /\ p \in Int /\ h \in Int /\ g \in Int /\ x \in Int
      /\ Same(x, h - p) /\ Same(b, p - g) /\ -g <= x /\ x < Modulus - g
  BY EventsOfQueue, TimeFacts DEF Events, Word
<1> HIDE DEF p, h, g, x
<1>2. PICK k \in Int : x - (h - p) = k * Modulus
  BY <1>1 DEF Same
<1>3. PICK l \in Int : b - (p - g) = l * Modulus
  BY <1>1 DEF Same
<1>4. (x + g) - (h - b) = (k + l) * Modulus /\ k + l \in Int
  BY <1>1, <1>2, <1>3, WordArithmetic
<1>5. Same(x + g, h - b)
  BY <1>4 DEF Same
<1> DEFINE u == x + g
           v == h - b
<1>6. u \in Int /\ v \in Int /\ Same(u, v) /\ 0 <= u /\ u < Modulus
  BY <1>1, <1>5, WordArithmetic
<1> HIDE DEF u, v
<1>7. v % Modulus = u
  BY <1>6, ModuloIs
<1> QED
  BY <1>7 DEF u, v, p, h, g, x

(* The timer goes where its time belongs, even if cycle_count is stale.    *)
LEMMA AddCompareLinks ==
    ASSUME NEW c, CompareOut(c), NEW n \in Word,
           \A i \in 1 .. Len(c.q) : -Lag(c) <= Time(c, c.q[i])
    PROVE  LET d == AddCompare(c, n)
           IN  /\ d \in Cp0 /\ d.count = c.count /\ d.q # <<>>
               /\ d.cycleCount = Signed(d.count - d.q[1].count)
               /\ \E e \in Events, i \in 1 .. (Len(c.q) + 1) :
                     /\ e.type = COMPARE
                     /\ Inserted(c.q, i, e, d.q)
                     /\ \A j \in 1 .. Len(c.q) :
                           j < i => Time(c, c.q[j]) <= Time(c, e)
                     /\ i <= Len(c.q) => Time(c, e) < Time(c, c.q[i])
<1> DEFINE ahead  == [c EXCEPT !.count = (@ + CountPerOp) % Modulus,
                               !.cycleCount = @ + CountPerOp]
           placed == AddInterruptEventCount(ahead, COMPARE, n)
           d == AddCompare(c, n)
           m == n % Modulus
           i == Place(ahead, m)
<1>0. /\ c \in Cp0 /\ Len(c.q) < Capacity /\ Len(c.q) \in Nat /\ n \in Int
      /\ c.count \in Int /\ c.cycleCount \in Int /\ CountPerOp \in Nat \ {0}
      /\ COMPARE \in Types
  BY EventsOfQueue, RateAssumption, TypesOfOwnEvents DEF CompareOut, Fits, Word
<1> DEFINE w == c.count + CountPerOp
           z == c.cycleCount + CountPerOp
<1>1. w \in Int /\ z \in Int
  BY <1>0
<1>2. w % Modulus \in Word /\ w % Modulus \in Int /\ Same(w % Modulus, w)
  <2> HIDE DEF w
  <2>1. w % Modulus \in Word /\ Same(w % Modulus, w)
    BY <1>1, WordArithmetic, SameModulo
  <2> QED
    BY <2>1 DEF Word
<1>3. /\ ahead \in Cp0 /\ ahead.q = c.q /\ ahead.count = w % Modulus
      /\ ahead.cycleCount = z
  BY <1>0, <1>1, <1>2 DEF Cp0
<1>4. Fits(ahead) /\ Len(ahead.q) < Capacity
  BY <1>0, <1>3 DEF CompareOut, Fits
<1> HIDE DEF ahead
<1>5. /\ placed \in Cp0 /\ placed.q # <<>>
      /\ \E e \in Events : e.type = COMPARE /\ e.count = m /\ Inserted(c.q, i, e, placed.q)
  BY <1>0, <1>3, <1>4, AddLinks
<1>6. d = [placed EXCEPT !.count = c.count,
                         !.cycleCount = Signed(c.count - placed.q[1].count)]
  BY DEF AddCompare, ahead
<1> HIDE DEF placed, d
<1>7. /\ d.q = placed.q /\ d.count = c.count
      /\ d.cycleCount = Signed(d.count - d.q[1].count)
  BY <1>5, <1>6 DEF Cp0
<1>8. d \in Cp0
  BY AddCompareProperties DEF Fits, d
<1>9. PICK e \in Events : e.type = COMPARE /\ e.count = m /\ Inserted(c.q, i, e, d.q)
  BY <1>5, <1>7
<1> DEFINE y == Time(c, e)
           g == Lag(c)
           b == Base(ahead)
<1>10. b \in Int /\ Same(b, c.count - g) /\ g \in Int
  <2>1. b = IF z > 0 THEN (w % Modulus) - z ELSE w % Modulus
    BY <1>3 DEF Base
  <2>2. g = IF c.cycleCount > -CountPerOp THEN c.cycleCount ELSE -CountPerOp
    BY DEF Lag
  <2> HIDE DEF b, g
  <2> DEFINE v == w % Modulus
  <2>3. v \in Int /\ Same(v, w)
    BY <1>2
  <2> HIDE DEF v
  <2>4. CASE z > 0
    <3>1. b = v - z /\ g = c.cycleCount
      BY <1>0, <1>1, <2>1, <2>2, <2>4 DEF v
    <3>2. Same(v - z, w - z)
      BY <1>1, <2>3, SameMoved
    <3>3. w - z = c.count - c.cycleCount
      BY <1>0
    <3> QED
      BY <1>0, <1>1, <2>3, <3>1, <3>2, <3>3
  <2>5. CASE ~(z > 0)
    <3>1. b = v /\ g = -CountPerOp
      BY <1>0, <1>1, <2>1, <2>2, <2>5 DEF v
    <3>2. w = c.count - (-CountPerOp)
      BY <1>0
    <3> QED
      BY <1>0, <2>3, <3>1, <3>2
  <2> QED
    BY <2>4, <2>5
<1>11. /\ y \in Int /\ Same(y, e.count - c.count) /\ 0 <= y + g /\ y + g < Modulus
       /\ e.count \in Int
  <2>1. /\ y \in Int /\ Same(y, e.count - c.count) /\ -g <= y /\ y < Modulus - g
    BY <1>0, TimeFacts
  <2>2. e.count \in Int /\ Modulus \in Int
    BY WordArithmetic DEF Events, Word
  <2> HIDE DEF y, g
  <2> QED
    BY <1>10, <2>1, <2>2
<1>12. (m - b) % Modulus = y + g
  <2> HIDE DEF m, b
  <2>1. (e.count - b) % Modulus = y + g
    BY <1>0, <1>10, DistanceIs
  <2> QED
    BY <1>9, <2>1
<1>13. \A j \in 1 .. Len(c.q) :
          /\ Time(c, c.q[j]) \in Int
          /\ (c.q[j].count - b) % Modulus = Time(c, c.q[j]) + g
  <2> HIDE DEF b
  <2> TAKE j \in 1 .. Len(c.q)
  <2>1. c.q[j] \in Events
    BY <1>0, EventsOfQueue
  <2> QED
    BY <1>0, <1>10, <2>1, TimeFacts, DistanceIs
<1>14. \A j \in 1 .. Len(c.q) :
          BeforeEvent(ahead, m, c.q[j].count) <=> y < Time(c, c.q[j])
  <2> TAKE j \in 1 .. Len(c.q)
  <2>1. BeforeEvent(ahead, m, c.q[j].count) <=> y + g < Time(c, c.q[j]) + g
    BY <1>12, <1>13 DEF BeforeEvent
  <2> HIDE DEF y, g
  <2> QED
    BY <1>10, <1>11, <1>13, <2>1
<1>15. /\ i \in 1 .. (Len(c.q) + 1)
       /\ \A j \in 1 .. Len(c.q) : j < i => ~BeforeEvent(ahead, m, c.q[j].count)
       /\ i <= Len(c.q) => BeforeEvent(ahead, m, c.q[i].count)
  <2> HIDE DEF m
  <2> QED
    BY <1>3, PlaceFacts
<1> HIDE DEF i, y, m, g, b
<1>16. /\ \A j \in 1 .. Len(c.q) : j < i => Time(c, c.q[j]) <= y
       /\ i <= Len(c.q) => y < Time(c, c.q[i])
  <2>1. i <= Len(c.q) => i \in 1 .. Len(c.q)
    BY <1>0, <1>15
  <2>2. \A j \in 1 .. Len(c.q) : j < i => Time(c, c.q[j]) <= y
    BY <1>11, <1>13, <1>14, <1>15
  <2> QED
    BY <1>14, <1>15, <2>1, <2>2
<1> QED
  BY <1>5, <1>7, <1>8, <1>9, <1>15, <1>16 DEF d, y

(* After remove_event cycle_count may be that of the event taken out: then *)
(* each event left has a jump to spare.                                    *)
Tight(c, s) == \A i \in 1 .. Len(c.q) : -Time(c, c.q[i]) <= Allowed(2 * i, s)

LEMMA AddCompareIsTimed ==
    ASSUME Punctual, NEW c, CompareOut(c), c.q # <<>>, NEW s \in 0 .. BlockLength,
           Loose(c, s), Exact(c) \/ Tight(c, s), NEW n \in Word
    PROVE  Timed(AddCompare(c, n), s)
<1> DEFINE d == AddCompare(c, n)
           g == Lag(c)
<1>0. /\ c \in Cp0 /\ Len(c.q) \in Nat /\ c.count \in Int /\ c.cycleCount \in Int
      /\ 1 \in 1 .. Len(c.q) /\ CountPerOp \in Nat \ {0} /\ Half \in Nat
      /\ \A j \in 1 .. Len(c.q) : c.q[j].type # COMPARE
  BY EventsOfQueue, RateAssumption, HalfAssumption DEF CompareOut, Fits, Scheduled
<1>1. /\ Time(c, c.q[1]) \in Int /\ -c.cycleCount <= Time(c, c.q[1])
      /\ -Half < Time(c, c.q[1]) /\ Time(c, c.q[1]) <= Half
      /\ Late(c) \in Nat /\ Late(c) < Half /\ c.cycleCount <= Late(c)
      /\ Late(c) <= Allowed(0, s)
  BY <1>0, HeadIsNear
<1>2. /\ g \in Int /\ -CountPerOp <= g /\ g <= Late(c)
      /\ c.cycleCount > -CountPerOp => g = c.cycleCount
  BY <1>0 DEF Lag, Late
<1>3. \A j \in 1 .. Len(c.q) : /\ Time(c, c.q[j]) \in Int
                               /\ -g <= Time(c, c.q[j])
                               /\ Time(c, c.q[j]) < Modulus - g
  <2> TAKE j \in 1 .. Len(c.q)
  <2>1. c.q[j] \in Events
    BY <1>0, EventsOfQueue
  <2> QED
    BY <1>0, <2>1, TimeFacts
<1>4. /\ d \in Cp0 /\ d.count = c.count /\ d.q # <<>>
      /\ d.cycleCount = Signed(d.count - d.q[1].count)
  BY <1>3, AddCompareLinks
<1>5. PICK e \in Events, i \in 1 .. (Len(c.q) + 1) :
         /\ e.type = COMPARE
         /\ Inserted(c.q, i, e, d.q)
         /\ \A j \in 1 .. Len(c.q) : j < i => Time(c, c.q[j]) <= Time(c, e)
         /\ i <= Len(c.q) => Time(c, e) < Time(c, c.q[i])
  BY <1>3, AddCompareLinks
<1>6. Room(d)
  BY AddCompareProperties DEF Room
<1> HIDE DEF d, g
<1> DEFINE y == Time(c, e)
<1>7. y \in Int /\ Same(y, e.count - c.count) /\ -g <= y /\ y < Modulus - g
  BY <1>0, TimeFacts DEF g
<1> HIDE DEF y
<1>8. \A j \in 1 .. Len(c.q) : j >= i => y <= Time(c, c.q[j])
  <2> SUFFICES ASSUME NEW j \in 1 .. Len(c.q), j >= i PROVE y <= Time(c, c.q[j])
    OBVIOUS
  <2>1. i \in 1 .. Len(c.q) /\ y < Time(c, c.q[i])
    BY <1>0, <1>5 DEF y
  <2>2. i = j \/ i < j
    BY <1>0
  <2>4. i < j => Time(c, c.q[i]) <= Time(c, c.q[j])
    BY <2>1 DEF Loose, Lined
  <2>5. i = j => Time(c, c.q[i]) <= Time(c, c.q[j])
    BY <1>3, <2>1
  <2>3. Time(c, c.q[i]) <= Time(c, c.q[j])
    BY <2>2, <2>4, <2>5
  <2> QED
    BY <1>3, <1>7, <2>1, <2>3
<1>9. i = 1 => y < Time(c, c.q[1])
  BY <1>0, <1>5 DEF y
<1>10. /\ i = 1 => -Half < y /\ y <= Half
       /\ i > 1 => -Half < Time(c, c.q[1]) /\ Time(c, c.q[1]) <= Half
  <2>1. -Half < y
    BY <1>0, <1>1, <1>2, <1>7
  <2> QED
    BY <1>0, <1>1, <1>7, <1>9, <2>1
<1>11. /\ \A j \in 1 .. Len(d.q) :
             Time(d, d.q[j]) = IF j < i THEN Time(c, c.q[j])
                               ELSE IF j = i THEN y ELSE Time(c, c.q[j - 1])
       /\ Lined(d) /\ Exact(d) /\ d.cycleCount <= g
  <2>1. Lined(c) /\ Inserted(c.q, i, e, d.q)
    BY <1>5 DEF Loose
  <2>2. \A j \in 1 .. Len(c.q) : /\ -g <= Time(c, c.q[j])
                                 /\ Time(c, c.q[j]) < Modulus - g
                                 /\ j < i => Time(c, c.q[j]) <= y
                                 /\ j >= i => y <= Time(c, c.q[j])
    BY <1>3, <1>5, <1>8 DEF y
  <2>3. Belongs(c, i, y, g)
    BY <1>2, <1>7, <1>10, <2>2 DEF Belongs
  <2> QED
    BY <1>0, <1>4, <1>7, <2>1, <2>3, InsertedTimes
<1>12. /\ Len(d.q) = Len(c.q) + 1
       /\ \A j \in 1 .. Len(d.q) :
             d.q[j] = IF j < i THEN c.q[j] ELSE IF j = i THEN e ELSE c.q[j - 1]
  BY <1>0, <1>5 DEF Inserted
<1>13. ASSUME NEW j \in 1 .. Len(d.q), d.q[j].type # COMPARE
       PROVE  /\ Time(d, d.q[j]) <= Half
              /\ -Time(d, d.q[j]) <= Allowed(Jumps(d.q, j), s)
  <2>1. CASE j < i
    <3>1. j \in 1 .. Len(c.q) /\ d.q[j] = c.q[j] /\ Time(d, d.q[j]) = Time(c, c.q[j])
      BY <1>0, <1>11, <1>12, <2>1
    <3>2. \A l \in 1 .. j : d.q[l] = c.q[l]
      BY <1>0, <1>12, <2>1
    <3>3. Jumps(d.q, j) = Jumps(c.q, j)
      BY <3>2, JumpsInFront
    <3> QED
      BY <1>13, <3>1, <3>3 DEF Loose, Bounded
  <2>2. CASE j = i
    BY <1>5, <1>12, <1>13, <2>2
  <2>3. CASE j > i
    <3> DEFINE l == j - 1
               x == Time(c, c.q[l])
    <3>1. l \in 1 .. Len(c.q) /\ d.q[j] = c.q[l] /\ l >= i /\ Time(d, d.q[j]) = x
      BY <1>0, <1>11, <1>12, <2>3
    <3>2. x <= Half /\ x \in Int
      BY <1>0, <1>3, <3>1 DEF Loose, Bounded
    <3>3. Jumps(d.q, j) = 2 * l - (IF i = 1 THEN 0 ELSE 1)
      <4>1. TimerBefore(d.q, j)
        <5>1. i \in 1 .. (j - 1) /\ i \in 1 .. Len(d.q)
          BY <1>0, <1>12, <2>3
        <5>2. d.q[i].type = COMPARE
          BY <1>5, <1>12, <5>1
        <5> QED
          BY <5>1, <5>2 DEF TimerBefore
      <4>2. d.q[1].type = COMPARE <=> i = 1
        <5>1. 1 \in 1 .. Len(d.q)
          BY <1>0, <1>12
        <5>2. CASE i = 1
          <6>1. d.q[1] = e
            BY <1>12, <5>1, <5>2
          <6> QED
            BY <1>5, <5>2, <6>1
        <5>3. CASE i > 1
          <6>1. d.q[1] = c.q[1]
            BY <1>12, <5>1, <5>3
          <6> QED
            BY <1>0, <5>3, <6>1
        <5> QED
          BY <1>0, <5>2, <5>3
      <4> QED
        BY <4>1, <4>2 DEF Jumps, Rank
    <3>4. CASE i > 1
      <4>1. ~TimerBefore(c.q, l)
        BY <1>0, <3>1, SMTT(30) DEF TimerBefore
      <4>2. Rank(c.q, l) = l /\ c.q[1].type # COMPARE
        BY <1>0, <4>1 DEF Rank
      <4>3. Jumps(c.q, l) = 2 * l - 1
        BY <4>2 DEF Jumps
      <4>4. Jumps(d.q, j) = 2 * l - 1
        <5>1. i # 1
          BY <3>4
        <5> QED
          BY <3>3, <5>1
      <4>5. Jumps(c.q, l) = Jumps(d.q, j)
        BY <4>3, <4>4
      <4> QED
        BY <1>0, <3>1, <3>2, <4>5 DEF Loose, Bounded
    <3>5. CASE i = 1 /\ Tight(c, s)
      BY <3>1, <3>2, <3>3, <3>5 DEF Tight
    <3>6. CASE i = 1 /\ Exact(c)
      <4>1. c.cycleCount = -Time(c, c.q[1]) /\ y < Time(c, c.q[1])
        BY <1>9, <3>6 DEF Exact
      <4>2. Time(c, c.q[1]) > 0
        BY <1>0, <1>1, <1>2, <1>7, <4>1
      <4>3. Time(c, c.q[1]) <= x
        <5>1. l = 1 \/ 1 < l
          BY <3>1
        <5> QED
          BY <1>0, <3>1, <3>2, <5>1 DEF Loose, Lined
      <4>4. -x <= 0
        BY <1>1, <3>2, <4>2, <4>3
      <4>5. Jumps(d.q, j) \in Int /\ Jumps(d.q, j) <= Most
        BY <1>6, <1>13, JumpsFit
      <4>6. Allowed(Jumps(d.q, j), s) \in Int /\ Allowed(Jumps(d.q, j), s) >= 0
        BY <4>5, AllowedFacts, BlockAssumption
      <4> QED
        BY <3>1, <3>2, <4>4, <4>6
    <3> QED
      BY <1>0, <3>4, <3>5, <3>6
  <2> QED
    BY <1>0, <2>1, <2>2, <2>3
<1>14. d.cycleCount <= Allowed(0, s)
  <2>1. d.cycleCount \in Int
    BY <1>4, EventsOfQueue
  <2>2. 0 \in Int /\ s \in Nat
    BY BlockAssumption
  <2>3. Allowed(0, s) \in Int
    BY <2>2, AllowedFacts
  <2> QED
    BY <1>1, <1>2, <1>11, <2>1, <2>3
<1>15. Timed(d, s)
  BY <1>11, <1>13, <1>14 DEF Timed, Loose, Bounded
<1> QED
  BY <1>15 DEF d

-----------------------------------------------------------------------------
(* Taking events out.                                                      *)
LEMMA FewerJumps ==
    ASSUME NEW c, Room(c), NEW r, Removed(c.q, 1, r), NEW j \in 1 .. Len(r),
           r[j].type # COMPARE
    PROVE  /\ Jumps(c.q, j + 1) \in Int /\ Jumps(r, j) \in Int
           /\ Jumps(r, j) + 1 <= Jumps(c.q, j + 1)
           /\ Jumps(r, j) <= Most /\ 0 <= Jumps(r, j)
<1> DEFINE q == c.q
<1>0. /\ Len(q) \in Nat /\ Len(r) = Len(q) - 1 /\ Len(r) \in Nat
      /\ \A i \in 1 .. Len(r) : r[i] = q[i + 1]
      /\ j + 1 \in 1 .. Len(q) /\ 1 \in 1 .. Len(q) /\ 1 \in 1 .. Len(r)
  BY EventsOfQueue DEF Removed, Room, Fits
<1>1. q[j + 1].type # COMPARE
  BY <1>0
<1>2. /\ Jumps(q, j + 1) \in Int /\ Jumps(q, j + 1) <= Most
      /\ Rank(q, j + 1) = IF TimerBefore(q, j + 1) THEN j ELSE j + 1
      /\ Rank(r, j) = IF TimerBefore(r, j) THEN j - 1 ELSE j
      /\ Jumps(q, j + 1) = 2 * Rank(q, j + 1) - (IF q[1].type = COMPARE THEN 0 ELSE 1)
      /\ Jumps(r, j) = 2 * Rank(r, j) - (IF r[1].type = COMPARE THEN 0 ELSE 1)
  BY <1>0, <1>1, JumpsFit DEF Rank, Jumps
<1>3. TimerBefore(r, j) => j >= 2
  BY DEF TimerBefore
<1>4. CASE q[1].type = COMPARE
  <2>1. TimerBefore(q, j + 1)
    BY <1>0, <1>4 DEF TimerBefore
  <2>2. Once(q, COMPARE)
    BY <1>0, <1>4 DEF Room, CompareOut, Scheduled
  <2>3. \A i \in 1 .. Len(r) : r[i].type # COMPARE
    <3> TAKE i \in 1 .. Len(r)
    <3>1. r[i] = q[i + 1] /\ i + 1 \in 1 .. Len(q) /\ i + 1 # 1
      BY <1>0
    <3> QED
      BY <1>0, <1>4, <2>2, <3>1 DEF Once
  <2>4. ~TimerBefore(r, j) /\ r[1].type # COMPARE
    BY <1>0, <2>3 DEF TimerBefore
  <2>5. j \in Int /\ j >= 1
    BY <1>0
  <2>6. Jumps(q, j + 1) = 2 * j /\ Jumps(r, j) = 2 * j - 1
    BY <1>2, <1>4, <2>1, <2>4, <2>5
  <2>7. Jumps(q, j + 1) <= Most /\ Most \in Int /\ j \in Int /\ j >= 1
    BY <1>2, <2>5, CapacityAssumption DEF Most
  <2> QED
    BY <2>6, <2>7
<1>5. CASE q[1].type # COMPARE
  <2>1. TimerBefore(q, j + 1) <=> TimerBefore(r, j)
    <3>1. ASSUME TimerBefore(q, j + 1)  PROVE TimerBefore(r, j)
      <4>1. PICK i \in 1 .. j : q[i].type = COMPARE
        BY <3>1 DEF TimerBefore
      <4>2. i - 1 \in 1 .. (j - 1) /\ i - 1 \in 1 .. Len(r) /\ (i - 1) + 1 = i
        BY <1>0, <1>5, <4>1
      <4>3. r[i - 1].type = COMPARE
        BY <1>0, <4>1, <4>2
      <4> QED
        BY <4>2, <4>3 DEF TimerBefore
    <3>2. ASSUME TimerBefore(r, j)  PROVE TimerBefore(q, j + 1)
      <4>1. PICK i \in 1 .. (j - 1) : r[i].type = COMPARE
        BY <3>2 DEF TimerBefore
      <4>2. i + 1 \in 1 .. j /\ q[i + 1].type = COMPARE /\ (j + 1) - 1 = j
        BY <1>0, <4>1
      <4> QED
        BY <4>2 DEF TimerBefore
    <3> QED
      BY <3>1, <3>2
  <2>2. j \in Int /\ j >= 1
    BY <1>0
  <2>3. /\ Rank(q, j + 1) = Rank(r, j) + 1 /\ Rank(r, j) \in Int /\ 1 <= Rank(r, j)
    BY <1>2, <1>3, <2>1, <2>2
  <2>4. /\ Jumps(q, j + 1) = 2 * Rank(q, j + 1) - 1
        /\ Jumps(r, j) \in {2 * Rank(r, j) - 1, 2 * Rank(r, j)}
    BY <1>2, <1>5
  <2>5. /\ Jumps(q, j + 1) <= Most /\ Most \in Int
        /\ Rank(q, j + 1) = Rank(r, j) + 1 /\ Rank(r, j) \in Int /\ 1 <= Rank(r, j)
    BY <1>2, <2>3, CapacityAssumption DEF Most
  <2> QED
    BY <2>4, <2>5
<1> QED
  BY <1>4, <1>5

LEMMA LateBound ==
    ASSUME NEW c, c.cycleCount \in Int, NEW n \in Nat, c.cycleCount <= n
    PROVE  Late(c) \in Nat /\ Late(c) <= n
BY DEF Late

(* remove_interrupt_event: the next event is as near, and everyone behind  *)
(* it has one jump less to wait for.                                       *)
LEMMA RemoveIsTimed ==
    ASSUME Punctual, NEW c, Room(c), NEW s \in 0 .. BlockLength, Loose(c, s),
           NEW k \in 2 .. Len(c.q), c.q[k].type # COMPARE
    PROVE  LET d == RemoveInterruptEvent(c)
           IN  /\ Timed(d, 0) /\ d.count = c.count
               /\ Removed(c.q, 1, d.q)
               /\ Fresh(c) => Fresh(d)
               /\ \A j \in 1 .. Len(d.q) : Time(d, d.q[j]) = Time(c, c.q[j + 1])
<1> DEFINE d == RemoveInterruptEvent(c)
           q == c.q
           r == d.q
<1>0. /\ c \in Cp0 /\ q \in Seq(Events) /\ Len(q) \in Nat /\ Len(q) >= 2
      /\ c.count \in Int /\ c.cycleCount \in Int /\ q # <<>>
      /\ CountPerOp \in Nat \ {0} /\ Half \in Nat /\ Modulus \in Int
      /\ k \in 1 .. Len(q) /\ 2 \in 1 .. Len(q) /\ 1 \in 1 .. Len(q)
      /\ s \in Nat /\ s <= BlockLength
  <2>1. c \in Cp0
    BY DEF Room, Fits
  <2>2. q \in Seq(Events) /\ Len(q) \in Nat /\ c.count \in Int /\ c.cycleCount \in Int
    BY <2>1, EventsOfQueue
  <2>3. Len(q) >= 2 /\ k \in 1 .. Len(q) /\ 2 \in 1 .. Len(q) /\ 1 \in 1 .. Len(q)
    BY <2>2
  <2>4. q # <<>>
    BY <2>2, <2>3, EmptySeq
  <2>5. CountPerOp \in Nat \ {0} /\ Half \in Nat /\ Modulus \in Int
    BY RateAssumption, HalfAssumption, WordArithmetic
  <2> QED
    BY <2>1, <2>2, <2>3, <2>4, <2>5, BlockAssumption
<1>1. Removed(q, 1, Tail(q)) /\ d = WithQueue(c, Tail(q))
  <2>1. /\ Tail(q) \in Seq(Events)
        /\ Len(Tail(q)) = Len(q) - 1
        /\ \A j \in 1 .. Len(Tail(q)) : Tail(q)[j] = q[j + 1]
    BY <1>0, HeadTailProperties
  <2> QED
    BY <1>0, <2>1 DEF Removed, RemoveInterruptEvent
<1> HIDE DEF d
<1>2. /\ d \in Cp0 /\ r = Tail(q) /\ d.count = c.count
  <2>1. Tail(q) \in Seq(Events)
    BY <1>1 DEF Removed
  <2> QED
    BY <1>0, <1>1, <2>1, WithQueueType
<1>3. /\ r \in Seq(Events) /\ Len(r) = Len(q) - 1 /\ Len(r) \in Nat
      /\ \A j \in 1 .. Len(r) : r[j] = q[j + 1]
      /\ 1 \in 1 .. Len(r) /\ r # <<>> /\ k - 1 \in 1 .. Len(r)
  <2>1. /\ r \in Seq(Events) /\ Len(r) = Len(q) - 1
        /\ \A j \in 1 .. (Len(q) - 1) : r[j] = IF j < 1 THEN q[j] ELSE q[j + 1]
    BY <1>1, <1>2 DEF Removed
  <2>2. Len(r) \in Nat /\ 1 \in 1 .. Len(r) /\ k - 1 \in 1 .. Len(r)
    BY <1>0, <2>1
  <2>3. \A j \in 1 .. Len(r) : r[j] = q[j + 1]
    BY <1>0, <2>1
  <2>4. r # <<>>
    BY <2>1, <2>2, EmptySeq
  <2> QED
    BY <2>1, <2>2, <2>3, <2>4
<1>4. d.cycleCount = Signed(d.count - r[1].count)
  BY <1>0, <1>1, <1>2, <1>3 DEF WithQueue, Cp0
<1>5. /\ Time(c, q[1]) \in Int /\ -c.cycleCount <= Time(c, q[1])
      /\ -Half < Time(c, q[1]) /\ Late(c) \in Nat /\ c.cycleCount <= Late(c)
  BY <1>0, HeadIsNear
<1>6. \A j \in 1 .. Len(q) : /\ Time(c, q[j]) \in Int
                             /\ Same(Time(c, q[j]), q[j].count - c.count)
                             /\ -Lag(c) <= Time(c, q[j])
                             /\ Time(c, q[j]) < Modulus - Lag(c)
  <2> TAKE j \in 1 .. Len(q)
  <2>1. q[j] \in Events
    BY <1>0, EventsOfQueue
  <2> QED
    BY <1>0, <2>1, TimeFacts
<1>7. \A i, j \in 1 .. Len(q) : i < j => Time(c, q[i]) <= Time(c, q[j])
  BY DEF Loose, Lined
<1>8. -Half < Time(c, q[2]) /\ Time(c, q[2]) <= Half /\ Time(c, q[1]) <= Time(c, q[2])
  <2>1. Time(c, q[1]) <= Time(c, q[2])
    BY <1>0, <1>7
  <2>2. Time(c, q[k]) <= Half /\ (2 < k => Time(c, q[2]) <= Time(c, q[k]))
    BY <1>0, <1>7 DEF Loose, Bounded
  <2>3. 2 = k \/ 2 < k
    BY <1>0
  <2>4. Time(c, q[2]) \in Int /\ Time(c, q[k]) \in Int
    BY <1>0, <1>6
  <2>5. Time(c, q[2]) <= Half
    BY <1>0, <2>2, <2>3, <2>4
  <2> QED
    BY <1>0, <1>5, <2>1, <2>4, <2>5
<1> DEFINE X == [j \in 1 .. Len(r) |-> Time(c, q[j + 1])]
<1>9. \A j \in 1 .. Len(r) : j + 1 \in 1 .. Len(q) /\ X[j] = Time(c, q[j + 1]) /\ r[j] = q[j + 1]
  BY <1>0, <1>3
<1>10. /\ X \in [1 .. Len(r) -> Int] /\ X[1] = Time(c, q[2])
  <2>1. \A j \in 1 .. Len(r) : Time(c, q[j + 1]) \in Int
    BY <1>6, <1>9
  <2>2. X[1] = Time(c, q[1 + 1]) /\ 1 + 1 = 2
    BY <1>3, <1>9
  <2> QED
    BY <2>1, <2>2
<1> HIDE DEF X
<1>11. \A j \in 1 .. Len(r) : Same(X[j], r[j].count - d.count)
  BY <1>2, <1>6, <1>9
<1>12. \A i, j \in 1 .. Len(r) : i < j => X[i] <= X[j]
  <2> SUFFICES ASSUME NEW i \in 1 .. Len(r), NEW j \in 1 .. Len(r), i < j
               PROVE  X[i] <= X[j]
    OBVIOUS
  <2>1. i + 1 < j + 1
    BY <1>3
  <2>2. Time(c, q[i + 1]) <= Time(c, q[j + 1])
    BY <1>7, <1>9, <2>1
  <2> QED
    BY <1>9, <2>2
<1>13. \A j \in 1 .. Len(r) : X[j] < Modulus + X[1] /\ X[j] < Modulus + CountPerOp
  <2> TAKE j \in 1 .. Len(r)
  <2>1. X[j] \in Int /\ X[1] \in Int /\ X[j] < Modulus - Lag(c) /\ -Lag(c) <= X[1]
    BY <1>0, <1>3, <1>6, <1>9, <1>10
  <2>2. Lag(c) \in Int /\ Lag(c) >= -CountPerOp
    BY <1>0 DEF Lag
  <2> QED
    BY <1>0, <2>1, <2>2, SMTT(30)
<1>14. -Half < X[1] /\ X[1] <= Half
  BY <1>8, <1>10
<1>15. /\ \A j \in 1 .. Len(r) : Time(d, r[j]) = X[j]
       /\ d.cycleCount = -X[1] /\ Lined(d) /\ Exact(d)
  BY <1>2, <1>3, <1>4, <1>10, <1>11, <1>12, <1>13, <1>14, Retimed
<1>16. \A j \in 1 .. Len(r) : Time(d, r[j]) = Time(c, q[j + 1])
  BY <1>9, <1>15
<1>17. Fresh(c) => Fresh(d)
  <2> SUFFICES ASSUME Fresh(c), NEW j \in 1 .. Len(r)
               PROVE  Time(d, r[j]) + Late(d) < Modulus
    BY DEF Fresh
  <2>1. Time(c, q[j + 1]) \in Int /\ Time(c, q[j + 1]) + Late(c) < Modulus
    BY <1>6, <1>9 DEF Fresh
  <2>2. d.cycleCount \in Int /\ d.cycleCount <= Late(c)
    <3>1. Time(c, q[2]) \in Int /\ d.cycleCount = -Time(c, q[2])
      BY <1>0, <1>6, <1>10, <1>15
    <3> QED
      BY <1>0, <1>5, <1>8, <3>1, SMTT(30)
  <2>3. Late(d) \in Nat /\ Late(d) <= Late(c)
    BY <1>5, <2>2, LateBound
  <2>4. Time(d, r[j]) = Time(c, q[j + 1])
    BY <1>16
  <2> QED
    BY <1>0, <1>5, <2>1, <2>3, <2>4
<1>18. Removed(q, 1, r)
  BY <1>1, <1>2
<1>19. ASSUME NEW j \in 1 .. Len(r), r[j].type # COMPARE
       PROVE  /\ Time(d, r[j]) <= Half
              /\ -Time(d, r[j]) <= Allowed(Jumps(r, j), 0)
              /\ -Time(d, r[j]) <= Allowed(0, 0)
  <2>1. /\ Time(d, r[j]) <= Half
        /\ -Time(d, r[j]) <= Allowed(Jumps(q, j + 1), s)
        /\ Time(d, r[j]) \in Int
    BY <1>6, <1>9, <1>16, <1>19 DEF Loose, Bounded
  <2>2. /\ Jumps(q, j + 1) \in Int /\ Jumps(r, j) \in Int
        /\ Jumps(r, j) + 1 <= Jumps(q, j + 1) /\ 0 <= Jumps(r, j)
    BY <1>18, <1>19, FewerJumps
  <2>3. Allowed(Jumps(q, j + 1), s) <= Allowed(Jumps(r, j), 0)
    BY <1>0, <2>2, AllowedFacts
  <2>4. Allowed(Jumps(r, j), 0) <= Allowed(0, 0)
    <3>1. 0 \in Int /\ 0 \in Nat
      OBVIOUS
    <3> QED
      BY <2>2, <3>1, AllowedFacts
  <2>5. /\ Allowed(Jumps(q, j + 1), s) \in Int /\ Allowed(Jumps(r, j), 0) \in Int
        /\ Allowed(0, 0) \in Int
    BY <1>0, <2>2, AllowedFacts
  <2> QED
    BY <2>1, <2>3, <2>4, <2>5
<1>20. d.cycleCount <= Allowed(0, 0)
  <2>1. CASE r[1].type # COMPARE
    BY <1>3, <1>15, <1>19, <2>1
  <2>2. CASE r[1].type = COMPARE
    <3>1. q[2].type = COMPARE
      BY <1>3, <2>2
    <3>2. q[1].type # COMPARE
      <4> SUFFICES ASSUME q[1].type = COMPARE PROVE FALSE
        OBVIOUS
      <4>1. Once(q, COMPARE)
        BY <1>0 DEF Room, CompareOut, Scheduled
      <4> QED
        BY <1>0, <3>1, <4>1 DEF Once
    <3>3. -Time(c, q[1]) <= Allowed(Jumps(q, 1), s)
      BY <1>0, <3>2 DEF Loose, Bounded
    <3>4. Jumps(q, 1) \in Int /\ 1 <= Jumps(q, 1)
      BY <1>0, <3>2, JumpsFit
    <3>5. Allowed(Jumps(q, 1), s) <= Allowed(0, 0)
      <4>1. 0 \in Int /\ 0 + 1 <= Jumps(q, 1)
        BY <3>4
      <4> QED
        BY <1>0, <3>4, <4>1, AllowedFacts
    <3>6. Allowed(Jumps(q, 1), s) \in Int /\ Allowed(0, 0) \in Int
      BY <1>0, <3>4, AllowedFacts
    <3>7. Time(c, q[2]) \in Int /\ d.cycleCount = -Time(c, q[2])
      BY <1>0, <1>6, <1>10, <1>15
    <3>8. -Time(c, q[2]) <= -Time(c, q[1])
      BY <1>5, <1>8, <3>7
    <3> QED
      BY <1>5, <3>3, <3>5, <3>6, <3>7, <3>8
  <2> QED
    BY <2>1, <2>2
<1>21. Timed(d, 0)
  BY <1>15, <1>19, <1>20 DEF Timed, Loose, Bounded
<1> QED
  BY <1>2, <1>16, <1>17, <1>18, <1>21 DEF d

-----------------------------------------------------------------------------
(* remove_event: every time is as it was, and the timer is out of the way. *)
LEMMA SameTimes ==
    ASSUME NEW c, NEW d, d.count = c.count, d.cycleCount = c.cycleCount
    PROVE  /\ Lag(d) = Lag(c) /\ Late(d) = Late(c)
           /\ \A e : Time(d, e) = Time(c, e)
BY DEF Lag, Late, Time

LEMMA RemoveEventLinks ==
    ASSUME NEW c, Fits(c), NEW t, Once(c.q, t)
    PROVE  \E i \in 1 .. Len(c.q) : /\ c.q[i].type = t
                                    /\ Removed(c.q, i, RemoveEvent(c, t).q)
<1> DEFINE d == RemoveEvent(c, t)
           I == {k \in 1 .. Len(c.q) : c.q[k].type = t}
           i == Min(I)
           r == RemoveAt(c.q, i)
<1>0. c \in Cp0 /\ c.q \in Seq(Events) /\ Len(c.q) \in Nat
  BY DEF Fits, Cp0
<1>1. I # {} /\ I \subseteq Nat
  BY <1>0 DEF Once
<1>2. i \in I
  <2> HIDE DEF I
  <2> QED
    BY <1>1, MinOfNaturals
<1>3. d = [c EXCEPT !.q = r]
  BY <1>1 DEF RemoveEvent, RemoveFirstMatch, SelectInSeq
<1>4. i \in 1 .. Len(c.q) /\ c.q[i].type = t
  BY <1>2
<1> HIDE DEF i, I
<1>5. Removed(c.q, i, r)
  BY <1>0, <1>4, RemoveAtProperties DEF Removed
<1> HIDE DEF r
<1>6. d.q = r
  BY <1>0, <1>3 DEF Cp0
<1> QED
  BY <1>4, <1>5, <1>6

(* Without the timer an event waits for its place in the queue only.       *)
LEMMA JumpsWithoutTimer ==
    ASSUME NEW q, NEW j \in 1 .. Len(q), Len(q) \in Nat,
           \A i \in 1 .. Len(q) : q[i].type # COMPARE
    PROVE  Jumps(q, j) = 2 * j - 1 /\ j \in Nat
<1>1. j \in Int /\ j >= 1 /\ 1 \in 1 .. Len(q)
  OBVIOUS
<1>2. ~TimerBefore(q, j)
  BY DEF TimerBefore
<1> QED
  BY <1>1, <1>2 DEF Jumps, Rank

LEMMA RemovedIsLoose ==
    ASSUME NEW c, Room(c), NEW s \in Nat, Loose(c, s), NEW t, Once(c.q, t),
           t = COMPARE \/ ~Scheduled(c.q, COMPARE)
    PROVE  LET d == RemoveEvent(c, t)
           IN  /\ Loose(d, s) /\ d.count = c.count /\ d.cycleCount = c.cycleCount
               /\ Fits(d) /\ ~Scheduled(d.q, COMPARE)
               /\ Len(d.q) = Len(c.q) - 1
               /\ t = COMPARE /\ Exact(c) => d.q = <<>> \/ Exact(d) \/ Tight(d, s)
<1> DEFINE d == RemoveEvent(c, t)
           q == c.q
           r == d.q
<1>0. Fits(c) /\ c \in Cp0 /\ Len(q) \in Nat /\ q \in Seq(Events)
  BY EventsOfQueue DEF Room, Fits
<1>1. /\ Fits(d) /\ d.count = c.count /\ d.cycleCount = c.cycleCount
      /\ Len(r) = Len(q) - 1
      /\ ~Scheduled(r, COMPARE)
  BY <1>0, RemoveEventProperties
<1>2. PICK i \in 1 .. Len(q) : q[i].type = t /\ Removed(q, i, r)
  BY <1>0, RemoveEventLinks
<1> HIDE DEF d
<1>3. /\ \A e : Time(d, e) = Time(c, e)
      /\ d \in Cp0 /\ Len(r) \in Nat /\ i \in Int
      /\ r # <<>> => 1 \in 1 .. Len(r)
  <2>1. d \in Cp0
    BY <1>1 DEF Fits
  <2> QED
    BY <1>0, <1>1, <2>1, SameTimes, EventsOfQueue
<1> DEFINE Old(j) == IF j < i THEN j ELSE j + 1
<1>4. \A j \in 1 .. Len(r) : /\ Old(j) \in 1 .. Len(q) /\ r[j] = q[Old(j)]
                             /\ j <= Old(j)
  BY <1>0, <1>1, <1>2, <1>3 DEF Removed
<1>5. \A j, l \in 1 .. Len(r) : j < l => Old(j) < Old(l)
  BY <1>3
<1>6. \A j \in 1 .. Len(r) : r[j].type # COMPARE /\ q[Old(j)].type # COMPARE
  BY <1>1, <1>4 DEF Scheduled
<1>7. Lined(d)
  BY <1>0, <1>1, <1>3, <1>4, <1>5 DEF Loose, Lined
<1>8. ASSUME NEW j \in 1 .. Len(r)
      PROVE  /\ Jumps(r, j) = 2 * j - 1 /\ j \in Nat
             /\ Jumps(q, Old(j)) \in Int /\ Jumps(r, j) <= Jumps(q, Old(j))
             /\ t = COMPARE /\ i = 1 => Jumps(q, Old(j)) = 2 * j
  <2>1. Jumps(r, j) = 2 * j - 1 /\ j \in Nat /\ j >= 1
    BY <1>3, <1>6, JumpsWithoutTimer
  <2>2. CASE ~Scheduled(q, COMPARE)
    <3>1. \A l \in 1 .. Len(q) : q[l].type # COMPARE
      BY <2>2 DEF Scheduled
    <3>2. Jumps(q, Old(j)) = 2 * Old(j) - 1 /\ Old(j) \in Nat
      BY <1>0, <1>4, <3>1, JumpsWithoutTimer
    <3>3. t # COMPARE
      BY <1>2, <3>1
    <3> QED
      BY <1>4, <2>1, <3>2, <3>3
  <2>3. CASE t = COMPARE
    <3>1. \A l \in 1 .. Len(q) : q[l].type = COMPARE => l = i
      BY <1>2, <2>3 DEF Once
    <3>2. TimerBefore(q, Old(j)) <=> i < Old(j)
      <4>1. i < Old(j) => i \in 1 .. (Old(j) - 1)
        BY <1>2, <1>3, <1>4
      <4>2. \A l \in 1 .. (Old(j) - 1) : l \in 1 .. Len(q) /\ l < Old(j)
        BY <1>0, <1>4
      <4> QED
        BY <1>2, <2>3, <3>1, <4>1, <4>2 DEF TimerBefore
    <3>3. q[1].type = COMPARE <=> i = 1
      <4>1. 1 \in 1 .. Len(q)
        BY <1>0, <1>2
      <4> QED
        BY <1>2, <2>3, <3>1, <4>1
    <3>4. CASE j < i
      <4>1. Old(j) = j /\ ~(i < Old(j)) /\ i # 1
        BY <1>3, <2>1, <3>4
      <4>2. Jumps(q, Old(j)) = 2 * j - 1
        BY <2>1, <3>2, <3>3, <4>1 DEF Jumps, Rank
      <4> QED
        BY <2>1, <4>1, <4>2
    <3>5. CASE ~(j < i)
      <4>1. Old(j) = j + 1 /\ i < Old(j) /\ (j + 1) - 1 = j
        BY <1>3, <2>1, <3>5
      <4>2. Jumps(q, Old(j)) = 2 * j - (IF i = 1 THEN 0 ELSE 1)
        BY <2>1, <3>2, <3>3, <4>1 DEF Jumps, Rank
      <4> QED
        BY <2>1, <4>1, <4>2
    <3> QED
      BY <3>4, <3>5
  <2> QED
    BY <2>2, <2>3
<1>9. ASSUME NEW j \in 1 .. Len(r)
      PROVE  /\ Time(d, r[j]) = Time(c, q[Old(j)])
             /\ Time(d, r[j]) <= Half
             /\ -Time(d, r[j]) <= Allowed(Jumps(q, Old(j)), s)
             /\ -Time(d, r[j]) <= Allowed(Jumps(r, j), s)
  <2>1. Old(j) \in 1 .. Len(q) /\ r[j] = q[Old(j)] /\ q[Old(j)].type # COMPARE
    BY <1>4, <1>6
  <2>2. Time(c, q[Old(j)]) <= Half /\ -Time(c, q[Old(j)]) <= Allowed(Jumps(q, Old(j)), s)
    BY <2>1 DEF Loose, Bounded
  <2>3. Time(c, q[Old(j)]) \in Int
    BY <1>0, <2>1, EventsOfQueue, TimeFacts
  <2>4. Time(d, r[j]) = Time(c, q[Old(j)])
    BY <1>3, <2>1
  <2>5. /\ Jumps(r, j) \in Int /\ Jumps(q, Old(j)) \in Int
        /\ Jumps(r, j) <= Jumps(q, Old(j))
    BY <1>8
  <2>6. /\ Allowed(Jumps(q, Old(j)), s) <= Allowed(Jumps(r, j), s)
        /\ Allowed(Jumps(q, Old(j)), s) \in Int /\ Allowed(Jumps(r, j), s) \in Int
    BY <2>5, AllowedFacts
  <2> QED
    BY <2>2, <2>3, <2>4, <2>6
<1>10. Loose(d, s)
  BY <1>1, <1>7, <1>9 DEF Loose, Bounded
<1>11. ASSUME t = COMPARE, Exact(c), r # <<>>  PROVE Exact(d) \/ Tight(d, s)
  <2>1. CASE i = 1
    <3>1. \A j \in 1 .. Len(r) : Jumps(q, Old(j)) = 2 * j
      BY <1>8, <1>11, <2>1
    <3>2. \A j \in 1 .. Len(r) : -Time(d, r[j]) <= Allowed(2 * j, s)
      BY <1>9, <3>1
    <3> QED
      BY <3>2 DEF Tight
  <2>2. CASE i # 1
    <3>1. 1 \in 1 .. Len(r) /\ Old(1) = 1
      BY <1>2, <1>3, <1>11, <2>2
    <3>2. r[1] = q[1]
      BY <1>4, <3>1
    <3> QED
      BY <1>1, <1>3, <1>11, <3>2 DEF Exact
  <2> QED
    BY <2>1, <2>2
<1> QED
  BY <1>1, <1>10, <1>11 DEF d

-----------------------------------------------------------------------------
(* translate_event_queue: Count is set and every event moved with it, so   *)
(* that no time changes.                                                   *)
LEMMA MovedWord ==
    ASSUME NEW e \in Word, NEW n \in Word, NEW base \in Word, NEW x \in Int,
           Same(x, e - n)
    PROVE  Same(x, (((e - n) + base) % Modulus) - base)
<1> DEFINE w == (e - n) + base
           m == w % Modulus
<1>1. w \in Int /\ base \in Int /\ e - n \in Int /\ w - base = e - n
  BY DEF Word
<1> HIDE DEF w
<1>2. m \in Int /\ Same(w, m)
  BY <1>1, WordArithmetic, SameModulo DEF Word
<1> HIDE DEF m
<1>3. Same(w - base, m - base)
  BY <1>1, <1>2, SameMoved
<1>4. Same(e - n, m - base)
  BY <1>1, <1>3
<1>5. Same(x, m - base)
  BY <1>1, <1>2, <1>4, SameTransitive
<1> QED
  BY <1>5 DEF m, w

(* d is c with Count and every event moved by the same distance.           *)
Moved(c, d) ==
    /\ d \in Cp0 /\ Len(d.q) = Len(c.q) /\ d.cycleCount = c.cycleCount
    /\ \A i \in 1 .. Len(c.q) :
          /\ d.q[i].type = c.q[i].type
          /\ d.q[i].count = ((c.q[i].count - c.count) + d.count) % Modulus

LEMMA MovedTimes ==
    ASSUME NEW c \in Cp0, NEW d, Moved(c, d)
    PROVE  /\ Late(d) = Late(c)
           /\ \A i \in 1 .. Len(c.q) : Time(d, d.q[i]) = Time(c, c.q[i])
<1>0. d \in Cp0 /\ c.count \in Word /\ d.count \in Word /\ Len(d.q) = Len(c.q)
  BY DEF Moved, Cp0
<1>1. Lag(d) = Lag(c) /\ Late(d) = Late(c)
  BY DEF Moved, Lag, Late
<1>2. ASSUME NEW i \in 1 .. Len(c.q)  PROVE Time(d, d.q[i]) = Time(c, c.q[i])
  <2>1. c.q[i] \in Events /\ c.q[i].count \in Word /\ d.q[i] \in Events
    BY <1>0, EventsOfQueue DEF Events
  <2>2. /\ Time(c, c.q[i]) \in Int /\ Same(Time(c, c.q[i]), c.q[i].count - c.count)
        /\ -Lag(c) <= Time(c, c.q[i]) /\ Time(c, c.q[i]) < Modulus - Lag(c)
    BY <2>1, TimeFacts
  <2>3. d.q[i].count = ((c.q[i].count - c.count) + d.count) % Modulus
    BY DEF Moved
  <2>4. Same(Time(c, c.q[i]), d.q[i].count - d.count)
    BY <1>0, <2>1, <2>2, <2>3, MovedWord
  <2> QED
    BY <1>0, <1>1, <2>1, <2>2, <2>4, TimeIs
<1> QED
  BY <1>1, <1>2

LEMMA MovedIsLoose ==
    ASSUME NEW c \in Cp0, NEW d, Moved(c, d), NEW s, Loose(c, s)
    PROVE  Loose(d, s)
<1>0. Len(d.q) = Len(c.q) /\ d.cycleCount = c.cycleCount
  BY DEF Moved
<1>1. \A i \in 1 .. Len(c.q) : Time(d, d.q[i]) = Time(c, c.q[i]) /\ d.q[i].type = c.q[i].type
  BY MovedTimes DEF Moved
<1>2. ASSUME NEW i \in 1 .. Len(c.q)  PROVE Jumps(d.q, i) = Jumps(c.q, i)
  <2>1. \A j \in 1 .. (i - 1) : j \in 1 .. Len(c.q)
    BY EventsOfQueue
  <2>2. 1 \in 1 .. Len(c.q)
    BY EventsOfQueue
  <2> QED
    BY <1>1, <2>1, <2>2 DEF Jumps, Rank, TimerBefore
<1> QED
  BY <1>0, <1>1, <1>2 DEF Loose, Lined, Bounded

(* Nothing but the timer can be a whole turn of the counter away.          *)
LEMMA FreshWithoutTimer ==
    ASSUME Punctual, NEW c \in Cp0, NEW s \in 0 .. BlockLength, Loose(c, s),
           ~Scheduled(c.q, COMPARE), NEW k \in 1 .. Len(c.q)
    PROVE  Fresh(c)
<1>1. \A i \in 1 .. Len(c.q) : c.q[i].type # COMPARE
  BY DEF Scheduled
<1>2. Late(c) \in Nat /\ Late(c) < Half
  BY <1>1, HeadIsNear
<1> SUFFICES ASSUME NEW i \in 1 .. Len(c.q)
             PROVE  Time(c, c.q[i]) + Late(c) < Modulus
  BY DEF Fresh
<1>3. Time(c, c.q[i]) <= Half
  BY <1>1 DEF Loose, Bounded
<1>4. Time(c, c.q[i]) \in Int
  BY EventsOfQueue, TimeFacts
<1> QED
  BY <1>2, <1>3, <1>4, HalfAssumption DEF Modulus

(* The wrap-around event lies at most half a turn ahead.                   *)
LEMMA SpecialIsNear ==
    ASSUME NEW w \in Word
    PROVE  /\ SpecialCount(w) \in Int
           /\ \E y \in 0 .. Half : Same(y, SpecialCount(w) - w)
<1>0. /\ Half \in Nat \ {0} /\ Modulus = 2 * Half
      /\ w \in Int /\ 0 <= w /\ w < Modulus
  BY HalfAssumption DEF Modulus, Word
<1>1. Same(w, w)
  <2>1. w - w = 0 * Modulus
    BY <1>0
  <2> QED
    BY <2>1 DEF Same
<1>2. w % Modulus = w
  BY <1>0, <1>1, ModuloIs
<1>3. CASE w < Half
  <2>1. SpecialCount(w) = Half
    BY <1>2, <1>3 DEF SpecialCount
  <2>2. Half - w \in 0 .. Half /\ (Half - w) - (Half - w) = 0 * Modulus
    BY <1>0, <1>3
  <2>3. Same(Half - w, Half - w)
    BY <2>2 DEF Same
  <2> QED
    BY <1>0, <2>1, <2>2, <2>3
<1>4. CASE ~(w < Half)
  <2>1. SpecialCount(w) = 0
    BY <1>2, <1>4 DEF SpecialCount
  <2>2. Modulus - w \in 0 .. Half /\ (Modulus - w) - (0 - w) = 1 * Modulus
    BY <1>0, <1>4
  <2>3. Same(Modulus - w, 0 - w)
    BY <2>2 DEF Same
  <2> QED
    BY <1>0, <2>1, <2>2, <2>3
<1> QED
  BY <1>3, <1>4

(* An event of another type stays once on the queue.                       *)
LEMMA AddCompareKeeps ==
    ASSUME NEW c, CompareOut(c), NEW n \in Word, NEW t, t # COMPARE, Once(c.q, t)
    PROVE  Once(AddCompare(c, n).q, t)
<1>0. c \in Cp0 /\ c.q \in Seq(Events)
  BY EventsOfQueue DEF CompareOut, Fits
<1>1. \A j \in 1 .. Len(c.q) : -Lag(c) <= Time(c, c.q[j])
  BY <1>0, EventsOfQueue, TimeFacts
<1>2. PICK e \in Events, i \in 1 .. (Len(c.q) + 1) :
         e.type = COMPARE /\ Inserted(c.q, i, e, AddCompare(c, n).q)
  BY <1>1, AddCompareLinks
<1> QED
  BY <1>0, <1>2, InsertedTypes

LEMMA SomeEvent ==
    ASSUME NEW c, Fits(c), NEW t, Once(c.q, t), t # COMPARE
    PROVE  /\ c.q # <<>> /\ Len(c.q) \in Nat
           /\ \E k \in 1 .. Len(c.q) : c.q[k].type = t /\ c.q[k].type # COMPARE
BY SomethingScheduled, EventsOfQueue DEF Scheduled, Fits

LEMMA AddSpecialIsTimed ==
    ASSUME Punctual, NEW c, Fits(c), Len(c.q) < Capacity,
           NEW s \in 0 .. BlockLength, Loose(c, s), Fresh(c),
           NEW k \in 1 .. Len(c.q), c.q[k].type # COMPARE,
           Room(AddSpecial(c))
    PROVE  Timed(AddSpecial(c), s) /\ Fresh(AddSpecial(c))
<1>1. c.count \in Word /\ c.count \in Int
  BY DEF Fits, Cp0, Word
<1>2. SpecialCount(c.count) \in Int
  BY <1>1, SpecialIsNear
<1>3. PICK y \in 0 .. Half : Same(y, SpecialCount(c.count) - c.count)
  BY <1>1, SpecialIsNear
<1>4. SPECIAL \in Types /\ SPECIAL # COMPARE
  BY TypesOfOwnEvents
<1> QED
  BY <1>2, <1>3, <1>4, AddIsTimed DEF AddSpecial

LEMMA TranslateMoves ==
    ASSUME NEW c, Good(c), NEW base \in Word
    PROVE  \E moved :
              /\ Moved(RemoveEvent(RemoveEvent(c, COMPARE), SPECIAL), moved)
              /\ TranslateEventQueue(c, base) = AddCompare(AddSpecial(moved), c.compare)
<1> DEFINE kept == RemoveEvent(RemoveEvent(c, COMPARE), SPECIAL)
           shifted == [i \in 1 .. Len(kept.q) |->
                         [kept.q[i] EXCEPT !.count = ((@ - c.count) + base) % Modulus]]
           moved == [kept EXCEPT !.q = shifted, !.count = base]
<1>0. Fits(c) /\ Once(c.q, COMPARE) /\ Once(c.q, SPECIAL) /\ COMPARE # SPECIAL
  BY TypesOfOwnEvents DEF Good
<1>1. Fits(kept) /\ kept.count = c.count
  <2> DEFINE kept0 == RemoveEvent(c, COMPARE)
  <2>1. Fits(kept0) /\ kept0.count = c.count
    BY <1>0, RemoveEventProperties
  <2> HIDE DEF kept0
  <2>2. Fits(RemoveEvent(kept0, SPECIAL)) /\ RemoveEvent(kept0, SPECIAL).count = kept0.count
    BY <2>1, RemoveEventProperties
  <2> QED
    BY <2>1, <2>2 DEF kept0
<1>2. TranslateEventQueue(c, base) = AddCompare(AddSpecial(moved), c.compare)
  BY DEF TranslateEventQueue
<1> HIDE DEF kept
<1>3. kept \in Cp0 /\ kept.q \in Seq(Events) /\ Len(kept.q) \in Nat /\ c.count \in Int
  BY <1>1, EventsOfQueue DEF Fits
<1>4. \A i \in 1 .. Len(kept.q) :
         /\ shifted[i] \in Events /\ shifted[i].type = kept.q[i].type
         /\ shifted[i].count = ((kept.q[i].count - c.count) + base) % Modulus
  <2> SUFFICES ASSUME NEW i \in 1 .. Len(kept.q)
               PROVE  /\ shifted[i] \in Events /\ shifted[i].type = kept.q[i].type
                      /\ shifted[i].count = ((kept.q[i].count - c.count) + base) % Modulus
    OBVIOUS
  <2>1. kept.q[i] \in Events
    BY <1>3, ElementOfSeq
  <2>2. kept.q[i].count \in Int /\ c.count \in Int /\ base \in Int
    BY <1>3, <2>1 DEF Events, Word
  <2>3. (kept.q[i].count - c.count) + base \in Int
    BY <2>2
  <2>4. ((kept.q[i].count - c.count) + base) % Modulus \in Word
    BY <2>3, WordArithmetic
  <2>5. shifted[i] = [kept.q[i] EXCEPT
                        !.count = ((kept.q[i].count - c.count) + base) % Modulus]
    OBVIOUS
  <2> HIDE DEF shifted
  <2> QED
    BY <2>1, <2>4, <2>5 DEF Events
<1>5. shifted \in Seq(Events) /\ Len(shifted) = Len(kept.q)
  <2>1. shifted \in [1 .. Len(kept.q) -> Events]
    <3>1. shifted = [i \in 1 .. Len(kept.q) |-> shifted[i]]
      OBVIOUS
    <3> HIDE DEF shifted
    <3> QED
      BY <1>4, <3>1
  <2> HIDE DEF shifted
  <2> QED
    BY <1>3, <2>1, LenProperties
<1> HIDE DEF shifted
<1>6. moved \in Cp0 /\ moved.q = shifted /\ moved.count = base /\ moved.cycleCount = kept.cycleCount
  BY <1>3, <1>5 DEF Cp0
<1> HIDE DEF moved
<1>7. \A i \in 1 .. Len(kept.q) :
         /\ moved.q[i].type = kept.q[i].type
         /\ moved.q[i].count = ((kept.q[i].count - kept.count) + moved.count) % Modulus
  BY <1>1, <1>4, <1>6
<1>8. Moved(kept, moved)
  BY <1>5, <1>6, <1>7 DEF Moved
<1> QED
  BY <1>2, <1>8 DEF kept

LEMMA TranslateIsTimed ==
    ASSUME Punctual, NEW c, NEW s \in 0 .. BlockLength, Running(c, s), NEW base \in Word
    PROVE  Running(TranslateEventQueue(c, base), s)
<1> DEFINE kept0 == RemoveEvent(c, COMPARE)
           kept == RemoveEvent(kept0, SPECIAL)
<1>0. /\ Fits(c) /\ Len(c.q) \in Nat /\ Len(c.q) <= Capacity /\ c.compare \in Word
      /\ Once(c.q, COMPARE) /\ Once(c.q, SPECIAL) /\ Once(c.q, VI)
      /\ Loose(c, s) /\ s \in Nat /\ Good(c)
      /\ COMPARE # SPECIAL /\ VI # COMPARE /\ VI # SPECIAL
  BY EventsOfQueue, BlockAssumption, TypesOfOwnEvents
     DEF Running, Good, Fits, Timed, Cp0, VI, COMPARE, SPECIAL
<1>1. /\ Loose(kept0, s) /\ Fits(kept0) /\ ~Scheduled(kept0.q, COMPARE)
      /\ Len(kept0.q) = Len(c.q) - 1
      /\ Once(kept0.q, SPECIAL) /\ Once(kept0.q, VI)
  <2>1. Room(c)
    BY <1>0 DEF Room
  <2> QED
    BY <1>0, <2>1, RemovedIsLoose, RemoveEventProperties
<1> HIDE DEF kept0
<1>2. /\ Loose(kept, s) /\ Fits(kept) /\ ~Scheduled(kept.q, COMPARE)
      /\ ~Scheduled(kept.q, SPECIAL)
      /\ Len(kept.q) = Len(kept0.q) - 1 /\ Once(kept.q, VI)
  <2>1. Room(kept0)
    BY <1>0, <1>1, CapacityAssumption DEF Room, CompareOut
  <2> QED
    BY <1>0, <1>1, <2>1, RemovedIsLoose, RemoveEventProperties
<1>3. PICK moved : /\ Moved(kept, moved)
                   /\ TranslateEventQueue(c, base) = AddCompare(AddSpecial(moved), c.compare)
  BY <1>0, TranslateMoves DEF kept0
<1> HIDE DEF kept
<1>4. /\ Len(moved.q) = Len(kept.q) /\ moved \in Cp0 /\ kept \in Cp0
      /\ \A i \in 1 .. Len(kept.q) : moved.q[i].type = kept.q[i].type
  BY <1>2, <1>3 DEF Moved, Fits
<1>5. /\ Loose(moved, s) /\ Fits(moved) /\ ~Scheduled(moved.q, COMPARE)
      /\ ~Scheduled(moved.q, SPECIAL) /\ Once(moved.q, VI)
      /\ Len(moved.q) + 2 <= Capacity /\ Len(moved.q) \in Nat
  <2>1. Loose(moved, s)
    BY <1>2, <1>3, <1>4, MovedIsLoose
  <2>2. Len(moved.q) \in Nat /\ Len(moved.q) + 2 <= Capacity
    BY <1>0, <1>1, <1>2, <1>4, EventsOfQueue
  <2>3. Fits(moved)
    BY <1>4, <2>2, CapacityAssumption DEF Fits
  <2>4. ~Scheduled(moved.q, COMPARE) /\ ~Scheduled(moved.q, SPECIAL) /\ Once(moved.q, VI)
    BY <1>2, <1>4 DEF Scheduled, Once
  <2> QED
    BY <2>1, <2>2, <2>3, <2>4
<1>6. PICK k \in 1 .. Len(moved.q) : moved.q[k].type = VI /\ moved.q[k].type # COMPARE
  BY <1>0, <1>5, SomeEvent
<1>7. Fresh(moved)
  BY <1>4, <1>5, <1>6, FreshWithoutTimer
<1> DEFINE back == AddSpecial(moved)
<1>8. /\ Fits(back) /\ Once(back.q, SPECIAL) /\ ~Scheduled(back.q, COMPARE)
      /\ Len(back.q) = Len(moved.q) + 1
  BY <1>5, CapacityAssumption, AddSpecialProperties
<1>9. Once(back.q, VI)
  <2>1. SPECIAL \in Types /\ SpecialCount(moved.count) \in Int
    BY <1>4, TypesOfOwnEvents, SpecialIsNear DEF Cp0
  <2> QED
    BY <1>0, <1>5, <2>1, AddProperties DEF AddSpecial
<1>10. Room(back) /\ CompareOut(back)
  BY <1>5, <1>8, CapacityAssumption DEF Room, CompareOut
<1>11. Timed(back, s)
  <2>1. Len(moved.q) < Capacity
    BY <1>5, CapacityAssumption
  <2> QED
    BY <1>5, <1>6, <1>7, <1>10, <2>1, AddSpecialIsTimed
<1> HIDE DEF back
<1>12. back.q # <<>>
  BY <1>0, <1>8, <1>9, SomeEvent
<1>13. Timed(AddCompare(back, c.compare), s)
  BY <1>0, <1>10, <1>11, <1>12, AddCompareIsTimed DEF Timed
<1>14. Once(AddCompare(back, c.compare).q, VI)
  BY <1>0, <1>9, <1>10, AddCompareKeeps
<1>15. Good(AddCompare(back, c.compare))
  BY <1>0, <1>8, <1>10, AddCompareProperties DEF Good
<1> QED
  BY <1>3, <1>13, <1>14, <1>15 DEF Running, back

-----------------------------------------------------------------------------
(* The actions. A queue on which nothing is due yet may wait for a block.  *)
LEMMA EarlyIsLoose ==
    ASSUME NEW c, Room(c), NEW s \in Nat, Lined(c), c.cycleCount <= 0,
           \A i \in 1 .. Len(c.q) : c.q[i].type # COMPARE => Time(c, c.q[i]) <= Half
    PROVE  Loose(c, s)
<1>0. c \in Cp0 /\ c.cycleCount \in Int
  BY EventsOfQueue DEF Room, Fits
<1>1. ASSUME NEW i \in 1 .. Len(c.q), c.q[i].type # COMPARE
      PROVE  -Time(c, c.q[i]) <= Allowed(Jumps(c.q, i), s)
  <2>1. Time(c, c.q[i]) \in Int
    BY <1>0, EventsOfQueue, TimeFacts
  <2>2. -c.cycleCount <= Time(c, c.q[i])
    BY DEF Lined
  <2>3. Jumps(c.q, i) \in Int /\ Jumps(c.q, i) <= Most
    BY <1>1, JumpsFit
  <2>4. Allowed(Jumps(c.q, i), s) \in Int /\ Allowed(Jumps(c.q, i), s) >= 0
    BY <2>3, AllowedFacts
  <2> QED
    BY <1>0, <2>1, <2>2, <2>4
<1>2. c.cycleCount <= Allowed(0, s)
  <2>1. 0 \in Int /\ 0 <= Most
    BY CapacityAssumption DEF Most
  <2>2. Allowed(0, s) \in Int /\ Allowed(0, s) >= 0
    BY <2>1, AllowedFacts
  <2> QED
    BY <1>0, <2>2
<1> QED
  BY <1>1, <1>2 DEF Loose, Bounded

LEMMA NotDueIsTimed ==
    ASSUME NEW c, NEW s, Running(c, s), c.cycleCount <= 0
    PROVE  Running(c, 0)
<1>1. Room(c)
  BY DEF Running, Good, Room
<1>2. Loose(c, 0)
  BY <1>1, EarlyIsLoose DEF Running, Timed, Loose, Bounded
<1> QED
  BY <1>2 DEF Running, Timed

(* A handler's result may be a few instructions old.                       *)
LEMMA LaterIsRunning ==
    ASSUME NEW c, Running(c, 0), NEW s \in Nat
    PROVE  Running(c, s)
<1>0. /\ c \in Cp0 /\ c.cycleCount \in Int /\ Room(c) /\ s * CountPerOp \in Nat
      /\ 0 \in Nat /\ 0 \in Int /\ 0 + s = s
  BY EventsOfQueue, RateAssumption DEF Running, Good, Room, Fits
<1>1. \A j \in Int : /\ Allowed(j, 0) \in Int /\ Allowed(j, s) \in Int
                     /\ Allowed(j, s) = Allowed(j, 0) + s * CountPerOp
  <2> TAKE j \in Int
  <2>1. Allowed(j, 0 + s) = Allowed(j, 0) + s * CountPerOp
    BY <1>0, AllowedFacts
  <2> QED
    BY <1>0, <2>1, AllowedFacts
<1>2. \A j \in Int : Allowed(j, 0) <= Allowed(j, s)
  BY <1>0, <1>1
<1>3. ASSUME NEW i \in 1 .. Len(c.q), c.q[i].type # COMPARE
      PROVE  /\ Time(c, c.q[i]) <= Half
             /\ -Time(c, c.q[i]) <= Allowed(Jumps(c.q, i), s)
  <2>1. Time(c, c.q[i]) \in Int
    BY <1>0, EventsOfQueue, TimeFacts
  <2>2. Jumps(c.q, i) \in Int
    BY <1>0, <1>3, JumpsFit
  <2>3. Time(c, c.q[i]) <= Half /\ -Time(c, c.q[i]) <= Allowed(Jumps(c.q, i), 0)
    BY <1>3 DEF Running, Timed, Loose, Bounded
  <2>4. /\ Allowed(Jumps(c.q, i), 0) <= Allowed(Jumps(c.q, i), s)
        /\ Allowed(Jumps(c.q, i), 0) \in Int /\ Allowed(Jumps(c.q, i), s) \in Int
    BY <1>1, <1>2, <2>2
  <2> QED
    BY <2>1, <2>3, <2>4
<1>4. c.cycleCount <= Allowed(0, s)
  <2>1. c.cycleCount <= Allowed(0, 0)
    BY DEF Running, Timed, Loose, Bounded
  <2> QED
    BY <1>0, <1>1, <1>2, <2>1
<1> QED
  BY <1>3, <1>4 DEF Running, Timed, Loose, Bounded

(* Only Count, cycle_count and the queue matter.                           *)
LEMMA SameIsRunning ==
    ASSUME NEW c, NEW s, Running(c, s), NEW d \in Cp0,
           d.count = c.count, d.cycleCount = c.cycleCount, d.q = c.q
    PROVE  Running(d, s)
<1>1. \A e : Time(d, e) = Time(c, e)
  BY SameTimes
<1> QED
  BY <1>1 DEF Running, Good, Fits, Timed, Loose, Lined, Bounded, Exact

(* cp0_update_count: every event is n instructions nearer.                 *)
LEMMA UpdateIsRunning ==
    ASSUME NEW c, NEW s \in Nat, Running(c, s), NEW n \in Nat \ {0}
    PROVE  Running(UpdateCount(c, n), s + n) /\ Fresh(UpdateCount(c, n))
<1> DEFINE d == UpdateCount(c, n)
           p == n * CountPerOp
<1>0. /\ c \in Cp0 /\ Room(c) /\ c.count \in Int /\ c.cycleCount \in Int
      /\ Good(c) /\ Good(d) /\ d.q = c.q /\ d \in Cp0
      /\ Lined(c) /\ Exact(c) /\ Once(c.q, VI) /\ s \in Nat
  BY EventsOfQueue, UpdateCountProperties DEF Running, Good, Room, Fits, Timed, Loose
<1>1. p \in Nat /\ p >= CountPerOp
  <2>1. n \in Nat /\ n >= 1 /\ CountPerOp \in Nat
    BY RateAssumption
  <2>2. PICK m \in Nat : n = m + 1
    BY <2>1
  <2>3. p = m * CountPerOp + CountPerOp /\ m * CountPerOp \in Nat
    BY <2>1, <2>2
  <2> QED
    BY <2>1, <2>3
<1>2. d.count = (c.count + p) % Modulus /\ d.cycleCount = c.cycleCount + p
  BY <1>0 DEF UpdateCount, Cp0
<1>a. \A j \in Int : /\ Allowed(j, s) \in Int
                     /\ Allowed(j, s + n) = Allowed(j, s) + p
  BY <1>0, AllowedFacts
<1> HIDE DEF d, p
<1>3. Same(d.count, c.count + p)
  BY <1>0, <1>1, <1>2, SameModulo
<1>4. /\ \A i \in 1 .. Len(c.q) : Time(d, c.q[i]) = Time(c, c.q[i]) - p
      /\ Lined(d) /\ Exact(d) /\ Fresh(d)
  BY <1>0, <1>1, <1>2, <1>3, TimePasses
<1>5. ASSUME NEW i \in 1 .. Len(c.q), c.q[i].type # COMPARE
      PROVE  /\ Time(d, c.q[i]) <= Half
             /\ -Time(d, c.q[i]) <= Allowed(Jumps(c.q, i), s + n)
  <2>1. Time(c, c.q[i]) \in Int
    BY <1>0, EventsOfQueue, TimeFacts
  <2>2. Jumps(c.q, i) \in Int
    BY <1>0, <1>5, JumpsFit
  <2>3. Time(c, c.q[i]) <= Half /\ -Time(c, c.q[i]) <= Allowed(Jumps(c.q, i), s)
    BY <1>5 DEF Running, Timed, Loose, Bounded
  <2>4. /\ Allowed(Jumps(c.q, i), s + n) = Allowed(Jumps(c.q, i), s) + p
        /\ Allowed(Jumps(c.q, i), s) \in Int
    BY <1>a, <2>2
  <2>5. Time(d, c.q[i]) = Time(c, c.q[i]) - p /\ Half \in Int
    BY <1>4, HalfAssumption
  <2> QED
    BY <1>1, <2>1, <2>3, <2>4, <2>5
<1>6. d.cycleCount <= Allowed(0, s + n)
  <2>1. c.cycleCount <= Allowed(0, s)
    BY DEF Running, Timed, Loose, Bounded
  <2>2. Allowed(0, s) \in Int /\ Allowed(0, s + n) = Allowed(0, s) + p
    BY <1>a
  <2> QED
    BY <1>0, <1>1, <1>2, <2>1, <2>2
<1>7. Running(d, s + n)
  BY <1>0, <1>4, <1>5, <1>6 DEF Running, Timed, Loose, Bounded
<1> QED
  BY <1>4, <1>7 DEF d

(* A jump to itself skips to the first event.                              *)
LEMMA IdleIsRunning ==
    ASSUME NEW c, NEW s, Running(c, s), c.cycleCount < 0
    PROVE  Running([c EXCEPT !.count = (@ - c.cycleCount) % Modulus, !.cycleCount = 0], 0)
<1> DEFINE d == [c EXCEPT !.count = (@ - c.cycleCount) % Modulus, !.cycleCount = 0]
<1>0. /\ c \in Cp0 /\ Good(c) /\ Room(c) /\ c.count \in Int /\ c.cycleCount \in Int
      /\ Lined(c) /\ Exact(c) /\ Once(c.q, VI)
  BY EventsOfQueue DEF Running, Good, Room, Fits, Timed, Loose
<1>1. PICK p \in Nat : p = -c.cycleCount
  BY <1>0
<1>2. Good(d)
  BY <1>0, IdleIsGood
<1>3. /\ d \in Cp0 /\ d.q = c.q /\ d.cycleCount = c.cycleCount + p
      /\ d.count = (c.count + p) % Modulus /\ d.cycleCount = 0
  <2>1. d \in Cp0
    BY <1>2 DEF Good, Fits
  <2>2. /\ d.q = c.q /\ d.cycleCount = 0 /\ d.count = (c.count - c.cycleCount) % Modulus
    BY <1>0 DEF Cp0
  <2>3. c.count - c.cycleCount = c.count + p /\ c.cycleCount + p = 0
    BY <1>0, <1>1
  <2> QED
    BY <2>1, <2>2, <2>3
<1> HIDE DEF d
<1>4. Same(d.count, c.count + p)
  BY <1>0, <1>3, SameModulo
<1>5. /\ \A i \in 1 .. Len(c.q) : Time(d, c.q[i]) = Time(c, c.q[i]) - p
      /\ Lined(d) /\ Exact(d)
  BY <1>0, <1>3, <1>4, TimePasses
<1>6. \A i \in 1 .. Len(d.q) : d.q[i].type # COMPARE => Time(d, d.q[i]) <= Half
  <2> SUFFICES ASSUME NEW i \in 1 .. Len(c.q), c.q[i].type # COMPARE
               PROVE  Time(d, c.q[i]) <= Half
    BY <1>3
  <2>1. Time(c, c.q[i]) \in Int /\ Half \in Int
    BY <1>0, EventsOfQueue, TimeFacts, HalfAssumption
  <2>2. Time(c, c.q[i]) <= Half
    BY DEF Running, Timed, Loose, Bounded
  <2> QED
    BY <1>5, <2>1, <2>2
<1>7. Room(d)
  BY <1>2 DEF Good, Room
<1>8. Loose(d, 0)
  BY <1>3, <1>5, <1>6, <1>7, EarlyIsLoose
<1> QED
  BY <1>0, <1>2, <1>3, <1>5, <1>8 DEF Running, Timed, d

(* MTC0 Compare: the timer is taken out and put back.                      *)
LEMMA WriteCompareIsRunning ==
    ASSUME Punctual, NEW c, NEW s \in 0 .. BlockLength, Running(c, s), NEW n \in Word
    PROVE  Running([AddCompare(RemoveEvent(c, COMPARE), n) EXCEPT !.compare = n], s)
<1> DEFINE out == RemoveEvent(c, COMPARE)
           back == AddCompare(out, n)
           d == [back EXCEPT !.compare = n]
<1>0. /\ Fits(c) /\ Len(c.q) \in Nat /\ Len(c.q) <= Capacity
      /\ Once(c.q, COMPARE) /\ Once(c.q, SPECIAL) /\ Once(c.q, VI)
      /\ Loose(c, s) /\ Exact(c) /\ s \in Nat /\ Room(c)
      /\ COMPARE # SPECIAL /\ VI # COMPARE
  BY EventsOfQueue, BlockAssumption, TypesOfOwnEvents
     DEF Running, Good, Fits, Timed, VI, COMPARE, SPECIAL, Room
<1>1. /\ Loose(out, s) /\ Fits(out) /\ ~Scheduled(out.q, COMPARE)
      /\ Len(out.q) = Len(c.q) - 1
      /\ out.q = <<>> \/ Exact(out) \/ Tight(out, s)
      /\ Once(out.q, SPECIAL) /\ Once(out.q, VI)
  BY <1>0, RemovedIsLoose, RemoveEventProperties, ZenonT(30)
<1> HIDE DEF out
<1>2. CompareOut(out) /\ out.q # <<>>
  <2>1. Len(out.q) < Capacity
    BY <1>0, <1>1, CapacityAssumption
  <2>2. out.q # <<>>
    BY <1>0, <1>1, SomeEvent
  <2> QED
    BY <1>1, <2>1, <2>2 DEF CompareOut
<1>3. Timed(back, s)
  BY <1>1, <1>2, AddCompareIsTimed
<1>4. Good(back) /\ Once(back.q, VI)
  BY <1>0, <1>1, <1>2, AddCompareProperties, AddCompareKeeps DEF Good
<1> HIDE DEF back
<1>5. Running(back, s) /\ back \in Cp0
  BY <1>3, <1>4 DEF Running, Good, Fits
<1>6. d \in Cp0 /\ d.count = back.count /\ d.cycleCount = back.cycleCount /\ d.q = back.q
  BY <1>5 DEF Cp0
<1>7. Running(d, s)
  BY <1>5, <1>6, SameIsRunning
<1> QED
  BY <1>7 DEF d, back, out

-----------------------------------------------------------------------------
(* gen_interrupt. The first event is taken out; one of the others is not   *)
(* the timer.                                                              *)
LEMMA HeadIsOut ==
    ASSUME Punctual, NEW c, NEW s \in 0 .. BlockLength, Running(c, s)
    PROVE  LET d == RemoveInterruptEvent(c)
           IN  /\ Timed(d, 0) /\ Fits(d) /\ Len(d.q) < Capacity
               /\ d.count = c.count /\ d.compare = c.compare
               /\ Fresh(c) => Fresh(d)
               /\ \E k \in 1 .. Len(d.q) : d.q[k].type # COMPARE
               /\ \A u : c.q[1].type # u /\ Once(c.q, u) => Once(d.q, u)
               /\ \A u : c.q[1].type = u /\ Once(c.q, u) => ~Scheduled(d.q, u)
<1> DEFINE d == RemoveInterruptEvent(c)
<1>0. /\ c \in Cp0 /\ Fits(c) /\ Room(c) /\ Loose(c, s) /\ c.q # <<>>
      /\ Once(c.q, SPECIAL) /\ Once(c.q, VI) /\ Len(c.q) \in Nat
      /\ VI # SPECIAL /\ VI # COMPARE /\ SPECIAL # COMPARE
  BY EventsOfQueue, CheckedIsGood
     DEF Running, Good, Room, Fits, Timed, VI, COMPARE, SPECIAL
<1>1. PICK k \in 2 .. Len(c.q) : c.q[k].type # COMPARE
  <2>1. PICK i \in 1 .. Len(c.q) : c.q[i].type = VI
    BY <1>0 DEF Once
  <2>2. PICK j \in 1 .. Len(c.q) : c.q[j].type = SPECIAL
    BY <1>0 DEF Once
  <2>3. i # j
    BY <1>0, <2>1, <2>2
  <2>4. i \in 2 .. Len(c.q) \/ j \in 2 .. Len(c.q)
    BY <1>0, <2>3
  <2> QED
    BY <1>0, <2>1, <2>2, <2>4
<1>2. /\ Timed(d, 0) /\ d.count = c.count /\ Removed(c.q, 1, d.q)
      /\ Fresh(c) => Fresh(d)
  BY <1>0, <1>1, RemoveIsTimed
<1>3. /\ Fits(d) /\ Len(d.q) < Capacity /\ d.compare = c.compare
      /\ \A u : c.q[1].type # u /\ Once(c.q, u) => Once(d.q, u)
      /\ \A u : c.q[1].type = u /\ Once(c.q, u) => ~Scheduled(d.q, u)
  BY <1>0, RemoveInterruptProperties
<1> HIDE DEF d
<1>4. \E l \in 1 .. Len(d.q) : d.q[l].type # COMPARE
  <2>1. k - 1 \in 1 .. (Len(c.q) - 1) /\ ~(k - 1 < 1) /\ (k - 1) + 1 = k
    BY <1>0
  <2>2. d.q[k - 1] = c.q[k] /\ k - 1 \in 1 .. Len(d.q)
    BY <1>2, <2>1 DEF Removed
  <2> QED
    BY <1>1, <2>2
<1> QED
  BY <1>2, <1>3, <1>4 DEF d

(* An event with a delay of at most half a turn; a full pool loses it.     *)
LEMMA AddDelayIsTimed ==
    ASSUME Punctual, NEW c, Good(c), NEW s \in 0 .. BlockLength, Timed(c, s), Fresh(c),
           NEW t \in Types, t # COMPARE, t # SPECIAL, NEW y \in 0 .. Half
    PROVE  LET d == AddInterruptEvent(c, t, y)
           IN  /\ Timed(d, s) /\ Fresh(d) /\ Good(d)
               /\ d.count = c.count /\ d.compare = c.compare
               /\ Time(c, c.q[1]) <= 0 =>
                     d.q[1] = c.q[1] /\ Time(d, d.q[1]) = Time(c, c.q[1])
               /\ \A u : u # t /\ Once(c.q, u) => Once(d.q, u)
               /\ Len(c.q) < Capacity /\ ~Scheduled(c.q, t) => Once(d.q, t)
<1> DEFINE n == c.count + y
           d == AddInterruptEventCount(c, t, n)
<1>0. /\ c \in Cp0 /\ Fits(c) /\ c.count \in Int /\ y \in Nat /\ n \in Int
      /\ Len(c.q) \in Nat /\ Capacity \in Nat
  BY EventsOfQueue, HalfAssumption, CapacityAssumption DEF Good, Fits
<1>1. Good(d)
  BY <1>0, AddDelayKeepsGood DEF AddInterruptEvent
<1>4. Same(y, n - c.count)
  <2>1. n - c.count = y
    BY <1>0
  <2>2. y \in Int
    BY <1>0
  <2> QED
    BY <2>1, <2>2, SameModulo
<1>6. AddInterruptEvent(c, t, y) = d
  BY DEF AddInterruptEvent
<1> HIDE DEF n
<1>2. /\ d.count = c.count /\ d.compare = c.compare
      /\ \A u : u # t /\ Once(c.q, u) => Once(d.q, u)
      /\ Len(c.q) < Capacity /\ ~Scheduled(c.q, t) => Once(d.q, t)
  BY <1>0, AddProperties
<1>3. PICK k \in 1 .. Len(c.q) : c.q[k].type # COMPARE
  <2>1. Fits(c) /\ Once(c.q, SPECIAL) /\ SPECIAL # COMPARE
    BY TypesOfOwnEvents DEF Good
  <2> QED
    BY <2>1, SomeEvent
<1>5. /\ Timed(d, s) /\ Fresh(d)
      /\ Time(c, c.q[1]) <= 0 =>
            d.q[1] = c.q[1] /\ Time(d, d.q[1]) = Time(c, c.q[1])
  <2>1. CASE Len(c.q) >= Capacity
    BY <2>1 DEF AddInterruptEventCount
  <2>2. CASE Len(c.q) < Capacity
    <3>1. Room(d) /\ Loose(c, s)
      BY <1>1 DEF Good, Room, Timed
    <3> QED
      BY <1>0, <1>3, <1>4, <2>2, <3>1, AddIsTimed
  <2> QED
    BY <1>0, <2>1, <2>2
<1> QED
  BY <1>1, <1>2, <1>5, <1>6

(* A handler that only takes its event out.                                *)
LEMMA RemovedIsRunning ==
    ASSUME Punctual, NEW c, NEW s \in 0 .. BlockLength, Running(c, s),
           c.q[1].type \notin {COMPARE, SPECIAL, VI}
    PROVE  Running(RemoveInterruptEvent(c), 0)
<1>1. Good(RemoveInterruptEvent(c))
  BY RemoveKeepsGood DEF Running
<1>2. Timed(RemoveInterruptEvent(c), 0) /\ Once(RemoveInterruptEvent(c).q, VI)
  BY HeadIsOut DEF Running
<1> QED
  BY <1>1, <1>2 DEF Running

LEMMA DeviceIsRunning ==
    ASSUME Punctual, NEW c, NEW s \in 0 .. BlockLength, Running(c, s), Fresh(c),
           c.q[1].type \in Devices, NEW d \in DeviceHandler(c)
    PROVE  Running(d, 0)
<1> DEFINE out == RemoveInterruptEvent(c)
           t == c.q[1].type
<1>0. t \in Types /\ t # COMPARE /\ t # SPECIAL /\ t # VI
  BY DeviceAssumption DEF Types, OwnTypes
<1>1. Running(out, 0) /\ Fresh(out)
  BY <1>0, RemovedIsRunning, HeadIsOut
<1>2. d = out \/ \E y \in Delays : d = AddInterruptEvent(out, t, y)
  BY DEF DeviceHandler
<1> HIDE DEF out, t
<1>3. ASSUME NEW y \in Delays, d = AddInterruptEvent(out, t, y)  PROVE Running(d, 0)
  <2>1. y \in 0 .. Half /\ 0 \in 0 .. BlockLength
    BY DelayAssumption, HalfAssumption, BlockAssumption DEF Punctual
  <2> QED
    BY <1>0, <1>1, <1>3, <2>1, AddDelayIsTimed DEF Running
<1> QED
  BY <1>1, <1>2, <1>3

LEMMA CompareIsRunning ==
    ASSUME Punctual, NEW c, NEW s \in 0 .. BlockLength, Running(c, s),
           c.q[1].type = COMPARE
    PROVE  Running(CompareHandler(c), 0)
<1> DEFINE out == RemoveInterruptEvent(c)
<1>0. /\ Good(c) /\ Once(c.q, VI) /\ Once(c.q, COMPARE) /\ VI # COMPARE
      /\ c.compare \in Word /\ 0 \in 0 .. BlockLength
  BY CheckedIsGood, BlockAssumption DEF Running, Good, VI, COMPARE
<1>1. /\ Timed(out, 0) /\ Fits(out) /\ Len(out.q) < Capacity
      /\ out.compare = c.compare
      /\ Once(out.q, VI) /\ ~Scheduled(out.q, COMPARE)
  BY <1>0, HeadIsOut
<1>2. CompareHandler(c) = AddCompare(out, c.compare)
  BY DEF CompareHandler
<1>3. Good(CompareHandler(c))
  BY <1>0, CompareHandlerKeepsGood
<1> HIDE DEF out
<1>4. CompareOut(out) /\ out.q # <<>> /\ Loose(out, 0) /\ Exact(out)
  BY <1>0, <1>1, SomeEvent DEF CompareOut, Timed
<1>5. Timed(AddCompare(out, c.compare), 0)
  BY <1>0, <1>4, AddCompareIsTimed
<1>6. Once(AddCompare(out, c.compare).q, VI)
  BY <1>0, <1>1, <1>4, AddCompareKeeps
<1> QED
  BY <1>2, <1>3, <1>5, <1>6 DEF Running

LEMMA SpecialIsRunning ==
    ASSUME Punctual, NEW c, NEW s \in 0 .. BlockLength, Running(c, s), Fresh(c),
           c.q[1].type = SPECIAL
    PROVE  Running(SpecialHandler(c), 0)
<1> DEFINE out == RemoveInterruptEvent(c)
           d == AddSpecial(out)
<1>0. /\ Good(c) /\ Once(c.q, VI) /\ VI # SPECIAL /\ 0 \in 0 .. BlockLength
      /\ SPECIAL \in Types
  BY BlockAssumption, TypesOfOwnEvents DEF Running, VI, SPECIAL
<1>1. /\ Timed(out, 0) /\ Fits(out) /\ Len(out.q) < Capacity /\ Fresh(out)
      /\ Once(out.q, VI) /\ \E k \in 1 .. Len(out.q) : out.q[k].type # COMPARE
  BY <1>0, HeadIsOut
<1>2. Good(d)
  BY <1>0, SpecialHandlerKeepsGood DEF SpecialHandler
<1> HIDE DEF out
<1>3. PICK k \in 1 .. Len(out.q) : out.q[k].type # COMPARE
  BY <1>1
<1>4. Timed(d, 0)
  <2>1. Room(d) /\ Loose(out, 0)
    BY <1>1, <1>2 DEF Good, Room, Timed
  <2> QED
    BY <1>0, <1>1, <1>3, <2>1, AddSpecialIsTimed
<1>5. Once(d.q, VI)
  <2>1. out.count \in Word
    BY <1>1 DEF Fits, Cp0
  <2>2. SpecialCount(out.count) \in Int
    BY <2>1, SpecialIsNear
  <2> QED
    BY <1>0, <1>1, <2>2, AddProperties DEF AddSpecial
<1> QED
  BY <1>2, <1>4, <1>5 DEF Running, SpecialHandler, out

(* The vertical interrupt comes again a delay after it was due, which is   *)
(* still to come: the handler is never as late as that.                    *)
LEMMA ViAgain ==
    ASSUME Punctual, NEW c, NEW s \in 0 .. BlockLength, Running(c, s), Fresh(c),
           c.q[1].type = VI, c.cycleCount >= 0
    PROVE  Running(AddInterruptEventCount(RemoveInterruptEvent(c), VI,
                                          c.q[1].count + ViDelay), 0)
<1> DEFINE out == RemoveInterruptEvent(c)
           n == c.q[1].count + ViDelay
           d == AddInterruptEventCount(out, VI, n)
           x == Time(c, c.q[1])
           y == x + ViDelay
<1>0. /\ Good(c) /\ Once(c.q, VI) /\ c \in Cp0 /\ c.q[1] \in Events /\ 1 \in 1 .. Len(c.q)
      /\ c.count \in Int /\ c.cycleCount \in Int /\ c.q[1].count \in Int
      /\ Loose(c, s) /\ c.cycleCount = -Time(c, c.q[1])
      /\ 0 \in 0 .. BlockLength /\ VI \in Types /\ VI # COMPARE /\ VI # SPECIAL
      /\ MaxLate \in Nat /\ ViDelay \in Nat /\ Half \in Nat
      /\ MaxLate <= ViDelay /\ ViDelay <= Half
  <2>1. /\ Good(c) /\ Once(c.q, VI) /\ Loose(c, s) /\ c.cycleCount = -Time(c, c.q[1])
    BY DEF Running, Timed, Exact
  <2>2. /\ c \in Cp0 /\ c.q[1] \in Events /\ c.count \in Int /\ c.cycleCount \in Int
        /\ c.q[1].count \in Int /\ 1 \in 1 .. Len(c.q)
    BY <2>1, CheckedIsGood, EventsOfQueue
  <2>3. VI \in Types /\ VI # COMPARE /\ VI # SPECIAL
    BY DEF Types, OwnTypes, VI, COMPARE, SPECIAL
  <2> QED
    BY <2>1, <2>2, <2>3, BlockAssumption, DelayAssumption, HalfAssumption DEF Punctual
<1>1. x \in Int /\ x <= 0 /\ -MaxLate <= x /\ Same(x, c.q[1].count - c.count)
  <2>1. x \in Int /\ Same(x, c.q[1].count - c.count)
    BY <1>0, TimeFacts
  <2>2. c.cycleCount <= MaxLate
    BY <1>0, HeadIsNear
  <2> QED
    BY <1>0, <2>1, <2>2
<1> HIDE DEF x
<1>2. y \in 0 .. Half
  BY <1>0, <1>1
<1>3. n \in Int /\ n - c.count = (c.q[1].count - c.count) + ViDelay
  BY <1>0
<1>4. Same(y, n - c.count)
  <2> DEFINE v == c.q[1].count - c.count
  <2>1. v \in Int /\ ViDelay \in Int /\ Same(x, v)
    BY <1>0, <1>1
  <2> HIDE DEF v
  <2>2. Same(x + ViDelay, v + ViDelay)
    BY <1>1, <2>1, SameMoved
  <2> QED
    BY <1>3, <2>2 DEF v
<1>5. /\ Timed(out, 0) /\ Fits(out) /\ Len(out.q) < Capacity /\ Fresh(out)
      /\ out.count = c.count /\ ~Scheduled(out.q, VI)
      /\ \E k \in 1 .. Len(out.q) : out.q[k].type # COMPARE
  BY <1>0, HeadIsOut
<1>6. Good(out)
  BY <1>0, RemoveKeepsGood
<1> HIDE DEF out, n, y
<1>7. Good(d)
  BY <1>0, <1>3, <1>6, AddKeepsGood
<1>8. Once(d.q, VI)
  BY <1>0, <1>3, <1>5, AddProperties
<1>9. PICK k \in 1 .. Len(out.q) : out.q[k].type # COMPARE
  BY <1>5
<1>10. Timed(d, 0)
  <2>1. Room(d) /\ Loose(out, 0) /\ Same(y, n - out.count)
    BY <1>4, <1>5, <1>7 DEF Good, Room, Timed
  <2> QED
    BY <1>0, <1>2, <1>3, <1>5, <1>9, <2>1, AddIsTimed
<1> QED
  BY <1>7, <1>8, <1>10 DEF Running, out, n

LEMMA AddDelayKeepsOnce ==
    ASSUME NEW c, Fits(c), NEW t \in Types, NEW y \in 0 .. Half,
           NEW u, u # t, Once(c.q, u)
    PROVE  Once(AddInterruptEvent(c, t, y).q, u)
<1>1. c.count \in Int /\ y \in Int
  BY EventsOfQueue, HalfAssumption DEF Fits
<1>2. PICK n \in Int : n = c.count + y
  BY <1>1
<1>3. Once(AddInterruptEventCount(c, t, n).q, u)
  BY AddProperties
<1> QED
  BY <1>2, <1>3 DEF AddInterruptEvent

LEMMA ViIsRunning ==
    ASSUME Punctual, NEW c, NEW s \in 0 .. BlockLength, Running(c, s), Fresh(c),
           c.q[1].type = VI, c.cycleCount >= 0, NEW d \in ViHandler(c)
    PROVE  Running(d, 0)
<1> DEFINE n == c.q[1].count + ViDelay
           After(r) == AddInterruptEventCount(RemoveInterruptEvent(r), VI, n)
<1>1. d = After(c) \/ d = After(SoftReset(c))
  BY DEF ViHandler
<1>2. Running(After(c), 0)
  BY ViAgain
<1>3. Running(After(SoftReset(c)), 0)
  <2> DEFINE first == AddInterruptEvent(c, HW2, 0)
             r == AddInterruptEvent(first, NMI, NmiDelay)
  <2>0. /\ HW2 \in Types /\ HW2 # COMPARE /\ HW2 # SPECIAL /\ HW2 # VI
        /\ NMI \in Types /\ NMI # COMPARE /\ NMI # SPECIAL /\ NMI # VI
        /\ 0 \in 0 .. Half /\ NmiDelay \in 0 .. Half
    BY HalfAssumption, DelayAssumption
       DEF Types, OwnTypes, VI, COMPARE, CHECK, SPECIAL, HW2, NMI, Punctual
  <2>1. /\ Good(c) /\ Timed(c, s) /\ Once(c.q, VI)
        /\ c.cycleCount \in Int /\ Time(c, c.q[1]) \in Int
        /\ c.cycleCount = -Time(c, c.q[1]) /\ Time(c, c.q[1]) <= 0
    <3>1. Good(c) /\ Timed(c, s) /\ Once(c.q, VI) /\ c.cycleCount = -Time(c, c.q[1])
      BY DEF Running, Timed, Exact
    <3>2. c \in Cp0 /\ c.cycleCount \in Int /\ c.q[1] \in Events
      BY <3>1, CheckedIsGood
    <3>3. Time(c, c.q[1]) \in Int
      BY <3>2, TimeFacts
    <3> QED
      BY <3>1, <3>2, <3>3
  <2>2. /\ Timed(first, s) /\ Fresh(first) /\ Good(first) /\ Once(first.q, VI)
        /\ first.q[1] = c.q[1] /\ Time(first, first.q[1]) = Time(c, c.q[1])
    <3>1. /\ Timed(first, s) /\ Fresh(first) /\ Good(first)
      BY <2>0, <2>1, AddDelayIsTimed
    <3>2. Once(first.q, VI)
      BY <2>0, <2>1, AddDelayKeepsOnce DEF Good
    <3>3. first.q[1] = c.q[1] /\ Time(first, first.q[1]) = Time(c, c.q[1])
      BY <2>0, <2>1, AddDelayIsTimed
    <3> QED
      BY <3>1, <3>2, <3>3
  <2> HIDE DEF first
  <2>3. /\ Timed(r, s) /\ Fresh(r) /\ Good(r) /\ Once(r.q, VI)
        /\ r.q[1] = c.q[1] /\ Time(r, r.q[1]) = Time(c, c.q[1])
    <3>1. /\ Timed(r, s) /\ Fresh(r) /\ Good(r)
      BY <2>0, <2>2, AddDelayIsTimed
    <3>2. Once(r.q, VI)
      BY <2>0, <2>2, AddDelayKeepsOnce DEF Good
    <3>3. r.q[1] = c.q[1] /\ Time(r, r.q[1]) = Time(c, c.q[1])
      <4>1. Time(first, first.q[1]) <= 0
        BY <2>1, <2>2
      <4> QED
        BY <2>0, <2>2, <4>1, AddDelayIsTimed
    <3> QED
      BY <3>1, <3>2, <3>3
  <2>4. SoftReset(c) = r
    BY DEF SoftReset, first
  <2> HIDE DEF r
  <2>5. Running(r, s) /\ r.q[1].type = VI /\ r.cycleCount >= 0
    BY <2>1, <2>3 DEF Running, Timed, Exact
  <2>6. Running(After(r), 0)
    BY <2>3, <2>5, ViAgain
  <2> QED
    BY <2>4, <2>6
<1> QED
  BY <1>1, <1>2, <1>3

(* init_interrupt: the wrap-around event comes when Count enters the upper *)
(* half of its range, the timer when it is zero.                           *)
LEMMA InitIsTimed ==
    ASSUME NEW c \in Cp0, c.count < Half
    PROVE  LET d == InitInterrupt(c)
           IN  /\ Timed(d, 0) /\ Fresh(d) /\ Good(d)
               /\ Len(d.q) = 2 /\ ~Scheduled(d.q, VI)
<1> DEFINE empty == [c EXCEPT !.q = <<>>]
           one == AddInterruptEventCount(empty, SPECIAL, Half)
           two == AddInterruptEventCount(one, COMPARE, 0)
           x == Half - c.count
           y == IF c.count = 0 THEN 0 ELSE Modulus - c.count
<1>0. /\ Half \in Nat \ {0} /\ Modulus = 2 * Half /\ CountPerOp \in Nat \ {0}
      /\ c.count \in Int /\ 0 <= c.count /\ c.count < Half
      /\ SPECIAL \in Types /\ COMPARE \in Types /\ COMPARE # SPECIAL
      /\ VI # COMPARE /\ VI # SPECIAL /\ 0 \in Int /\ Half \in Int
  BY HalfAssumption, RateAssumption, TypesOfOwnEvents
     DEF Modulus, Cp0, Word, VI, COMPARE, SPECIAL
<1>1. <<>> \in Seq(Events) /\ Len(<<>>) = 0
  OBVIOUS
<1>2. empty \in Cp0 /\ empty.q = <<>> /\ empty.count = c.count
  BY <1>1 DEF Cp0
<1>3. Fits(empty) /\ Len(empty.q) < Capacity
  BY <1>1, <1>2, CapacityAssumption DEF Fits
<1>4. InitInterrupt(c) = two
  BY DEF InitInterrupt
<1> HIDE DEF empty
<1>5. Half % Modulus = Half /\ 0 % Modulus = 0
  <2>1. Same(Half, Half) /\ Same(0, 0)
    BY <1>0, SameModulo
  <2> QED
    BY <1>0, <2>1, ModuloIs
<1>6. /\ one \in Cp0 /\ one.count = c.count /\ one.q # <<>>
      /\ one.cycleCount = Signed(one.count - one.q[1].count)
      /\ Len(one.q) = 1 /\ one.q[1].type = SPECIAL /\ one.q[1].count = Half
  <2>1. /\ one \in Cp0 /\ one.count = c.count /\ one.q # <<>>
        /\ one.cycleCount = Signed(one.count - one.q[1].count)
    BY <1>0, <1>2, <1>3, AddLinks, SMTT(30)
  <2>2. PICK e \in Events : /\ e.type = SPECIAL /\ e.count = Half % Modulus
                            /\ Inserted(empty.q, Place(empty, Half % Modulus), e, one.q)
    BY <1>0, <1>3, AddLinks
  <2> HIDE DEF one
  <2>3. PICK i : i = Place(empty, Half % Modulus)
    OBVIOUS
  <2>4. Inserted(<<>>, i, e, one.q)
    BY <1>2, <2>2, <2>3
  <2>5. i \in 1 .. 1 /\ Len(one.q) = 1 /\ \A j \in 1 .. 1 : j = i => one.q[j] = e
    BY <1>1, <2>4 DEF Inserted
  <2>6. one.q[1] = e
    BY <2>5
  <2> QED
    BY <1>5, <2>1, <2>2, <2>5, <2>6
<1>7. Fits(one) /\ Len(one.q) < Capacity
  BY <1>6, CapacityAssumption DEF Fits
<1> HIDE DEF one
<1>8. x \in Int /\ 0 < x /\ x <= Half
  BY <1>0
<1>9. Time(one, one.q[1]) = x /\ one.cycleCount = -x /\ Lined(one)
  <2> DEFINE X == [j \in 1 .. Len(one.q) |-> x]
  <2>1. X \in [1 .. Len(one.q) -> Int] /\ \A j \in 1 .. Len(one.q) : X[j] = x /\ j = 1
    BY <1>6, <1>8
  <2>2. 1 \in 1 .. Len(one.q)
    BY <1>6
  <2> HIDE DEF X
  <2>3. Same(x, one.q[1].count - one.count)
    <3>1. one.q[1].count - one.count = x
      BY <1>6
    <3> HIDE DEF x
    <3> QED
      BY <1>8, <3>1, SameModulo
  <2> HIDE DEF x
  <2>4. /\ \A i \in 1 .. Len(one.q) : Same(X[i], one.q[i].count - one.count)
        /\ \A i, j \in 1 .. Len(one.q) : i < j => X[i] <= X[j]
        /\ -Half < X[1] /\ X[1] <= Half
        /\ \A i \in 1 .. Len(one.q) : X[i] < Modulus + X[1] /\ X[i] < Modulus + CountPerOp
    BY <1>0, <1>8, <2>1, <2>2, <2>3
  <2> QED
    BY <1>6, <2>1, <2>2, <2>4, Retimed, ZenonT(30)
<1>10. y \in Int /\ 0 <= y /\ y < Modulus /\ Same(y, 0 - c.count)
  <2>1. y \in Int /\ 0 <= y /\ y < Modulus
    BY <1>0
  <2>2. CASE c.count = 0
    <3>1. y = 0 /\ 0 - c.count = 0
      BY <2>2
    <3> QED
      BY <2>1, <3>1, SameModulo
  <2>3. CASE c.count # 0
    <3>1. y - (0 - c.count) = 1 * Modulus
      BY <1>0, <2>3
    <3>2. Same(y, 0 - c.count)
      BY <3>1 DEF Same
    <3> QED
      BY <2>1, <3>2
  <2> QED
    BY <2>2, <2>3
<1>11. /\ two \in Cp0 /\ two.count = one.count /\ two.q # <<>>
       /\ two.cycleCount = Signed(two.count - two.q[1].count)
  <2>1. PICK z \in Int : z = 0
    OBVIOUS
  <2> DEFINE d == AddInterruptEventCount(one, COMPARE, z)
  <2>2. /\ d \in Cp0 /\ d.count = one.count /\ d.q # <<>>
        /\ d.cycleCount = Signed(d.count - d.q[1].count)
    <3>1. COMPARE \in Types /\ z \in Int
      BY <1>0
    <3> QED
      BY <1>7, <3>1, AddLinks
  <2> QED
    BY <2>1, <2>2, Zenon
<1>12. PICK e \in Events : /\ e.type = COMPARE /\ e.count = 0 % Modulus
                           /\ Inserted(one.q, Place(one, 0 % Modulus), e, two.q)
  <2>1. PICK z \in Int : z = 0
    OBVIOUS
  <2>2. \E e \in Events :
           /\ e.type = COMPARE /\ e.count = z % Modulus
           /\ Inserted(one.q, Place(one, z % Modulus), e,
                       AddInterruptEventCount(one, COMPARE, z).q)
    BY <1>0, <1>7, AddLinks
  <2> QED
    BY <2>1, <2>2, Zenon
<1>13. Good(two)
  BY <1>4, InitInterruptProperties
<1> HIDE DEF two
<1>14. PICK i \in 1 .. 2 : i = Place(one, 0)
  <2>1. Place(one, 0) \in 1 .. (1 + 1)
    BY <1>6, PlaceFacts
  <2> QED
    BY <2>1
<1>15. i = 1 <=> y < x
  <2>1. one.cycleCount \in Int /\ Late(one) = 0
    BY <1>6, <1>8, <1>9 DEF Late
  <2>2. (0 - Base(one)) % Modulus = y
    <3>1. Same(y, 0 - one.count) /\ -Late(one) <= y /\ y + Late(one) < Modulus
          /\ y \in Int /\ y + Late(one) = y
      BY <1>6, <1>10, <2>1
    <3> HIDE DEF y
    <3> QED
      BY <1>0, <1>6, <3>1, TimeFromBase
  <2>3. (Half - Base(one)) % Modulus = x
    <3>1. Same(x, Half - one.count) /\ -Late(one) <= x /\ x + Late(one) < Modulus
          /\ x \in Int /\ x + Late(one) = x
      <4>1. Half - one.count = x
        BY <1>6
      <4> HIDE DEF x
      <4> QED
        BY <1>0, <1>8, <2>1, <4>1, SameModulo
    <3> HIDE DEF x
    <3> QED
      BY <1>0, <1>6, <3>1, TimeFromBase
  <2>4. BeforeEvent(one, 0, one.q[1].count) <=> y < x
    BY <1>6, <2>2, <2>3 DEF BeforeEvent
  <2>5. /\ i > 1 => ~BeforeEvent(one, 0, one.q[1].count)
        /\ i = 1 => BeforeEvent(one, 0, one.q[1].count)
    <3>1. 1 \in 1 .. Len(one.q) /\ Len(one.q) = 1
      BY <1>6
    <3>2. /\ \A j \in 1 .. Len(one.q) : j < Place(one, 0) => ~BeforeEvent(one, 0, one.q[j].count)
          /\ Place(one, 0) <= Len(one.q) => BeforeEvent(one, 0, one.q[Place(one, 0)].count)
      BY <1>6, PlaceFacts
    <3> QED
      BY <1>14, <3>1, <3>2
  <2> HIDE DEF x, y
  <2> QED
    BY <1>14, <2>4, <2>5
<1> HIDE DEF x, y
<1>16. Belongs(one, i, y, 0)
  <2>1. /\ 0 \in Int /\ -CountPerOp <= 0 /\ -0 <= y /\ y < Modulus - 0
    BY <1>0, <1>10
  <2>2. ASSUME NEW j \in 1 .. Len(one.q)
        PROVE  /\ -0 <= Time(one, one.q[j]) /\ Time(one, one.q[j]) < Modulus - 0
               /\ j < i => Time(one, one.q[j]) <= y
               /\ j >= i => y <= Time(one, one.q[j])
    <3>1. j = 1 /\ Time(one, one.q[j]) = x
      BY <1>6, <1>9
    <3> QED
      BY <1>0, <1>8, <1>10, <1>14, <1>15, <3>1
  <2>3. /\ i = 1 => -Half < y /\ y <= Half
        /\ i > 1 => -Half < Time(one, one.q[1]) /\ Time(one, one.q[1]) <= Half
    BY <1>0, <1>8, <1>9, <1>10, <1>15
  <2> QED
    BY <1>10, <2>1, <2>2, <2>3 DEF Belongs
<1>17. /\ \A j \in 1 .. Len(two.q) :
             Time(two, two.q[j]) = IF j < i THEN Time(one, one.q[j])
                                   ELSE IF j = i THEN y ELSE Time(one, one.q[j - 1])
       /\ Lined(two) /\ Exact(two) /\ two.cycleCount <= 0 /\ Fresh(two)
  <2>1. Same(y, e.count - one.count) /\ Inserted(one.q, i, e, two.q)
    BY <1>5, <1>6, <1>10, <1>12, <1>14
  <2> QED
    BY <1>6, <1>9, <1>11, <1>16, <2>1, InsertedTimes
<1>18. /\ Len(two.q) = 2
       /\ \A j \in 1 .. 2 : two.q[j] = IF j < i THEN one.q[j]
                                       ELSE IF j = i THEN e ELSE one.q[j - 1]
  <2>1. Inserted(one.q, i, e, two.q)
    BY <1>5, <1>12, <1>14
  <2> QED
    BY <1>6, <2>1 DEF Inserted
<1>19. ASSUME NEW j \in 1 .. Len(two.q)
       PROVE  /\ two.q[j].type \in {COMPARE, SPECIAL}
              /\ two.q[j].type # COMPARE => Time(two, two.q[j]) <= Half
  <2>1. j = i \/ (j < i /\ j = 1) \/ (~(j < i) /\ j - 1 = 1)
    BY <1>14, <1>18
  <2> QED
    BY <1>6, <1>8, <1>9, <1>12, <1>17, <1>18, <2>1
<1>20. Loose(two, 0)
  <2>1. Room(two) /\ 0 \in Nat
    BY <1>13 DEF Good, Room
  <2> QED
    BY <1>17, <1>19, <2>1, EarlyIsLoose
<1>21. ~Scheduled(two.q, VI)
  BY <1>0, <1>19 DEF Scheduled
<1> QED
  BY <1>4, <1>13, <1>17, <1>18, <1>20, <1>21 DEF Timed

LEMMA FirstViIsRunning ==
    ASSUME Punctual, NEW c \in Cp0, c.count < Half
    PROVE  Running(AddInterruptEvent(InitInterrupt(c), VI, ViDelay), 0)
<1> DEFINE i == InitInterrupt(c)
<1>1. /\ Timed(i, 0) /\ Fresh(i) /\ Good(i) /\ Len(i.q) = 2 /\ ~Scheduled(i.q, VI)
  BY InitIsTimed
<1>2. /\ VI \in Types /\ VI # COMPARE /\ VI # SPECIAL
      /\ ViDelay \in 0 .. Half /\ 0 \in 0 .. BlockLength /\ Len(i.q) < Capacity
  BY <1>1, DelayAssumption, HalfAssumption, BlockAssumption, CapacityAssumption
     DEF Types, OwnTypes, VI, COMPARE, CHECK, SPECIAL, HW2, NMI, Punctual
<1> HIDE DEF i
<1> DEFINE d == AddInterruptEvent(i, VI, ViDelay)
<1>3. Timed(d, 0) /\ Good(d)
  BY <1>1, <1>2, AddDelayIsTimed
<1>4. Once(d.q, VI)
  BY <1>1, <1>2, AddDelayIsTimed
<1> QED
  BY <1>3, <1>4 DEF Running, i

LEMMA NmiIsRunning ==
    ASSUME Punctual, NEW c, Good(c)
    PROVE  Running(NmiHandler(c), 0)
<1> DEFINE r == RemoveInterruptEvent(c)
           z == [r EXCEPT !.count = 0]
<1>1. r \in Cp0
  BY CheckedIsGood, RemoveInterruptProperties DEF Fits
<1>2. z \in Cp0 /\ z.count = 0 /\ 0 < Half
  <2> HIDE DEF r
  <2> QED
    BY <1>1, WordArithmetic, HalfAssumption DEF Cp0
<1> HIDE DEF z
<1>3. Running(AddInterruptEvent(InitInterrupt(z), VI, ViDelay), 0)
  BY <1>2, FirstViIsRunning
<1> QED
  BY <1>3 DEF NmiHandler, z

(* Whatever gen_interrupt handles, the events behind it are one jump       *)
(* closer to their turn.                                                   *)
LEMMA GenInterruptIsRunning ==
    ASSUME Punctual, NEW c, NEW s \in 0 .. BlockLength, Running(c, s),
           NEW d \in GenInterruptIfDue(c)
    PROVE  Running(d, 0)
<1>0. /\ Good(c) /\ c \in Cp0 /\ c.cycleCount \in Int /\ c.q[1].type \in Types
  BY CheckedIsGood DEF Running
<1>1. CASE ~(c.cycleCount >= 0)
  <2>1. d = c /\ c.cycleCount <= 0
    BY <1>0, <1>1 DEF GenInterruptIfDue
  <2> QED
    BY <2>1, NotDueIsTimed
<1>2. CASE c.cycleCount >= 0
  <2> DEFINE t == c.q[1].type
  <2>1. d \in GenInterrupt(c)
    BY <1>2 DEF GenInterruptIfDue
  <2>2. Fresh(c)
    BY <1>0, <1>2, LateIsFresh
  <2>3. /\ VI # COMPARE /\ VI # SPECIAL /\ COMPARE # SPECIAL
        /\ \A u \in {CHECK, HW2} : u \notin {COMPARE, SPECIAL, VI}
        /\ NMI \notin {COMPARE, SPECIAL, VI, CHECK, HW2}
    BY DEF VI, COMPARE, CHECK, SPECIAL, HW2, NMI
  <2>4. t \in Devices \/ t \in OwnTypes
    BY <1>0 DEF Types
  <2>5. CASE t = VI
    <3>1. d \in ViHandler(c)
      BY <2>1, <2>5 DEF GenInterrupt, VI, COMPARE, CHECK, SPECIAL, HW2, NMI
    <3> QED
      BY <1>2, <2>2, <2>5, <3>1, ViIsRunning
  <2>6. CASE t = COMPARE
    BY <2>1, <2>3, <2>6, CompareIsRunning DEF GenInterrupt
  <2>7. CASE t \in {CHECK, HW2}
    <3>1. d = RemoveInterruptEvent(c)
      BY <2>1, <2>3, <2>7 DEF GenInterrupt
    <3> QED
      BY <2>3, <2>7, <3>1, RemovedIsRunning
  <2>8. CASE t = SPECIAL
    <3>1. d = SpecialHandler(c)
      BY <2>1, <2>3, <2>8 DEF GenInterrupt
    <3> QED
      BY <2>2, <2>8, <3>1, SpecialIsRunning
  <2>9. CASE t = NMI
    <3>1. d = NmiHandler(c)
      BY <2>1, <2>3, <2>9 DEF GenInterrupt
    <3> QED
      BY <1>0, <3>1, NmiIsRunning
  <2>10. CASE t \in Devices
    <3>1. d \in DeviceHandler(c)
      BY <2>1, <2>10, DeviceAssumption DEF GenInterrupt, OwnTypes
    <3> QED
      BY <2>2, <2>10, <3>1, DeviceIsRunning
  <2> QED
    BY <2>4, <2>5, <2>6, <2>7, <2>8, <2>9, <2>10 DEF OwnTypes
<1> QED
  BY <1>1, <1>2

(* A CHECK_INT that is handled at once leaves no trace.                    *)
LEMMA CheckIsOut ==
    ASSUME NEW p \in Cp0, NEW q \in Seq(Events), NEW e \in Events,
           p.q = <<e>> \o q, e.type = CHECK, p.cycleCount >= 0, q # <<>>
    PROVE  \A d \in GenInterruptIfDue(p) :
              /\ d \in Cp0 /\ d.q = q /\ d.count = p.count
              /\ d.cycleCount = Signed(d.count - q[1].count)
<1> DEFINE out == RemoveInterruptEvent(p)
<1>0. Len(q) \in Nat /\ <<e>> \in Seq(Events) /\ Len(<<e>>) = 1 /\ <<e>>[1] = e
  OBVIOUS
<1>1. /\ p.q \in Seq(Events) /\ Len(p.q) = 1 + Len(q)
      /\ \A i \in 1 .. 1 + Len(q) : p.q[i] = IF i <= 1 THEN <<e>>[i] ELSE q[i - 1]
  BY <1>0, ConcatProperties
<1>2. p.q[1] = e /\ p.q # <<>>
  <2>1. 1 \in 1 .. 1 + Len(q) /\ 1 <= 1
    BY <1>0
  <2>2. p.q[1] = <<e>>[1]
    BY <1>1, <2>1
  <2>3. Len(p.q) # 0
    BY <1>0, <1>1
  <2>4. p.q # <<>>
    BY <1>1, <2>3, EmptySeq
  <2> QED
    BY <1>0, <2>2, <2>4
<1>3. Tail(p.q) = q
  <2>1. /\ Tail(p.q) \in Seq(Events) /\ Len(Tail(p.q)) = Len(q)
        /\ \A i \in 1 .. Len(Tail(p.q)) : Tail(p.q)[i] = p.q[i + 1]
    <3>1. /\ Tail(p.q) \in Seq(Events) /\ Len(Tail(p.q)) = Len(p.q) - 1
          /\ \A i \in 1 .. Len(Tail(p.q)) : Tail(p.q)[i] = p.q[i + 1]
      BY <1>1, <1>2, HeadTailProperties
    <3> QED
      BY <1>0, <1>1, <3>1
  <2>2. \A i \in 1 .. Len(Tail(p.q)) : Tail(p.q)[i] = q[i]
    <3> SUFFICES ASSUME NEW i \in 1 .. Len(q) PROVE p.q[i + 1] = q[i]
      BY <2>1
    <3>1. i + 1 \in 1 .. 1 + Len(q) /\ ~(i + 1 <= 1) /\ (i + 1) - 1 = i
      BY <1>0
    <3> QED
      BY <1>1, <3>1
  <2> QED
    BY <2>1, <2>2, SeqEqual
<1>4. \A d \in GenInterruptIfDue(p) : d = out
  <2>2. p.q[1].type = CHECK
    BY <1>2
  <2>3. GenInterrupt(p) = {out}
    BY <2>2 DEF GenInterrupt, VI, COMPARE, CHECK, SPECIAL, HW2, NMI
  <2>4. GenInterruptIfDue(p) = {out}
    BY <2>3 DEF GenInterruptIfDue
  <2> QED
    BY <2>4
<1>5. out = WithQueue(p, q)
  BY <1>3 DEF RemoveInterruptEvent
<1>6. out \in Cp0 /\ out.q = q /\ out.count = p.count
  BY <1>5, WithQueueType
<1>7. out.cycleCount = Signed(p.count - q[1].count)
  BY <1>5 DEF WithQueue, Cp0
<1> QED
  BY <1>4, <1>6, <1>7

LEMMA UncheckedIsRunning ==
    ASSUME Punctual, NEW c, NEW s \in 0 .. BlockLength, Running(c, s),
           NEW d \in Cp0, d.q = c.q, d.count = c.count,
           d.cycleCount = Signed(d.count - c.q[1].count)
    PROVE  Running(d, s)
<1>0. /\ c \in Cp0 /\ c.q[1] \in Events /\ c.q[1].count \in Int /\ c.count \in Int
      /\ c.cycleCount \in Int /\ Loose(c, s) /\ c.cycleCount = -Time(c, c.q[1])
      /\ Half \in Nat
  BY CheckedIsGood, HalfAssumption DEF Running, Timed, Exact
<1>1. PICK k \in 1 .. Len(c.q) : c.q[k].type # COMPARE
  <2>1. Fits(c) /\ Once(c.q, SPECIAL) /\ SPECIAL # COMPARE
    BY TypesOfOwnEvents DEF Running, Good
  <2> QED
    BY <2>1, SomeEvent
<1>2. -Half < Time(c, c.q[1]) /\ Time(c, c.q[1]) <= Half /\ Time(c, c.q[1]) \in Int
  BY <1>0, <1>1, HeadIsNear
<1>3. Same(Time(c, c.q[1]), c.q[1].count - c.count)
  BY <1>0, TimeFacts
<1>4. Same(-Time(c, c.q[1]), c.count - c.q[1].count)
  BY <1>0, <1>2, <1>3, NegatedTime
<1>5. Signed(c.count - c.q[1].count) = c.cycleCount
  <2>1. /\ -Half <= c.cycleCount /\ c.cycleCount < Half
        /\ c.count - c.q[1].count \in Int
        /\ Same(c.cycleCount, c.count - c.q[1].count)
    BY <1>0, <1>2, <1>4
  <2> QED
    BY <1>0, <2>1, SignedIs
<1> QED
  BY <1>5, SameIsRunning

(* r4300_check_interrupt and then gen_interrupt, with n instructions       *)
(* between the two.                                                        *)
LEMMA PushCheckIsRunning ==
    ASSUME Punctual, NEW c, NEW s \in 0 .. BlockLength, NEW d, Good(c),
           \/ d \in GenInterruptIfDue(PushCheck(c)) /\ Running(c, s)
           \/ \E n \in Nat : /\ d \in GenInterruptIfDue(UpdateCount(PushCheck(c), n))
                             /\ Running(UpdateCount(c, n), s)
    PROVE  Running(d, 0) \/ Running(d, s)
<1> DEFINE e == [type |-> CHECK, count |-> c.count]
<1>0. /\ c \in Cp0 /\ c.q \in Seq(Events) /\ Len(c.q) \in Nat /\ c.count \in Word
      /\ c.count \in Int /\ c.q # <<>> /\ Capacity \in Nat
  BY CheckedIsGood, EventsOfQueue, CapacityAssumption DEF Cp0
<1>1. e \in Events /\ e.type = CHECK
  BY <1>0 DEF Events, Types, OwnTypes
<1>2. CASE Len(c.q) >= Capacity
  <2>1. PushCheck(c) = c
    BY <1>2 DEF PushCheck
  <2> QED
    BY <2>1, GenInterruptIsRunning
<1>3. CASE ~(Len(c.q) >= Capacity)
  <2> DEFINE p == PushCheck(c)
  <2>1. p = [c EXCEPT !.q = <<e>> \o c.q, !.nextInterrupt = c.count, !.cycleCount = 0]
    BY <1>3 DEF PushCheck
  <2>2. Good(p) /\ p \in Cp0
    BY PushCheckProperties DEF Good, Fits
  <2> HIDE DEF e
  <2>3. p.q = <<e>> \o c.q /\ p.count = c.count /\ p.cycleCount = 0
    BY <1>0, <2>1 DEF Cp0
  <2> HIDE DEF p
  <2>4. CASE d \in GenInterruptIfDue(p) /\ Running(c, s)
    <3>0. p.cycleCount >= 0
      BY <2>3
    <3>2. \A x \in GenInterruptIfDue(p) :
             /\ x \in Cp0 /\ x.q = c.q /\ x.count = p.count
             /\ x.cycleCount = Signed(x.count - c.q[1].count)
      BY <1>0, <1>1, <2>2, <2>3, <3>0, CheckIsOut
    <3>1. /\ d \in Cp0 /\ d.q = c.q /\ d.count = c.count
          /\ d.cycleCount = Signed(d.count - c.q[1].count)
      BY <2>3, <2>4, <3>2
    <3> QED
      BY <2>4, <3>1, UncheckedIsRunning
  <2>5. ASSUME NEW n \in Nat, d \in GenInterruptIfDue(UpdateCount(p, n)),
               Running(UpdateCount(c, n), s)
        PROVE  Running(d, s)
    <3> DEFINE now == UpdateCount(c, n)
               then == UpdateCount(p, n)
    <3>1. Good(then) /\ then \in Cp0 /\ then.q = p.q /\ now.q = c.q
      BY <2>2, UpdateCountProperties DEF Good, Fits
    <3>2. then.count = now.count /\ then.cycleCount >= 0
      <4>1. /\ then.count = (p.count + n * CountPerOp) % Modulus
            /\ now.count = (c.count + n * CountPerOp) % Modulus
            /\ then.cycleCount = p.cycleCount + n * CountPerOp
        BY <1>0, <2>2 DEF UpdateCount, Cp0
      <4>2. n * CountPerOp \in Nat
        BY RateAssumption
      <4> HIDE DEF then, now
      <4> QED
        BY <2>3, <4>1, <4>2
    <3>3. Running(now, s)
      BY <2>5
    <3> HIDE DEF then, now
    <3>4. /\ d \in Cp0 /\ d.q = now.q /\ d.count = now.count
          /\ d.cycleCount = Signed(d.count - now.q[1].count)
      <4>1. d \in GenInterruptIfDue(then)
        BY <2>5 DEF then
      <4>2. then.q = <<e>> \o c.q
        BY <2>3, <3>1
      <4>3. /\ d \in Cp0 /\ d.q = c.q /\ d.count = then.count
            /\ d.cycleCount = Signed(d.count - c.q[1].count)
        BY <1>0, <1>1, <3>1, <3>2, <4>1, <4>2, CheckIsOut
      <4> QED
        BY <3>1, <3>2, <4>3
    <3> QED
      BY <3>3, <3>4, UncheckedIsRunning
  <2> QED
    BY <2>4, <2>5 DEF p
<1> QED
  BY <1>2, <1>3

(* The inductive step, one case per action.                                *)
LEMMA TimedStep ==
    ASSUME Punctual, TInv, [Step]_vars
    PROVE  TInv'
<1>0. /\ Running(cp0, since) /\ Good(cp0) /\ since \in Nat /\ since < BlockLength
      /\ BlockLength \in Nat \ {0} /\ Values \subseteq Word
      /\ Once(cp0.q, VI)
  BY BlockAssumption, ValuesAssumption DEF TInv, Running, Word, Modulus
<1>1. ASSUME NEW n \in 1 .. BlockLength, since + n <= BlockLength
      PROVE  /\ Running(UpdateCount(cp0, n), since + n)
             /\ Fresh(UpdateCount(cp0, n))
             /\ since + n \in 0 .. BlockLength /\ n \in Nat \ {0} /\ since + n \in Nat
             /\ UpdateCount(cp0, n).q = cp0.q /\ Good(UpdateCount(cp0, n))
  <2>1. n \in Nat \ {0} /\ since + n \in 0 .. BlockLength /\ since + n \in Nat
    BY <1>0, <1>1
  <2> QED
    BY <1>0, <2>1, UpdateIsRunning, UpdateCountProperties
<1>2. \A n \in 1 .. BlockLength :
         InBlock(n) => /\ since + n <= BlockLength /\ since' = since + n
                       /\ since' \in 0 .. (BlockLength - 1) /\ since' \in Nat
  BY <1>0 DEF InBlock
<1>3. 0 \in 0 .. (BlockLength - 1)
  BY <1>0
<1>4. ASSUME NEW n \in 1 .. BlockLength, ReadCount(n)  PROVE TInv'
  BY <1>1, <1>2, <1>4 DEF ReadCount, TInv
<1>5. ASSUME NEW n \in 1 .. BlockLength, NEW value \in Values, WriteCompare(n, value)
      PROVE  TInv'
  <2>1. InBlock(n) /\ value \in Word
    BY <1>0, <1>5 DEF WriteCompare
  <2>2. Running([AddCompare(RemoveEvent(UpdateCount(cp0, n), COMPARE), value)
                    EXCEPT !.compare = value], since + n)
    BY <1>1, <1>2, <2>1, WriteCompareIsRunning
  <2> QED
    BY <1>2, <1>5, <2>1, <2>2 DEF WriteCompare, TInv
<1>6. ASSUME NEW n \in 1 .. BlockLength, NEW value \in Values, WriteCount(n, value)
      PROVE  TInv'
  <2>1. InBlock(n) /\ value \in Word
    BY <1>0, <1>6 DEF WriteCount
  <2>2. PICK c \in GenInterruptIfDue(UpdateCount(cp0, n)) :
            cp0' = TranslateEventQueue(c, value)
    BY <1>6 DEF WriteCount
  <2>3. Running(c, 0) /\ 0 \in 0 .. BlockLength
    BY <1>0, <1>1, <1>2, <2>1, <2>2, GenInterruptIsRunning
  <2>4. Running(cp0', 0)
    BY <2>1, <2>2, <2>3, TranslateIsTimed
  <2> QED
    BY <1>2, <2>1, <2>4, LaterIsRunning DEF TInv
<1>7. ASSUME NEW n \in 1 .. BlockLength, NEW t \in Types, t # COMPARE, t # SPECIAL,
             NEW delay \in 0 .. Half, Schedule(n, t, delay)
      PROVE  TInv'
  <2>1. /\ InBlock(n) /\ ~Scheduled(cp0.q, t)
        /\ cp0' = AddInterruptEvent(UpdateCount(cp0, n), t, delay)
    BY <1>7 DEF Schedule
  <2>2. VI # t
    BY <1>0, <2>1 DEF Once, Scheduled
  <2> DEFINE now == UpdateCount(cp0, n)
  <2>3. /\ Good(now) /\ Fresh(now) /\ since + n \in 0 .. BlockLength
        /\ Timed(now, since + n) /\ Once(now.q, VI) /\ Fits(now)
    BY <1>1, <1>2, <2>1 DEF Running, Good
  <2> HIDE DEF now
  <2>4. Good(cp0') /\ Timed(cp0', since + n)
    <3>1. cp0' = AddInterruptEvent(now, t, delay)
      BY <2>1 DEF now
    <3>2. /\ Good(AddInterruptEvent(now, t, delay))
          /\ Timed(AddInterruptEvent(now, t, delay), since + n)
      BY <1>7, <2>3, AddDelayIsTimed
    <3> QED
      BY <3>1, <3>2
  <2>5. Once(cp0'.q, VI)
    <3>1. Once(AddInterruptEvent(now, t, delay).q, VI)
      BY <2>2, <2>3, AddDelayKeepsOnce
    <3> QED
      BY <2>1, <3>1 DEF now
  <2> QED
    BY <1>2, <2>1, <2>4, <2>5 DEF TInv, Running
<1>8. ASSUME NEW n \in 1 .. BlockLength, WriteStatus(n)  PROVE TInv'
  <2>1. PICK checked \in {UpdateCount(cp0, n), PushCheck(UpdateCount(cp0, n))} :
            cp0' \in GenInterruptIfDue(checked)
    BY <1>8 DEF WriteStatus
  <2>2. InBlock(n)
    BY <1>8 DEF WriteStatus
  <2>3. Running(cp0', 0) \/ Running(cp0', since + n)
    BY <1>1, <1>2, <2>1, <2>2, GenInterruptIsRunning, PushCheckIsRunning
  <2> QED
    BY <1>2, <2>2, <2>3, LaterIsRunning DEF TInv
<1>9. ASSUME NEW n \in 1 .. BlockLength, WriteMask(n)  PROVE TInv'
  <2>1. PICK checked \in {cp0, PushCheck(cp0)} :
            cp0' \in GenInterruptIfDue(UpdateCount(checked, n))
    BY <1>9 DEF WriteMask
  <2>2. InBlock(n)
    BY <1>9 DEF WriteMask
  <2>3. Running(cp0', 0) \/ Running(cp0', since + n)
    BY <1>0, <1>1, <1>2, <2>1, <2>2, GenInterruptIsRunning, PushCheckIsRunning
  <2> QED
    BY <1>2, <2>2, <2>3, LaterIsRunning DEF TInv
<1>10. ASSUME NEW n \in 1 .. BlockLength, Jump(n)  PROVE TInv'
  <2>1. since + n <= BlockLength /\ since' = 0 /\ cp0' \in GenInterruptIfDue(UpdateCount(cp0, n))
    BY <1>10 DEF Jump
  <2>2. Running(cp0', 0)
    BY <1>1, <2>1, GenInterruptIsRunning
  <2> QED
    BY <1>3, <2>1, <2>2 DEF TInv
<1>11. ASSUME IdleJump  PROVE TInv'
  <2> DEFINE now == UpdateCount(cp0, 1)
             skipped == [now EXCEPT !.count = (@ - now.cycleCount) % Modulus,
                                    !.cycleCount = 0]
             idle == IF now.cycleCount < 0 THEN skipped ELSE now
  <2>1. Running(now, since + 1) /\ since + 1 \in 0 .. BlockLength
    BY <1>0, <1>1
  <2>2. cp0' \in GenInterruptIfDue(idle) /\ since' = 0
    BY <1>11 DEF IdleJump
  <2> HIDE DEF now
  <2>3. now.cycleCount < 0 => Running(skipped, 0)
    BY <2>1, IdleIsRunning
  <2> HIDE DEF skipped
  <2>4. \E s \in 0 .. BlockLength : Running(idle, s)
    BY <1>0, <2>1, <2>3
  <2> HIDE DEF idle
  <2>5. Running(cp0', 0)
    BY <2>2, <2>4, GenInterruptIsRunning
  <2> QED
    BY <1>3, <2>2, <2>5 DEF TInv
<1>12. ASSUME UNCHANGED vars  PROVE TInv'
  BY <1>12 DEF vars, TInv
<1>13. /\ VI \in Types /\ VI # COMPARE /\ VI # SPECIAL /\ ViDelay \in 0 .. Half
       /\ Delays \subseteq 0 .. Half
       /\ \A t \in Devices : t \in Types /\ t # COMPARE /\ t # SPECIAL
  BY TypesOfOwnEvents, DelayAssumption, HalfAssumption
     DEF Types, OwnTypes, VI, COMPARE, CHECK, SPECIAL, HW2, NMI, Punctual
<1>14. ~Signal
  BY DEF Signal, Punctual
<1> QED
  <2>1. ASSUME NEW n \in 1 .. BlockLength, Schedule(n, VI, ViDelay)  PROVE TInv'
    BY <1>7, <1>13, <2>1
  <2>2. ASSUME NEW n \in 1 .. BlockLength, NEW t \in Devices, NEW delay \in Delays,
               Schedule(n, t, delay)
        PROVE  TInv'
    BY <1>7, <1>13, <2>2
  <2> QED
    BY <1>4, <1>5, <1>6, <1>8, <1>9, <1>10, <1>11, <1>12, <1>14, <2>1, <2>2 DEF Step

LEMMA FirstIsTimed == ASSUME Punctual, InitVi PROVE TInv
<1> DEFINE c == [count |-> PowerOnCount, compare |-> 0, cycleCount |-> 0,
                 nextInterrupt |-> 0, q |-> <<>>]
<1>1. <<>> \in Seq(Events) /\ 0 \in Int /\ 0 \in Word /\ PowerOnCount \in Word
  BY WordArithmetic, PowerOnAssumption, HalfAssumption DEF Word, Modulus
<1>2. c \in Cp0 /\ c.count < Half
  BY <1>1, PowerOnAssumption, HalfAssumption DEF Cp0
<1>3. PowerOn = InitInterrupt(c)
  BY DEF PowerOn
<1> HIDE DEF c
<1>4. Running(AddInterruptEvent(PowerOn, VI, ViDelay), 0)
  BY <1>2, <1>3, FirstViIsRunning
<1>5. 0 \in 0 .. (BlockLength - 1)
  BY BlockAssumption
<1> QED
  BY <1>4, <1>5 DEF InitVi, TInv

LEMMA TInvHolds == Punctual => (SpecVi => []TInv)
<1>1. Punctual /\ InitVi => TInv
  BY FirstIsTimed
<1>2. Punctual /\ TInv /\ [Step]_vars => TInv'
  BY TimedStep
<1>3. CASE Punctual
  <2>1. InitVi => TInv
    BY <1>1, <1>3
  <2>2. TInv /\ [Step]_vars => TInv'
    BY <1>2, <1>3
  <2> QED
    BY <2>1, <2>2, PTL DEF SpecVi
<1> QED
  BY <1>3

-----------------------------------------------------------------------------
(* What the program sees of it.                                            *)
LEMMA TInvFacts ==
    ASSUME Punctual, TInv
    PROVE  /\ cp0 \in Cp0 /\ Room(cp0) /\ Len(cp0.q) \in Nat /\ 1 \in 1 .. Len(cp0.q)
           /\ cp0.cycleCount \in Int /\ cp0.cycleCount <= MaxLate
           /\ cp0.cycleCount = -Time(cp0, cp0.q[1])
           /\ -Half < Time(cp0, cp0.q[1])
           /\ Loose(cp0, since) /\ since \in 0 .. BlockLength /\ since \in Nat
           /\ MaxLate \in Nat /\ MaxLate < Half /\ Half \in Nat /\ Modulus = 2 * Half
           /\ \A i \in 1 .. Len(cp0.q) :
                 /\ cp0.q[i] \in Events /\ Time(cp0, cp0.q[i]) \in Int
                 /\ Time(cp0, cp0.q[1]) <= Time(cp0, cp0.q[i])
<1>1. /\ Running(cp0, since) /\ since \in 0 .. BlockLength /\ since \in Nat
  BY BlockAssumption DEF TInv
<1>2. /\ Good(cp0) /\ cp0 \in Cp0 /\ Room(cp0) /\ Loose(cp0, since) /\ Lined(cp0)
      /\ cp0.cycleCount = -Time(cp0, cp0.q[1])
  BY <1>1 DEF Running, Good, Fits, Room, Timed, Loose, Exact
<1>3. /\ Len(cp0.q) \in Nat /\ 1 \in 1 .. Len(cp0.q) /\ cp0.cycleCount \in Int
      /\ \A i \in 1 .. Len(cp0.q) : cp0.q[i] \in Events
  BY <1>2, CheckedIsGood, EventsOfQueue
<1>4. \A i \in 1 .. Len(cp0.q) : Time(cp0, cp0.q[i]) \in Int
  BY <1>2, <1>3, TimeFacts
<1>5. \A i \in 1 .. Len(cp0.q) : Time(cp0, cp0.q[1]) <= Time(cp0, cp0.q[i])
  <2> TAKE i \in 1 .. Len(cp0.q)
  <2>1. i = 1 \/ 1 < i
    OBVIOUS
  <2> QED
    BY <1>2, <1>3, <1>4, <2>1 DEF Lined
<1>6. PICK k \in 1 .. Len(cp0.q) : cp0.q[k].type # COMPARE
  <2>1. Fits(cp0) /\ Once(cp0.q, SPECIAL) /\ SPECIAL # COMPARE
    BY <1>2, TypesOfOwnEvents DEF Good
  <2> QED
    BY <2>1, SomeEvent
<1>7. cp0.cycleCount <= MaxLate /\ -Half < Time(cp0, cp0.q[1])
  BY <1>1, <1>2, <1>6, HeadIsNear
<1>8. MaxLate \in Nat /\ MaxLate < Half /\ Half \in Nat /\ Modulus = 2 * Half
  BY DelayAssumption, HalfAssumption DEF Punctual, Modulus
<1> QED
  BY <1>1, <1>2, <1>3, <1>4, <1>5, <1>7, <1>8

(* Modulo the counter's width an event is overdue by the time since it was *)
(* due, or it is at least half a turn away.                                *)
LEMMA OverdueIs ==
    ASSUME Punctual, NEW c \in Cp0, NEW e \in Events,
           -MaxLate <= Time(c, e), Time(c, e) <= Half
    PROVE  /\ Time(c, e) <= 0 => (c.count - e.count) % Modulus = -Time(c, e)
           /\ Time(c, e) > 0 => (c.count - e.count) % Modulus >= Half
<1> DEFINE x == Time(c, e)
           w == c.count - e.count
<1>1. /\ x \in Int /\ c.count \in Int /\ e.count \in Int /\ w \in Int
      /\ Same(-x, w) /\ -x \in Int
  <2>1. x \in Int /\ Same(x, e.count - c.count) /\ c.count \in Int /\ e.count \in Int
    <3>1. x \in Int /\ Same(x, e.count - c.count)
      BY TimeFacts
    <3>2. c.count \in Int
      BY EventsOfQueue
    <3>3. e.count \in Int
      BY DEF Events, Word
    <3> QED
      BY <3>1, <3>2, <3>3
  <2>2. Same(-x, c.count - e.count)
    BY <2>1, NegatedTime
  <2> QED
    BY <2>1, <2>2
<1>2. /\ MaxLate \in Nat /\ MaxLate < Half /\ Half \in Nat \ {0} /\ Modulus = 2 * Half
      /\ -MaxLate <= x /\ x <= Half
  BY DelayAssumption, HalfAssumption DEF Punctual, Modulus
<1> HIDE DEF x, w
<1>3. x <= 0 => w % Modulus = -x
  BY <1>1, <1>2, ModuloIs
<1>4. x > 0 => w % Modulus >= Half
  <2> SUFFICES ASSUME x > 0 PROVE w % Modulus >= Half
    OBVIOUS
  <2>1. PICK k \in Int : (-x) - w = k * Modulus
    BY <1>1 DEF Same
  <2>2. Modulus \in Int /\ (Modulus - x) - w = (k + 1) * Modulus /\ k + 1 \in Int
    BY <1>1, <1>2, <2>1
  <2>3. Same(Modulus - x, w) /\ Modulus - x \in Int /\ 0 <= Modulus - x /\ Modulus - x < Modulus
    BY <1>1, <1>2, <2>2 DEF Same
  <2>4. w % Modulus = Modulus - x
    BY <1>1, <2>3, ModuloIs
  <2> QED
    BY <1>1, <1>2, <2>4
<1> QED
  BY <1>3, <1>4 DEF x, w

LEMMA EventsAreNear ==
    ASSUME Punctual, TInv, NEW i \in 1 .. Len(cp0.q), cp0.q[i].type # COMPARE
    PROVE  -MaxLate <= Time(cp0, cp0.q[i]) /\ Time(cp0, cp0.q[i]) <= Half
<1>1. Time(cp0, cp0.q[i]) <= Half /\ -Time(cp0, cp0.q[i]) <= Allowed(Jumps(cp0.q, i), since)
  BY TInvFacts DEF Loose, Bounded
<1>2. Jumps(cp0.q, i) \in Int /\ 0 <= Jumps(cp0.q, i)
  BY TInvFacts, JumpsFit
<1>3. since <= BlockLength
  BY BlockAssumption DEF TInv
<1>4. /\ Allowed(Jumps(cp0.q, i), since) \in Int
      /\ Allowed(Jumps(cp0.q, i), since) <= MaxLate
  BY <1>2, <1>3, TInvFacts, AllowedFacts
<1> QED
  BY <1>1, <1>4, TInvFacts

LEMMA TInvIsCyclic == ASSUME Punctual, TInv PROVE CyclicOrder
<1> DEFINE T(i) == Time(cp0, cp0.q[i])
<1>1. ASSUME NEW i \in 1 .. Len(cp0.q)
      PROVE  (cp0.q[i].count - cp0.q[1].count) % Modulus = T(i) - T(1)
  <2>1. /\ cp0 \in Cp0 /\ 1 \in 1 .. Len(cp0.q) /\ cp0.q[i] \in Events /\ cp0.q[1] \in Events
        /\ T(1) <= T(i) /\ T(1) \in Int /\ T(i) \in Int
    BY TInvFacts
  <2>2. /\ Same(T(i), cp0.q[i].count - cp0.count) /\ Same(T(1), cp0.q[1].count - cp0.count)
        /\ -Lag(cp0) <= T(1) /\ T(i) < Modulus - Lag(cp0) /\ Lag(cp0) \in Int
    BY <2>1, TimeFacts
  <2>3. /\ cp0.q[i].count \in Int /\ cp0.q[1].count \in Int /\ cp0.count \in Int
        /\ Modulus \in Int
    <3>1. cp0.q[i].count \in Int /\ cp0.q[1].count \in Int /\ cp0.count \in Int
      BY <2>1, EventsOfQueue
    <3>2. Modulus \in Int
      BY WordArithmetic
    <3> QED
      BY <3>1, <3>2
  <2> DEFINE u == cp0.q[i].count - cp0.count
             v == cp0.q[1].count - cp0.count
  <2>4. u \in Int /\ v \in Int /\ Same(T(i), u) /\ Same(T(1), v)
        /\ u - v = cp0.q[i].count - cp0.q[1].count
    BY <2>2, <2>3, SMTT(30)
  <2> HIDE DEF u, v, T
  <2>5. Same(T(i) - T(1), u - v)
    BY <2>1, <2>4, SameSum
  <2>6. T(i) - T(1) \in Int /\ 0 <= T(i) - T(1) /\ T(i) - T(1) < Modulus /\ u - v \in Int
    <3> DEFINE a == T(i)
               b == T(1)
               g == Lag(cp0)
    <3>1. a \in Int /\ b \in Int /\ b <= a /\ -g <= b /\ a < Modulus - g /\ g \in Int
      BY <2>1, <2>2
    <3> HIDE DEF a, b, g
    <3>2. a - b \in Int /\ 0 <= a - b /\ a - b < Modulus
      BY <2>3, <3>1
    <3>3. u - v \in Int
      BY <2>4
    <3> QED
      BY <3>2, <3>3 DEF a, b
  <2>7. (u - v) % Modulus = T(i) - T(1)
    BY <2>5, <2>6, ModuloIs
  <2> QED
    BY <2>4, <2>7
<1>2. ASSUME NEW i \in 1 .. Len(cp0.q), NEW j \in 1 .. Len(cp0.q), i < j
      PROVE  T(i) - T(1) <= T(j) - T(1)
  <2>1. T(i) <= T(j)
    BY <1>2, TInvFacts DEF Loose, Lined
  <2>2. T(i) \in Int /\ T(j) \in Int /\ T(1) \in Int
    BY TInvFacts
  <2> HIDE DEF T
  <2> QED
    BY <2>1, <2>2
<1> HIDE DEF T
<1> QED
  BY <1>1, <1>2 DEF CyclicOrder

LEMMA TInvIsOnTime == ASSUME Punctual, TInv PROVE OnTime
<1> SUFFICES ASSUME NEW i \in 1 .. Len(cp0.q), cp0.q[i].type # COMPARE
             PROVE  Due(cp0.q[i].count) \/ Overdue(cp0.q[i].count) >= Half
  BY DEF OnTime
<1> DEFINE x == Time(cp0, cp0.q[i])
           w == (cp0.count - cp0.q[i].count) % Modulus
<1>1. -MaxLate <= x /\ x <= Half
  BY EventsAreNear
<1>2. cp0.q[i] \in Events /\ x \in Int /\ cp0 \in Cp0 /\ MaxLate \in Nat
  BY TInvFacts
<1>3. (x <= 0 => w = -x) /\ (x > 0 => w >= Half)
  BY <1>1, <1>2, OverdueIs
<1> HIDE DEF x
<1>4. w <= MaxLate \/ w >= Half
  BY <1>1, <1>2, <1>3
<1> QED
  BY <1>4 DEF Due, Overdue

LEMMA TInvSeesDue == ASSUME Punctual, TInv PROVE DueIsSeen
<1> SUFFICES ASSUME NEW i \in 1 .. Len(cp0.q), cp0.q[i].type \notin {COMPARE, CHECK},
                    Due(cp0.q[i].count)
             PROVE  cp0.cycleCount >= 0
  BY DEF DueIsSeen
<1> DEFINE x == Time(cp0, cp0.q[i])
           y == Time(cp0, cp0.q[1])
           w == (cp0.count - cp0.q[i].count) % Modulus
<1>1. -MaxLate <= x /\ x <= Half
  BY EventsAreNear
<1>2. /\ cp0.q[i] \in Events /\ x \in Int /\ y \in Int /\ y <= x /\ cp0 \in Cp0
      /\ cp0.cycleCount = -y /\ MaxLate \in Nat /\ Half \in Nat /\ MaxLate < Half
  BY TInvFacts
<1>3. (x > 0 => w >= Half) /\ w <= MaxLate
  BY <1>1, <1>2, OverdueIs DEF Due, Overdue
<1>4. (cp0.count - cp0.q[i].count) \in Int
  BY <1>2 DEF Cp0, Events, Word
<1>5. w \in Int
  BY <1>4, WordArithmetic DEF Word
<1> HIDE DEF x, y, w
<1> QED
  BY <1>2, <1>3, <1>5

LEMMA TInvIsNotEarly == ASSUME Punctual, TInv PROVE NotEarly
<1> SUFFICES ASSUME cp0.cycleCount >= 0 PROVE Due(cp0.q[1].count)
  BY DEF NotEarly
<1> DEFINE y == Time(cp0, cp0.q[1])
<1>1. /\ cp0.q[1] \in Events /\ y \in Int /\ cp0 \in Cp0 /\ cp0.cycleCount = -y
      /\ cp0.cycleCount <= MaxLate /\ MaxLate \in Nat /\ Half \in Nat
      /\ cp0.cycleCount \in Int
  BY TInvFacts
<1>2. y <= 0 /\ -MaxLate <= y /\ y <= Half
  BY <1>1
<1>3. (cp0.count - cp0.q[1].count) % Modulus = -y
  BY <1>1, <1>2, OverdueIs
<1> QED
  BY <1>1, <1>3 DEF Due, Overdue

-----------------------------------------------------------------------------
(* The queue always is in the order in which its counts come up, wherever  *)
(* the counter wraps around: what before_event compares is the order of    *)
(* time, though Count and Compare are rewritten underneath it, as long as  *)
(* no event waits longer than MaxLate for the jumps in front of it.        *)
THEOREM QueueStaysInOrder == ASSUME Punctual PROVE SpecVi => []CyclicOrder
<1>1. TInv => CyclicOrder
  BY TInvIsCyclic
<1>2. SpecVi => []TInv
  BY TInvHolds
<1> QED
  BY <1>1, <1>2, PTL

(* No event but the timer is ever passed over: it is still to come, or has *)
(* been due for no longer than the longest wait, and never so long that    *)
(* the sign of the 32-bit difference turns.                                *)
THEOREM NoEventIsMissed == ASSUME Punctual PROVE SpecVi => []OnTime
<1>1. TInv => OnTime
  BY TInvIsOnTime
<1>2. SpecVi => []TInv
  BY TInvHolds
<1> QED
  BY <1>1, <1>2, PTL

(* The jump's test of cycle_count finds every event that is due: the       *)
(* cached distance is that of the earliest one.                            *)
THEOREM JumpSeesDue == ASSUME Punctual PROVE SpecVi => []DueIsSeen
<1>1. TInv => DueIsSeen
  BY TInvSeesDue
<1>2. SpecVi => []TInv
  BY TInvHolds
<1> QED
  BY <1>1, <1>2, PTL

(* And gen_interrupt is never called for an event that is still to come.   *)
THEOREM NothingIsEarly == ASSUME Punctual PROVE SpecVi => []NotEarly
<1>1. TInv => NotEarly
  BY TInvIsNotEarly
<1>2. SpecVi => []TInv
  BY TInvHolds
<1> QED
  BY <1>1, <1>2, PTL
-----------------------------------------------------------------------------
(* A saved state. The loop of load_eventqueue_infos is a fold, which the   *)
(* next lemmas unfold.                                                     *)
LEMMA SetInduction ==
    ASSUME NEW S, 0 \in S, \A n \in Nat : n \in S => n + 1 \in S
    PROVE  Nat \subseteq S
<1> DEFINE T == Nat \ S
           n == Min(T)
<1> SUFFICES ASSUME T # {} PROVE FALSE
  OBVIOUS
<1>1. T \subseteq Nat
  OBVIOUS
<1>2. n \in T /\ \A y \in T : n <= y
  <2> HIDE DEF T
  <2> QED
    BY <1>1, MinOfNaturals
<1> HIDE DEF n
<1>3. n \in Nat /\ n \notin S
  BY <1>2
<1>4. n - 1 \in Nat /\ n = (n - 1) + 1
  BY <1>3
<1>5. n - 1 \in S
  BY <1>2, <1>4
<1> QED
  BY <1>3, <1>4, <1>5

(* f is the fold over the first m of the saved nodes, as a function of the *)
(* set of the nodes that have been added.                                  *)
AddsUp(c, saved, m, f) ==
    f = [s \in SUBSET (1 .. m) |->
            IF s = {} THEN [c EXCEPT !.q = <<>>]
            ELSE AddInterruptEventCount(f[s \ {Max(s)}], saved[Max(s)].type,
                                        saved[Max(s)].count)]

LEMMA FoldExists ==
    ASSUME NEW c, NEW saved
    PROVE  \A m \in Nat : \E f : AddsUp(c, saved, m, f)
<1> DEFINE S == {m \in Nat : \E f : AddsUp(c, saved, m, f)}
           empty == [c EXCEPT !.q = <<>>]
           Added(d, x) == AddInterruptEventCount(d, saved[x].type, saved[x].count)
<1>1. 0 \in S
  <2> DEFINE f == [s \in SUBSET (1 .. 0) |-> empty]
  <2>1. \A s \in SUBSET (1 .. 0) : s = {}
    OBVIOUS
  <2>2. AddsUp(c, saved, 0, f)
    BY <2>1 DEF AddsUp
  <2> QED
    BY <2>2
<1>2. ASSUME NEW m \in Nat, m \in S  PROVE m + 1 \in S
  <2>1. PICK f : AddsUp(c, saved, m, f)
    BY <1>2
  <2> DEFINE n == m + 1
             Grown(g, s) == IF s = {} THEN empty ELSE Added(g[s \ {Max(s)}], Max(s))
             g == [s \in SUBSET (1 .. n) |-> IF n \in s THEN Added(f[s \ {n}], n) ELSE f[s]]
  <2>2. \A s \in SUBSET (1 .. m) : f[s] = Grown(f, s)
    BY <2>1 DEF AddsUp
  <2>3. \A s \in SUBSET (1 .. n) : n \notin s => s \in SUBSET (1 .. m)
    OBVIOUS
  <2>4. \A s \in SUBSET (1 .. n) : s \ {n} \in SUBSET (1 .. m) /\ n \notin s \ {n}
    OBVIOUS
  <2>5. \A s \in SUBSET (1 .. m) : s \in SUBSET (1 .. n) /\ n \notin s
    OBVIOUS
  <2>6. ASSUME NEW s \in SUBSET (1 .. n), n \in s  PROVE g[s] = Grown(g, s)
    <3>1. Max(s) = n
      <4>1. n \in s /\ \A y \in s : n >= y
        BY <2>6
      <4>2. \A x \in s : (\A y \in s : x >= y) => x = n
        BY <2>6
      <4> QED
        BY <4>1, <4>2 DEF Max
    <3>2. g[s \ {n}] = f[s \ {n}] /\ s # {}
      BY <2>4, <2>5, <2>6
    <3> QED
      BY <2>6, <3>1, <3>2
  <2>7. ASSUME NEW s \in SUBSET (1 .. n), n \notin s  PROVE g[s] = Grown(g, s)
    <3>1. s \in SUBSET (1 .. m) /\ s \ {Max(s)} \in SUBSET (1 .. m)
      BY <2>3, <2>7
    <3>2. g[s] = f[s] /\ g[s \ {Max(s)}] = f[s \ {Max(s)}]
      BY <2>5, <2>7, <3>1
    <3> QED
      BY <2>2, <3>1, <3>2
  <2>8. \A s \in SUBSET (1 .. n) : g[s] = Grown(g, s)
    BY <2>6, <2>7
  <2>9. g = [s \in SUBSET (1 .. n) |-> Grown(g, s)]
    <3>1. g = [s \in SUBSET (1 .. n) |-> g[s]]
      OBVIOUS
    <3> HIDE DEF g
    <3> QED
      BY <2>8, <3>1
  <2>10. AddsUp(c, saved, n, g)
    BY <2>9, Zenon DEF AddsUp
  <2> QED
    BY <2>10
<1> HIDE DEF S
<1>3. Nat \subseteq S
  BY <1>1, <1>2, SetInduction
<1> QED
  BY <1>3 DEF S

(* The nodes are added one by one, in their order.                         *)
LEMMA LoadUnfolds ==
    ASSUME NEW c, NEW saved \in Seq(Events)
    PROVE  \E h : /\ h[0] = [c EXCEPT !.q = <<>>]
                  /\ \A k \in 0 .. (Len(saved) - 1) :
                        h[k + 1] = AddInterruptEventCount(h[k], saved[k + 1].type,
                                                          saved[k + 1].count)
                  /\ LoadEventQueueInfos(c, saved)
                        = AddSpecial(RemoveEvent(h[Len(saved)], SPECIAL))
<1> DEFINE n == Len(saved)
           f == CHOOSE f : AddsUp(c, saved, n, f)
           h == [k \in 0 .. n |-> f[1 .. k]]
<1>1. n \in Nat /\ DOMAIN saved = 1 .. n
  OBVIOUS
<1>2. AddsUp(c, saved, n, f)
  <2> HIDE DEF n
  <2>1. \E g : AddsUp(c, saved, n, g)
    BY <1>1, FoldExists
  <2> QED
    BY <2>1, Zenon
<1>3. LoadEventQueueInfos(c, saved) = AddSpecial(RemoveEvent(f[1 .. n], SPECIAL))
  <2>1. FoldLeft(LAMBDA d, e : AddInterruptEventCount(d, e.type, e.count),
                 [c EXCEPT !.q = <<>>], saved)
        = f[1 .. n]
    BY <1>1, Zenon DEF FoldLeft, MapThenFoldSet, AddsUp
  <2> QED
    BY <2>1 DEF LoadEventQueueInfos
<1> HIDE DEF f
<1>4. h[0] = [c EXCEPT !.q = <<>>]
  <2>1. 1 .. 0 = {} /\ {} \in SUBSET (1 .. n)
    OBVIOUS
  <2>2. f[{}] = [c EXCEPT !.q = <<>>]
    BY <1>2, <2>1 DEF AddsUp
  <2> QED
    BY <1>1, <2>1, <2>2
<1>5. ASSUME NEW k \in 0 .. (n - 1)
      PROVE  h[k + 1] = AddInterruptEventCount(h[k], saved[k + 1].type, saved[k + 1].count)
  <2> DEFINE s == 1 .. (k + 1)
  <2>1. s \in SUBSET (1 .. n) /\ k + 1 \in s
    BY <1>1
  <2>0. s \ {k + 1} = 1 .. k
    BY <1>1
  <2>2. Max(s) = k + 1
    <3>1. k + 1 \in s /\ \A y \in s : k + 1 >= y
      BY <1>1
    <3>2. \A x \in s : (\A y \in s : x >= y) => x = k + 1
      BY <1>1, <3>1
    <3> HIDE DEF s
    <3> QED
      BY <3>1, <3>2 DEF Max
  <2>3. h[k + 1] = f[s] /\ h[k] = f[1 .. k]
    BY <1>1
  <2> HIDE DEF s, h
  <2>4. f[s] = IF s = {} THEN [c EXCEPT !.q = <<>>]
               ELSE AddInterruptEventCount(f[s \ {Max(s)}], saved[Max(s)].type,
                                           saved[Max(s)].count)
    BY <1>2, <2>1, Zenon DEF AddsUp
  <2>5. s # {}
    BY <2>1
  <2> QED
    BY <2>0, <2>2, <2>3, <2>4, <2>5
<1>6. h[n] = f[1 .. n]
  BY <1>1
<1> HIDE DEF h
<1> QED
  BY <1>3, <1>4, <1>5, <1>6

(* What the load needs to know of a running queue: only the timer can be   *)
(* more than half a turn away, and only as the last.                       *)
Ordered(c) ==
    /\ c \in Cp0 /\ Len(c.q) >= 2 /\ Len(c.q) <= Capacity
    /\ \A i \in 1 .. Len(c.q) :
          /\ Time(c, c.q[i]) \in Int /\ Same(Time(c, c.q[i]), c.q[i].count - c.count)
          /\ i < Len(c.q) \/ c.q[i].type # COMPARE => Time(c, c.q[i]) <= Half
          /\ \A j \in 1 .. Len(c.q) : i <= j => Time(c, c.q[i]) <= Time(c, c.q[j])
    /\ -Half < Time(c, c.q[1])

LEMMA RunningIsOrdered ==
    ASSUME Punctual, NEW c, Running(c, 0)
    PROVE  Ordered(c) /\ Good(c)
<1>0. /\ Good(c) /\ c \in Cp0 /\ Fits(c) /\ Loose(c, 0) /\ Lined(c) /\ Bounded(c, 0)
      /\ Len(c.q) \in Nat /\ Len(c.q) <= Capacity
      /\ 0 \in 0 .. BlockLength
  BY CheckedIsGood, EventsOfQueue, BlockAssumption DEF Running, Timed, Loose, Fits
<1>1. PICK a \in 1 .. Len(c.q) :
          /\ c.q[a].type = COMPARE
          /\ \A j \in 1 .. Len(c.q) : c.q[j].type = COMPARE => j = a
  BY <1>0 DEF Good, Once
<1>2. PICK b \in 1 .. Len(c.q) : c.q[b].type # COMPARE
  BY <1>0, SomeEvent, TypesOfOwnEvents DEF Good
<1>3. Len(c.q) >= 2
  BY <1>0, <1>1, <1>2
<1>4. -Half < Time(c, c.q[1])
  BY <1>0, <1>2, HeadIsNear
<1>5. ASSUME NEW i \in 1 .. Len(c.q)
      PROVE  Time(c, c.q[i]) \in Int /\ Same(Time(c, c.q[i]), c.q[i].count - c.count)
  BY <1>0, EventsOfQueue, TimeFacts
<1>6. ASSUME NEW i \in 1 .. Len(c.q), NEW j \in 1 .. Len(c.q), i <= j
      PROVE  Time(c, c.q[i]) <= Time(c, c.q[j])
  <2>1. i = j \/ i < j
    BY <1>6
  <2> QED
    BY <1>0, <1>5, <2>1 DEF Lined
<1>7. ASSUME NEW i \in 1 .. Len(c.q), i < Len(c.q) \/ c.q[i].type # COMPARE
      PROVE  Time(c, c.q[i]) <= Half
  <2>1. CASE c.q[i].type # COMPARE
    BY <1>0, <2>1 DEF Bounded
  <2>2. CASE c.q[i].type = COMPARE
    <3> DEFINE n == Len(c.q)
    <3>1. n \in 1 .. Len(c.q) /\ i <= n /\ n # a
      BY <1>0, <1>1, <1>7, <2>2
    <3>2. c.q[n].type # COMPARE
      BY <1>1, <3>1
    <3>3. Time(c, c.q[i]) <= Time(c, c.q[n]) /\ Time(c, c.q[n]) <= Half
      BY <1>0, <1>6, <3>1, <3>2 DEF Bounded
    <3>4. Half \in Int
      BY HalfAssumption
    <3> HIDE DEF n
    <3> QED
      BY <1>5, <3>1, <3>3, <3>4
  <2> QED
    BY <2>1, <2>2
<1> QED
  BY <1>0, <1>3, <1>4, <1>5, <1>6, <1>7 DEF Ordered

(* d has the first k events of c, and cycle_count is that of c.            *)
Loaded(c, d, k) ==
    /\ d \in Cp0 /\ d.count = c.count
    /\ Len(d.q) = k /\ \A j \in 1 .. k : d.q[j] = c.q[j]
    /\ k >= 1 => d.cycleCount = -Time(c, c.q[1])

(* The next event goes behind those that are loaded.                       *)
LEMMA NextIsBehind ==
    ASSUME NEW c, Ordered(c), NEW k \in Nat, k < Len(c.q), NEW d, Loaded(c, d, k),
           k + 1 < Len(c.q) \/ c.q[k + 1].type # COMPARE
    PROVE  Loaded(c, AddInterruptEventCount(d, c.q[k + 1].type, c.q[k + 1].count), k + 1)
<1> DEFINE m == k + 1
           g == c.q[m]
           f == AddInterruptEventCount(d, g.type, g.count)
           T(i) == Time(c, c.q[i])
           i == Place(d, g.count)
<1>0. /\ c \in Cp0 /\ d \in Cp0 /\ Len(c.q) \in Nat /\ m \in 1 .. Len(c.q) /\ m \in Nat
      /\ Len(d.q) = k /\ 1 \in 1 .. Len(c.q)
      /\ d.count = c.count /\ c.count \in Int /\ Half \in Nat \ {0} /\ Modulus = 2 * Half
  BY EventsOfQueue, HalfAssumption DEF Ordered, Loaded, Modulus
<1>1. /\ g \in Events /\ g.type \in Types /\ g.count \in Word /\ g.count \in Int
      /\ g.count % Modulus = g.count
  <2>1. g \in Events
    BY <1>0, EventsOfQueue
  <2> HIDE DEF g
  <2>2. g.type \in Types /\ g.count \in 0 .. (Modulus - 1)
    BY <2>1 DEF Events, Word
  <2>3. g.count \in Int /\ 0 <= g.count /\ g.count < Modulus
    BY <1>0, <2>2
  <2>4. g.count % Modulus = g.count
    BY <2>3, SameModulo, ModuloIs
  <2> QED
    BY <2>1, <2>2, <2>3, <2>4 DEF Word
<1>2. \A j \in 1 .. Len(c.q) : T(j) \in Int /\ Same(T(j), c.q[j].count - c.count)
  BY DEF Ordered
<1>3. Fits(d) /\ Len(d.q) < Capacity
  BY <1>0, CapacityAssumption DEF Ordered, Fits
<1>4. ASSUME i <= k  PROVE FALSE
  <2>1. i \in 1 .. k /\ BeforeEvent(d, g.count, d.q[i].count)
    BY <1>0, <1>4, PlaceFacts
  <2>0. i \in 1 .. Len(c.q) /\ 1 <= i /\ i <= m /\ i \in Nat
    BY <1>0, <2>1
  <2> HIDE DEF i
  <2>2. /\ i \in 1 .. Len(c.q) /\ 1 \in 1 .. Len(c.q) /\ d.q[i] = c.q[i]
        /\ d.cycleCount = -T(1) /\ T(1) <= T(i) /\ T(i) <= T(m) /\ T(m) <= Half
        /\ -Half < T(1)
    <3>1. T(1) <= T(i) /\ T(i) <= T(m) /\ -Half < T(1)
      BY <1>0, <2>0 DEF Ordered
    <3>2. T(m) <= Half
      BY <1>0 DEF Ordered
    <3>3. d.q[i] = c.q[i] /\ d.cycleCount = -T(1)
      BY <2>0, <2>1 DEF Loaded
    <3> QED
      BY <1>0, <2>0, <3>1, <3>2, <3>3
  <2> HIDE DEF i, T, g
  <2>3. /\ Late(d) = (IF -T(1) > 0 THEN -T(1) ELSE 0)
        /\ T(1) \in Int /\ T(i) \in Int /\ T(m) \in Int
    BY <1>0, <1>2, <2>2 DEF Late
  <2>4. /\ -Late(d) <= T(m) /\ T(m) + Late(d) < Modulus
        /\ -Late(d) <= T(i) /\ T(i) + Late(d) < Modulus
    BY <1>0, <2>2, <2>3, SMTT(30)
  <2>5. /\ Same(T(m), g.count - d.count) /\ Same(T(i), d.q[i].count - d.count)
        /\ d.q[i].count \in Int
    BY <1>0, <1>2, <2>2, EventsOfQueue DEF g
  <2>6. /\ (g.count - Base(d)) % Modulus = T(m) + Late(d)
        /\ (d.q[i].count - Base(d)) % Modulus = T(i) + Late(d)
    BY <1>0, <1>1, <2>3, <2>4, <2>5, TimeFromBase
  <2>7. T(m) + Late(d) < T(i) + Late(d)
    BY <2>1, <2>6 DEF BeforeEvent
  <2> QED
    BY <2>2, <2>3, <2>7
<1>5. i = m
  <2>1. i \in 1 .. (k + 1)
    BY <1>0, PlaceInQueue
  <2> HIDE DEF i
  <2> QED
    BY <1>0, <1>4, <2>1
<1>6. PICK e \in Events :
          /\ e.type = g.type /\ e.count = g.count
          /\ Inserted(d.q, m, e, f.q) /\ f \in Cp0 /\ f.count = d.count
          /\ f.cycleCount = Signed(f.count - f.q[1].count)
  <2> HIDE DEF g
  <2> QED
    BY <1>1, <1>3, <1>5, AddLinks DEF i
<1> HIDE DEF f, i
<1>7. e = g
  <2> HIDE DEF g
  <2> QED
    BY <1>1, <1>6 DEF Events
<1>8. Len(f.q) = m /\ \A j \in 1 .. m : f.q[j] = c.q[j]
  BY <1>0, <1>6, <1>7 DEF Inserted, Loaded
<1>9. f.cycleCount = -T(1)
  <2>1. f.q[1] = c.q[1] /\ f.count = c.count
    BY <1>0, <1>6, <1>8
  <2>2. T(1) \in Int /\ T(1) <= Half /\ -Half < T(1) /\ Same(T(1), c.q[1].count - c.count)
    <3>1. T(1) <= Half
      BY <1>0 DEF Ordered
    <3> QED
      BY <1>0, <1>2, <3>1 DEF Ordered
  <2>3. c.q[1].count \in Int
    BY <1>0, EventsOfQueue
  <2> HIDE DEF T
  <2>4. Same(-T(1), c.count - c.q[1].count)
    BY <1>0, <2>2, <2>3, NegatedTime
  <2>5. -Half <= -T(1) /\ -T(1) < Half /\ -T(1) \in Int /\ c.count - c.q[1].count \in Int
    BY <1>0, <2>2, <2>3, SMTT(30)
  <2> QED
    BY <1>6, <2>1, <2>4, <2>5, SignedIs
<1> QED
  BY <1>0, <1>6, <1>8, <1>9 DEF Loaded, f

(* All but the last event are loaded as they were; so is the last, unless  *)
(* it is the timer, which may go anywhere.                                 *)
LEMMA LoadedInOrder ==
    ASSUME NEW c, Ordered(c), NEW h, h[0] = [c EXCEPT !.q = <<>>],
           \A k \in 0 .. (Len(c.q) - 1) :
               h[k + 1] = AddInterruptEventCount(h[k], c.q[k + 1].type, c.q[k + 1].count)
    PROVE  LET l == h[Len(c.q)]
           IN  /\ Fits(l) /\ Len(l.q) = Len(c.q)
               /\ l.q = c.q
                    \/ \E p \in Seq(Events), e \in Events, i \in 1 .. Len(c.q) :
                          /\ e.type = COMPARE
                          /\ Inserted(p, i, e, l.q) /\ Inserted(p, Len(c.q), e, c.q)
<1> DEFINE n == Len(c.q)
           S == {k \in Nat : k < n => Loaded(c, h[k], k)}
           g == c.q[n]
           d == h[n - 1]
           l == h[n]
<1>0. /\ c \in Cp0 /\ c.q \in Seq(Events) /\ n \in Nat /\ n >= 2 /\ n - 1 \in Nat
      /\ n <= Capacity /\ \A k \in 1 .. n : c.q[k] \in Events
  BY EventsOfQueue DEF Ordered
<1>1. 0 \in S
  <2>1. /\ h[0] \in Cp0 /\ h[0].count = c.count /\ h[0].q = <<>>
    BY <1>0, EmptySeq DEF Cp0
  <2>2. Len(h[0].q) = 0 /\ 1 .. 0 = {} /\ ~(0 >= 1)
    BY <2>1, EmptySeq
  <2> QED
    BY <2>1, <2>2 DEF Loaded
<1>2. ASSUME NEW k \in Nat, k \in S  PROVE k + 1 \in S
  <2> SUFFICES ASSUME k + 1 < n  PROVE Loaded(c, h[k + 1], k + 1)
    OBVIOUS
  <2>1. Loaded(c, h[k], k) /\ k < n /\ k \in 0 .. (n - 1)
    BY <1>0, <1>2
  <2> QED
    BY <2>1, NextIsBehind
<1> HIDE DEF S
<1>3. Nat \subseteq S
  BY <1>1, <1>2, SetInduction
<1>4. Loaded(c, d, n - 1)
  BY <1>0, <1>3 DEF S
<1>5. l = AddInterruptEventCount(d, g.type, g.count)
  <2>1. n - 1 \in 0 .. (n - 1) /\ (n - 1) + 1 = n
    BY <1>0
  <2> QED
    BY <2>1
<1>6. n = (n - 1) + 1 /\ n - 1 < n
  BY <1>0
<1> HIDE DEF l, d, n
<1>7. CASE g.type # COMPARE
  <2>1. Loaded(c, l, n)
    BY <1>0, <1>4, <1>5, <1>6, <1>7, NextIsBehind DEF n
  <2>2. l.q \in Seq(Events) /\ Len(l.q) = Len(c.q) /\ \A j \in 1 .. Len(l.q) : l.q[j] = c.q[j]
    BY <2>1, EventsOfQueue DEF Loaded, n
  <2>3. l.q = c.q
    BY <1>0, <2>2, SeqEqual
  <2>4. Fits(l)
    BY <1>0, <2>1 DEF Loaded, Fits
  <2> QED
    BY <2>2, <2>3, <2>4 DEF l, n
<1>8. CASE g.type = COMPARE
  <2> DEFINE i == Place(d, g.count % Modulus)
  <2>1. Fits(d) /\ Len(d.q) < Capacity /\ Len(d.q) = n - 1 /\ d.q \in Seq(Events)
    BY <1>0, <1>4, CapacityAssumption, EventsOfQueue DEF Loaded, Fits
  <2>2. g \in Events /\ g.type \in Types /\ g.count \in Int /\ g.count % Modulus = g.count
    <3>1. g \in Events
      BY <1>0
    <3>2. g.type \in Types /\ g.count \in 0 .. (Modulus - 1) /\ Modulus \in Nat
      BY <3>1, WordArithmetic DEF Events, Word
    <3>3. g.count \in Int /\ 0 <= g.count /\ g.count < Modulus
      BY <3>2
    <3> QED
      BY <3>1, <3>2, <3>3, SameModulo, ModuloIs
  <2> HIDE DEF g
  <2>3. PICK e \in Events :
            /\ e.type = g.type /\ e.count = g.count /\ Inserted(d.q, i, e, l.q) /\ l \in Cp0
    BY <1>5, <2>1, <2>2, AddLinks
  <2> HIDE DEF i
  <2>4. e = g
    BY <2>2, <2>3 DEF Events
  <2>5. i \in 1 .. n /\ Len(l.q) = n
    BY <1>0, <2>1, <2>3 DEF Inserted
  <2>6. Inserted(d.q, n, e, c.q)
    <3>1. \A j \in 1 .. n : c.q[j] = IF j < n THEN d.q[j] ELSE IF j = n THEN e ELSE d.q[j - 1]
      BY <1>0, <1>4, <2>4 DEF Loaded, g
    <3> QED
      BY <1>0, <2>1, <3>1 DEF Inserted, n
  <2>7. Fits(l)
    BY <1>0, <2>3, <2>5 DEF Fits
  <2> QED
    BY <1>8, <2>1, <2>3, <2>4, <2>5, <2>6, <2>7 DEF l, n
<1> QED
  BY <1>7, <1>8

(* Taking an event out undoes putting it in.                               *)
LEMMA CutUndoes ==
    ASSUME NEW p \in Seq(Events), NEW q \in Seq(Events), NEW e \in Events, NEW i,
           Inserted(p, i, e, q), Once(q, e.type),
           NEW j \in 1 .. Len(q), q[j].type = e.type, NEW r, Removed(q, j, r)
    PROVE  r = p
<1>0. Len(p) \in Nat /\ i \in 1 .. Len(q) /\ q[i] = e /\ Len(q) = Len(p) + 1
  BY DEF Inserted
<1>1. j = i
  BY <1>0 DEF Once
<1>2. r \in Seq(Events) /\ Len(r) = Len(p)
  BY <1>0 DEF Removed
<1>3. ASSUME NEW k \in 1 .. Len(r)  PROVE r[k] = p[k]
  <2>1. CASE k < i
    <3>1. r[k] = q[k] /\ q[k] = p[k]
      BY <1>0, <1>1, <1>2, <1>3, <2>1 DEF Removed, Inserted
    <3> QED
      BY <3>1
  <2>2. CASE k >= i
    <3>1. r[k] = q[k + 1]
      BY <1>0, <1>1, <1>2, <1>3, <2>2 DEF Removed
    <3>2. k + 1 \in 1 .. (Len(p) + 1) /\ ~(k + 1 < i) /\ k + 1 # i /\ (k + 1) - 1 = k
      BY <1>0, <1>2, <1>3, <2>2
    <3>3. q[k + 1] = p[(k + 1) - 1]
      BY <3>2 DEF Inserted
    <3> QED
      BY <3>1, <3>2, <3>3
  <2> QED
    BY <1>0, <1>2, <2>1, <2>2
<1> QED
  BY <1>2, <1>3, SeqEqual

(* And two events may be taken out in either order.                        *)
LEMMA CutsCommute ==
    ASSUME NEW q \in Seq(Events), NEW a, NEW b, a # b, Once(q, a), Once(q, b),
           NEW i \in 1 .. Len(q), q[i].type = a, NEW r, Removed(q, i, r),
           NEW j \in 1 .. Len(r), r[j].type = b, NEW x, Removed(r, j, x),
           NEW k \in 1 .. Len(q), q[k].type = b, NEW s, Removed(q, k, s),
           NEW m \in 1 .. Len(s), s[m].type = a, NEW y, Removed(s, m, y)
    PROVE  x = y
<1>0. /\ Len(q) \in Nat /\ Len(r) = Len(q) - 1 /\ Len(s) = Len(q) - 1
      /\ x \in Seq(Events) /\ y \in Seq(Events) /\ Len(x) = Len(r) - 1 /\ Len(y) = Len(s) - 1
      /\ \A n \in 1 .. (Len(q) - 1) : r[n] = IF n < i THEN q[n] ELSE q[n + 1]
      /\ \A n \in 1 .. (Len(q) - 1) : s[n] = IF n < k THEN q[n] ELSE q[n + 1]
      /\ \A n \in 1 .. (Len(r) - 1) : x[n] = IF n < j THEN r[n] ELSE r[n + 1]
      /\ \A n \in 1 .. (Len(s) - 1) : y[n] = IF n < m THEN s[n] ELSE s[n + 1]
  BY SMTT(30) DEF Removed
<1>1. /\ \A n \in 1 .. Len(q) : q[n].type = a => n = i
      /\ \A n \in 1 .. Len(q) : q[n].type = b => n = k
  BY DEF Once
<1>2. i # k
  OBVIOUS
<1>3. j = IF k < i THEN k ELSE k - 1
  <2>1. j \in 1 .. (Len(q) - 1) /\ j \in 1 .. Len(q) /\ j + 1 \in 1 .. Len(q)
    BY <1>0
  <2>2. CASE j < i
    BY <1>0, <1>1, <2>1, <2>2
  <2>3. CASE j >= i
    <3>1. q[j + 1].type = b
      BY <1>0, <2>1, <2>3
    <3>2. j + 1 = k
      BY <1>1, <2>1, <3>1
    <3> QED
      BY <2>1, <2>3, <3>2
  <2> QED
    BY <1>0, <2>1, <2>2, <2>3
<1>4. m = IF i < k THEN i ELSE i - 1
  <2>1. m \in 1 .. (Len(q) - 1) /\ m \in 1 .. Len(q) /\ m + 1 \in 1 .. Len(q)
    BY <1>0
  <2>2. CASE m < k
    BY <1>0, <1>1, <2>1, <2>2
  <2>3. CASE m >= k
    <3>1. q[m + 1].type = a
      BY <1>0, <2>1, <2>3
    <3>2. m + 1 = i
      BY <1>1, <2>1, <3>1
    <3> QED
      BY <2>1, <2>3, <3>2
  <2> QED
    BY <1>0, <2>1, <2>2, <2>3
<1>5. ASSUME NEW n \in 1 .. Len(x)  PROVE x[n] = y[n]
  <2>0. /\ n \in 1 .. (Len(r) - 1) /\ n \in 1 .. (Len(s) - 1)
        /\ n \in 1 .. (Len(q) - 1) /\ n + 1 \in 1 .. (Len(q) - 1)
        /\ (n + 1) + 1 = n + 2
    BY <1>0
  <2>3. x[n] = IF n < j THEN r[n] ELSE r[n + 1]
    BY <1>0, <2>0
  <2>4. y[n] = IF n < m THEN s[n] ELSE s[n + 1]
    BY <1>0, <2>0
  <2>5. /\ r[n] = IF n < i THEN q[n] ELSE q[n + 1]
        /\ r[n + 1] = IF n + 1 < i THEN q[n + 1] ELSE q[n + 2]
    BY <1>0, <2>0
  <2>6. /\ s[n] = IF n < k THEN q[n] ELSE q[n + 1]
        /\ s[n + 1] = IF n + 1 < k THEN q[n + 1] ELSE q[n + 2]
    BY <1>0, <2>0
  <2>7. n \in Int /\ i \in Int /\ k \in Int
    BY <2>0
  <2>1. CASE k < i
    <3>1. j = k /\ m = i - 1
      BY <1>3, <1>4, <2>1, <2>7
    <3>2. CASE n < k
      BY <2>1, <2>3, <2>4, <2>5, <2>6, <2>7, <3>1, <3>2
    <3>3. CASE k <= n /\ n < i - 1
      BY <2>1, <2>3, <2>4, <2>5, <2>6, <2>7, <3>1, <3>3
    <3>4. CASE i - 1 <= n
      BY <2>1, <2>3, <2>4, <2>5, <2>6, <2>7, <3>1, <3>4
    <3> QED
      BY <2>7, <3>2, <3>3, <3>4
  <2>2. CASE i < k
    <3>1. j = k - 1 /\ m = i
      BY <1>3, <1>4, <2>2, <2>7
    <3>2. CASE n < i
      BY <2>2, <2>3, <2>4, <2>5, <2>6, <2>7, <3>1, <3>2
    <3>3. CASE i <= n /\ n < k - 1
      BY <2>2, <2>3, <2>4, <2>5, <2>6, <2>7, <3>1, <3>3
    <3>4. CASE k - 1 <= n
      BY <2>2, <2>3, <2>4, <2>5, <2>6, <2>7, <3>1, <3>4
    <3> QED
      BY <2>7, <3>2, <3>3, <3>4
  <2> QED
    BY <1>2, <2>1, <2>2, <2>7
<1>6. Len(x) = Len(y)
  BY <1>0
<1> QED
  BY <1>0, <1>5, <1>6, SeqEqual

(* What remove_event does to the list depends on the list only.            *)
LEMMA CutOfQueue ==
    ASSUME NEW c \in Cp0, NEW d \in Cp0, c.q = d.q, NEW t
    PROVE  RemoveEvent(c, t).q = RemoveEvent(d, t).q
<1>1. /\ RemoveEvent(c, t).q = RemoveFirstMatch(c.q, LAMBDA e : e.type = t)
      /\ RemoveEvent(d, t).q = RemoveFirstMatch(d.q, LAMBDA e : e.type = t)
  BY DEF RemoveEvent, Cp0
<1> QED
  BY <1>1

(* The timer and the wrap-around event come out in either order.           *)
LEMMA OthersAre ==
    ASSUME NEW c, Good(c)
    PROVE  /\ RemoveEvent(RemoveEvent(c, COMPARE), SPECIAL).q
                = RemoveEvent(RemoveEvent(c, SPECIAL), COMPARE).q
           /\ \A t \in {COMPARE, SPECIAL} : Fits(RemoveEvent(c, t))
<1> DEFINE a == RemoveEvent(c, COMPARE)
           b == RemoveEvent(c, SPECIAL)
<1>0. /\ Fits(c) /\ c.q \in Seq(Events) /\ COMPARE # SPECIAL
      /\ Once(c.q, COMPARE) /\ Once(c.q, SPECIAL)
  BY TypesOfOwnEvents DEF Good, Fits, Cp0
<1>1. Fits(a) /\ Once(a.q, SPECIAL)
  BY <1>0, RemoveEventProperties
<1>2. Fits(b) /\ Once(b.q, COMPARE)
  BY <1>0, RemoveEventProperties
<1>3. PICK i \in 1 .. Len(c.q) : c.q[i].type = COMPARE /\ Removed(c.q, i, a.q)
  BY <1>0, RemoveEventLinks
<1>4. PICK k \in 1 .. Len(c.q) : c.q[k].type = SPECIAL /\ Removed(c.q, k, b.q)
  BY <1>0, RemoveEventLinks
<1> HIDE DEF a, b
<1>5. PICK j \in 1 .. Len(a.q) :
          a.q[j].type = SPECIAL /\ Removed(a.q, j, RemoveEvent(a, SPECIAL).q)
  BY <1>1, RemoveEventLinks
<1>6. PICK m \in 1 .. Len(b.q) :
          b.q[m].type = COMPARE /\ Removed(b.q, m, RemoveEvent(b, COMPARE).q)
  BY <1>2, RemoveEventLinks
<1>7. RemoveEvent(a, SPECIAL).q = RemoveEvent(b, COMPARE).q
  BY <1>0, <1>3, <1>4, <1>5, <1>6, CutsCommute, SMTT(30)
<1> QED
  BY <1>1, <1>2, <1>7 DEF a, b

(* A new wrap-around event leaves the others as they are.                  *)
LEMMA SpecialAnew ==
    ASSUME NEW c, Good(c)
    PROVE  Others(AddSpecial(RemoveEvent(c, SPECIAL))) = Others(c)
<1> DEFINE b == RemoveEvent(c, SPECIAL)
           y == AddSpecial(b)
           z == RemoveEvent(y, SPECIAL)
<1>0. /\ Fits(c) /\ c \in Cp0 /\ c.count \in Int /\ COMPARE # SPECIAL /\ SPECIAL \in Types
      /\ Once(c.q, COMPARE) /\ Once(c.q, SPECIAL) /\ Len(c.q) \in Nat /\ Capacity \in Nat
      /\ Len(c.q) <= Capacity
  BY TypesOfOwnEvents, CheckedIsGood, EventsOfQueue, CapacityAssumption DEF Good, Fits
<1>1. /\ Fits(b) /\ Once(b.q, COMPARE) /\ ~Scheduled(b.q, SPECIAL) /\ Len(b.q) = Len(c.q) - 1
      /\ b.count = c.count
  BY <1>0, RemoveEventProperties
<1> HIDE DEF b
<1>2. b \in Cp0 /\ b.q \in Seq(Events) /\ Len(b.q) < Capacity /\ SpecialCount(b.count) \in Int
  BY <1>0, <1>1, EventsOfQueue, HalfAssumption DEF SpecialCount, Fits
<1>3. Fits(y) /\ Once(y.q, SPECIAL) /\ Once(y.q, COMPARE)
  BY <1>0, <1>1, <1>2, AddSpecialProperties
<1> DEFINE i == Place(b, SpecialCount(b.count) % Modulus)
<1>4. PICK e \in Events : e.type = SPECIAL /\ Inserted(b.q, i, e, y.q)
  BY <1>0, <1>1, <1>2, AddLinks DEF AddSpecial
<1> HIDE DEF y, i
<1>5. PICK j \in 1 .. Len(y.q) : y.q[j].type = SPECIAL /\ Removed(y.q, j, z.q)
  BY <1>3, RemoveEventLinks
<1>6. y.q \in Seq(Events)
  BY <1>3 DEF Fits, Cp0
<1>7. z.q = b.q
  <2> HIDE DEF z
  <2> QED
    BY <1>2, <1>3, <1>4, <1>5, <1>6, CutUndoes
<1>8. Fits(z) /\ z \in Cp0
  BY <1>3, RemoveEventProperties DEF Fits
<1>9. Others(y) = RemoveEvent(z, COMPARE).q
  BY <1>3, OthersAre DEF Others, Good
<1> HIDE DEF z
<1>10. RemoveEvent(z, COMPARE).q = RemoveEvent(b, COMPARE).q
  BY <1>2, <1>7, <1>8, CutOfQueue
<1>11. Others(c) = RemoveEvent(b, COMPARE).q
  BY OthersAre DEF Others, b
<1> QED
  BY <1>9, <1>10, <1>11 DEF y, b

LEMMA ReloadKeepsOthers ==
    ASSUME NEW c, Ordered(c), Good(c)
    PROVE  Others(Reload(c)) = Others(c)
<1> DEFINE n == Len(c.q)
<1>0. c \in Cp0 /\ Fits(c) /\ c.q \in Seq(Events) /\ Once(c.q, COMPARE) /\ Once(c.q, SPECIAL)
  BY CheckedIsGood, EventsOfQueue DEF Good
<1>1. PICK h :
          /\ h[0] = [c EXCEPT !.q = <<>>]
          /\ \A k \in 0 .. (n - 1) :
                h[k + 1] = AddInterruptEventCount(h[k], c.q[k + 1].type, c.q[k + 1].count)
          /\ Reload(c) = AddSpecial(RemoveEvent(h[n], SPECIAL))
  BY <1>0, LoadUnfolds DEF Reload, SaveEventQueueInfos
<1> DEFINE l == h[n]
<1>2. /\ Fits(l) /\ Len(l.q) = Len(c.q)
      /\ \/ l.q = c.q
         \/ \E p \in Seq(Events), e \in Events, i \in 1 .. Len(c.q) :
               /\ e.type = COMPARE
               /\ Inserted(p, i, e, l.q) /\ Inserted(p, Len(c.q), e, c.q)
  BY <1>1, LoadedInOrder
<1> HIDE DEF l
<1>3. l \in Cp0 /\ l.q \in Seq(Events) /\ COMPARE # SPECIAL
  BY <1>2, EventsOfQueue, TypesOfOwnEvents DEF Fits
<1>4. Good(l) /\ RemoveEvent(l, COMPARE).q = RemoveEvent(c, COMPARE).q
  <2>1. CASE l.q = c.q
    <3>1. Good(l)
      BY <1>0, <1>2, <2>1 DEF Good
    <3> QED
      BY <1>0, <1>3, <2>1, <3>1, CutOfQueue
  <2>2. CASE \E p \in Seq(Events), e \in Events, i \in 1 .. Len(c.q) :
                /\ e.type = COMPARE
                /\ Inserted(p, i, e, l.q) /\ Inserted(p, Len(c.q), e, c.q)
    <3>1. PICK p \in Seq(Events), e \in Events, i \in 1 .. Len(c.q) :
                /\ e.type = COMPARE
                /\ Inserted(p, i, e, l.q) /\ Inserted(p, Len(c.q), e, c.q)
      BY <2>2
    <3>2. PICK j \in 1 .. Len(c.q) :
              c.q[j].type = COMPARE /\ Removed(c.q, j, RemoveEvent(c, COMPARE).q)
      BY <1>0, RemoveEventLinks
    <3>3. RemoveEvent(c, COMPARE).q = p
      BY <1>0, <3>1, <3>2, CutUndoes
    <3>4. ~Scheduled(p, COMPARE) /\ Once(p, SPECIAL)
      <4>1. ~Scheduled(RemoveEvent(c, COMPARE).q, COMPARE)
            /\ Once(RemoveEvent(c, COMPARE).q, SPECIAL)
        BY <1>0, <1>3, RemoveEventProperties
      <4> QED
        BY <3>3, <4>1
    <3>5. Once(l.q, COMPARE) /\ Once(l.q, SPECIAL)
      BY <1>3, <3>1, <3>4, InsertedTypes
    <3>6. PICK k \in 1 .. Len(l.q) :
              l.q[k].type = COMPARE /\ Removed(l.q, k, RemoveEvent(l, COMPARE).q)
      BY <1>2, <3>5, RemoveEventLinks
    <3>7. RemoveEvent(l, COMPARE).q = p
      BY <1>3, <3>1, <3>5, <3>6, CutUndoes, SMTT(30)
    <3> QED
      BY <1>2, <3>3, <3>5, <3>7 DEF Good
  <2> QED
    BY <1>2, <2>1, <2>2
<1>5. Others(Reload(c)) = Others(l)
  BY <1>1, <1>4, SpecialAnew DEF l
<1>6. RemoveEvent(l, COMPARE) \in Cp0 /\ RemoveEvent(c, COMPARE) \in Cp0
  BY <1>0, <1>2, RemoveEventProperties DEF Fits
<1>7. Others(l) = Others(c)
  BY <1>4, <1>6, CutOfQueue DEF Others
<1> QED
  BY <1>5, <1>7

LEMMA TInvKeepsOrder == ASSUME Punctual, TInv PROVE LoadKeepsDeviceOrder
<1> SUFFICES ASSUME NEW c \in Saved PROVE Others(Reload(c)) = Others(c)
  BY DEF LoadKeepsDeviceOrder
<1>1. cp0.cycleCount >= 0 /\ c \in GenInterrupt(cp0)
  BY DEF Saved
<1>2. c \in GenInterruptIfDue(cp0)
  BY <1>1 DEF GenInterruptIfDue
<1>3. Running(cp0, since) /\ since \in 0 .. BlockLength
  BY BlockAssumption DEF TInv
<1>4. Running(c, 0)
  BY <1>2, <1>3, GenInterruptIsRunning
<1> QED
  BY <1>4, RunningIsOrdered, ReloadKeepsOthers

(* A state that is saved when gen_interrupt is done and loaded again       *)
(* handles the events of the devices in the same order, though each is     *)
(* linked in anew around what cycle_count then is (savestates_load calls   *)
(* load_eventqueue_infos on the registers just read).                      *)
THEOREM OrderIsRestored == ASSUME Punctual PROVE SpecVi => []LoadKeepsDeviceOrder
<1>1. TInv => LoadKeepsDeviceOrder
  BY TInvKeepsOrder
<1>2. SpecVi => []TInv
  BY TInvHolds
<1> QED
  BY <1>1, <1>2, PTL

=============================================================================
