---------------------------- MODULE NetplayProofs ----------------------------
(***************************************************************************)
(* The safety of Netplay, for any number of players, any inputs and any    *)
(* number of readings: the game gets what the server has assigned.         *)
(***************************************************************************)
EXTENDS Netplay, SequenceTheorems, TLAPS

Inputs == Keys \cup {NoKeys}

(* What the list of events holds is what the server has assigned.          *)
BufferIsLogged ==
    \A p \in Players :
        \A i \in DOMAIN buffer[p] :
            /\ buffer[p][i].count < Len(log[p])
            /\ buffer[p][i].keys = log[p][buffer[p][i].count + 1]

IInv ==
    /\ TypeOK
    /\ Lockstep
    /\ BufferIsAhead
    /\ BufferIsLogged
    /\ AskerIsJoined
    /\ LimiterFollowsLag

(* The parts of IInv about the inputs of one player.                       *)
Good(l, n, b, g) ==
    /\ l \in Seq(Inputs) /\ n \in 0 .. MaxReads /\ b \in Seq(Event) /\ g \in Seq(Inputs)
    /\ Len(g) = n /\ IsPrefix(g, l)
    /\ \A i \in DOMAIN b :
           /\ b[i].count >= n
           /\ \A j \in DOMAIN b : b[j].count = b[i].count => j = i
           /\ b[i].count < Len(l)
           /\ b[i].keys = l[b[i].count + 1]

-----------------------------------------------------------------------------
(* Sequences.                                                              *)

(* RemoveAt moves what was behind place i down by one.                     *)
LEMMA RemoveAtProperties ==
    ASSUME NEW S, NEW s \in Seq(S), NEW i \in 1 .. Len(s)
    PROVE  /\ RemoveAt(s, i) \in Seq(S)
           /\ Len(RemoveAt(s, i)) = Len(s) - 1
           /\ \A j \in 1 .. (Len(s) - 1) :
                RemoveAt(s, i)[j] = IF j < i THEN s[j] ELSE s[j + 1]
<1> DEFINE front == SubSeq(s, 1, i - 1)
           back  == SubSeq(s, i + 1, Len(s))
<1>0. Len(s) \in Nat /\ \A j \in 1 .. Len(s) : s[j] \in S
  BY LenProperties, ElementOfSeq
<1>1. /\ front \in Seq(S)
      /\ Len(front) = i - 1
      /\ \A j \in 1 .. (i - 1) : front[j] = s[j]
  BY <1>0, SubSeqProperties
<1>2. /\ back \in Seq(S)
      /\ Len(back) = Len(s) - i
      /\ \A j \in 1 .. (Len(s) - i) : back[j] = s[i + j]
  BY <1>0, SubSeqProperties
<1> HIDE DEF front, back
<1>3. /\ front \o back \in Seq(S)
      /\ Len(front \o back) = Len(s) - 1
      /\ \A j \in 1 .. (Len(s) - 1) :
            (front \o back)[j] = IF j <= i - 1 THEN front[j] ELSE back[j - (i - 1)]
  <2>1. /\ front \o back \in Seq(S)
        /\ Len(front \o back) = Len(front) + Len(back)
        /\ \A j \in 1 .. Len(front) + Len(back) :
              (front \o back)[j] = IF j <= Len(front) THEN front[j] ELSE back[j - Len(front)]
    BY <1>1, <1>2, ConcatProperties
  <2>2. Len(front) + Len(back) = Len(s) - 1
    BY <1>0, <1>1, <1>2
  <2> QED  BY <2>1, <2>2, <1>1
<1>4. \A j \in 1 .. (Len(s) - 1) :
         (front \o back)[j] = IF j < i THEN s[j] ELSE s[j + 1]
  <2> SUFFICES ASSUME NEW j \in 1 .. (Len(s) - 1)
               PROVE  (front \o back)[j] = IF j < i THEN s[j] ELSE s[j + 1]
    OBVIOUS
  <2>1. CASE j < i
    BY <2>1, <1>0, <1>1, <1>3
  <2>2. CASE ~(j < i)
    <3>1. j - (i - 1) \in 1 .. (Len(s) - i) /\ i + (j - (i - 1)) = j + 1
      BY <2>2, <1>0
    <3>2. (front \o back)[j] = back[j - (i - 1)]
      BY <2>2, <1>0, <1>3
    <3>3. back[j - (i - 1)] = s[j + 1]
      BY <3>1, <1>2
    <3> QED  BY <2>2, <3>2, <3>3
  <2> QED  BY <2>1, <2>2
<1>5. RemoveAt(s, i) = front \o back
  BY DEF RemoveAt, front, back
<1> QED  BY <1>3, <1>4, <1>5

LEMMA PrefixElements ==
    ASSUME NEW S, NEW s \in Seq(S), NEW t \in Seq(S)
    PROVE  IsPrefix(s, t) <=>
              Len(s) <= Len(t) /\ \A i \in 1 .. Len(s) : s[i] = t[i]
<1>0. Len(s) \in Nat /\ Len(t) \in Nat
  BY LenProperties
<1>1. CASE Len(s) <= Len(t)
  <2>1. /\ SubSeq(s, 1, Len(s)) \in Seq(S)
        /\ Len(SubSeq(s, 1, Len(s))) = Len(s)
        /\ \A i \in 1 .. Len(s) : SubSeq(s, 1, Len(s))[i] = s[i]
    BY <1>0, SubSeqProperties
  <2>2. /\ SubSeq(t, 1, Len(s)) \in Seq(S)
        /\ Len(SubSeq(t, 1, Len(s))) = Len(s)
        /\ \A i \in 1 .. Len(s) : SubSeq(t, 1, Len(s))[i] = t[i]
    BY <1>0, <1>1, SubSeqProperties
  <2>3. SubSeq(s, 1, Len(s)) = SubSeq(t, 1, Len(s)) <=>
           \A i \in 1 .. Len(s) : SubSeq(s, 1, Len(s))[i] = SubSeq(t, 1, Len(s))[i]
    BY <2>1, <2>2, SeqEqual
  <2> QED  BY <1>1, <2>1, <2>2, <2>3 DEF IsPrefix
<1>2. CASE ~(Len(s) <= Len(t))
  BY <1>2 DEF IsPrefix
<1> QED  BY <1>1, <1>2

LEMMA ConsProperties ==
    ASSUME NEW S, NEW s \in Seq(S), NEW e \in S
    PROVE  /\ <<e>> \o s \in Seq(S)
           /\ Len(<<e>> \o s) = Len(s) + 1
           /\ \A j \in 1 .. (Len(s) + 1) :
                (<<e>> \o s)[j] = IF j = 1 THEN e ELSE s[j - 1]
<1>1. <<e>> \in Seq(S) /\ Len(<<e>>) = 1 /\ <<e>>[1] = e
  OBVIOUS
<1>2. Len(s) \in Nat
  BY LenProperties
<1>3. /\ <<e>> \o s \in Seq(S)
      /\ Len(<<e>> \o s) = 1 + Len(s)
      /\ \A j \in 1 .. 1 + Len(s) :
            (<<e>> \o s)[j] = IF j <= 1 THEN <<e>>[j] ELSE s[j - 1]
  BY <1>1, ConcatProperties
<1> QED  BY <1>1, <1>2, <1>3

-----------------------------------------------------------------------------
(* The three ways to change them.                                          *)

(* The server assigns one more input.                                      *)
LEMMA GoodAssign ==
    ASSUME NEW l, NEW n, NEW b, NEW g, Good(l, n, b, g), NEW k \in Inputs
    PROVE  Good(Append(l, k), n, b, g)
<1> DEFINE m == Append(l, k)
<1>1. /\ l \in Seq(Inputs) /\ g \in Seq(Inputs) /\ b \in Seq(Event)
      /\ Len(l) \in Nat /\ Len(g) \in Nat
  BY LenProperties DEF Good
<1>2. /\ m \in Seq(Inputs)
      /\ Len(m) = Len(l) + 1
      /\ \A i \in 1 .. Len(l) : m[i] = l[i]
  BY <1>1, AppendProperties
<1> HIDE DEF m
<1>3. IsPrefix(g, m)
  <2>1. Len(g) <= Len(l) /\ \A i \in 1 .. Len(g) : g[i] = l[i]
    BY <1>1, PrefixElements DEF Good
  <2>2. Len(g) <= Len(m) /\ \A i \in 1 .. Len(g) : g[i] = m[i]
    BY <2>1, <1>1, <1>2
  <2> QED  BY <2>2, <1>1, <1>2, PrefixElements
<1>4. ASSUME NEW i \in DOMAIN b
      PROVE  /\ b[i].count < Len(m)
             /\ b[i].keys = m[b[i].count + 1]
  <2>1. b[i] \in Event
    BY <1>1, ElementOfSeq, LenProperties
  <2>2. b[i].count \in Nat /\ b[i].count < Len(l) /\ b[i].keys = l[b[i].count + 1]
    BY <2>1, TargetAssumption DEF Event, Good
  <2>3. b[i].count + 1 \in 1 .. Len(l)
    BY <2>2, <1>1
  <2> QED  BY <2>2, <2>3, <1>1, <1>2
<1> QED  BY <1>2, <1>3, <1>4 DEF Good, m

(* A packet brings the m-th input.                                         *)
LEMMA GoodRecord ==
    ASSUME NEW l, NEW n, NEW b, NEW g, Good(l, n, b, g),
           NEW m \in 0 .. (MaxReads - 1), m < Len(l)
    PROVE  Good(l, n, Record(b, n, [count |-> m, keys |-> l[m + 1]]), g)
<1> DEFINE e == [count |-> m, keys |-> l[m + 1]]
           c == <<e>> \o b
<1>1. /\ l \in Seq(Inputs) /\ b \in Seq(Event)
      /\ Len(l) \in Nat /\ Len(b) \in Nat /\ DOMAIN b = 1 .. Len(b)
      /\ n \in Nat /\ m \in Nat
  BY LenProperties, TargetAssumption DEF Good
<1>2. e \in Event
  <2>1. m + 1 \in 1 .. Len(l)
    BY <1>1
  <2>2. l[m + 1] \in Inputs
    BY <1>1, <2>1, ElementOfSeq
  <2> QED  BY <2>2 DEF Event, Inputs
<1>3. CASE m < n \/ Valid(b, m)
  BY <1>3 DEF Record
<1>4. CASE ~(m < n) /\ ~Valid(b, m)
  <2>1. Record(b, n, e) = c
    BY <1>4 DEF Record
  <2>2. e.count = m /\ e.keys = l[m + 1]
    OBVIOUS
  <2> HIDE DEF e
  <2>3. /\ c \in Seq(Event) /\ Len(c) = Len(b) + 1 /\ DOMAIN c = 1 .. Len(b) + 1
        /\ \A j \in 1 .. (Len(b) + 1) : c[j] = IF j = 1 THEN e ELSE b[j - 1]
    BY <1>1, <1>2, ConsProperties, LenProperties
  <2> HIDE DEF c
  <2>4. ASSUME NEW i \in DOMAIN c
        PROVE  /\ c[i].count >= n
               /\ c[i].count < Len(l)
               /\ c[i].keys = l[c[i].count + 1]
    <3>1. CASE i = 1
      BY <3>1, <2>2, <2>3, <1>1, <1>4
    <3>2. CASE i # 1
      <4>1. i - 1 \in DOMAIN b /\ c[i] = b[i - 1]
        BY <3>2, <2>3, <1>1
      <4> QED  BY <4>1 DEF Good
    <3> QED  BY <3>1, <3>2
  <2>5. ASSUME NEW i \in DOMAIN c, NEW j \in DOMAIN c, c[j].count = c[i].count
        PROVE  j = i
    <3>1. \A x \in DOMAIN b : b[x].count # m
      BY <1>4 DEF Valid
    <3>2. \A x \in DOMAIN c : x = 1 \/ (x - 1 \in DOMAIN b /\ c[x] = b[x - 1])
      BY <2>3, <1>1
    <3>3. c[1].count = m
      BY <2>2, <2>3, <1>1
    <3>4. CASE i = 1 \/ j = 1
      BY <3>1, <3>2, <3>3, <3>4, <2>5
    <3>5. CASE i # 1 /\ j # 1
      <4>1. /\ i - 1 \in DOMAIN b /\ j - 1 \in DOMAIN b
            /\ b[j - 1].count = b[i - 1].count
        BY <3>2, <3>5, <2>5
      <4>2. j - 1 = i - 1
        BY <4>1 DEF Good
      <4> QED  BY <4>2, <2>3, <1>1
    <3> QED  BY <3>4, <3>5
  <2>6. Good(l, n, c, g)
    BY <2>3, <2>4, <2>5 DEF Good
  <2> QED  BY <2>1, <2>6 DEF e
<1> QED  BY <1>3, <1>4

(* The event with the next count is given to the game.                     *)
LEMMA GoodTake ==
    ASSUME NEW l, NEW n, NEW b, NEW g, Good(l, n, b, g),
           NEW i \in DOMAIN b, b[i].count = n
    PROVE  Good(l, n + 1, RemoveAt(b, i), Append(g, b[i].keys))
<1> DEFINE c == RemoveAt(b, i)
           h == Append(g, b[i].keys)
<1>1. /\ l \in Seq(Inputs) /\ b \in Seq(Event) /\ g \in Seq(Inputs)
      /\ Len(l) \in Nat /\ Len(b) \in Nat /\ DOMAIN b = 1 .. Len(b)
      /\ n \in Nat /\ Len(g) = n
  BY LenProperties, TargetAssumption DEF Good
<1>2. \A x \in DOMAIN b : b[x] \in Event
  BY <1>1, ElementOfSeq
<1>3. b[i].count \in 0 .. (MaxReads - 1) /\ b[i].keys \in Inputs
  BY <1>2 DEF Event, Inputs
<1>4. n + 1 \in 0 .. MaxReads
  BY <1>1, <1>3, TargetAssumption
<1>5. /\ h \in Seq(Inputs) /\ Len(h) = n + 1 /\ h[n + 1] = b[i].keys
      /\ \A x \in 1 .. n : h[x] = g[x]
  BY <1>1, <1>3, AppendProperties
<1>6. IsPrefix(h, l)
  <2>1. \A x \in 1 .. n : g[x] = l[x]
    BY <1>1, PrefixElements DEF Good
  <2>2. n < Len(l) /\ b[i].keys = l[n + 1]
    BY DEF Good
  <2>3. \A x \in 1 .. (n + 1) : x = n + 1 \/ x \in 1 .. n
    BY <1>1
  <2>4. \A x \in 1 .. (n + 1) : h[x] = l[x]
    BY <2>1, <2>2, <2>3, <1>5
  <2>5. n + 1 <= Len(l)
    BY <2>2, <1>1
  <2> HIDE DEF h
  <2> QED  BY <2>4, <2>5, <1>1, <1>5, PrefixElements
<1>7. /\ c \in Seq(Event) /\ Len(c) = Len(b) - 1 /\ DOMAIN c = 1 .. (Len(b) - 1)
      /\ \A j \in 1 .. (Len(b) - 1) : c[j] = IF j < i THEN b[j] ELSE b[j + 1]
  <2>1. i \in 1 .. Len(b)
    BY <1>1
  <2>2. /\ c \in Seq(Event) /\ Len(c) = Len(b) - 1
        /\ \A j \in 1 .. (Len(b) - 1) : c[j] = IF j < i THEN b[j] ELSE b[j + 1]
    BY <1>1, <2>1, RemoveAtProperties
  <2> HIDE DEF c
  <2> QED  BY <2>2, LenProperties
<1> DEFINE Old(j) == IF j < i THEN j ELSE j + 1
<1> HIDE DEF c, h
<1>8. /\ \A j \in DOMAIN c : Old(j) \in DOMAIN b /\ Old(j) # i /\ c[j] = b[Old(j)]
      /\ \A j, k \in DOMAIN c : Old(j) = Old(k) => j = k
  <2>1. i \in 1 .. Len(b)
    BY <1>1
  <2>2. ASSUME NEW j \in DOMAIN c
        PROVE  Old(j) \in DOMAIN b /\ Old(j) # i /\ c[j] = b[Old(j)]
    <3>1. j \in 1 .. (Len(b) - 1)
      BY <1>7
    <3>2. c[j] = b[Old(j)]
      BY <3>1, <1>7
    <3> QED  BY <1>1, <2>1, <3>1, <3>2
  <2>3. ASSUME NEW j \in DOMAIN c, NEW k \in DOMAIN c, Old(j) = Old(k)
        PROVE  j = k
    <3>1. j \in Nat /\ k \in Nat /\ i \in Nat
      BY <1>1, <1>7, <2>1
    <3> QED  BY <2>3, <3>1
  <2> QED  BY <2>2, <2>3
<1> HIDE DEF Old
<1>9. ASSUME NEW j \in DOMAIN c
      PROVE  /\ c[j].count >= n + 1
             /\ \A k \in DOMAIN c : c[k].count = c[j].count => k = j
             /\ c[j].count < Len(l)
             /\ c[j].keys = l[c[j].count + 1]
  <2>1. \A k \in DOMAIN c : c[k].count = c[j].count => k = j
    <3>1. \A x, y \in DOMAIN b : b[x].count = b[y].count => x = y
      BY DEF Good
    <3> QED  BY <1>8, <3>1
  <2>2. c[j].count # n /\ c[j].count >= n
    BY <1>8 DEF Good
  <2>3. c[j].count \in Nat
    BY <1>2, <1>8, TargetAssumption DEF Event
  <2>4. c[j].count < Len(l) /\ c[j].keys = l[c[j].count + 1]
    BY <1>8 DEF Good
  <2> QED  BY <2>1, <2>2, <2>3, <2>4, <1>1
<1> QED  BY <1>1, <1>4, <1>5, <1>6, <1>7, <1>9 DEF Good, c, h

-----------------------------------------------------------------------------
(* IInv by players.                                                        *)

GoodPlayer(p) == Good(log[p], count[p], buffer[p], given[p])

(* The rest of it.                                                         *)
Frame ==
    /\ DOMAIN log = Players /\ DOMAIN count = Players
    /\ DOMAIN buffer = Players /\ DOMAIN given = Players
    /\ log = [p \in Players |-> log[p]] /\ count = [p \in Players |-> count[p]]
    /\ buffer = [p \in Players |-> buffer[p]] /\ given = [p \in Players |-> given[p]]
    /\ sent \in [Players -> SUBSET Keys]
    /\ asked \in [Players -> BOOLEAN]
    /\ at \in {"game", "process", "ensure", "wait", "join"}
    /\ turn \in Players
    /\ {canFF, limiter, channel, over} \subseteq BOOLEAN
    /\ asking \in {"no thread", "look", "missing", "found", "gave up"}
    /\ AskerIsJoined
    /\ LimiterFollowsLag

LEMMA ByPlayers == IInv <=> Frame /\ \A p \in Players : GoodPlayer(p)
<1>1. ASSUME IInv
      PROVE  Frame /\ \A p \in Players : GoodPlayer(p)
  <2>1. Frame
    BY <1>1 DEF IInv, TypeOK, Frame
  <2>2. \A p \in Players : GoodPlayer(p)
    BY <1>1 DEF IInv, TypeOK, Lockstep, BufferIsAhead, BufferIsLogged,
                GoodPlayer, Good, Inputs
  <2> QED  BY <2>1, <2>2
<1>2. ASSUME Frame, \A p \in Players : GoodPlayer(p)
      PROVE  IInv
  <2>1. TypeOK
    BY <1>2 DEF Frame, GoodPlayer, Good, TypeOK, Inputs
  <2>2. Lockstep /\ BufferIsAhead /\ BufferIsLogged
    BY <1>2 DEF GoodPlayer, Good, Lockstep, BufferIsAhead, BufferIsLogged
  <2> QED  BY <1>2, <2>1, <2>2 DEF IInv, Frame
<1> QED  BY <1>1, <1>2

(* The same of the next state.                                             *)
LEMMA ByPlayersNext ==
    (Frame /\ \A p \in Players : GoodPlayer(p))' => IInv'
BY ByPlayers, PTL

LEMMA InitIInv == Init => IInv
<1> SUFFICES ASSUME Init
             PROVE  Frame /\ \A p \in Players : GoodPlayer(p)
  BY ByPlayers
<1>1. 0 \in Players
  BY CountAssumption DEF Players
<1>2. Frame
  BY <1>1 DEF Init, Frame, Each, AskerIsJoined, LimiterFollowsLag
<1>3. ASSUME NEW p \in Players
      PROVE  GoodPlayer(p)
  <2>1. log[p] = <<>> /\ count[p] = 0 /\ buffer[p] = <<>> /\ given[p] = <<>>
    BY DEF Init, Each
  <2>2. /\ \A S : <<>> \in Seq(S)
        /\ Len(<<>>) = 0 /\ DOMAIN <<>> = {}
    OBVIOUS
  <2>3. IsPrefix(<<>>, <<>>)
    BY DEF IsPrefix
  <2>4. 0 \in 0 .. MaxReads
    BY TargetAssumption
  <2> QED  BY <2>1, <2>2, <2>3, <2>4 DEF GoodPlayer, Good
<1> QED  BY <1>2, <1>3

(* The emulation thread gives the next input to the game and goes on.      *)
LEMMA TakeKeeps ==
    ASSUME Frame, \A p \in Players : GoodPlayer(p), Take, UNCHANGED log
    PROVE  /\ \A p \in Players : GoodPlayer(p)'
           /\ count' = [p \in Players |-> count'[p]]
           /\ buffer' = [p \in Players |-> buffer'[p]]
           /\ given' = [p \in Players |-> given'[p]]
<1> DEFINE p == turn
<1>1. p \in Players
  BY DEF Frame
<1>2. PICK i \in DOMAIN buffer[p] :
         /\ buffer[p][i].count = count[p]
         /\ given' = [given EXCEPT ![p] = Append(@, buffer[p][i].keys)]
         /\ buffer' = [buffer EXCEPT ![p] = RemoveAt(@, i)]
  BY DEF Take, Player
<1>3. count' = [count EXCEPT ![p] = @ + 1]
  BY DEF Take, Player
<1>4. Good(log[p], count[p] + 1, RemoveAt(buffer[p], i),
           Append(given[p], buffer[p][i].keys))
  BY <1>1, <1>2, GoodTake DEF GoodPlayer
<1>5. /\ count'[p] = count[p] + 1
      /\ buffer'[p] = RemoveAt(buffer[p], i)
      /\ given'[p] = Append(given[p], buffer[p][i].keys)
      /\ \A q \in Players \ {p} :
             count'[q] = count[q] /\ buffer'[q] = buffer[q] /\ given'[q] = given[q]
  BY <1>1, <1>2, <1>3 DEF Frame
<1>6. ASSUME NEW q \in Players
      PROVE  GoodPlayer(q)'
  BY <1>4, <1>5 DEF GoodPlayer
<1>7. /\ count' = [q \in Players |-> count'[q]]
      /\ buffer' = [q \in Players |-> buffer'[q]]
      /\ given' = [q \in Players |-> given'[q]]
  BY <1>2, <1>3 DEF Frame
<1> QED  BY <1>6, <1>7

LEMMA NextPlayerKeeps ==
    ASSUME turn \in Players, NextPlayer
    PROVE  turn' \in Players /\ at' \in {"process", "game"}
BY DEF NextPlayer

-----------------------------------------------------------------------------
(* IInv is inductive.                                                      *)

(* What a step that leaves the inputs alone has to keep.                   *)
LEMMA StutterKeeps ==
    ASSUME IInv, UNCHANGED <<log, count, buffer, given>>,
           sent' \in [Players -> SUBSET Keys], asked' \in [Players -> BOOLEAN],
           at' \in {"game", "process", "ensure", "wait", "join"}, turn' \in Players,
           {canFF', limiter', channel', over'} \subseteq BOOLEAN,
           asking' \in {"no thread", "look", "missing", "found", "gave up"},
           AskerIsJoined', LimiterFollowsLag'
    PROVE  IInv'
<1>1. Frame /\ \A p \in Players : GoodPlayer(p)
  BY ByPlayers
<1>2. Frame'
  BY <1>1 DEF Frame
<1>3. \A p \in Players : GoodPlayer(p)'
  BY <1>1 DEF GoodPlayer
<1> QED  BY <1>2, <1>3, ByPlayersNext

LEMMA AssignStep ==
    ASSUME IInv, NEW p \in Players, Assign(p)
    PROVE  IInv'
<1>1. Frame /\ \A q \in Players : GoodPlayer(q)
  BY ByPlayers
<1>2. PICK k \in sent[p] \cup {NoKeys} : log' = [log EXCEPT ![p] = Append(@, k)]
  BY DEF Assign
<1>3. k \in Inputs
  BY <1>1 DEF Frame, Inputs
<1>4. Good(Append(log[p], k), count[p], buffer[p], given[p])
  BY <1>1, <1>3, GoodAssign DEF GoodPlayer
<1>5. log'[p] = Append(log[p], k) /\ \A q \in Players \ {p} : log'[q] = log[q]
  BY <1>1, <1>2 DEF Frame
<1>6. ASSUME NEW q \in Players
      PROVE  GoodPlayer(q)'
  BY <1>1, <1>4, <1>5 DEF GoodPlayer, Assign, local
<1>7. Frame'
  <2>1. DOMAIN log' = Players /\ log' = [q \in Players |-> log'[q]]
    BY <1>1, <1>2 DEF Frame
  <2> QED  BY <1>1, <2>1 DEF Assign, control, local, speed, Frame,
                            AskerIsJoined, LimiterFollowsLag
<1> QED  BY <1>6, <1>7, ByPlayersNext

LEMMA ReceiveStep ==
    ASSUME IInv, NEW p \in Players, NEW n \in 0 .. (MaxReads - 1), Receive(p, n)
    PROVE  IInv'
<1> DEFINE e == [count |-> n, keys |-> log[p][n + 1]]
<1>1. Frame /\ \A q \in Players : GoodPlayer(q)
  BY ByPlayers
<1>2. n < Len(log[p]) /\ buffer' = [buffer EXCEPT ![p] = Record(@, count[p], e)]
  BY DEF Receive
<1>3. Good(log[p], count[p], Record(buffer[p], count[p], e), given[p])
  BY <1>1, <1>2, GoodRecord DEF GoodPlayer
<1> HIDE DEF e
<1>4. /\ buffer'[p] = Record(buffer[p], count[p], e)
      /\ \A q \in Players \ {p} : buffer'[q] = buffer[q]
  BY <1>1, <1>2 DEF Frame
<1>5. ASSUME NEW q \in Players
      PROVE  GoodPlayer(q)'
  BY <1>1, <1>3, <1>4 DEF GoodPlayer, Receive, server
<1>6. Frame'
  <2>1. DOMAIN buffer' = Players /\ buffer' = [q \in Players |-> buffer'[q]]
    BY <1>1, <1>2 DEF Frame
  <2> QED  BY <1>1, <2>1 DEF Receive, server, control, speed, Frame,
                            AskerIsJoined, LimiterFollowsLag
<1> QED  BY <1>5, <1>6, ByPlayersNext

(* Ensure with the input at hand, and Join with it found.                  *)
LEMMA TakeStep ==
    ASSUME IInv, Take, UNCHANGED <<server, asked, speed, channel>>,
           asking' = "no thread"
    PROVE  IInv'
<1>1. Frame /\ \A q \in Players : GoodPlayer(q)
  BY ByPlayers
<1>2. /\ \A p \in Players : GoodPlayer(p)'
      /\ count' = [p \in Players |-> count'[p]]
      /\ buffer' = [p \in Players |-> buffer'[p]]
      /\ given' = [p \in Players |-> given'[p]]
  BY <1>1, TakeKeeps DEF server
<1>3. turn' \in Players /\ at' \in {"process", "game"} /\ over' = over
  BY <1>1, NextPlayerKeeps DEF Take, Frame
<1>4. Frame'
  BY <1>1, <1>2, <1>3 DEF server, speed, Frame, AskerIsJoined, LimiterFollowsLag
<1> QED  BY <1>2, <1>4, ByPlayersNext

LEMMA GiveUpStep ==
    ASSUME IInv, GiveUp, UNCHANGED <<server, asked, speed, channel>>,
           asking' = "no thread"
    PROVE  IInv'
<1>1. turn' \in Players /\ at' \in {"process", "game"}
  BY NextPlayerKeeps DEF GiveUp, IInv, TypeOK
<1> QED
  BY <1>1, StutterKeeps DEF GiveUp, server, local, speed, IInv, TypeOK,
                           AskerIsJoined, LimiterFollowsLag

LEMMA NextIInv == IInv /\ [Next]_vars => IInv'
<1> SUFFICES ASSUME IInv, [Next]_vars
             PROVE  IInv'
  OBVIOUS
<1> USE DEF server, local, speed, control
<1>0. /\ sent \in [Players -> SUBSET Keys] /\ asked \in [Players -> BOOLEAN]
      /\ at \in {"game", "process", "ensure", "wait", "join"} /\ turn \in Players
      /\ {canFF, limiter, channel, over} \subseteq BOOLEAN
      /\ asking \in {"no thread", "look", "missing", "found", "gave up"}
      /\ AskerIsJoined /\ LimiterFollowsLag
  BY DEF IInv, TypeOK
<1>1. ASSUME NEW p \in Players, Assign(p)
      PROVE  IInv'
  BY <1>1, AssignStep
<1>2. ASSUME NEW p \in Players, Lose(p)
      PROVE  IInv'
  BY <1>0, <1>2, StutterKeeps DEF Lose, AskerIsJoined, LimiterFollowsLag
<1>3. ASSUME NEW p \in Players, NEW n \in 0 .. (MaxReads - 1), Receive(p, n)
      PROVE  IInv'
  BY <1>3, ReceiveStep
<1>4. CASE Send
  <2>1. 0 \in Players
    BY CountAssumption DEF Players
  <2>2. sent' \in [Players -> SUBSET Keys]
    BY <1>0, <1>4 DEF Send
  <2> QED
    BY <1>0, <1>4, <2>1, <2>2, StutterKeeps DEF Send, AskerIsJoined, LimiterFollowsLag
<1>5. CASE Request
  <2>1. PICK lags \in BOOLEAN : FollowLag(lags /\ Len(buffer[Player]) > Target)
    BY <1>5 DEF Request
  <2>2. {canFF', limiter'} \subseteq BOOLEAN /\ LimiterFollowsLag'
    BY <1>0, <2>1 DEF FollowLag, SetSpeedLimiter, LimiterFollowsLag
  <2> QED
    BY <1>0, <1>5, <2>2, StutterKeeps DEF Request, Player, AskerIsJoined
<1>6. CASE Ensure
  <2>1. asking = "no thread"
    BY <1>0, <1>6 DEF Ensure, AskerIsJoined
  <2>2. CASE Take /\ UNCHANGED asking
    BY <1>6, <2>1, <2>2, TakeStep DEF Ensure
  <2>3. CASE GiveUp /\ UNCHANGED asking
    BY <1>6, <2>1, <2>3, GiveUpStep DEF Ensure
  <2>4. CASE at' = "wait" /\ asking' = "look" /\ UNCHANGED <<turn, over, local>>
    BY <1>0, <1>6, <2>4, StutterKeeps DEF Ensure, AskerIsJoined, LimiterFollowsLag
  <2> QED  BY <1>6, <2>2, <2>3, <2>4 DEF Ensure
<1>7. CASE Leave
  BY <1>0, <1>7, StutterKeeps DEF Leave, AskerIsJoined, LimiterFollowsLag
<1>8. CASE Join
  BY <1>8, TakeStep, GiveUpStep DEF Join
<1>9. CASE Look
  BY <1>0, <1>9, StutterKeeps DEF Look, AskerIsJoined, LimiterFollowsLag
<1>10. CASE Ask
  BY <1>0, <1>10, StutterKeeps DEF Ask, Player, AskerIsJoined, LimiterFollowsLag
<1>11. CASE TimeOut
  BY <1>0, <1>11, StutterKeeps DEF TimeOut, AskerIsJoined, LimiterFollowsLag
<1>12. CASE UNCHANGED vars
  BY <1>0, <1>12, StutterKeeps DEF vars, AskerIsJoined, LimiterFollowsLag
<1> QED
  BY <1>1, <1>2, <1>3, <1>4, <1>5, <1>6, <1>7, <1>8, <1>9, <1>10, <1>11, <1>12
  DEF Next, Emulate

LEMMA IInvHolds == Spec => []IInv
<1> QED  BY InitIInv, NextIInv, PTL DEF Spec

(* Every state has its type: the list of events, the thread and the flags. *)
THEOREM TypeCorrect == Spec => []TypeOK
<1>1. IInv => TypeOK
  BY DEF IInv
<1> QED  BY <1>1, IInvHolds, PTL

(* Whatever the network does to the packets, the game gets the inputs that *)
(* the server has assigned to each player, in their order.                 *)
THEOREM ServerDecides == Spec => []Lockstep
<1>1. IInv => Lockstep
  BY DEF IInv
<1> QED  BY <1>1, IInvHolds, PTL

(* The list of events holds each input to come once, and no past ones.     *)
THEOREM NoLeftovers == Spec => []BufferIsAhead
<1>1. IInv => BufferIsAhead
  BY DEF IInv
<1> QED  BY <1>1, IInvHolds, PTL

(* The thread that walks the list has ended before anything is deleted.    *)
THEOREM ListOutlivesAsker == Spec => []AskerIsJoined
<1>1. IInv => AskerIsJoined
  BY DEF IInv
<1> QED  BY <1>1, IInvHolds, PTL

(* The speed is limited unless the game is catching up.                    *)
THEOREM LimiterComesBack == Spec => []LimiterFollowsLag
<1>1. IInv => LimiterFollowsLag
  BY DEF IInv
<1> QED  BY <1>1, IInvHolds, PTL
=============================================================================
