---------------------------- MODULE StorageProofs ----------------------------
(***************************************************************************)
(* What was saved is what is found, for storages of any size and contents  *)
(* and whatever fails.                                                     *)
(***************************************************************************)
EXTENDS Storage, Integers, SequenceTheorems, TLAPS

(* The file has what the history says, as a part of it.                    *)
KeptIsThere == \A k \in kept : k[1] <= Length /\ file[k[1]] = k[2]

(* A session has asked for a save as soon as its first access is over; a   *)
(* guest never does.                                                       *)
AskedIsAccessed ==
    /\ session # "none" => (called <=> ~firstAccess)
    /\ session = "guest" => ~called

IInv == TypeOK /\ KeptIsThere

Memories == [Places -> Values]

(* The places of one save: one or two.                                     *)
Small(ps) == \E c, d \in Places : c <= d /\ ps = {c, d}

LEMMA SizeFacts ==
    Size \in Nat /\ Cells \in Nat /\ Parts \in Nat /\ 1 <= Cells /\ Cells <= Size
<1>1. Cells \in Nat /\ Parts \in Nat /\ 1 <= Cells /\ 1 <= Parts
  BY SizesAssumption
<1>2. Parts * Cells \in Nat /\ 1 * Cells <= Parts * Cells
  BY <1>1
<1> QED
  BY <1>1, <1>2 DEF Size

LEMMA FileFacts ==
    ASSUME TypeOK
    PROVE  /\ Length \in Nat /\ Length <= Size
           /\ file # NoFile => file \in Seq(Values) /\ Length = Len(file)
<1>1. file # NoFile => file \in Seq(Values) /\ Len(file) \in Nat /\ Len(file) <= Size
  BY DEF TypeOK
<1> QED
  BY <1>1, SizeFacts DEF Length

LEMMA NoFileIsNone == ASSUME NEW f \in Seq(Values) PROVE f # NoFile
<1>1. \A n \in 1 .. Len(f) : f[n] \in Values
  BY ElementOfSeq
<1>2. \A n : n = 1 => n \in 1 .. n
  OBVIOUS
<1>3. Len(f) = 1 => f[1] \in Values
  BY <1>1, <1>2
<1>4. Len(NoFile) = 1 /\ NoFile[1] = "no file"
  BY DEF NoFile
<1> QED
  BY <1>3, <1>4, ValuesAssumption

(* A patched file has the new places, and the others as before.            *)
LEMMA PatchedFacts ==
    ASSUME TypeOK, NEW m \in Memories, NEW ps, ps = {} \/ Small(ps)
    PROVE  /\ Patched(m, ps) \in Seq(Values)
           /\ Len(Patched(m, ps)) \in Length .. Size
           /\ \A p \in ps : p <= Len(Patched(m, ps)) /\ Patched(m, ps)[p] = m[p]
           /\ \A p \in 1 .. Length : p \notin ps => Patched(m, ps)[p] = file[p]
<1> DEFINE top == IF \E p \in ps : p > Length
                  THEN CHOOSE p \in ps : \A q \in ps : q <= p ELSE Length
           f == [p \in 1 .. top |-> IF p \in ps THEN m[p]
                                    ELSE IF p <= Length THEN file[p] ELSE Default]
<1>1. ps \subseteq Places /\ Places \subseteq Nat
  BY SizeFacts DEF Small, Places
<1>2. top \in Length .. Size /\ \A p \in ps : p <= top
  <2>1. CASE \E p \in ps : p > Length
    <3>1. \E p \in ps : \A q \in ps : q <= p
      BY <1>1, <2>1 DEF Small
    <3>2. top \in ps /\ \A q \in ps : q <= top
      BY <2>1, <3>1
    <3> HIDE DEF top
    <3> QED
      BY <1>1, <2>1, <3>2, FileFacts, SizeFacts DEF Places
  <2>2. CASE ~\E p \in ps : p > Length
    BY <1>1, <2>2, FileFacts, SizeFacts
  <2> QED
    BY <2>1, <2>2
<1>4. Patched(m, ps) = f
  BY DEF Patched
<1> HIDE DEF top
<1>3. top \in Nat /\ 1 .. top \subseteq Places
  BY <1>2, FileFacts, SizeFacts DEF Places
<1>5. \A p \in 1 .. Length : file[p] \in Values
  BY FileFacts, ElementOfSeq DEF Length
<1>6. ASSUME NEW p \in 1 .. top PROVE f[p] \in Values
  <2>1. m[p] \in Values
    BY <1>3 DEF Memories
  <2>2. p <= Length => p \in 1 .. Length
    BY <1>3, FileFacts
  <2> QED
    BY <1>5, <2>1, <2>2, ValuesAssumption
<1>7. f \in Seq(Values) /\ Len(f) = top
  BY <1>3, <1>6, SeqDef
<1>8. \A p \in ps : p \in 1 .. top
  BY <1>1, <1>2, <1>3 DEF Places
<1>9. \A p \in 1 .. Length : p \in 1 .. top
  BY <1>2, FileFacts, SizeFacts
<1> QED
  BY <1>2, <1>4, <1>7, <1>8, <1>9, FileFacts

-----------------------------------------------------------------------------
(* Each way of writing the file keeps the history true.                    *)

LEMMA WriteAllKeeps ==
    ASSUME IInv, NEW m \in Memories, NEW ok \in BOOLEAN, WriteAll(m, ok)
    PROVE  /\ file' = NoFile \/ (file' \in Seq(Values) /\ Len(file') <= Size)
           /\ kept' \subseteq Places \X Values /\ KeptIsThere'
           /\ ok => \A p \in Places : p <= Length' /\ file'[p] = m[p]
<1>1. kept \subseteq Places \X Values /\ Places = 1 .. Size /\ Size \in Nat
  BY SizeFacts DEF IInv, TypeOK, Places
<1>2. m \in Seq(Values) /\ Len(m) = Size
  BY <1>1, SeqDef DEF Memories
<1>3. ASSUME NEW n \in 0 .. Size, file' \in Seq(Values), Len(file') = n,
             \A p \in 1 .. n : file'[p] = m[p], Keep(n, 1 .. n, m)
      PROVE  kept' \subseteq Places \X Values /\ KeptIsThere' /\ Length' = n
  <2>1. \A k \in kept : k[1] \in Nat /\ 1 <= k[1]
    BY <1>1
  <2>2. kept' = {<<p, m[p]>> : p \in 1 .. n}
    BY <1>3, <2>1 DEF Keep
  <2>3. Length' = n
    BY <1>3, NoFileIsNone DEF Length
  <2>4. kept' \subseteq Places \X Values
    BY <1>1, <2>2 DEF Memories
  <2>5. KeptIsThere'
    BY <1>3, <2>2, <2>3 DEF KeptIsThere
  <2> QED
    BY <2>3, <2>4, <2>5
<1>4. CASE ok /\ file' = m /\ Keep(Size, Places, m)
  BY <1>1, <1>2, <1>3, <1>4
<1>5. CASE ~ok /\ UNCHANGED <<file, kept>>
  BY <1>5 DEF IInv, TypeOK, KeptIsThere, Length
<1>6. ASSUME ~ok, NEW n \in 0 .. Size - 1, file' = SubSeq(m, 1, n), Keep(n, 1 .. n, m)
      PROVE  /\ file' \in Seq(Values) /\ Len(file') <= Size
             /\ kept' \subseteq Places \X Values /\ KeptIsThere'
  <2>1. file' \in Seq(Values) /\ Len(file') = n /\ \A p \in 1 .. n : file'[p] = m[p]
    BY <1>1, <1>2, <1>6, SubSeqProperties
  <2> QED
    BY <1>1, <1>3, <1>6, <2>1
<1> QED
  BY <1>4, <1>5, <1>6 DEF WriteAll

LEMMA WriteChunkKeeps ==
    ASSUME IInv, NEW m \in Memories, NEW ps, Small(ps), NEW ok \in BOOLEAN,
           WriteChunk(m, ps, ok)
    PROVE  /\ file' = NoFile \/ (file' \in Seq(Values) /\ Len(file') <= Size)
           /\ kept' \subseteq Places \X Values /\ KeptIsThere'
           /\ Length <= Length'
           /\ \A p \in 1 .. Length : p \notin ps => file'[p] = file[p]
           /\ ok => \A p \in ps : p <= Length' /\ file'[p] = m[p]
<1>1. kept \subseteq Places \X Values /\ Places = 1 .. Size /\ Size \in Nat
      /\ ps \subseteq Places /\ TypeOK /\ KeptIsThere
  BY SizeFacts DEF IInv, TypeOK, Places, Small
<1>2. ASSUME NEW qs, qs = {} \/ Small(qs), qs \subseteq ps,
             file' = Patched(m, qs), Keep(Size, qs, m)
      PROVE  /\ file' \in Seq(Values) /\ Len(file') <= Size
             /\ kept' \subseteq Places \X Values /\ KeptIsThere'
             /\ Length' = Len(file') /\ Length <= Length'
             /\ \A p \in 1 .. Length : p \notin qs => file'[p] = file[p]
             /\ \A p \in qs : p <= Length' /\ file'[p] = m[p]
  <2>1. /\ file' \in Seq(Values) /\ Len(file') \in Length .. Size
        /\ \A p \in qs : p <= Len(file') /\ file'[p] = m[p]
        /\ \A p \in 1 .. Length : p \notin qs => file'[p] = file[p]
    BY <1>1, <1>2, PatchedFacts
  <2>2. Length' = Len(file')
    BY <2>1, NoFileIsNone DEF Length
  <2>3. Length \in Nat /\ Length <= Length' /\ Length' <= Size
    BY <1>1, <2>1, <2>2, FileFacts
  <2>4. kept' = {k \in kept : k[1] <= Size /\ k[1] \notin qs} \cup {<<p, m[p]>> : p \in qs}
    BY <1>2 DEF Keep
  <2>5. kept' \subseteq Places \X Values
    BY <1>1, <1>2, <2>4 DEF Memories
  <2>6. ASSUME NEW k \in kept' PROVE k[1] <= Length' /\ file'[k[1]] = k[2]
    <3>1. CASE k \in kept /\ k[1] \notin qs
      <4>1. k[1] \in 1 .. Length /\ file[k[1]] = k[2]
        BY <1>1, <2>3, <3>1 DEF KeptIsThere
      <4>2. file'[k[1]] = file[k[1]]
        BY <2>1, <3>1, <4>1
      <4>3. k[1] <= Length'
        BY <2>1, <2>2, <2>3, <4>1
      <4> QED
        BY <4>1, <4>2, <4>3
    <3>2. CASE \E p \in qs : k = <<p, m[p]>>
      BY <2>1, <2>2, <3>2
    <3> QED
      BY <2>4, <3>1, <3>2
  <2>7. KeptIsThere'
    BY <2>6 DEF KeptIsThere
  <2> QED
    BY <2>1, <2>2, <2>3, <2>5, <2>7
<1>3. CASE ok /\ file' = Patched(m, ps) /\ Keep(Size, ps, m)
  BY <1>2, <1>3
<1>4. CASE ~ok /\ UNCHANGED <<file, kept>>
  <2>1. Length' = Length /\ Length \in Nat
    BY <1>1, <1>4, FileFacts DEF Length
  <2> QED
    BY <1>1, <1>4, <2>1 DEF TypeOK, KeptIsThere
<1>5. ASSUME ~ok, NEW p \in ps, file' = Patched(m, {q \in ps : q < p}),
             Keep(Size, {q \in ps : q < p}, m)
      PROVE  /\ file' \in Seq(Values) /\ Len(file') <= Size
             /\ kept' \subseteq Places \X Values /\ KeptIsThere'
             /\ Length <= Length'
             /\ \A x \in 1 .. Length : x \notin ps => file'[x] = file[x]
  <2> DEFINE begun == {q \in ps : q < p}
  <2>1. begun = {} \/ Small(begun)
    <3>1. PICK c, d \in Places : c <= d /\ ps = {c, d}
      BY DEF Small
    <3>2. c \in Int /\ d \in Int
      BY <1>1
    <3>3. begun = {} \/ begun = {c}
      BY <1>5, <3>1, <3>2
    <3> HIDE DEF begun
    <3>4. begun = {c} => begun = {c, c} /\ c <= c
      BY <3>2
    <3> QED
      BY <3>1, <3>3, <3>4 DEF Small
  <2>2. begun \subseteq ps /\ file' = Patched(m, begun) /\ Keep(Size, begun, m)
    BY <1>5
  <2> HIDE DEF begun
  <2> QED
    BY <1>2, <2>1, <2>2
<1> QED
  BY <1>3, <1>4, <1>5 DEF WriteChunk

-----------------------------------------------------------------------------
(* The steps.                                                              *)

(* A game's write to one place of a part or two, seen from the file.       *)
At(part, c, d) == {part * Cells + p : p \in {c, d}}

Wrote(part, c, d, ok) ==
    /\ \A p \in Places \ At(part, c, d) : mem'[p] = mem[p]
    /\ mem' \in Memories /\ Small({c, d}) /\ At(part, c, d) \subseteq Places
    /\ FileSave(mem', {c, d}, At(part, c, d), ok)
    /\ session' = session

LEMMA WriteFacts ==
    ASSUME IInv, Write
    PROVE  \E part \in 0 .. Parts - 1, c, d \in 1 .. Cells, ok \in BOOLEAN :
              Wrote(part, c, d, ok)
<1>1. PICK part \in 0 .. Parts - 1, c \in 1 .. Cells, d \in 1 .. Cells, v \in Values,
           ok \in BOOLEAN :
         /\ c <= d
         /\ mem' = [p \in Places |-> IF p \in {part * Cells + q : q \in {c, d}}
                                     THEN v ELSE mem[p]]
         /\ FileSave(mem', {c, d}, {part * Cells + p : p \in {c, d}}, ok)
         /\ session' = session
  BY ZenonT(30) DEF Write, Passed
<1>2. mem' \in Memories
  BY <1>1 DEF IInv, TypeOK, Memories
<1>3. c \in Places /\ d \in Places /\ Small({c, d})
  BY <1>1, SizeFacts DEF Places, Small
<1>4. ASSUME NEW p \in 1 .. Cells PROVE part * Cells + p \in Places
  <2>1. part \in Nat /\ part + 1 <= Parts /\ Cells \in Nat /\ Parts \in Nat
    BY SizeFacts
  <2>2. part * Cells \in Nat /\ (part + 1) * Cells <= Parts * Cells
    BY <2>1
  <2>3. (part + 1) * Cells = part * Cells + Cells
    BY <2>1
  <2> DEFINE before == part * Cells
  <2>4. before \in Nat /\ before + Cells <= Size
    BY <2>2, <2>3 DEF Size
  <2> HIDE DEF before
  <2>5. before + p \in Places
    BY <2>1, <2>4, SizeFacts DEF Places
  <2> QED
    BY <2>5 DEF before
<1>5. At(part, c, d) \subseteq Places
  BY <1>4 DEF At
<1>6. /\ \A p \in Places \ At(part, c, d) : mem'[p] = mem[p]
      /\ FileSave(mem', {c, d}, At(part, c, d), ok)
  BY <1>1 DEF At
<1>7. Wrote(part, c, d, ok)
  BY <1>1, <1>2, <1>3, <1>5, <1>6 DEF Wrote
<1> QED
  BY <1>7

LEMMA StepKeepsIInv == IInv /\ [Next]_vars => IInv'
<1> SUFFICES ASSUME IInv, [Next]_vars PROVE IInv'
  OBVIOUS
<1>1. /\ session \in {"none", "alone", "player", "guest"} /\ mem \in Memories
      /\ {firstAccess, called} \subseteq BOOLEAN /\ unsaved \subseteq Places
      /\ file = NoFile \/ (file \in Seq(Values) /\ Len(file) <= Size)
      /\ kept \subseteq Places \X Values /\ KeptIsThere
  BY DEF IInv, TypeOK, Memories
<1>2. UNCHANGED <<file, kept>> => KeptIsThere'
  BY <1>1 DEF KeptIsThere, Length
<1>3. CASE Open
  <2>1. PICK garbage \in Values :
           mem' = [p \in Places |-> IF file = NoFile THEN Default
                                   ELSE IF p <= Len(file) THEN file[p] ELSE garbage]
    BY <1>3 DEF Open
  <2>2. ASSUME NEW p \in Places, file # NoFile, p <= Len(file) PROVE file[p] \in Values
    BY <1>1, <2>2, SizeFacts, ElementOfSeq, LenProperties DEF Places
  <2>3. mem' \in Memories
    BY <2>1, <2>2, ValuesAssumption DEF Memories
  <2> QED
    BY <1>1, <1>2, <1>3, <2>3 DEF Open, IInv, TypeOK, Memories
<1>4. CASE OpenNetplay
  BY <1>1, <1>2, <1>4 DEF OpenNetplay, IInv, TypeOK
<1>5. CASE Close
  BY <1>1, <1>2, <1>5 DEF Close, IInv, TypeOK
<1>6. CASE Write
  <2>1. PICK part \in 0 .. Parts - 1, c \in 1 .. Cells, d \in 1 .. Cells, ok \in BOOLEAN :
           Wrote(part, c, d, ok)
    BY <1>6, WriteFacts
  <2>2. /\ file' = NoFile \/ (file' \in Seq(Values) /\ Len(file') <= Size)
        /\ kept' \subseteq Places \X Values /\ KeptIsThere'
    BY <1>1, <1>2, <2>1, WriteAllKeeps, WriteChunkKeeps DEF FileSave, Wrote
  <2>3. {firstAccess', called'} \subseteq BOOLEAN /\ unsaved' \subseteq Places
    BY <1>1, <2>1 DEF FileSave, Wrote
  <2> QED
    BY <1>1, <2>1, <2>2, <2>3 DEF IInv, TypeOK, Memories, Wrote
<1>7. CASE Crash
  <2>1. ASSUME NEW p \in Places PROVE Small({p})
    BY SizeFacts DEF Small, Places
  <2>2. /\ file' = NoFile \/ (file' \in Seq(Values) /\ Len(file') <= Size)
        /\ kept' \subseteq Places \X Values /\ KeptIsThere'
    BY <1>1, <1>7, <2>1, WriteAllKeeps, WriteChunkKeeps DEF Crash
  <2> QED
    BY <1>1, <1>7, <2>2 DEF Crash, IInv, TypeOK, Memories
<1>8. CASE UNCHANGED vars
  BY <1>1, <1>2, <1>8 DEF vars, IInv, TypeOK, Memories
<1> QED
  BY <1>3, <1>4, <1>5, <1>6, <1>7, <1>8 DEF Next

LEMMA InitHasIInv == Init => IInv
BY SizeFacts, ValuesAssumption DEF Init, IInv, TypeOK, KeptIsThere, Places

(* The file is never longer than the storage, and holds values of its own. *)
THEOREM StorageIsTyped == Spec => []TypeOK
<1>1. IInv => TypeOK
  BY DEF IInv
<1> QED
  BY <1>1, InitHasIInv, StepKeepsIInv, PTL DEF Spec

(* For any size of a storage, any Controller Paks, values and failures:    *)
(* what was saved last of a place is what the next session loads there.    *)
THEOREM SavedIsFound == Spec => NextSessionFindsIt
<1>1. ASSUME IInv, [Next]_vars, session = "none", session' = "alone", NEW k \in kept
      PROVE  mem'[k[1]] = k[2]
  <2>1. Open
    BY <1>1 DEF Next, vars, OpenNetplay, Close, Write, Crash
  <2>2. k[1] \in Places /\ k[1] <= Length /\ file[k[1]] = k[2]
    BY <1>1 DEF IInv, TypeOK, KeptIsThere
  <2>3. file # NoFile /\ k[1] <= Len(file)
    BY <2>2, SizeFacts DEF Length, Places
  <2> QED
    BY <2>1, <2>2, <2>3 DEF Open
<1>2. IInv /\ [Next]_vars =>
         [session = "none" /\ session' = "alone" =>
            \A k \in kept : mem'[k[1]] = k[2]]_vars
  BY <1>1
<1> QED
  BY <1>2, InitHasIInv, StepKeepsIInv, PTL DEF Spec, NextSessionFindsIt

-----------------------------------------------------------------------------
(* A storage that has its file for itself.                                 *)

SInv == IInv /\ AskedIsAccessed /\ SavedIsKept

LEMMA StepKeepsSaved == ASSUME Parts = 1 PROVE SInv /\ [Next]_vars => SInv'
<1> SUFFICES ASSUME SInv, [Next]_vars PROVE AskedIsAccessed' /\ SavedIsKept'
  BY StepKeepsIInv DEF SInv
<1>1. IInv /\ TypeOK /\ AskedIsAccessed /\ SavedIsKept
      /\ {firstAccess, called} \subseteq BOOLEAN
  BY DEF SInv, IInv, TypeOK
<1>2. CASE Open \/ OpenNetplay \/ Close \/ Crash
  BY <1>2 DEF Open, OpenNetplay, Close, Crash, AskedIsAccessed, SavedIsKept
<1>3. CASE UNCHANGED vars
  BY <1>1, <1>3 DEF vars, AskedIsAccessed, SavedIsKept, Length
<1>4. CASE Write
  <2>1. PICK part \in 0 .. Parts - 1, c \in 1 .. Cells, d \in 1 .. Cells, ok \in BOOLEAN :
           Wrote(part, c, d, ok)
    BY <1>1, <1>4, WriteFacts
  <2>2. At(part, c, d) = {c, d}
    <3>1. part = 0 /\ Cells \in Nat
      BY SizeFacts
    <3>2. \A p \in 1 .. Cells : part * Cells + p = p
      BY <3>1
    <3> QED
      BY <3>2 DEF At
  <2> DEFINE ps == {c, d}
  <2>3. /\ \A p \in Places \ ps : mem'[p] = mem[p]
        /\ FileSave(mem', ps, ps, ok)
    BY <2>1, <2>2 DEF Wrote
  <2>4. mem' \in Memories /\ Small(ps) /\ session' = session
    BY <2>1 DEF Wrote
  <2> HIDE DEF ps
  <2>5. CASE session = "guest"
    <3>1. session = "guest" /\ UNCHANGED <<firstAccess, file, called, unsaved, kept>>
      BY <2>3, <2>5 DEF FileSave
    <3> QED
      BY <1>1, <2>4, <3>1 DEF AskedIsAccessed, SavedIsKept
  <2>6. CASE session # "guest" /\ firstAccess
    <3>1. /\ ~firstAccess' /\ called' /\ WriteAll(mem', ok)
          /\ unsaved' = IF ok THEN {} ELSE Places
      BY <2>3, <2>6 DEF FileSave
    <3>2. ok => \A p \in Places : p <= Length' /\ file'[p] = mem'[p]
      BY <1>1, <2>4, <3>1, WriteAllKeeps
    <3> QED
      BY <2>4, <2>6, <3>1, <3>2 DEF AskedIsAccessed, SavedIsKept
  <2>7. CASE session # "guest" /\ ~firstAccess
    <3>1. /\ ~firstAccess' /\ called' /\ WriteChunk(mem', ps, ok)
          /\ unsaved' = IF ok THEN unsaved \ ps ELSE unsaved \cup ps
      BY <2>3, <2>7 DEF FileSave
    <3>2. /\ file' = NoFile \/ file' \in Seq(Values)
          /\ Length <= Length'
          /\ \A p \in 1 .. Length : p \notin ps => file'[p] = file[p]
          /\ ok => \A p \in ps : p <= Length' /\ file'[p] = mem'[p]
      BY <1>1, <2>4, <3>1, WriteChunkKeeps
    <3>3. AskedIsAccessed'
      BY <2>4, <2>7, <3>1 DEF AskedIsAccessed
    <3>4. CASE session = "none"
      BY <2>4, <3>3, <3>4 DEF SavedIsKept
    <3>5. CASE session # "none"
      <4>1. \A p \in Places \ unsaved : p <= Length /\ file[p] = mem[p]
        BY <1>1, <2>7, <3>5 DEF AskedIsAccessed, SavedIsKept
      <4>2. Length' \in Nat /\ Length \in Nat
        BY <1>1, <3>2, FileFacts, LenProperties DEF Length
      <4>3. ASSUME NEW p \in Places \ unsaved'
            PROVE  p <= Length' /\ file'[p] = mem'[p]
        <5>1. CASE p \in ps
          BY <3>1, <3>2, <4>3, <5>1
        <5>2. CASE p \notin ps
          <6>1. p \in Places \ unsaved /\ p \in Nat /\ 1 <= p
            BY <3>1, <4>3, <5>2, SizeFacts DEF Places
          <6>2. p \in 1 .. Length
            BY <4>1, <4>2, <6>1
          <6> QED
            BY <2>3, <3>2, <4>1, <4>2, <5>2, <6>1, <6>2
        <5> QED
          BY <5>1, <5>2
      <4> QED
        BY <3>3, <4>3 DEF SavedIsKept
    <3> QED
      BY <3>4, <3>5
  <2> QED
    BY <2>5, <2>6, <2>7
<1> QED
  BY <1>2, <1>3, <1>4 DEF Next

(* For a storage of any size that has its file for itself, and whatever    *)
(* fails: after a save the file has what is in memory, but for the places  *)
(* whose last save has failed.                                             *)
THEOREM SessionIsSaved == ASSUME Parts = 1 PROVE Spec => []SavedIsKept
<1>1. Init => SInv
  BY InitHasIInv DEF SInv, Init, AskedIsAccessed, SavedIsKept
<1>2. SInv /\ [Next]_vars => SInv'
  BY StepKeepsSaved
<1>3. SInv => SavedIsKept
  BY DEF SInv
<1> QED
  BY <1>1, <1>2, <1>3, PTL DEF Spec
=============================================================================
