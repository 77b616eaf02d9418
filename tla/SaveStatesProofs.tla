-------------------------- MODULE SaveStatesProofs --------------------------
(***************************************************************************)
(* What the saves of one emulation thread and the writes of one worker     *)
(* leave in the files, for any number of slots, files, requests and saves, *)
(* and whatever fails.                                                     *)
(***************************************************************************)
EXTENDS SaveStates, Integers, SequenceTheorems, TLAPS

Saves == 1 .. Len(saved)

(* The works the worker is through with.                                   *)
Done == IF writer = "idle" THEN started ELSE started - 1

(* The types, closer than TypeOK.                                          *)
Typed ==
    /\ TypeOK
    /\ front \in [step : {"idle", "free", "job", "type", "name"},
                  job : {"nothing", "save", "load"}, type : Types, name : Files \cup {NoName}]
    /\ queued \in Seq(Saves)
    /\ ret <= Len(saved)
    /\ emu = "read" => path \in Paths
    /\ writer # "idle" => started >= 1 /\ held >= 1
    /\ held <= started /\ Len(queued) <= Len(saved)

(* The worker does the queued saves in their order, each once: those of    *)
(* the slots are among them.                                               *)
QueueInOrder ==
    /\ \A i, j \in 1 .. Len(queued) : i < j => queued[i] < queued[j]
    /\ \A n \in Saves : saved[n].type = "m64p" <=> \E i \in 1 .. Len(queued) : queued[i] = n
    /\ \A n \in Saves : saved[n].path \in Slots => saved[n].type = "m64p"
    /\ finished = {queued[i] : i \in 1 .. Done}
    /\ \A n \in written : saved[n].type = "m64p" => n \in finished

(* What has stopped stays stopped, with nothing left to do.                *)
StoppedForGood ==
    /\ stopped => writer = "idle" /\ started = Len(queued) /\ emu = "off"
    /\ ~lock => stopped

(* A whole file holds a save that was made to it and is through.           *)
WholeIsWritten ==
    \A p \in Paths :
        files[p].whole => files[p].id \in written /\ saved[files[p].id].path = p

(* The last of a slot's saves the worker has begun is what it holds.       *)
LastStands ==
    \A i \in 1 .. Done :
        LET s == saved[queued[i]].path
        IN  s \in Slots /\ queued[i] \in written
              /\ (\A j \in (i + 1) .. started : saved[queued[j]].path # s)
            => files[s].id = queued[i] /\ files[s].whole

(* A slot that was saved to, never in vain, holds a state unless the       *)
(* worker has just emptied it.                                             *)
SlotsHoldStates ==
    \A s \in Slots :
        /\ \E n \in written : saved[n].path = s
        /\ \A n \in finished : Failed(n) => saved[n].path # s
        /\ ~(writer = "open" /\ Target = s)
        => files[s].whole /\ files[s].type = "m64p"

IInv ==
    /\ Typed
    /\ QueueInOrder
    /\ StoppedForGood
    /\ WholeIsWritten
    /\ LoadsAreWhole
    /\ LastStands
    /\ SlotsHoldStates

-----------------------------------------------------------------------------
LEMMA Facts ==
    ASSUME Typed
    PROVE  /\ Len(saved) \in Nat /\ Len(saved) <= MaxSaves
           /\ Len(queued) \in Nat /\ started \in 0 .. Len(queued) /\ started \in Nat
           /\ held \in Nat
           /\ \A i \in 1 .. Len(queued) : queued[i] \in Saves
           /\ \A n \in Saves : saved[n] \in [path : Paths, type : Types]
           /\ \A n \in Saves : saved[n].path \in Paths
<1>1. /\ queued \in Seq(Saves) /\ saved \in Seq([path : Paths, type : Types])
      /\ Len(saved) <= MaxSaves /\ started \in 0 .. Len(queued) /\ held \in 0 .. MaxSaves
  BY DEF Typed, TypeOK
<1>2. Len(saved) \in Nat /\ Len(queued) \in Nat
  BY <1>1
<1>3. \A i \in 1 .. Len(queued) : queued[i] \in Saves
  BY <1>1, ElementOfSeq
<1>4. \A n \in Saves : saved[n] \in [path : Paths, type : Types]
  BY <1>1, ElementOfSeq DEF Saves
<1> QED
  BY <1>1, <1>2, <1>3, <1>4

(* While the worker writes, its work is one of the saves, queued last      *)
(* among those begun and not through yet.                                  *)
LEMMA WorkFacts ==
    ASSUME Typed, QueueInOrder, writer # "idle"
    PROVE  /\ started \in 1 .. Len(queued) /\ Done = started - 1
           /\ Work \in Saves /\ Work \in 1 .. MaxSaves
           /\ Target \in Paths
           /\ saved[Work].type = "m64p"
           /\ Work \notin finished /\ Work \notin written
<1>1. started \in 1 .. Len(queued) /\ Done = started - 1
  BY Facts DEF Typed, Done
<1>2. Work \in Saves /\ Target \in Paths
  BY <1>1, Facts DEF Work, Target
<1>3. Work \in 1 .. MaxSaves
  BY <1>2, Facts, BoundAssumption DEF Saves
<1>4. saved[Work].type = "m64p"
  BY <1>1, <1>2 DEF QueueInOrder, Work
<1>5. Work \notin finished
  <2>1. \A i \in 1 .. Done : queued[i] < queued[started] /\ queued[i] \in Nat
    BY <1>1, Facts DEF QueueInOrder, Saves
  <2> QED
    BY <1>1, <2>1 DEF QueueInOrder, Work
<1>6. Work \notin written
  BY <1>4, <1>5 DEF QueueInOrder
<1> QED
  BY <1>1, <1>2, <1>3, <1>4, <1>5, <1>6

LEMMA InitIInv == Init => IInv
<1> SUFFICES ASSUME Init PROVE IInv
  OBVIOUS
<1>1. /\ saved = <<>> /\ written = {} /\ reported = {} /\ files = [p \in Paths |-> NoFile]
      /\ queued = <<>> /\ started = 0 /\ finished = {} /\ stopped = FALSE
      /\ writer = "idle" /\ held = 0 /\ lock = TRUE /\ ret = 0 /\ emu = "off"
  BY DEF Init, Queue!Init
<1>2. Len(saved) = 0 /\ Len(queued) = 0 /\ Done = 0 /\ Saves = {}
  BY <1>1 DEF Done, Saves
<1>3. NoFile \in Content /\ 0 \in Slots
  BY BoundAssumption, SlotAssumption DEF NoFile, Content, Types, Slots
<1>4. Typed
  <2>1. /\ job = "nothing" /\ type = "unknown" /\ fname = NoName /\ slot = 0
        /\ front = Idle /\ serving = "nothing" /\ path = NoName /\ starts = 0
    BY DEF Init
  <2>2. front \in [step : {"idle", "free", "job", "type", "name"},
                  job : {"nothing", "save", "load"}, type : Types, name : Files \cup {NoName}]
    BY <2>1 DEF Idle, Types
  <2>3. files \in [Paths -> Content]
    BY <1>1, <1>3
  <2>4. queued \in Seq(1 .. MaxSaves) /\ queued \in Seq(Saves)
        /\ saved \in Seq([path : Paths, type : Types])
    BY <1>1
  <2>5. TypeOK
    <3>1. 0 \in 0 .. MaxSaves /\ 0 \in 0 .. MaxStarts /\ 0 \in 0 .. Len(queued)
      BY <1>2, BoundAssumption
    <3>2. front.step \in {"idle", "free", "job", "type", "name"} /\ "unknown" \in Types
      BY <2>2 DEF Types
    <3>3. /\ job \in {"nothing", "save", "load"} /\ type \in Types
          /\ fname \in Files \cup {NoName} /\ slot \in Slots
          /\ emu \in {"off", "run", "read", "report", "clear", "clearjob", "cleartype"}
          /\ serving \in {"nothing", "save", "load"} /\ path \in Paths \cup {NoName}
      BY <1>1, <1>3, <2>1, <3>2
    <3>4. /\ ret \in 0 .. MaxSaves /\ held \in 0 .. MaxSaves /\ starts \in 0 .. MaxStarts
          /\ started \in 0 .. Len(queued) /\ Len(saved) <= MaxSaves
      BY <1>1, <1>2, <2>1, <3>1, BoundAssumption
    <3>5. /\ writer \in {"idle", "locked", "open"} /\ lock \in BOOLEAN /\ stopped \in BOOLEAN
          /\ finished \subseteq 1 .. MaxSaves
          /\ written \subseteq 1 .. Len(saved) /\ reported \subseteq 1 .. Len(saved)
      BY <1>1
    <3> QED
      BY <2>3, <2>4, <3>2, <3>3, <3>4, <3>5 DEF TypeOK
  <2> QED
    BY <1>1, <1>2, <2>2, <2>4, <2>5 DEF Typed
<1>5. QueueInOrder
  BY <1>1, <1>2 DEF QueueInOrder
<1>6. WholeIsWritten
  BY <1>1 DEF WholeIsWritten, NoFile
<1> QED
  BY <1>1, <1>2, <1>4, <1>5, <1>6
     DEF IInv, StoppedForGood, LoadsAreWhole, LastStands, SlotsHoldStates, Init, Loaded

-----------------------------------------------------------------------------
(* The steps that leave the files, the saves and the worker alone.         *)
core == <<files, works, saved, written, worker, lock>>

LEMMA CoreStaysTheSame ==
    ASSUME QueueInOrder, WholeIsWritten, LastStands, SlotsHoldStates, UNCHANGED core
    PROVE  QueueInOrder' /\ WholeIsWritten' /\ LastStands' /\ SlotsHoldStates'
<1>1. /\ UNCHANGED <<files, queued, started, finished, stopped, saved, written, writer, held, lock>>
      /\ Saves' = Saves /\ Done' = Done
  BY DEF core, works, worker, Saves, Done
<1>2. QueueInOrder'
  BY <1>1 DEF QueueInOrder
<1>3. WholeIsWritten'
  BY <1>1 DEF WholeIsWritten
<1>4. LastStands'
  BY <1>1 DEF LastStands
<1>5. SlotsHoldStates'
  BY <1>1 DEF SlotsHoldStates, Failed, Target, Work
<1> QED
  BY <1>2, <1>3, <1>4, <1>5

LEMMA FrontStep ==
    ASSUME IInv, AskFor \/ Set \/ (\E s \in Slots : SelectSlot(s))
    PROVE  IInv'
<1>0. Typed
  BY DEF IInv
<1>1. UNCHANGED <<emu, thread, worker, lock, files, works, history, starts>>
  BY DEF AskFor, Set, SelectSlot
<1>2. UNCHANGED core /\ UNCHANGED <<emu, serving, path, ret, saved, written, reported, starts>>
      /\ UNCHANGED <<writer, held, lock, files, queued, started, finished, stopped>>
  BY <1>1 DEF core, history, thread, worker, works
<1>3. /\ job' \in {"nothing", "save", "load"} /\ type' \in Types
      /\ fname' \in Files \cup {NoName} /\ slot' \in Slots
      /\ front' \in [step : {"idle", "free", "job", "type", "name"},
                     job : {"nothing", "save", "load"}, type : Types, name : Files \cup {NoName}]
  <2>0. /\ job \in {"nothing", "save", "load"} /\ type \in Types
        /\ fname \in Files \cup {NoName} /\ slot \in Slots
        /\ front \in [step : {"idle", "free", "job", "type", "name"},
                     job : {"nothing", "save", "load"}, type : Types, name : Files \cup {NoName}]
    BY <1>0 DEF Typed, TypeOK
  <2>1. CASE AskFor
    <3>1. FileTypes \subseteq Types
      BY ChoiceAssumption DEF Types
    <3>2. \A j \in {"save", "load"}, t \in Types, n \in Files \cup {NoName} :
             Ask(j, t, n) \in [step : {"idle", "free", "job", "type", "name"},
                 job : {"nothing", "save", "load"}, type : Types, name : Files \cup {NoName}]
      BY DEF Ask
    <3>3. \E j \in {"save", "load"}, t \in Types, n \in Files \cup {NoName} : front' = Ask(j, t, n)
      BY <2>1, <3>1 DEF AskFor, AskSave, AskLoad, Types
    <3> QED
      BY <2>0, <2>1, <3>2, <3>3 DEF AskFor, request
  <2>2. CASE Set
    BY <2>0, <2>2 DEF Set, SetFree, SetJob, SetType, SetName, Idle, Types
  <2>3. CASE \E s \in Slots : SelectSlot(s)
    BY <2>0, <2>3 DEF SelectSlot, request
  <2> QED
    BY <2>1, <2>2, <2>3
<1>4. Typed'
  BY <1>0, <1>2, <1>3 DEF Typed, TypeOK, Saves
<1>5. StoppedForGood' /\ LoadsAreWhole'
  BY <1>2 DEF IInv, StoppedForGood, LoadsAreWhole, Loaded
<1> QED
  BY <1>2, <1>4, <1>5, CoreStaysTheSame DEF IInv

(* A step of the emulation thread that is not a save.                      *)
LEMMA EmulationStep ==
    ASSUME IInv,
           \/ Start \/ End \/ TakeLoad \/ LoadFile \/ Report
           \/ ClearName \/ ClearJob \/ ClearType
    PROVE  IInv'
<1>0. Typed /\ TypeOK /\ StoppedForGood /\ LoadsAreWhole /\ WholeIsWritten
  BY DEF IInv, Typed
<1>1. UNCHANGED <<slot, front, lock, saved, written>>
      /\ UNCHANGED <<writer, held, files, queued, started, finished, stopped>>
      /\ UNCHANGED core
  BY DEF Start, End, TakeLoad, LoadFile, Report, ClearName, ClearJob, ClearType,
         core, history, worker, works
<1>2. \A n \in Files \cup {NoName} : PathOf(n) \in Paths
  BY <1>0 DEF TypeOK, PathOf, Paths
<1>3. \A p \in Paths : files[p].type \in Types /\ files[p].id \in 0 .. MaxSaves
  BY <1>0 DEF TypeOK, Content
<1>4. written \subseteq 1 .. Len(saved) /\ Len(saved) \in Nat /\ Len(saved) <= MaxSaves
  BY <1>0, Facts DEF TypeOK
<1>5. /\ job' \in {"nothing", "save", "load"} /\ type' \in Types
      /\ fname' \in Files \cup {NoName} /\ serving' \in {"nothing", "save", "load"}
      /\ path' \in Paths \cup {NoName} /\ (emu' = "read" => path' \in Paths)
      /\ emu' \in {"off", "run", "read", "report", "clear", "clearjob", "cleartype"}
  <2>1. CASE Start \/ End \/ Report \/ ClearName \/ ClearJob \/ ClearType \/ LoadFile
    BY <1>0, <2>1
       DEF Start, End, Report, ClearName, ClearJob, ClearType, LoadFile, request, thread,
           TypeOK, Types
  <2>2. CASE TakeLoad
    <3>1. path' = PathOf(fname) /\ fname \in Files \cup {NoName} /\ fname' = fname
          /\ job' = job /\ serving' = "load" /\ emu' \in {"report", "read"}
      BY <1>0, <2>2 DEF TakeLoad, TypeOK
    <3>2. type' \in Types
      <4>1. fname # NoName => DetectType(fname) \subseteq Types
        BY <1>3, <3>1 DEF DetectType, Paths, Types
      <4> QED
        BY <1>0, <2>2, <4>1 DEF TakeLoad, TypeOK, Types
    <3> QED
      BY <1>0, <1>2, <3>1, <3>2 DEF TypeOK
  <2> QED
    BY <2>1, <2>2
<1>6. ret' \in 0 .. Len(saved) /\ starts' \in 0 .. MaxStarts
      /\ reported' \subseteq 1 .. Len(saved)
  <2>0. ret \in 0 .. Len(saved) /\ reported \subseteq 1 .. Len(saved)
        /\ starts \in 0 .. MaxStarts /\ MaxStarts \in Nat
    BY <1>0, <1>4, BoundAssumption DEF Typed, TypeOK
  <2>1. CASE Start \/ End \/ TakeLoad \/ ClearName \/ ClearJob \/ ClearType
    BY <1>4, <2>0, <2>1
       DEF Start, End, TakeLoad, ClearName, ClearJob, ClearType, thread, history
  <2>2. CASE Report
    BY <2>0, <2>2 DEF Report, thread
  <2>3. CASE LoadFile
    <3>1. path \in Paths
      BY <1>0, <2>3 DEF LoadFile, Typed
    <3>2. Readable(path) => files[path].id \in written
      BY <1>0, <3>1 DEF Readable, WholeIsWritten
    <3>3. ret' \in {0, files[path].id} /\ (Readable(path) \/ ret' = 0)
      BY <2>3 DEF LoadFile
    <3>4. UNCHANGED <<starts, reported>>
      BY <2>3 DEF LoadFile, history
    <3>5. ret' \in 0 .. Len(saved)
      BY <1>4, <3>2, <3>3
    <3> QED
      BY <2>0, <3>4, <3>5
  <2> QED
    BY <2>1, <2>2, <2>3
<1>7. Typed'
  <2>1. TypeOK'
    BY <1>0, <1>1, <1>4, <1>5, <1>6, BoundAssumption DEF TypeOK
  <2> QED
    BY <1>0, <1>1, <1>5, <1>6, <2>1 DEF Typed, Saves
<1>8. StoppedForGood'
  <2>1. stopped => emu' = "off"
    BY <1>0 DEF StoppedForGood, Start, End, TakeLoad, LoadFile, Report,
                ClearName, ClearJob, ClearType
  <2> QED
    BY <1>0, <1>1, <2>1 DEF StoppedForGood
<1>9. LoadsAreWhole'
  <2>1. CASE LoadFile
    <3>1. path \in Paths /\ path' = path
      BY <1>0, <2>1 DEF LoadFile, Typed
    <3>2. ret' # 0 => ret' = files[path].id /\ files[path].whole
      BY <2>1 DEF LoadFile, Readable
    <3> QED
      BY <1>0, <1>1, <3>1, <3>2 DEF LoadsAreWhole, WholeIsWritten
  <2>2. CASE TakeLoad
    BY <2>2 DEF TakeLoad, LoadsAreWhole
  <2>3. CASE Start \/ End \/ Report \/ ClearName \/ ClearJob \/ ClearType
    BY <2>3 DEF Start, End, Report, ClearName, ClearJob, ClearType, LoadsAreWhole, Loaded
  <2> QED
    BY <2>1, <2>2, <2>3
<1> QED
  BY <1>1, <1>7, <1>8, <1>9, CoreStaysTheSame DEF IInv

-----------------------------------------------------------------------------
(* A save: the worker's files are left alone, an own one is not a slot's.  *)
LEMMA SavedGrows ==
    ASSUME Typed, NEW p \in Paths, NEW t \in Types, saved' = Append(saved, [path |-> p, type |-> t])
    PROVE  /\ saved' \in Seq([path : Paths, type : Types])
           /\ Len(saved') = Len(saved) + 1
           /\ Saves' = Saves \cup {Len(saved) + 1} /\ Len(saved) + 1 \notin Saves
           /\ \A n \in Saves : saved'[n] = saved[n]
           /\ saved'[Len(saved) + 1] = [path |-> p, type |-> t]
<1>1. saved \in Seq([path : Paths, type : Types])
      /\ [path |-> p, type |-> t] \in [path : Paths, type : Types]
  BY DEF Typed, TypeOK
<1>2. Len(saved) \in Nat
  BY Facts
<1>3. /\ saved' \in Seq([path : Paths, type : Types]) /\ Len(saved') = Len(saved) + 1
      /\ \A n \in 1 .. Len(saved) : saved'[n] = saved[n]
      /\ saved'[Len(saved) + 1] = [path |-> p, type |-> t]
  BY <1>1, AppendProperties
<1> QED
  BY <1>2, <1>3 DEF Saves

LEMMA TakeSaveFacts ==
    ASSUME IInv, TakeSave
    PROVE  /\ path' \in Paths /\ type' \in Types
           /\ saved' = Append(saved, [path |-> path', type |-> type'])
           /\ path' \in Slots => type' = "m64p"
           /\ UNCHANGED <<started, finished, stopped, writer, held, lock, reported, starts>>
           /\ UNCHANGED <<job, fname, front>>
           /\ serving' = "save" /\ emu' = "report"
           /\ Len(saved) + 1 \in 1 .. MaxSaves
           /\ \/ type' = "m64p" /\ SaveM64p(path')
              \/ type' # "m64p" /\ queued' = queued /\ SavePj64(path', type')
<1>0. Typed /\ TypeOK
  BY DEF IInv, Typed
<1> DEFINE p == PathOf(fname)
           t == IF fname = NoName \/ type = "unknown" THEN "m64p" ELSE type
<1>1. /\ path' = p /\ type' = t /\ saved' = Append(saved, [path |-> p, type |-> t])
      /\ \/ t = "m64p" /\ SaveM64p(p)
         \/ t \in {"zip", "unc"} /\ SavePj64(p, t)
  BY DEF TakeSave, SaveTo
<1>2. /\ p \in Paths /\ t \in Types /\ (p \in Slots => t = "m64p")
  BY <1>0, NameAssumption DEF TypeOK, PathOf, Paths, Types, Slots
<1>3. /\ UNCHANGED <<writer, held, lock, reported, starts, job, fname, front>>
      /\ serving' = "save" /\ emu' = "report"
  BY DEF TakeSave, worker
<1>4. Len(saved) + 1 \in 1 .. MaxSaves
  BY <1>0, Facts, BoundAssumption DEF TakeSave
<1> HIDE DEF p, t
<1>5. UNCHANGED <<started, finished, stopped>>
  BY <1>1 DEF SaveM64p, SavePj64, Queue!Queue, works
<1>6. t \in {"zip", "unc"} => t # "m64p"
  OBVIOUS
<1>7. t \in {"zip", "unc"} /\ SavePj64(p, t) => queued' = queued
  BY DEF SavePj64, works
<1> QED
  BY <1>1, <1>2, <1>3, <1>4, <1>5, <1>6, <1>7

(* What savestates_save_pj64_zip and _unc leave of the files.              *)
LEMMA Pj64Facts ==
    ASSUME Typed, NEW p \in Paths, NEW t \in Types, SavePj64(p, t)
    PROVE  /\ slot' = slot
           /\ ret' \in {0, Len(saved) + 1}
           /\ \/ /\ files' = [files EXCEPT ![p] = [type |-> t, id |-> Len(saved) + 1, whole |-> TRUE]]
                 /\ written' = written \cup {Len(saved) + 1}
              \/ files' = files /\ written' = written
              \/ /\ files' = [files EXCEPT ![p] = [type |-> t, id |-> Len(saved) + 1, whole |-> FALSE]]
                 /\ written' = written
<1>1. files \in [Paths -> Content]
  BY DEF Typed, TypeOK
<1>2. [files EXCEPT ![p] = files[p]] = files
  BY <1>1
<1> QED
  BY <1>2 DEF SavePj64

LEMMA TakeSaveIsTyped ==
    ASSUME IInv, TakeSave
    PROVE  Typed' /\ LoadsAreWhole' /\ StoppedForGood'
<1>0. Typed /\ TypeOK /\ StoppedForGood
  BY DEF IInv, Typed
<1> DEFINE n == Len(saved) + 1
<1>1. /\ path' \in Paths /\ type' \in Types
      /\ saved' = Append(saved, [path |-> path', type |-> type'])
      /\ serving' = "save" /\ emu' = "report"
      /\ n \in 1 .. MaxSaves
      /\ \/ SaveM64p(path')
         \/ queued' = queued /\ SavePj64(path', type')
  BY TakeSaveFacts
<1>2. /\ UNCHANGED <<started, finished, stopped, writer, held, lock, reported, starts>>
      /\ UNCHANGED <<job, fname, front>>
  BY TakeSaveFacts
<1>3. /\ saved' \in Seq([path : Paths, type : Types])
      /\ Len(saved') = n /\ Saves' = Saves \cup {n}
  BY <1>0, <1>1, SavedGrows
<1>4. Len(saved) \in Nat /\ n \in Nat /\ Len(saved) <= n /\ Saves' = 1 .. n /\ n \in Saves'
      /\ Saves \subseteq Saves'
  BY <1>0, <1>3, Facts DEF Saves
<1>5. /\ slot' \in Slots /\ ret' \in 0 .. n /\ ret' \in 0 .. MaxSaves
      /\ files' \in [Paths -> Content] /\ written' \subseteq Saves'
      /\ queued' \in Seq(1 .. MaxSaves) /\ queued' \in Seq(Saves')
      /\ Len(queued') \in {Len(queued), Len(queued) + 1}
      /\ Len(queued') <= n
  <2>0. /\ slot \in Slots /\ files \in [Paths -> Content] /\ written \subseteq Saves
        /\ queued \in Seq(1 .. MaxSaves) /\ queued \in Seq(Saves) /\ Len(queued) <= Len(saved)
        /\ Len(queued) \in Nat
    BY <1>0, Facts DEF TypeOK, Typed, Saves
  <2>1. queued \in Seq(Saves')
    <3>1. queued \in [1 .. Len(queued) -> Saves]
      BY <2>0, LenProperties
    <3>2. queued \in [1 .. Len(queued) -> Saves']
      BY <1>4, <3>1
    <3> QED
      BY <2>0, <3>2, SeqDef
  <2>2. CASE SaveM64p(path')
    <3>1. /\ queued' = Append(queued, n) /\ files' = files /\ written' = written
          /\ slot' \in {slot, NextSlot} /\ ret' = n
      BY <2>2 DEF SaveM64p, Queue!Queue
    <3>2. NextSlot \in Slots
      BY <2>0, SlotAssumption DEF NextSlot, Slots
    <3>3. queued' \in Seq(1 .. MaxSaves) /\ queued' \in Seq(Saves') /\ Len(queued') = Len(queued) + 1
      BY <1>1, <1>4, <2>0, <2>1, <3>1, AppendProperties
    <3> QED
      BY <1>1, <1>4, <2>0, <3>1, <3>2, <3>3
  <2>3. CASE queued' = queued /\ SavePj64(path', type')
    <3>1. \A w \in BOOLEAN : [type |-> type', id |-> n, whole |-> w] \in Content
      BY <1>1 DEF Content
    <3>2. files' \in [Paths -> Content] /\ written' \subseteq Saves'
          /\ slot' = slot /\ ret' \in {0, n}
      BY <1>0, <1>1, <1>4, <2>0, <2>3, <3>1, Pj64Facts
    <3>3. queued' = queued /\ Len(queued') = Len(queued) /\ Len(queued') <= n
      BY <1>4, <2>0, <2>3, Facts, <1>0
    <3>4. ret' \in 0 .. n /\ ret' \in 0 .. MaxSaves
      BY <1>1, <1>4, <3>2, BoundAssumption
    <3> QED
      BY <2>0, <2>1, <3>2, <3>3, <3>4
  <2> QED
    BY <1>1, <2>2, <2>3
<1> HIDE DEF n
<1>6. started' \in 0 .. Len(queued') /\ reported' \subseteq 1 .. Len(saved') /\ n <= MaxSaves
  BY <1>0, <1>1, <1>2, <1>3, <1>4, <1>5, Facts DEF TypeOK
<1>7. TypeOK'
  BY <1>0, <1>1, <1>2, <1>3, <1>4, <1>5, <1>6 DEF TypeOK, Saves
<1>8. Typed'
  BY <1>0, <1>1, <1>2, <1>3, <1>4, <1>5, <1>7 DEF Typed, Saves
<1>9. ~stopped
  BY <1>0 DEF TakeSave, StoppedForGood
<1> QED
  BY <1>0, <1>1, <1>2, <1>8, <1>9 DEF LoadsAreWhole, Loaded, StoppedForGood

LEMMA TakeSaveStep ==
    ASSUME IInv, TakeSave
    PROVE  IInv'
<1>0. /\ Typed /\ TypeOK /\ QueueInOrder /\ WholeIsWritten /\ LastStands /\ SlotsHoldStates
  BY DEF IInv, Typed
<1> DEFINE n == Len(saved) + 1
           p == path'
<1>1. /\ p \in Paths /\ type' \in Types
      /\ saved' = Append(saved, [path |-> p, type |-> type'])
      /\ p \in Slots => type' = "m64p"
      /\ UNCHANGED <<started, finished, stopped, writer>>
      /\ \/ type' = "m64p" /\ SaveM64p(p)
         \/ type' # "m64p" /\ queued' = queued /\ SavePj64(p, type')
  BY TakeSaveFacts
<1>2. /\ Saves' = Saves \cup {n} /\ n \notin Saves
      /\ \A m \in Saves : saved'[m] = saved[m]
      /\ saved'[n].path = p /\ saved'[n].type = type'
  <2>1. /\ Saves' = Saves \cup {n} /\ n \notin Saves
        /\ \A m \in Saves : saved'[m] = saved[m]
        /\ saved'[n] = [path |-> p, type |-> type']
    BY <1>0, <1>1, SavedGrows
  <2> QED
    BY <2>1
<1>3. /\ Len(queued) \in Nat /\ \A i \in 1 .. Len(queued) : queued[i] \in Saves
      /\ started \in 0 .. Len(queued) /\ written \subseteq Saves /\ n \in Nat
      /\ Saves = 1 .. Len(saved) /\ Len(saved) \in Nat
      /\ \A m \in Saves : saved[m].path \in Paths
  BY <1>0, Facts DEF TypeOK, Saves
<1>4. Done' = Done /\ Done \in 0 .. Len(queued) \cup {-1} /\ Done <= started
  BY <1>1, <1>3 DEF Done
<1>5. \A i \in 1 .. Len(queued) : queued'[i] = queued[i]
  BY <1>0, <1>1, <1>3, AppendProperties, SMTT(30) DEF SaveM64p, Queue!Queue, TypeOK
<1>6. finished \subseteq Saves
  BY <1>0, <1>3, <1>4 DEF QueueInOrder
<1>7. writer # "idle" => Target' = Target
  <2>1. writer # "idle" => started \in 1 .. Len(queued) /\ queued[started] \in Saves
    BY <1>0, WorkFacts DEF Work
  <2> QED
    BY <1>1, <1>2, <1>5, <2>1 DEF Work, Target
<1> HIDE DEF n, p
<1>8. CASE type' = "m64p" /\ SaveM64p(p)
  <2>1. queued' = Append(queued, n) /\ files' = files /\ written' = written
    BY <1>8 DEF SaveM64p, Queue!Queue, n
  <2>2. Len(queued') = Len(queued) + 1 /\ queued'[Len(queued) + 1] = n
    BY <1>0, <1>3, <2>1, AppendProperties DEF TypeOK
  <2>3. QueueInOrder'
    <3>1. \A i, j \in 1 .. Len(queued') : i < j => queued'[i] < queued'[j]
      <4> SUFFICES ASSUME NEW i \in 1 .. Len(queued'), NEW j \in 1 .. Len(queued'), i < j
                   PROVE  queued'[i] < queued'[j]
        OBVIOUS
      <4>1. i \in 1 .. Len(queued) /\ queued'[i] = queued[i] /\ queued[i] \in 1 .. Len(saved)
        BY <1>3, <1>5, <2>2
      <4>2. CASE j = Len(queued) + 1
        BY <1>3, <2>2, <4>1, <4>2 DEF n
      <4>3. CASE j # Len(queued) + 1
        <5>1. j \in 1 .. Len(queued) /\ queued'[j] = queued[j]
          <6>1. j \in 1 .. (Len(queued) + 1)
            BY <2>2
          <6>2. j \in 1 .. Len(queued)
            <7>1. \A m \in Nat : \A k \in 1 .. (m + 1) : k # m + 1 => k \in 1 .. m
              OBVIOUS
            <7>2. Len(queued) \in Nat
              BY <1>3
            <7> QED
              BY <4>3, <6>1, <7>1, <7>2
          <6> QED
            BY <1>5, <6>2
        <5> QED
          BY <1>0, <4>1, <5>1 DEF QueueInOrder
      <4> QED
        BY <4>2, <4>3
    <3>2. \A m \in Saves' :
             saved'[m].type = "m64p" <=> \E i \in 1 .. Len(queued') : queued'[i] = m
      <4> SUFFICES ASSUME NEW m \in Saves'
                   PROVE  saved'[m].type = "m64p" <=> \E i \in 1 .. Len(queued') : queued'[i] = m
        OBVIOUS
      <4>1. CASE m = n
        BY <1>2, <1>3, <1>8, <2>2, <4>1
      <4>2. CASE m \in Saves /\ m # n
        <5>1. saved[m].type = "m64p" <=> \E i \in 1 .. Len(queued) : queued[i] = m
          BY <1>0, <4>2 DEF QueueInOrder
        <5>2. (\E i \in 1 .. Len(queued') : queued'[i] = m)
                 <=> (\E i \in 1 .. Len(queued) : queued[i] = m)
          BY <1>3, <1>5, <2>2, <4>2
        <5> QED
          BY <1>2, <4>2, <5>1, <5>2
      <4> QED
        BY <1>2, <4>1, <4>2
    <3>3. \A m \in Saves' : saved'[m].path \in Slots => saved'[m].type = "m64p"
      BY <1>0, <1>1, <1>2 DEF QueueInOrder, p
    <3>4. finished' = {queued'[i] : i \in 1 .. Done'}
      <4>1. \A i \in 1 .. Done : queued'[i] = queued[i]
        BY <1>3, <1>4, <1>5
      <4>2. finished' = {queued[i] : i \in 1 .. Done}
        BY <1>0, <1>1 DEF QueueInOrder
      <4>3. {queued'[i] : i \in 1 .. Done} = {queued[i] : i \in 1 .. Done}
        BY <4>1
      <4>4. 1 .. Done' = 1 .. Done
        BY <1>4
      <4> QED
        BY <4>2, <4>3, <4>4
    <3>5. \A m \in written' : saved'[m].type = "m64p" => m \in finished'
      BY <1>0, <1>1, <1>2, <1>3, <2>1 DEF QueueInOrder
    <3> QED
      BY <3>1, <3>2, <3>3, <3>4, <3>5 DEF QueueInOrder
  <2>4. WholeIsWritten'
    BY <1>0, <1>2, <1>3, <2>1 DEF WholeIsWritten
  <2>5. LastStands'
    <3>1. \A i \in 1 .. started : saved'[queued'[i]] = saved[queued[i]] /\ queued'[i] = queued[i]
      BY <1>2, <1>3, <1>5
    <3>2. \A i \in 1 .. Done : i \in 1 .. started /\ (i + 1) .. started \subseteq 1 .. started
      BY <1>3, <1>4
    <3>3. \A i \in 1 .. Done :
             LET s == saved'[queued'[i]].path
             IN  s \in Slots /\ queued'[i] \in written
                   /\ (\A j \in (i + 1) .. started : saved'[queued'[j]].path # s)
                 => files[s].id = queued'[i] /\ files[s].whole
      BY <1>0, <3>1, <3>2 DEF LastStands
    <3> QED
      BY <1>1, <1>4, <2>1, <3>3 DEF LastStands
  <2>6. SlotsHoldStates'
    BY <1>0, <1>1, <1>2, <1>3, <1>6, <1>7, <2>1 DEF SlotsHoldStates, Failed
  <2> QED
    BY <2>3, <2>4, <2>5, <2>6, TakeSaveIsTyped DEF IInv
<1>9. CASE type' # "m64p" /\ queued' = queued /\ SavePj64(p, type')
  <2>1. p \notin Slots
    BY <1>1, <1>9 DEF p
  <2>2. \/ /\ files' = [files EXCEPT ![p] = [type |-> type', id |-> n, whole |-> TRUE]]
           /\ written' = written \cup {n}
        \/ files' = files /\ written' = written
        \/ /\ files' = [files EXCEPT ![p] = [type |-> type', id |-> n, whole |-> FALSE]]
           /\ written' = written
    BY <1>0, <1>1, <1>9, Pj64Facts DEF n, p
  <2>3. files \in [Paths -> Content] /\ Slots \subseteq Paths
    BY <1>0 DEF TypeOK, Paths
  <2>4. \A s \in Slots : files'[s] = files[s]
    BY <2>1, <2>2, <2>3
  <2>5. written \subseteq written' /\ written' \subseteq written \cup {n}
    BY <2>2
  <2>6. QueueInOrder'
    <3>1. \A m \in Saves' : saved'[m].type = "m64p" <=> \E i \in 1 .. Len(queued') : queued'[i] = m
      BY <1>0, <1>2, <1>3, <1>9 DEF QueueInOrder
    <3>2. \A m \in Saves' : saved'[m].path \in Slots => saved'[m].type = "m64p"
      BY <1>0, <1>2, <2>1 DEF QueueInOrder
    <3>3. \A m \in written' : saved'[m].type = "m64p" => m \in finished'
      BY <1>0, <1>1, <1>2, <1>3, <1>9, <2>5 DEF QueueInOrder
    <3>4. finished' = {queued'[i] : i \in 1 .. Done'}
      BY <1>0, <1>1, <1>4, <1>9 DEF QueueInOrder
    <3>5. \A i, j \in 1 .. Len(queued') : i < j => queued'[i] < queued'[j]
      BY <1>0, <1>9 DEF QueueInOrder
    <3> QED
      BY <3>1, <3>2, <3>3, <3>4, <3>5 DEF QueueInOrder
  <2>7. WholeIsWritten'
    <3> SUFFICES ASSUME NEW f \in Paths, files'[f].whole
                 PROVE  files'[f].id \in written' /\ saved'[files'[f].id].path = f
      BY DEF WholeIsWritten
    <3>1. CASE files'[f] = files[f]
      <4>1. files[f].id \in written /\ saved[files[f].id].path = f
        BY <1>0, <3>1 DEF WholeIsWritten
      <4>2. files[f].id \in Saves
        BY <1>3, <4>1
      <4>3. saved'[files[f].id] = saved[files[f].id]
        BY <1>2, <4>2
      <4> QED
        BY <2>5, <3>1, <4>1, <4>3
    <3>2. CASE files'[f] # files[f]
      <4>1. f = p /\ files'[f] = [type |-> type', id |-> n, whole |-> TRUE]
               /\ written' = written \cup {n}
        <5>1. files' # files /\ f = p
          BY <2>2, <2>3, <3>2
        <5>2. \A c : [files EXCEPT ![p] = c][f] = c
          BY <2>3, <5>1
        <5>3. files'[f] # [type |-> type', id |-> n, whole |-> FALSE]
          OBVIOUS
        <5> QED
          BY <2>2, <5>1, <5>2, <5>3
      <4> QED
        BY <1>2, <4>1
    <3> QED
      BY <3>1, <3>2
  <2>8. LastStands'
    <3>1. \A i \in 1 .. started : saved'[queued'[i]] = saved[queued[i]] /\ queued'[i] = queued[i]
          /\ (queued[i] \in written' => queued[i] \in written)
      BY <1>2, <1>3, <1>5, <2>5
    <3>2. \A i \in 1 .. Done : i \in 1 .. started /\ (i + 1) .. started \subseteq 1 .. started
      BY <1>3, <1>4
    <3>3. \A i \in 1 .. Done :
             LET s == saved'[queued'[i]].path
             IN  s \in Slots /\ queued'[i] \in written'
                   /\ (\A j \in (i + 1) .. started : saved'[queued'[j]].path # s)
                 => files[s].id = queued'[i] /\ files[s].whole
      BY <1>0, <3>1, <3>2 DEF LastStands
    <3> QED
      BY <1>1, <1>4, <2>4, <3>3 DEF LastStands
  <2>9. SlotsHoldStates'
    <3> SUFFICES ASSUME NEW s \in Slots,
                        \E m \in written' : saved'[m].path = s,
                        \A m \in finished' : Failed(m)' => saved'[m].path # s,
                        ~(writer' = "open" /\ Target' = s)
                 PROVE  files[s].whole /\ files[s].type = "m64p"
      BY <2>4 DEF SlotsHoldStates
    <3>1. \E m \in written : saved[m].path = s
      BY <1>2, <1>3, <2>1, <2>5
    <3>2. \A m \in finished : Failed(m) => saved[m].path # s
      BY <1>1, <1>2, <1>6, <2>5 DEF Failed
    <3>3. ~(writer = "open" /\ Target = s)
      BY <1>1, <1>7
    <3> QED
      BY <1>0, <3>1, <3>2, <3>3 DEF SlotsHoldStates
  <2> QED
    BY <2>6, <2>7, <2>8, <2>9, TakeSaveIsTyped DEF IInv
<1> QED
  BY <1>1, <1>8, <1>9 DEF p

-----------------------------------------------------------------------------
(* The worker.                                                             *)

LEMMA LockFileStep ==
    ASSUME IInv, LockFile
    PROVE  IInv'
<1>0. /\ Typed /\ TypeOK /\ QueueInOrder /\ StoppedForGood /\ WholeIsWritten
      /\ LoadsAreWhole /\ LastStands /\ SlotsHoldStates
  BY DEF IInv, Typed
<1>1. /\ writer = "idle" /\ writer' = "locked" /\ held' = held + 1
      /\ started < Len(queued) /\ started' = started + 1
      /\ UNCHANGED <<queued, finished, stopped, saved, written, reported>>
      /\ UNCHANGED <<request, slot, front, emu, thread, lock, files, starts>>
  BY DEF LockFile, Queue!Start, history
<1>2. UNCHANGED <<job, type, fname, serving, path, ret>>
  BY <1>1 DEF request, thread
<1>3. /\ Len(queued) \in Nat /\ started \in Nat /\ held \in Nat /\ Saves' = Saves
      /\ held <= started /\ Len(queued) <= Len(saved) /\ Len(saved) <= MaxSaves
      /\ Len(saved) \in Nat /\ MaxSaves \in Nat
  BY <1>0, <1>1, Facts, BoundAssumption DEF Typed, Saves
<1>4. Done' = Done /\ Done = started
  BY <1>1, <1>3 DEF Done
<1>5. Typed'
  <2>1. started' \in 0 .. Len(queued) /\ held' \in 0 .. MaxSaves /\ held' >= 1 /\ started' >= 1
        /\ held' <= started'
    BY <1>1, <1>3
  <2>2. TypeOK'
    BY <1>0, <1>1, <1>2, <2>1 DEF TypeOK
  <2> QED
    BY <1>0, <1>1, <1>2, <1>3, <2>1, <2>2 DEF Typed
<1>6. QueueInOrder'
  BY <1>0, <1>1, <1>3, <1>4 DEF QueueInOrder
<1>7. StoppedForGood'
  <2>1. ~stopped
    BY <1>0, <1>1, <1>3 DEF StoppedForGood
  <2> QED
    BY <1>0, <1>1, <2>1 DEF StoppedForGood
<1>8. WholeIsWritten' /\ LoadsAreWhole'
  BY <1>0, <1>1, <1>2 DEF WholeIsWritten, LoadsAreWhole, Loaded
<1>9. LastStands'
  <2>1. \A i \in 1 .. Done : (i + 1) .. started \subseteq (i + 1) .. started'
    BY <1>1, <1>3
  <2>2. \A i \in 1 .. Done :
           LET s == saved[queued[i]].path
           IN  s \in Slots /\ queued[i] \in written
                 /\ (\A j \in (i + 1) .. started' : saved[queued[j]].path # s)
               => files[s].id = queued[i] /\ files[s].whole
    BY <1>0, <2>1 DEF LastStands
  <2> QED
    BY <1>1, <1>4, <2>2 DEF LastStands
<1>10. SlotsHoldStates'
  BY <1>0, <1>1 DEF SlotsHoldStates, Failed
<1> QED
  BY <1>5, <1>6, <1>7, <1>8, <1>9, <1>10 DEF IInv

(* OpenFile and WriteFile put something into the file of the worker's save.*)
LEMMA TargetGets ==
    ASSUME Typed, QueueInOrder, writer # "idle", NEW w \in BOOLEAN,
           files' = [files EXCEPT ![Target] = [type |-> "m64p", id |-> Work, whole |-> w]]
    PROVE  /\ files' \in [Paths -> Content]
           /\ files'[Target] = [type |-> "m64p", id |-> Work, whole |-> w]
           /\ \A p \in Paths : p # Target => files'[p] = files[p]
<1>1. files \in [Paths -> Content] /\ Target \in Paths /\ Work \in 0 .. MaxSaves
  BY WorkFacts DEF Typed, TypeOK
<1>2. [type |-> "m64p", id |-> Work, whole |-> w] \in Content
  BY <1>1 DEF Content, Types
<1> QED
  BY <1>1, <1>2

LEMMA OpenFileStep ==
    ASSUME IInv, OpenFile
    PROVE  IInv'
<1>0. /\ Typed /\ TypeOK /\ QueueInOrder /\ StoppedForGood /\ WholeIsWritten
      /\ LoadsAreWhole /\ LastStands /\ SlotsHoldStates
  BY DEF IInv, Typed
<1>1. /\ writer = "locked" /\ writer' = "open"
      /\ files' = [files EXCEPT ![Target] = [type |-> "m64p", id |-> Work, whole |-> FALSE]]
      /\ UNCHANGED <<queued, started, finished, stopped, saved, written, reported>>
      /\ UNCHANGED <<request, slot, front, emu, thread, lock, held, starts>>
  BY DEF OpenFile, works, history
<1>2. UNCHANGED <<job, type, fname, serving, path, ret>>
  BY <1>1 DEF request, thread
<1>3. Saves' = Saves /\ Done' = Done /\ Done = started - 1 /\ Target' = Target
      /\ started \in 1 .. Len(queued) /\ Target \in Paths
  BY <1>0, <1>1, WorkFacts DEF Saves, Done, Target, Work
<1>4. /\ files' \in [Paths -> Content] /\ ~files'[Target].whole
      /\ \A p \in Paths : p # Target => files'[p] = files[p]
  <2>1. /\ files' \in [Paths -> Content]
        /\ files'[Target] = [type |-> "m64p", id |-> Work, whole |-> FALSE]
        /\ \A p \in Paths : p # Target => files'[p] = files[p]
    BY <1>0, <1>1, TargetGets
  <2> QED
    BY <2>1
<1>5. Typed'
  <2>1. TypeOK'
    BY <1>0, <1>1, <1>2, <1>4 DEF TypeOK
  <2> QED
    BY <1>0, <1>1, <1>2, <1>3, <2>1 DEF Typed
<1>6. QueueInOrder'
  BY <1>0, <1>1, <1>3 DEF QueueInOrder
<1>7. StoppedForGood' /\ LoadsAreWhole'
  BY <1>0, <1>1, <1>2 DEF StoppedForGood, LoadsAreWhole, Loaded
<1>8. WholeIsWritten'
  BY <1>0, <1>1, <1>4 DEF WholeIsWritten
<1>9. LastStands'
  <2>1. SUFFICES ASSUME NEW i \in 1 .. Done, saved[queued[i]].path \in Slots,
                        queued[i] \in written,
                        \A j \in (i + 1) .. started : saved[queued[j]].path # saved[queued[i]].path
                 PROVE  /\ files'[saved[queued[i]].path].id = queued[i]
                        /\ files'[saved[queued[i]].path].whole
    BY <1>1, <1>3 DEF LastStands
  <2>2. started \in (i + 1) .. started
    BY <1>3
  <2>3. saved[queued[i]].path # Target /\ saved[queued[i]].path \in Paths
    BY <2>1, <2>2 DEF Target, Work, Paths
  <2> QED
    BY <1>0, <1>4, <2>1, <2>3 DEF LastStands
<1>10. SlotsHoldStates'
  <2>1. \A s \in Slots : s \in Paths
    BY DEF Paths
  <2> QED
    BY <1>0, <1>1, <1>3, <1>4, <2>1 DEF SlotsHoldStates, Failed
<1> QED
  BY <1>5, <1>6, <1>7, <1>8, <1>9, <1>10 DEF IInv

(* The works the worker is through with are one more.                      *)
LEMMA FinishFacts ==
    ASSUME Typed, QueueInOrder, writer # "idle", writer' = "idle", Queue!Finish(Work)
    PROVE  /\ UNCHANGED <<queued, started, stopped>>
           /\ finished' = finished \cup {Work} /\ finished' \subseteq 1 .. MaxSaves
           /\ finished \subseteq 1 .. MaxSaves
           /\ Done' = started /\ Done = started - 1 /\ started \in 1 .. Len(queued)
           /\ Work = queued[started] /\ Work \in 1 .. MaxSaves
           /\ finished' = {queued'[i] : i \in 1 .. Done'}
<1>1. UNCHANGED <<queued, started, stopped>> /\ finished' = finished \cup {Work}
  BY DEF Queue!Finish
<1>2. /\ started \in 1 .. Len(queued) /\ Done = started - 1 /\ Work \in 1 .. MaxSaves
      /\ finished \subseteq 1 .. MaxSaves
  BY WorkFacts DEF Typed, TypeOK
<1>3. Done' = started
  BY <1>1 DEF Done
<1>4. {queued[i] : i \in 1 .. started} = {queued[i] : i \in 1 .. (started - 1)} \cup {queued[started]}
  <2>1. 1 .. started = 1 .. (started - 1) \cup {started}
    BY <1>2
  <2> QED
    BY <2>1
<1>5. finished' = {queued'[i] : i \in 1 .. Done'}
  <2>1. finished' = {queued[i] : i \in 1 .. started}
    BY <1>1, <1>2, <1>4 DEF QueueInOrder, Work
  <2> QED
    BY <1>1, <1>3, <2>1
<1> QED
  BY <1>1, <1>2, <1>3, <1>5 DEF Work

LEMMA WriteFileStep ==
    ASSUME IInv, WriteFile
    PROVE  IInv'
<1>0. /\ Typed /\ TypeOK /\ QueueInOrder /\ StoppedForGood /\ WholeIsWritten
      /\ LoadsAreWhole /\ LastStands /\ SlotsHoldStates
  BY DEF IInv, Typed
<1>1. /\ writer = "open" /\ writer' = "idle" /\ held' = held - 1
      /\ files' = [files EXCEPT ![Target] = [type |-> "m64p", id |-> Work, whole |-> TRUE]]
      /\ written' = written \cup {Work} /\ Queue!Finish(Work)
      /\ UNCHANGED <<saved, reported>>
      /\ UNCHANGED <<request, slot, front, emu, thread, lock, starts>>
  BY DEF WriteFile
<1>2. UNCHANGED <<job, type, fname, serving, path, ret>>
  BY <1>1 DEF request, thread
<1>3. /\ Target \in Paths /\ Work \in Saves /\ saved[Work].type = "m64p"
      /\ Work \notin finished /\ Saves' = Saves
  BY <1>0, <1>1, WorkFacts DEF Saves
<1>4. /\ UNCHANGED <<queued, started, stopped>>
      /\ finished' = finished \cup {Work} /\ finished' \subseteq 1 .. MaxSaves
      /\ Done' = started /\ Done = started - 1 /\ started \in 1 .. Len(queued)
      /\ Work = queued[started]
      /\ finished' = {queued'[i] : i \in 1 .. Done'}
  BY <1>0, <1>1, FinishFacts
<1>5. /\ files' \in [Paths -> Content]
      /\ files'[Target] = [type |-> "m64p", id |-> Work, whole |-> TRUE]
      /\ \A p \in Paths : p # Target => files'[p] = files[p]
  BY <1>0, <1>1, TargetGets
<1>6. Typed'
  <2>1. held' \in 0 .. MaxSaves /\ held' <= started /\ written' \subseteq 1 .. Len(saved)
    <3>1. held \in Nat /\ held >= 1 /\ held <= started /\ started \in Nat
          /\ held \in 0 .. MaxSaves /\ MaxSaves \in Nat
      BY <1>0, <1>1, Facts, BoundAssumption DEF Typed, TypeOK
    <3>2. written \subseteq 1 .. Len(saved)
      BY <1>0 DEF TypeOK
    <3> QED
      BY <1>1, <1>3, <3>1, <3>2 DEF Saves
  <2>2. TypeOK'
    BY <1>0, <1>1, <1>2, <1>4, <1>5, <2>1 DEF TypeOK
  <2> QED
    BY <1>0, <1>1, <1>2, <1>3, <1>4, <2>1, <2>2 DEF Typed
<1>7. QueueInOrder'
  <2>1. \A n \in written' : saved'[n].type = "m64p" => n \in finished'
    BY <1>0, <1>1, <1>4 DEF QueueInOrder
  <2>2. /\ \A i, j \in 1 .. Len(queued') : i < j => queued'[i] < queued'[j]
        /\ \A n \in Saves' : saved'[n].type = "m64p" <=> \E i \in 1 .. Len(queued') : queued'[i] = n
        /\ \A n \in Saves' : saved'[n].path \in Slots => saved'[n].type = "m64p"
    BY <1>0, <1>1, <1>3, <1>4 DEF QueueInOrder
  <2> QED
    BY <1>4, <2>1, <2>2 DEF QueueInOrder
<1>8. StoppedForGood' /\ LoadsAreWhole'
  BY <1>0, <1>1, <1>2, <1>4 DEF StoppedForGood, LoadsAreWhole, Loaded
<1>9. WholeIsWritten'
  <2> SUFFICES ASSUME NEW p \in Paths, files'[p].whole
               PROVE  files'[p].id \in written' /\ saved'[files'[p].id].path = p
    BY DEF WholeIsWritten
  <2>1. CASE p = Target
    BY <1>1, <1>5, <2>1 DEF Target
  <2>2. CASE p # Target
    BY <1>0, <1>1, <1>5, <2>2 DEF WholeIsWritten
  <2> QED
    BY <2>1, <2>2
<1>10. LastStands'
  <2>1. SUFFICES ASSUME NEW i \in 1 .. started, saved[queued[i]].path \in Slots,
                        queued[i] \in written',
                        \A j \in (i + 1) .. started : saved[queued[j]].path # saved[queued[i]].path
                 PROVE  /\ files'[saved[queued[i]].path].id = queued[i]
                        /\ files'[saved[queued[i]].path].whole
    BY <1>1, <1>4 DEF LastStands
  <2>2. CASE i = started
    BY <1>4, <1>5, <2>2 DEF Target
  <2>3. CASE i # started
    <3>1. i \in 1 .. Done /\ started \in (i + 1) .. started /\ i \in 1 .. Len(queued) /\ i < started
      BY <1>4, <2>3
    <3>2. queued[i] < queued[started] /\ queued[i] \in Nat /\ queued[started] \in Nat
      BY <1>0, <1>4, <3>1, Facts DEF QueueInOrder, Saves
    <3>3. queued[i] \in written
      BY <1>1, <1>4, <2>1, <3>2
    <3>4. saved[queued[i]].path # Target /\ saved[queued[i]].path \in Paths
      BY <2>1, <3>1 DEF Target, Work, Paths
    <3> QED
      BY <1>0, <1>5, <2>1, <3>1, <3>3, <3>4 DEF LastStands
  <2> QED
    BY <2>2, <2>3
<1>11. SlotsHoldStates'
  <2>1. SUFFICES ASSUME NEW s \in Slots,
                        \E n \in written' : saved[n].path = s,
                        \A n \in finished' : Failed(n)' => saved[n].path # s
                 PROVE  files'[s].whole /\ files'[s].type = "m64p"
    BY <1>1 DEF SlotsHoldStates
  <2>2. CASE s = Target
    BY <1>5, <2>2
  <2>3. CASE s # Target
    <3>1. \E n \in written : saved[n].path = s
      BY <1>1, <2>1, <2>3 DEF Target
    <3>2. \A n \in finished : Failed(n) => saved[n].path # s
      BY <1>1, <1>3, <1>4, <2>1 DEF Failed
    <3> QED
      BY <1>0, <1>5, <2>3, <3>1, <3>2 DEF SlotsHoldStates, Paths
  <2> QED
    BY <2>2, <2>3
<1> QED
  BY <1>6, <1>7, <1>8, <1>9, <1>10, <1>11 DEF IInv

LEMMA FailWriteStep ==
    ASSUME IInv, FailWrite
    PROVE  IInv'
<1>0. /\ Typed /\ TypeOK /\ QueueInOrder /\ StoppedForGood /\ WholeIsWritten
      /\ LoadsAreWhole /\ LastStands /\ SlotsHoldStates
  BY DEF IInv, Typed
<1>1. /\ writer # "idle" /\ writer' = "idle" /\ Queue!Finish(Work)
      /\ UNCHANGED <<saved, written, reported, files, held>>
      /\ UNCHANGED <<request, slot, front, emu, thread, lock, starts>>
  BY DEF FailWrite, history
<1>2. UNCHANGED <<job, type, fname, serving, path, ret>>
  BY <1>1 DEF request, thread
<1>3. Work \notin finished /\ Work \notin written /\ Saves' = Saves
  BY <1>0, <1>1, WorkFacts DEF Saves
<1>4. /\ UNCHANGED <<queued, started, stopped>>
      /\ finished' = finished \cup {Work} /\ finished' \subseteq 1 .. MaxSaves
      /\ Done' = started /\ Done = started - 1 /\ started \in 1 .. Len(queued)
      /\ Work = queued[started]
      /\ finished' = {queued'[i] : i \in 1 .. Done'}
  BY <1>0, <1>1, FinishFacts
<1>5. Typed'
  <2>1. TypeOK'
    BY <1>0, <1>1, <1>2, <1>4 DEF TypeOK
  <2> QED
    BY <1>0, <1>1, <1>2, <1>3, <1>4, <2>1 DEF Typed
<1>6. QueueInOrder'
  <2>1. /\ \A i, j \in 1 .. Len(queued') : i < j => queued'[i] < queued'[j]
        /\ \A n \in Saves' : saved'[n].type = "m64p" <=> \E i \in 1 .. Len(queued') : queued'[i] = n
        /\ \A n \in Saves' : saved'[n].path \in Slots => saved'[n].type = "m64p"
        /\ \A n \in written' : saved'[n].type = "m64p" => n \in finished'
    BY <1>0, <1>1, <1>3, <1>4 DEF QueueInOrder
  <2> QED
    BY <1>4, <2>1 DEF QueueInOrder
<1>7. StoppedForGood' /\ LoadsAreWhole' /\ WholeIsWritten'
  BY <1>0, <1>1, <1>2, <1>4 DEF StoppedForGood, LoadsAreWhole, Loaded, WholeIsWritten
<1>8. LastStands'
  <2>1. SUFFICES ASSUME NEW i \in 1 .. started, saved[queued[i]].path \in Slots,
                        queued[i] \in written,
                        \A j \in (i + 1) .. started : saved[queued[j]].path # saved[queued[i]].path
                 PROVE  /\ files[saved[queued[i]].path].id = queued[i]
                        /\ files[saved[queued[i]].path].whole
    BY <1>1, <1>4 DEF LastStands
  <2>2. i # started
    BY <1>3, <1>4, <2>1
  <2>3. i \in 1 .. Done
    BY <1>4, <2>2
  <2> QED
    BY <1>0, <2>1, <2>3 DEF LastStands
<1>9. SlotsHoldStates'
  <2>1. SUFFICES ASSUME NEW s \in Slots,
                        \E n \in written : saved[n].path = s,
                        \A n \in finished' : Failed(n)' => saved[n].path # s
                 PROVE  files[s].whole /\ files[s].type = "m64p"
    BY <1>1 DEF SlotsHoldStates
  <2>2. s # Target
    BY <1>1, <1>3, <1>4, <2>1 DEF Failed, Target
  <2>3. \A n \in finished : Failed(n) => saved[n].path # s
    BY <1>1, <1>4, <2>1 DEF Failed
  <2> QED
    BY <1>0, <2>1, <2>2, <2>3 DEF SlotsHoldStates
<1> QED
  BY <1>5, <1>6, <1>7, <1>8, <1>9 DEF IInv

(* CoreShutdown.                                                           *)
LEMMA ShutdownStep ==
    ASSUME IInv, StopQueue \/ Deinit
    PROVE  IInv'
<1>0. /\ Typed /\ TypeOK /\ QueueInOrder /\ StoppedForGood /\ WholeIsWritten
      /\ LoadsAreWhole /\ LastStands /\ SlotsHoldStates
  BY DEF IInv, Typed
<1>1. /\ UNCHANGED <<writer, held, files, queued, started, finished, saved, written, reported>>
      /\ UNCHANGED <<slot, front, emu, serving, path, ret, starts>>
  BY DEF StopQueue, Deinit, Queue!Stop, worker, works, history, thread
<1>2. Saves' = Saves /\ Done' = Done
  BY <1>1 DEF Saves, Done
<1>3. /\ job' \in {"nothing", "save", "load"} /\ type' \in Types
      /\ fname' \in Files \cup {NoName} /\ lock' \in BOOLEAN /\ stopped' \in BOOLEAN
  BY <1>0 DEF StopQueue, Deinit, Queue!Stop, request, works, TypeOK, Types
<1>4. Typed'
  <2>1. TypeOK'
    BY <1>0, <1>1, <1>3 DEF TypeOK
  <2> QED
    BY <1>0, <1>1, <1>2, <2>1 DEF Typed
<1>5. QueueInOrder' /\ WholeIsWritten' /\ LoadsAreWhole' /\ LastStands' /\ SlotsHoldStates'
  <2>1. QueueInOrder' /\ WholeIsWritten' /\ LoadsAreWhole'
    BY <1>0, <1>1, <1>2 DEF QueueInOrder, WholeIsWritten, LoadsAreWhole, Loaded
  <2>2. LastStands'
    BY <1>0, <1>1, <1>2 DEF LastStands
  <2>3. SlotsHoldStates'
    BY <1>0, <1>1 DEF SlotsHoldStates, Failed, Target, Work
  <2> QED
    BY <2>1, <2>2, <2>3
<1>6. StoppedForGood'
  <2>1. CASE Deinit
    BY <1>0, <1>1, <2>1 DEF Deinit, StoppedForGood, works
  <2>2. CASE StopQueue
    <3>1. emu = "off" /\ lock' = lock /\ \A i \in 1 .. Len(queued) : queued[i] \in finished
      BY <2>2 DEF StopQueue, Queue!Stop
    <3>2. writer = "idle"
      <4>1. SUFFICES ASSUME writer # "idle" PROVE FALSE
        OBVIOUS
      <4>2. queued[started] \notin finished /\ started \in 1 .. Len(queued)
        BY <1>0, <4>1, WorkFacts DEF Work
      <4> QED
        BY <3>1, <4>2
    <3>3. started = Len(queued)
      <4>1. SUFFICES ASSUME started # Len(queued) PROVE FALSE
        OBVIOUS
      <4>2. started + 1 \in 1 .. Len(queued) /\ started \in Nat
        BY <1>0, <4>1, Facts
      <4>3. PICK i \in 1 .. started : queued[i] = queued[started + 1]
        BY <1>0, <3>1, <3>2, <4>2 DEF QueueInOrder, Done
      <4>4. i \in 1 .. Len(queued) /\ i < started + 1
        BY <4>2
      <4>5. queued[i] < queued[started + 1] /\ queued[i] \in Nat
        BY <1>0, <4>2, <4>4, Facts DEF QueueInOrder, Saves
      <4> QED
        BY <4>3, <4>5
    <3> QED
      BY <1>0, <1>1, <2>2, <3>1, <3>2, <3>3 DEF StoppedForGood, StopQueue, Queue!Stop
  <2> QED
    BY <2>1, <2>2
<1> QED
  BY <1>4, <1>5, <1>6 DEF IInv

-----------------------------------------------------------------------------
LEMMA StepKeepsIInv == IInv /\ [Next]_vars => IInv'
<1> SUFFICES ASSUME IInv, [Next]_vars PROVE IInv'
  OBVIOUS
<1>1. CASE UNCHANGED vars
  <2>1. UNCHANGED core
    BY <1>1 DEF vars, history, core
  <2>2. UNCHANGED <<job, type, fname, slot, front, emu, serving, path, ret, writer, held, lock,
                    files, queued, started, finished, stopped, saved, written, reported, starts>>
    BY <1>1 DEF vars, request, thread, works, worker, history
  <2>3. Typed'
    BY <2>2 DEF IInv, Typed, TypeOK, Saves
  <2>4. StoppedForGood' /\ LoadsAreWhole'
    BY <2>2 DEF IInv, StoppedForGood, LoadsAreWhole, Loaded
  <2> QED
    BY <2>1, <2>3, <2>4, CoreStaysTheSame DEF IInv
<1>2. CASE AskFor \/ Set \/ (\E s \in Slots : SelectSlot(s))
  BY <1>2, FrontStep
<1>3. CASE Start \/ End \/ TakeLoad \/ LoadFile \/ Report \/ ClearName \/ ClearJob \/ ClearType
  BY <1>3, EmulationStep
<1>4. CASE TakeSave
  BY <1>4, TakeSaveStep
<1>5. CASE LockFile
  BY <1>5, LockFileStep
<1>6. CASE OpenFile
  BY <1>6, OpenFileStep
<1>7. CASE WriteFile
  BY <1>7, WriteFileStep
<1>8. CASE FailWrite
  BY <1>8, FailWriteStep
<1>9. CASE StopQueue \/ Deinit
  BY <1>9, ShutdownStep
<1> QED
  BY <1>1, <1>2, <1>3, <1>4, <1>5, <1>6, <1>7, <1>8, <1>9 DEF Next, Emulate, WriteStates

LEMMA IInvHolds == Spec => []IInv
BY InitIInv, StepKeepsIInv, PTL DEF Spec

(* Every reachable state is one the code's types allow.                    *)
THEOREM SavesAreTyped == Spec => []TypeOK
<1>1. IInv => TypeOK
  BY DEF IInv, Typed
<1> QED
  BY <1>1, IInvHolds, PTL

(* savestates_load: for any slots, files, failures and requests, what is   *)
(* loaded is a state that was saved to that file and written completely.   *)
THEOREM LoadIsASave == Spec => []LoadsAreWhole
<1>1. IInv => LoadsAreWhole
  BY DEF IInv
<1> QED
  BY <1>1, IInvHolds, PTL

(* A worker that is through has left in each slot the last state saved to  *)
(* it, however the saves were queued behind each other.                    *)
THEOREM SlotHoldsLastSave == Spec => []LastSaveStands
<1>1. IInv => LastSaveStands
  <2> SUFFICES ASSUME IInv, started = Len(queued), writer = "idle",
                      NEW n \in Saves, saved[n].path \in Slots,
                      \A m \in (n + 1) .. Len(saved) : saved[m].path # saved[n].path,
                      n \in written
               PROVE  files[saved[n].path].id = n /\ files[saved[n].path].whole
    BY DEF LastSaveStands, Saves
  <2>0. Typed /\ QueueInOrder /\ LastStands
    BY DEF IInv
  <2>1. PICK i \in 1 .. Len(queued) : queued[i] = n
    BY <2>0 DEF QueueInOrder
  <2>2. i \in 1 .. Done /\ Len(queued) \in Nat
    BY <2>0, Facts DEF Done
  <2>3. \A j \in (i + 1) .. started : saved[queued[j]].path # saved[n].path
    <3> SUFFICES ASSUME NEW j \in (i + 1) .. started
                 PROVE  saved[queued[j]].path # saved[n].path
      OBVIOUS
    <3>1. j \in 1 .. Len(queued) /\ i < j
      BY <2>2
    <3>2. n < queued[j] /\ queued[j] \in 1 .. Len(saved) /\ n \in Nat /\ Len(saved) \in Nat
      BY <2>0, <2>1, <3>1, Facts DEF QueueInOrder, Saves
    <3>3. queued[j] \in (n + 1) .. Len(saved)
      BY <3>2
    <3> QED
      BY <3>3
  <2> QED
    BY <2>0, <2>1, <2>2, <2>3 DEF LastStands
<1> QED
  BY <1>1, IInvHolds, PTL

(* CoreShutdown destroys savestates_lock only when neither the worker nor  *)
(* the emulation thread can want it any more.                              *)
THEOREM LockIsLast == Spec => []LockOutlivesUse
<1>1. IInv => LockOutlivesUse
  BY DEF IInv, StoppedForGood, LockOutlivesUse
<1> QED
  BY <1>1, IInvHolds, PTL

(* A load from a slot that was saved to, never in vain, succeeds, wherever *)
(* the worker is: the lock keeps it from the file it has emptied.          *)
THEOREM SlotCanBeLoaded == Spec => SlotStaysLoadable
<1> DEFINE A == emu = "read" /\ emu' = "report" /\ path \in Slots /\ type = "m64p"
                  /\ (\E n \in written : saved[n].path = path)
                  /\ (\A n \in finished : Failed(n) => saved[n].path # path)
                => ret' # 0
<1>1. IInv /\ [Next]_vars => [A]_vars
  <2> SUFFICES ASSUME IInv, Next, emu = "read", emu' = "report", path \in Slots, type = "m64p",
                      \E n \in written : saved[n].path = path,
                      \A n \in finished : Failed(n) => saved[n].path # path
               PROVE  ret' # 0
    OBVIOUS
  <2>0. Typed /\ WholeIsWritten /\ SlotsHoldStates
    BY DEF IInv
  <2>1. LoadFile
    BY DEF Next, AskFor, Set, SelectSlot, Start, End, Emulate, TakeLoad, TakeSave, Report,
           ClearName, ClearJob, ClearType, WriteStates, LockFile, OpenFile, WriteFile, FailWrite,
           StopQueue, Deinit
  <2>2. held = 0 /\ ret' = IF Readable(path) THEN files[path].id ELSE 0
    BY <2>1 DEF LoadFile
  <2>3. writer = "idle"
    BY <2>0, <2>2 DEF Typed
  <2>4. files[path].whole /\ files[path].type = "m64p"
    BY <2>0, <2>3 DEF SlotsHoldStates
  <2>5. files[path].id \in written /\ written \subseteq 1 .. Len(saved)
    BY <2>0, <2>4 DEF WholeIsWritten, Typed, TypeOK, Paths
  <2> QED
    BY <2>2, <2>4, <2>5 DEF Readable
<1> QED
  BY <1>1, IInvHolds, PTL DEF Spec, SlotStaysLoadable
=============================================================================
