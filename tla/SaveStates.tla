----------------------------- MODULE SaveStates -----------------------------
(***************************************************************************)
(* Save states (main/savestates.c): one job that the front-end's thread    *)
(* sets and the emulation thread serves between two interrupts, the worker *)
(* of main/workqueue.c that writes the file afterwards, and the lock both  *)
(* take around the file.                                                   *)
(*                                                                         *)
(* A state is a number: the n-th save made.  A file holds the number of    *)
(* the state written to it.  The work queue is WorkPromise, which          *)
(* WorkQueue implements, served by WORKQUEUE_THREADS = 1 thread.           *)
(***************************************************************************)
EXTENDS Sequences, FiniteSets, Naturals

CONSTANTS
    MaxSlot,      \* 9 in the code
    Files,        \* paths a front-end may name: numbers above MaxSlot
    NoName,       \* a NULL path: the current slot is meant
    FileTypes,    \* the formats it may ask for, of "m64p", "zip" and "unc"
    AutoInc,      \* AutoStateSlotIncrement
    Failures,     \* what may go wrong with a file: "open", "write"
    MaxRequests,  \* bound: jobs the front-end sets
    MaxSaves,     \* bound: states saved
    MaxStarts     \* bound: times emulation starts

ASSUME SlotAssumption == MaxSlot \in Nat
ASSUME BoundAssumption == MaxRequests \in Nat /\ MaxSaves \in Nat /\ MaxStarts \in Nat
ASSUME NameAssumption == NoName \notin Files /\ Files \cap (0 .. MaxSlot) = {}
ASSUME ChoiceAssumption ==
    /\ FileTypes \subseteq {"m64p", "zip", "unc"}
    /\ Failures \subseteq {"open", "write"}
    /\ AutoInc \in BOOLEAN

VARIABLES
    job, type, fname, slot,  \* the static variables of savestates.c
    front,                   \* savestates_set_job, on the front-end's thread
    emu,                     \* where the emulation thread is
    serving, path, ret,      \* its job, the file of it and the outcome
    writer,                  \* where the worker is
    held,                    \* how often it holds savestates_lock
    lock,                    \* whether savestates_lock exists
    files,                   \* what each path holds
    queued, started, finished, stopped,  \* the work queue
    saved,                   \* history: path and format of each save
    written,                 \* history: the saves that are whole in their file
    reported,                \* history: the saves reported as successful
    asked,                   \* history: the last request and whether one ran
    starts

request == <<job, type, fname>>
thread == <<serving, path, ret>>
works == <<queued, started, finished, stopped>>
worker == <<writer, held>>
history == <<saved, written, reported>>
vars == <<request, slot, front, emu, thread, worker, lock, files, works, history, asked, starts>>

Queue == INSTANCE WorkPromise WITH Works <- 1 .. MaxSaves

Slots == 0 .. MaxSlot
Paths == Slots \cup Files
Types == {"m64p", "zip", "unc", "unknown"}

NoFile == [type |-> "unknown", id |-> 0, whole |-> FALSE]
Content == [type : Types, id : 0 .. MaxSaves, whole : BOOLEAN]

Idle == [step |-> "idle", job |-> "nothing", type |-> "unknown", name |-> NoName]
Ask(j, t, n) == [step |-> "free", job |-> j, type |-> t, name |-> n]

Init ==
    /\ job = "nothing" /\ type = "unknown" /\ fname = NoName /\ slot = 0
    /\ front = Idle
    /\ emu = "off" /\ serving = "nothing" /\ path = NoName /\ ret = 0
    /\ writer = "idle" /\ held = 0 /\ lock = TRUE
    /\ files = [p \in Paths |-> NoFile]
    /\ Queue!Init
    /\ saved = <<>> /\ written = {} /\ reported = {}
    /\ asked = [count |-> 0, taken |-> 0, name |-> NoName, running |-> FALSE]
    /\ starts = 0

-----------------------------------------------------------------------------
(* The front-end's thread: main_state_save, main_state_load.               *)

CanAsk == lock /\ front = Idle /\ asked.count < MaxRequests

AskSave(n, t) ==
    /\ CanAsk
    /\ emu # "off"
    /\ front' = Ask("save", IF n = NoName THEN "m64p" ELSE t, n)

(* M64CMD_STATE_LOAD is accepted whether a game runs or not.               *)
AskLoad(n) ==
    /\ CanAsk
    /\ front' = Ask("load", IF n = NoName THEN "m64p" ELSE "unknown", n)

AskFor ==
    /\ \/ \E n \in Files \cup {NoName}, t \in FileTypes : AskSave(n, t)
       \/ \E n \in Files \cup {NoName} : AskLoad(n)
    /\ UNCHANGED <<request, slot, emu, thread, worker, lock, files, works, history, asked, starts>>

(* savestates_set_job, one assignment at a time: the emulation thread may  *)
(* look at any moment.                                                     *)
SetFree ==
    /\ front.step = "free"
    /\ fname' = NoName
    /\ front' = [front EXCEPT !.step = "job"]
    /\ UNCHANGED <<job, type, asked>>

SetJob ==
    /\ front.step = "job"
    /\ job' = front.job
    /\ asked' = [asked EXCEPT !.count = @ + 1, !.name = front.name, !.running = emu # "off"]
    /\ front' = [front EXCEPT !.step = "type"]
    /\ UNCHANGED <<type, fname>>

SetType ==
    /\ front.step = "type"
    /\ type' = front.type
    /\ front' = IF front.name = NoName THEN Idle ELSE [front EXCEPT !.step = "name"]
    /\ UNCHANGED <<job, fname, asked>>

SetName ==
    /\ front.step = "name"
    /\ fname' = front.name
    /\ front' = Idle
    /\ UNCHANGED <<job, type, asked>>

Set ==
    /\ SetFree \/ SetJob \/ SetType \/ SetName
    /\ UNCHANGED <<slot, emu, thread, worker, lock, files, works, history, starts>>

(* main_state_set_slot.                                                    *)
SelectSlot(s) ==
    /\ lock /\ front = Idle
    /\ s # slot
    /\ slot' = s
    /\ UNCHANGED <<request, front, emu, thread, worker, lock, files, works, history, asked, starts>>

-----------------------------------------------------------------------------
(* The emulation thread.                                                   *)

Start ==
    /\ emu = "off" /\ lock /\ ~stopped
    /\ starts < MaxStarts
    /\ starts' = starts + 1
    /\ emu' = "run"
    /\ UNCHANGED <<request, slot, front, thread, worker, lock, files, works, history, asked>>

End ==
    /\ emu = "run"
    /\ emu' = "off"
    /\ UNCHANGED <<request, slot, front, thread, worker, lock, files, works, history, asked, starts>>

(* savestates_generate_path.                                               *)
PathOf(n) == IF n = NoName THEN slot ELSE n

(* savestates_detect_type, without the lock.  A file that is not whole may *)
(* or may not have its magic yet.                                          *)
DetectType(p) ==
    {files[p].type} \cup (IF files[p].whole THEN {} ELSE {"unknown"})

(* savestates_load, up to the switch.  A slot's file only has to be there. *)
TakeLoad ==
    /\ emu = "run" /\ job = "load"
    /\ path' = PathOf(fname)
    /\ \/ fname = NoName /\ type' = IF files[slot] = NoFile THEN "unknown" ELSE "m64p"
       \/ fname # NoName /\ type # "unknown" /\ type' = type
       \/ fname # NoName /\ type = "unknown" /\ type' \in DetectType(fname)
    /\ serving' = "load" /\ ret' = 0
    /\ emu' = IF type' = "unknown" \/ files[path'] = NoFile THEN "report" ELSE "read"
    /\ asked' = [asked EXCEPT !.taken = asked.count]
    /\ UNCHANGED <<job, fname, slot, front, worker, lock, files, works, history, starts>>

Readable(p) == files[p].type = type /\ files[p].whole

(* Mutant: the file is read without savestates_lock.                       *)
LoadUnlocked ==
    /\ emu = "read"
    /\ ret' = IF Readable(path) THEN files[path].id ELSE 0
    /\ emu' = "report"
    /\ UNCHANGED <<request, slot, front, serving, path, worker, lock, files, works, history, asked, starts>>

(* Mutant: the length of what was read is not compared.                    *)
LoadWhatIsThere ==
    /\ emu = "read"
    /\ type = "m64p" => held = 0
    /\ ret' = IF files[path].type = type THEN files[path].id ELSE 0
    /\ emu' = "report"
    /\ UNCHANGED <<request, slot, front, serving, path, worker, lock, files, works, history, asked, starts>>

(* Mutant: what cannot be read is tried again.                             *)
LoadUntilWhole ==
    /\ emu = "read"
    /\ type = "m64p" => held = 0
    /\ Readable(path)
    /\ ret' = files[path].id
    /\ emu' = "report"
    /\ UNCHANGED <<request, slot, front, serving, path, worker, lock, files, works, history, asked, starts>>

(* The switch (type), which reads the variable again: savestates_load_m64p *)
(* takes the lock, the two others do not.                                  *)
LoadFile ==
    /\ emu = "read"
    /\ type = "m64p" => held = 0
    /\ ret' = IF Readable(path) THEN files[path].id ELSE 0
    /\ emu' = "report"
    /\ UNCHANGED <<request, slot, front, serving, path, worker, lock, files, works, history, asked, starts>>

NextSlot == IF slot = MaxSlot THEN 0 ELSE slot + 1

(* savestates_save_m64p: a copy for the worker.                            *)
SaveM64p(p) ==
    /\ Queue!Queue(Len(saved) + 1)
    /\ slot' = IF AutoInc THEN NextSlot ELSE slot
    /\ ret' = Len(saved) + 1
    /\ UNCHANGED <<files, written>>

(* savestates_save_pj64_unc and _zip: the file is written at once, without *)
(* the lock.  The latter returns 1 whatever happens.                       *)
SavePj64(p, t) ==
    LET Write(c, ok) ==
            /\ files' = [files EXCEPT ![p] = c]
            /\ written' = IF ok THEN written \cup {Len(saved) + 1} ELSE written
            /\ ret' = IF ok \/ t = "zip" THEN Len(saved) + 1 ELSE 0
    IN  /\ \/ Write([type |-> t, id |-> Len(saved) + 1, whole |-> TRUE], TRUE)
           \/ "open" \in Failures /\ Write(files[p], FALSE)
           \/ /\ "write" \in Failures
              /\ Write([type |-> t, id |-> Len(saved) + 1, whole |-> FALSE], FALSE)
        /\ UNCHANGED <<slot, works>>

SaveTo(p, t) ==
    /\ \/ t = "m64p" /\ SaveM64p(p)
       \/ t \in {"zip", "unc"} /\ SavePj64(p, t)
    /\ path' = p
    /\ type' = t
    /\ saved' = Append(saved, [path |-> p, type |-> t])

(* savestates_save.  A pj64 state waits for the right interrupt: the step  *)
(* need not be taken at once.                                              *)
TakeSave ==
    /\ emu = "run" /\ job = "save"
    /\ Len(saved) < MaxSaves
    /\ SaveTo(PathOf(fname), IF fname = NoName \/ type = "unknown" THEN "m64p" ELSE type)
    /\ serving' = "save"
    /\ emu' = "report"
    /\ asked' = [asked EXCEPT !.taken = asked.count]
    /\ UNCHANGED <<job, fname, front, worker, lock, reported, starts>>

(* M64CORE_STATE_LOADCOMPLETE and M64CORE_STATE_SAVECOMPLETE.              *)
Report ==
    /\ emu = "report"
    /\ reported' = IF serving = "save" /\ ret # 0 THEN reported \cup {ret} ELSE reported
    /\ emu' = "clear"
    /\ UNCHANGED <<request, slot, front, thread, worker, lock, files, works, saved, written, asked, starts>>

(* savestates_clear_job: savestates_set_job again, on this thread.         *)
ClearName ==
    /\ emu = "clear"
    /\ fname' = NoName
    /\ emu' = "clearjob"
    /\ UNCHANGED <<job, type, slot, front, thread, worker, lock, files, works, history, asked, starts>>

ClearJob ==
    /\ emu = "clearjob"
    /\ job' = "nothing"
    /\ emu' = "cleartype"
    /\ UNCHANGED <<type, fname, slot, front, thread, worker, lock, files, works, history, asked, starts>>

ClearType ==
    /\ emu = "cleartype"
    /\ type' = "unknown"
    /\ serving' = "nothing" /\ path' = NoName /\ ret' = 0
    /\ emu' = "run"
    /\ UNCHANGED <<job, fname, slot, front, worker, lock, files, works, history, asked, starts>>

-----------------------------------------------------------------------------
(* The worker: savestates_save_m64p_work.                                  *)

Work == queued[started]
Target == saved[Work].path

(* Mutant: the newest state is written first.                              *)
LockNewest ==
    /\ writer = "idle" /\ started < Len(queued)
    /\ queued' = [queued EXCEPT ![started + 1] = queued[Len(queued)], ![Len(queued)] = queued[started + 1]]
    /\ started' = started + 1
    /\ held' = held + 1
    /\ writer' = "locked"
    /\ UNCHANGED <<request, slot, front, emu, thread, lock, files, finished, stopped, history, asked, starts>>

(* SDL_LockMutex is recursive: the worker's own leftover does not stop it. *)
LockFile ==
    /\ writer = "idle"
    /\ Queue!Start
    /\ held' = held + 1
    /\ writer' = "locked"
    /\ UNCHANGED <<request, slot, front, emu, thread, lock, files, history, asked, starts>>

(* osal_gzopen(.., "wb") truncates the file.                               *)
OpenFile ==
    /\ writer = "locked"
    /\ files' = [files EXCEPT ![Target] = [type |-> "m64p", id |-> Work, whole |-> FALSE]]
    /\ writer' = "open"
    /\ UNCHANGED <<request, slot, front, emu, thread, held, lock, works, history, asked, starts>>

WriteFile ==
    /\ writer = "open"
    /\ files' = [files EXCEPT ![Target] = [type |-> "m64p", id |-> Work, whole |-> TRUE]]
    /\ written' = written \cup {Work}
    /\ Queue!Finish(Work)
    /\ held' = held - 1
    /\ writer' = "idle"
    /\ UNCHANGED <<request, slot, front, emu, thread, lock, saved, reported, asked, starts>>

(* The two early returns of savestates_save_m64p_work, which leave the     *)
(* lock taken.                                                             *)
FailWrite ==
    /\ \/ writer = "locked" /\ "open" \in Failures
       \/ writer = "open" /\ "write" \in Failures
    /\ Queue!Finish(Work)
    /\ writer' = "idle"
    /\ UNCHANGED <<request, slot, front, emu, thread, held, lock, files, history, asked, starts>>

-----------------------------------------------------------------------------
(* Mutant: the lock goes before the worker does.                           *)
DeinitEarly ==
    /\ lock /\ emu = "off" /\ front = Idle
    /\ lock' = FALSE
    /\ job' = "nothing" /\ type' = "unknown" /\ fname' = NoName
    /\ UNCHANGED <<slot, front, emu, thread, worker, files, works, history, asked, starts>>

(* CoreShutdown: workqueue_shutdown returns.                               *)
StopQueue ==
    /\ emu = "off" /\ front = Idle
    /\ Queue!Stop
    /\ UNCHANGED <<request, slot, front, emu, thread, worker, lock, files, history, asked, starts>>

(* CoreShutdown: savestates_deinit, called next.                           *)
Deinit ==
    /\ lock /\ stopped
    /\ lock' = FALSE
    /\ job' = "nothing" /\ type' = "unknown" /\ fname' = NoName
    /\ UNCHANGED <<slot, front, emu, thread, worker, files, works, history, asked, starts>>

Emulate == TakeLoad \/ LoadFile \/ TakeSave \/ Report \/ ClearName \/ ClearJob \/ ClearType
WriteStates == LockFile \/ OpenFile \/ WriteFile \/ FailWrite

Next ==
    \/ AskFor \/ Set
    \/ \E s \in Slots : SelectSlot(s)
    \/ Start \/ End \/ Emulate
    \/ WriteStates
    \/ StopQueue \/ Deinit

Spec == Init /\ [][Next]_vars

(* Each thread goes on; nothing has to be asked for or shut down.          *)
Fairness ==
    WF_vars(Set) /\ WF_vars(Emulate) /\ WF_vars(WriteStates) /\ WF_vars(Deinit)

LiveSpec == Spec /\ Fairness
-----------------------------------------------------------------------------
TypeOK ==
    /\ job \in {"nothing", "save", "load"} /\ type \in Types
    /\ fname \in Files \cup {NoName} /\ slot \in Slots
    /\ front.step \in {"idle", "free", "job", "type", "name"}
    /\ emu \in {"off", "run", "read", "report", "clear", "clearjob", "cleartype"}
    /\ serving \in {"nothing", "save", "load"} /\ path \in Paths \cup {NoName}
    /\ ret \in 0 .. MaxSaves
    /\ writer \in {"idle", "locked", "open"} /\ held \in 0 .. MaxSaves /\ lock \in BOOLEAN
    /\ files \in [Paths -> Content]
    /\ queued \in Seq(1 .. MaxSaves) /\ started \in 0 .. Len(queued)
    /\ finished \subseteq 1 .. MaxSaves /\ stopped \in BOOLEAN
    /\ saved \in Seq([path : Paths, type : Types]) /\ Len(saved) <= MaxSaves
    /\ written \subseteq 1 .. Len(saved) /\ reported \subseteq 1 .. Len(saved)
    /\ starts \in 0 .. MaxStarts

Loaded == emu = "report" /\ serving = "load"

(* A load that succeeds gives a state that was saved to that very file and *)
(* completely written, whatever failed in between.                         *)
LoadsAreWhole ==
    Loaded /\ ret # 0 => ret \in written /\ saved[ret].path = path

(* What a save that failed leaves: a broken file, and the lock.            *)
Failed(n) == n \in finished \ written
LockLeft  == writer = "idle" /\ held > 0

(* A slot that holds a state can be loaded, also while the worker replaces *)
(* it: the lock hides the truncated file.                                  *)
SlotStaysLoadable ==
    [][emu = "read" /\ emu' = "report" /\ path \in Slots /\ type = "m64p"
         /\ (\E n \in written : saved[n].path = path)
         /\ (\A n \in finished : Failed(n) => saved[n].path # path)
           => ret' # 0]_vars

(* The writes keep the order of the saves: when the worker is through, a   *)
(* slot holds the last state saved to it, unless that could not be written.*)
LastSaveStands ==
    started = Len(queued) /\ writer = "idle" =>
        \A n \in 1 .. Len(saved) :
            LET s == saved[n].path
            IN  /\ s \in Slots
                /\ \A m \in (n + 1) .. Len(saved) : saved[m].path # s
                /\ n \in written
                => files[s].id = n /\ files[s].whole

(* savestates_deinit destroys the lock when nobody can want it any more.   *)
LockOutlivesUse ==
    ~lock => writer = "idle" /\ started = Len(queued) /\ emu = "off"

(* "deliver callback to indicate completion of state loading operation":   *)
(* a load that was begun is reported, unless a failed save keeps the lock. *)
LoadsComplete == (emu = "read") ~> (emu = "report" \/ LockLeft)

-----------------------------------------------------------------------------
(* What the documentation and the code disagree about.                     *)

(* "1 if state saving was successful, 0 if state saving failed", for the   *)
(* worker's files ...                                                      *)
SaveIsReported ==
    \A n \in reported : saved[n].type = "m64p" /\ n \in finished => n \in written

(* ... and for those written at once.                                      *)
Pj64IsReported ==
    \A n \in reported : saved[n].type # "m64p" => n \in written

(* The completion callback comes even so.                                  *)
LoadsAlwaysComplete == (emu = "read") ~> (emu = "report")

(* A request is not dropped while another one is served.                   *)
NoRequestLost ==
    [][emu = "clearjob" /\ emu' = "cleartype" /\ asked.running => asked.taken = asked.count]_vars

(* A state goes to the file that was asked for, or to the slot if none was.*)
FileIsTheOneAsked ==
    [][emu = "run" /\ emu' \in {"read", "report"} /\ asked.running =>
           path' = PathOf(asked.name)]_vars

(* Only a request made while a game runs is served.                        *)
RequestsAreOfThisGame ==
    [][emu = "run" /\ emu' \in {"read", "report"} => asked.running]_vars
=============================================================================
