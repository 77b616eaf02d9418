------------------------------- MODULE Storage -------------------------------
(***************************************************************************)
(* How what a game saves reaches a file and comes back in the next         *)
(* session: backends/file_storage.c, main/util.c and the storages that     *)
(* main/main.c opens.  The memory is divided into Parts of Cells each: one *)
(* for FlashRAM, SRAM and EEPROM, one for each Controller Pak, which share *)
(* a file.  A save that fails is logged and nothing more; the process may  *)
(* come to an end at any moment.                                           *)
(***************************************************************************)
EXTENDS Naturals, Sequences

CONSTANTS
    Parts,     \* Controller Paks in the file, or 1
    Cells,     \* cells of a part
    Values,    \* what a cell holds
    Default,   \* what it holds in a storage that was formatted
    Faults     \* saves may fail, and the process may end in the middle of one

ASSUME SizesAssumption == {Parts, Cells} \subseteq Nat \ {0}
ASSUME ValuesAssumption == Default \in Values /\ "no file" \notin Values
ASSUME FaultsAssumption == Faults \in BOOLEAN

Size == Parts * Cells
Places == 1 .. Size
NoFile == <<"no file">>

VARIABLES
    session,      \* "none", "alone", or in netplay: "player" or "guest"
    mem,          \* fstorage->data
    firstAccess,  \* first_access
    file,         \* the file's content, a prefix of a whole one, or NoFile
    called,       \* history: a save was asked for in this session
    unsaved,      \* history: places whose last save in this session has failed
    kept          \* history: what was last saved at a place, as far as it was not wiped out

vars == <<session, mem, firstAccess, file, called, unsaved, kept>>

Init ==
    /\ session = "none"
    /\ mem = [p \in Places |-> Default]
    /\ firstAccess = TRUE
    /\ file = NoFile
    /\ called = FALSE /\ unsaved = {}
    /\ kept = {}

Length == IF file = NoFile THEN 0 ELSE Len(file)

-----------------------------------------------------------------------------
(* Mutant: a file that cannot be read whole is formatted.                  *)
OpenFormats ==
    /\ session = "none" /\ session' = "alone"
    /\ mem' = [p \in Places |-> IF Length = Size THEN file[p] ELSE Default]
    /\ firstAccess' = TRUE
    /\ called' = FALSE /\ unsaved' = {}
    /\ UNCHANGED <<file, kept>>

(* open_file_storage and its callers: only a file that does not open is    *)
(* replaced by a format.  What a short one leaves unread was never set.    *)
Open ==
    /\ session = "none" /\ session' = "alone"
    /\ \E garbage \in Values :
          mem' = [p \in Places |-> IF file = NoFile THEN Default
                                   ELSE IF p <= Len(file) THEN file[p]
                                   ELSE garbage]
    /\ firstAccess' = TRUE
    /\ called' = FALSE /\ unsaved' = {}
    /\ UNCHANGED <<file, kept>>

(* In netplay the content comes from the first player.                     *)
OpenNetplay ==
    /\ session = "none"
    /\ session' \in {"player", "guest"}
    /\ mem' \in [Places -> Values]
    /\ firstAccess' = TRUE
    /\ called' = FALSE /\ unsaved' = {}
    /\ UNCHANGED <<file, kept>>

Close ==
    /\ session # "none" /\ session' = "none"
    /\ UNCHANGED <<mem, firstAccess, file, called, unsaved, kept>>

-----------------------------------------------------------------------------
(* file_storage_save.                                                      *)

(* kept as far as the file, cut off after n places, still has it, and what *)
(* was written at ps.                                                      *)
Keep(n, ps, m) ==
    kept' = {k \in kept : k[1] <= n /\ k[1] \notin ps} \cup {<<p, m[p]>> : p \in ps}

(* write_to_file truncates the file; it may write a part of the memory m.  *)
WriteAll(m, ok) ==
    \/ /\ ok
       /\ file' = m
       /\ Keep(Size, Places, m)
    \/ ~ok /\ UNCHANGED <<file, kept>>
    \/ /\ ~ok
       /\ \E n \in 0 .. Size - 1 :
             file' = SubSeq(m, 1, n) /\ Keep(n, 1 .. n, m)

(* What is in front of the chunk in a file too short for it are zeros.     *)
Patched(m, ps) ==
    LET top == IF \E p \in ps : p > Length THEN CHOOSE p \in ps : \A q \in ps : q <= p
               ELSE Length
    IN  [p \in 1 .. top |-> IF p \in ps THEN m[p]
                            ELSE IF p <= Length THEN file[p] ELSE Default]

(* Mutant: the file is opened for writing, which empties it.               *)
WriteChunkAnew(m, ps, ok) ==
    \/ /\ ok
       /\ LET top == CHOOSE p \in ps : \A q \in ps : q <= p
          IN  file' = [p \in 1 .. top |-> IF p \in ps THEN m[p] ELSE Default]
       /\ Keep(Size, ps, m)
    \/ ~ok /\ UNCHANGED <<file, kept>>

(* write_chunk_to_file.                                                    *)
WriteChunk(m, ps, ok) ==
    \/ /\ ok
       /\ file' = Patched(m, ps)
       /\ Keep(Size, ps, m)
    \/ ~ok /\ UNCHANGED <<file, kept>>
    \/ /\ ~ok
       /\ \E p \in ps :
             LET begun == {q \in ps : q < p}
             IN  file' = Patched(m, begun) /\ Keep(Size, begun, m)

FileSave(m, ps, changed, ok) ==
    \/ session = "guest" /\ UNCHANGED <<firstAccess, file, called, unsaved, kept>>
    \/ /\ session # "guest"
       /\ firstAccess' = FALSE /\ called' = TRUE
       /\ IF firstAccess
          THEN WriteAll(m, ok) /\ unsaved' = IF ok THEN {} ELSE Places
          ELSE /\ WriteChunk(m, ps, ok)
               /\ unsaved' = IF ok THEN unsaved \ changed ELSE unsaved \cup changed

(* Where a save of the places ps of a part starts: file_storage_parent_save*)
(* hands the start in the part on as the start in the whole.               *)
Passed(part, ps) == ps

(* A game writes one place of a part, or two in one go, and has it saved.  *)
Write ==
    /\ session # "none"
    /\ \E part \in 0 .. Parts - 1, c, d \in 1 .. Cells, v \in Values, ok \in BOOLEAN :
          LET at(ps) == {part * Cells + p : p \in ps}
              m == [p \in Places |-> IF p \in at({c, d}) THEN v ELSE mem[p]]
          IN  /\ ok \/ Faults
              /\ c <= d /\ d <= c + 1
              /\ mem' = m
              /\ FileSave(m, Passed(part, {c, d}), at({c, d}), ok)
    /\ UNCHANGED session

(* The process comes to an end while it writes the file.                   *)
Crash ==
    /\ Faults
    /\ session \in {"alone", "player"} /\ session' = "none"
    /\ IF firstAccess THEN WriteAll(mem, FALSE)
                      ELSE \E p \in Places : WriteChunk(mem, {p}, FALSE)
    /\ UNCHANGED <<mem, firstAccess, called, unsaved>>

Next == Open \/ OpenNetplay \/ Close \/ Write \/ Crash

Spec == Init /\ [][Next]_vars
-----------------------------------------------------------------------------
TypeOK ==
    /\ session \in {"none", "alone", "player", "guest"}
    /\ mem \in [Places -> Values]
    /\ {firstAccess, called} \subseteq BOOLEAN
    /\ file = NoFile \/ (file \in Seq(Values) /\ Len(file) <= Size)
    /\ unsaved \subseteq Places
    /\ kept \subseteq Places \X Values

(* Once it has saved, a session has in the file what it has in memory,     *)
(* but for the places whose last save has failed.                          *)
SavedIsKept ==
    session # "none" /\ called =>
       \A p \in Places \ unsaved : p <= Length /\ file[p] = mem[p]

(* What was last saved of a place is what the next session finds there,    *)
(* whatever failed in between, unless a first save was cut short before it *)
(* came to that place.                                                     *)
NextSessionFindsIt ==
    [][ session = "none" /\ session' = "alone" =>
          \A k \in kept : mem'[k[1]] = k[2] ]_vars
=============================================================================
