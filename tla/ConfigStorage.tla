--------------------------- MODULE ConfigStorage ---------------------------
(***************************************************************************)
(* config_storage.c: the configuration in RAM, saved to the EEPROM page by *)
(* page, or to a page of the internal Flash word by word, and looked for   *)
(* in the one and then the other at every start; the power may fail at any *)
(* point.                                                                  *)
(*                                                                         *)
(* A configuration is a version and every byte or word of it shows which.  *)
(* Magic and CRC are right when all of a copy is of one version, as any    *)
(* other mixture fails the CRC, which is at the end of the structure.      *)
(***************************************************************************)
EXTENDS Naturals

CONSTANTS
    Version,        \* the configurations
    Default,        \* the one Config_GetDefault makes
    Junk,           \* what is in storage that is no part of a configuration
    Blank,          \* an erased word
    Size,           \* sizeof(SystemConfig_t)
    PageSize,       \* of the EEPROM, 64
    MaxCrashes      \* bounds the power failures

None == [none |-> TRUE]     \* no configuration
Cell == Version \cup {Junk, Blank}

ASSUME StorageAssumption ==
    /\ Default \in Version
    /\ Junk \notin Version /\ Blank \notin Version /\ None \notin Cell
    /\ Size \in Nat \ {0}
    /\ PageSize \in Nat \ {0}
    /\ MaxCrashes \in Nat

VARIABLES
    config,         \* s_config
    eepromOk,       \* s_eeprom_ok
    eeprom, flash,  \* what they hold
    addr, written,  \* the variables of eeprom_write
    word,           \* i of flash_save
    pc,             \* where ConfigStorage_Init or ConfigStorage_Save is
    saved,          \* what storage was last left with, if not under way
    crashes,        \* power failures so far
    mode            \* the EEPROM is good, absent, or it and the Flash may fail

loop == <<addr, written, word>>
storage == <<eeprom, flash>>
vars == <<config, eepromOk, storage, loop, pc, saved, crashes, mode>>

Words == (Size + 3) \div 4
Bytes == 0 .. Size - 1
EepromCells == 0 .. Size + PageSize
FlashCells == 0 .. Words - 1

EepromValid == \E v \in Version : \A b \in Bytes : eeprom[b] = v
FlashValid == \E v \in Version : \A w \in FlashCells : flash[w] = v

Init ==
    /\ config = None
    /\ eepromOk = FALSE
    /\ eeprom \in {[b \in EepromCells |-> c] : c \in Version \cup {Junk}}
    /\ flash \in {[w \in FlashCells |-> c] : c \in Version \cup {Blank}}
    /\ addr = 0 /\ written = 0 /\ word = 0
    /\ pc = "probe"
    /\ saved = None
    /\ crashes = 0
    /\ mode \in {"good", "absent", "flaky"}

\* Whether an access of a flaky part succeeds.
Outcome == IF mode = "flaky" THEN BOOLEAN ELSE {TRUE}
-----------------------------------------------------------------------------
(* ConfigStorage_Init.                                                     *)

Probe ==
    /\ pc = "probe"
    /\ eepromOk' \in CASE mode = "good" -> {TRUE}
                       [] mode = "absent" -> {FALSE}
                       [] mode = "flaky" -> BOOLEAN
    /\ pc' = "load"
    /\ UNCHANGED <<config, storage, loop, saved, crashes, mode>>

\* Faulty variant of Load: the CRC of the EEPROM's copy is not compared.
LoadUnchecked ==
    /\ pc = "load"
    /\ \E readOk \in Outcome :
           \/ /\ eepromOk /\ readOk
              /\ config' = eeprom[0]
              /\ saved' = config'
              /\ pc' = "loaded"
           \/ /\ ~(eepromOk /\ readOk)
              /\ FlashValid
              /\ config' = flash[0]
              /\ saved' = config'
              /\ pc' = "loaded"
           \/ /\ ~(eepromOk /\ readOk)
              /\ ~FlashValid
              /\ config' = Default
              /\ pc' = "save"
              /\ UNCHANGED saved
    /\ UNCHANGED <<eepromOk, storage, loop, crashes, mode>>

\* Faulty variant of Load: the Flash comes first.
LoadFlashFirst ==
    /\ pc = "load"
    /\ \E readOk \in Outcome :
           \/ /\ FlashValid
              /\ config' = flash[0]
              /\ saved' = config'
              /\ pc' = "loaded"
           \/ /\ ~FlashValid
              /\ eepromOk /\ readOk /\ EepromValid
              /\ config' = eeprom[0]
              /\ saved' = config'
              /\ pc' = "loaded"
           \/ /\ ~(eepromOk /\ readOk /\ EepromValid)
              /\ ~FlashValid
              /\ config' = Default
              /\ pc' = "save"
              /\ UNCHANGED saved
    /\ UNCHANGED <<eepromOk, storage, loop, crashes, mode>>

\* ConfigStorage_Load, and the defaults when it finds nothing.
Load ==
    /\ pc = "load"
    /\ \E readOk \in Outcome :
           \/ /\ eepromOk /\ readOk /\ EepromValid
              /\ config' = eeprom[0]
              /\ saved' = config'
              /\ pc' = "loaded"
           \/ /\ ~(eepromOk /\ readOk /\ EepromValid)
              /\ FlashValid
              /\ config' = flash[0]
              /\ saved' = config'
              /\ pc' = "loaded"
           \/ /\ ~(eepromOk /\ readOk /\ EepromValid)
              /\ ~FlashValid
              /\ config' = Default
              /\ pc' = "save"
              /\ UNCHANGED saved
    /\ UNCHANGED <<eepromOk, storage, loop, crashes, mode>>

Start ==
    /\ pc = "loaded"
    /\ pc' = "run"
    /\ UNCHANGED <<config, eepromOk, storage, loop, saved, crashes, mode>>
-----------------------------------------------------------------------------
(* ConfigStorage_SetConfig, and ConfigStorage_Save step by step.           *)

SetConfig(v) ==
    /\ pc = "run"
    /\ config' = v
    /\ UNCHANGED <<eepromOk, storage, loop, pc, saved, crashes, mode>>

\* What POST /api/config calls.
CallSave ==
    /\ pc = "run"
    /\ pc' = "save"
    /\ UNCHANGED <<config, eepromOk, storage, loop, saved, crashes, mode>>

Save ==
    /\ pc = "save"
    /\ saved' = None
    /\ addr' = 0 /\ written' = 0 /\ word' = 0
    /\ pc' = IF eepromOk THEN "eeprom" ELSE "erase"
    /\ UNCHANGED <<config, eepromOk, storage, crashes, mode>>

\* Faulty variant of Chunk: a byte too many fits into the page.
ChunkOneMore ==
    LET pageRemain == PageSize - (addr % PageSize) + 1
        rest == Size - written
    IN  IF rest > pageRemain THEN pageRemain ELSE rest

\* What the next transfer to the EEPROM may hold.
Chunk ==
    LET pageRemain == PageSize - (addr % PageSize)
        rest == Size - written
    IN  IF rest > pageRemain THEN pageRemain ELSE rest

\* Where the EEPROM puts byte i of a transfer to addr: it wraps in the page.
Target(i) == IF (addr % PageSize) + i < PageSize THEN addr + i ELSE addr + i - PageSize

\* The EEPROM after the transfer, each byte of the chunk replaced by c.
EepromWith(c) ==
    [b \in EepromCells |->
        IF \E i \in 0 .. Chunk - 1 : b = Target(i) THEN c ELSE eeprom[b]]

\* Faulty variant of WritePage: after a failure the save starts over.
WritePageRestarted ==
    /\ pc = "eeprom"
    /\ written < Size
    /\ \E ok \in Outcome :
           \/ /\ ok
              /\ eeprom' = EepromWith(config)
              /\ addr' = addr + Chunk
              /\ written' = written + Chunk
           \/ /\ ~ok
              /\ eeprom' \in {eeprom, EepromWith(Junk)}
              /\ addr' = 0 /\ written' = 0
    /\ UNCHANGED <<config, eepromOk, flash, word, pc, saved, crashes, mode>>

\* A round of eeprom_write: the transfer, or its failure, which may have
\* spoilt the page.
WritePage ==
    /\ pc = "eeprom"
    /\ written < Size
    /\ \E ok \in Outcome :
           \/ /\ ok
              /\ eeprom' = EepromWith(config)
              /\ addr' = addr + Chunk
              /\ written' = written + Chunk
              /\ UNCHANGED pc
           \/ /\ ~ok
              /\ eeprom' \in {eeprom, EepromWith(Junk)}
              /\ pc' = "erase"
              /\ UNCHANGED <<addr, written>>
    /\ UNCHANGED <<config, eepromOk, flash, word, saved, crashes, mode>>

EepromDone ==
    /\ pc = "eeprom"
    /\ written >= Size
    /\ saved' = config
    /\ pc' = "run"
    /\ UNCHANGED <<config, eepromOk, storage, loop, crashes, mode>>

\* Faulty variant of Erase: the page is taken to be erased.
EraseMissing ==
    /\ pc = "erase"
    /\ pc' = "program"
    /\ UNCHANGED <<config, eepromOk, storage, loop, saved, crashes, mode>>

\* flash_save; what its calls of the HAL return is not looked at.
Erase ==
    /\ pc = "erase"
    /\ \E ok \in Outcome :
           flash' = IF ok THEN [w \in FlashCells |-> Blank] ELSE flash
    /\ pc' = "program"
    /\ UNCHANGED <<config, eepromOk, eeprom, loop, saved, crashes, mode>>

\* The Flash programs erased words only.
ProgramWord ==
    /\ pc = "program"
    /\ word < Words
    /\ \E ok \in Outcome :
           flash' = IF ok /\ flash[word] = Blank
                    THEN [flash EXCEPT ![word] = config] ELSE flash
    /\ word' = word + 1
    /\ UNCHANGED <<config, eepromOk, eeprom, addr, written, pc, saved, crashes, mode>>

FlashDone ==
    /\ pc = "program"
    /\ word >= Words
    /\ saved' = config
    /\ pc' = "run"
    /\ UNCHANGED <<config, eepromOk, storage, loop, crashes, mode>>
-----------------------------------------------------------------------------
\* The power fails: RAM is lost, and what was being written may be spoilt.
Crash ==
    /\ crashes < MaxCrashes
    /\ crashes' = crashes + 1
    /\ config' = None
    /\ eepromOk' = FALSE
    /\ pc' = "probe"
    /\ eeprom' \in IF pc = "eeprom" /\ written < Size
                   THEN {eeprom, EepromWith(Junk)} ELSE {eeprom}
    /\ flash' \in CASE pc = "erase" -> {flash, [w \in FlashCells |-> Junk]}
                    [] pc = "program" /\ word < Words ->
                           {flash, [flash EXCEPT ![word] = Junk]}
                    [] OTHER -> {flash}
    /\ UNCHANGED <<loop, saved, mode>>

Steps == \* of ConfigStorage_Init and ConfigStorage_Save
    Probe \/ Load \/ Start \/ Save \/ WritePage \/ EepromDone \/ Erase
    \/ ProgramWord \/ FlashDone

Next == Steps \/ CallSave \/ (\E v \in Version : SetConfig(v)) \/ Crash

Spec == Init /\ [][Next]_vars

\* The steps of the two functions follow each other; nothing makes a client
\* save, or the power fail.
FairSpec == Spec /\ WF_vars(Steps)
-----------------------------------------------------------------------------
TypeOK ==
    /\ config \in Version \cup {None}
    /\ config = None => pc \in {"probe", "load"}
    /\ eepromOk \in BOOLEAN
    /\ eeprom \in [EepromCells -> Cell]
    /\ flash \in [FlashCells -> Cell]
    /\ addr \in Nat
    /\ written \in 0 .. Size
    /\ word \in 0 .. Words
    /\ pc \in {"probe", "load", "loaded", "run", "save", "eeprom", "erase",
               "program"}
    /\ saved \in Version \cup {None}
    /\ crashes \in 0 .. MaxCrashes
    /\ mode \in {"good", "absent", "flaky"}

\* What the next start will find, with or without an EEPROM.
Found(withEeprom) ==
    IF withEeprom /\ EepromValid THEN eeprom[0]
    ELSE IF FlashValid THEN flash[0] ELSE None

\* With parts that work, what was saved or loaded last is what storage gives,
\* whatever older copies it holds beside it.
SavedIsFound ==
    mode # "flaky" /\ saved # None => Found(mode = "good") = saved

\* Why: what the loops of eeprom_write and flash_save have done so far.
LoopsOnTrack ==
    /\ pc \in {"eeprom", "erase", "program"} => saved = None
    /\ mode = "good" =>
           /\ pc # "probe" => eepromOk
           /\ pc \notin {"erase", "program"}
           /\ pc = "eeprom" =>
                  addr = written /\ \A b \in Bytes : b < written => eeprom[b] = config
    /\ mode = "absent" =>
           /\ ~eepromOk
           /\ pc # "eeprom"
           /\ pc = "erase" => word = 0
           /\ pc = "program" =>
                  \A w \in FlashCells : flash[w] = IF w < word THEN config ELSE Blank

\* What a start loads is what was saved last.
LoadStep == pc = "load" /\ pc' \in {"loaded", "save"}
LoadsLastSaved == [][LoadStep => saved \in {None, config'}]_vars

\* ... which is so as long as the parts work.
SteadyLoadsLastSaved ==
    [][LoadStep /\ mode # "flaky" => saved \in {None, config'}]_vars

\* The copies of ConfigCopies, and what the program is at there
Primary == IF EepromValid THEN eeprom[0] ELSE None
Backup == IF FlashValid THEN flash[0] ELSE None
Phase == CASE pc \in {"probe", "load"} -> "off"
           [] pc \in {"loaded", "run"} -> "on"
           [] pc = "save" -> "due"
           [] pc = "eeprom" -> "primary"
           [] pc \in {"erase", "program"} -> "backup"

Copies == INSTANCE ConfigCopies WITH
              running <- config, primary <- Primary, backup <- Backup,
              phase <- Phase, parts <- mode

\* Page by page and word by word, in whatever state a failing part or a power failure
\* leaves them, the EEPROM and the Flash are the two copies of ConfigCopies: a copy
\* goes from one version to another only through not being whole, and only to the
\* one in s_config (config_storage.c, with eeprom_write over the only copy).
ImplementsCopies == Copies!Spec

\* Whatever fails, a start and a save come to an end.
SavesEnd == []<>(pc = "run")
=============================================================================
