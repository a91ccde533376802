------------------------ MODULE ConfigStorageProofs ------------------------
(***************************************************************************)
(* Proofs about ConfigStorage, for every size of the configuration and of  *)
(* the EEPROM's pages: with parts that work, a start loads what was saved  *)
(* last, wherever the power failed; with any, the EEPROM and the Flash are *)
(* the two copies of ConfigCopies.                                         *)
(***************************************************************************)
EXTENDS ConfigStorage, TLAPS

LEMMA ModRange ==
    ASSUME NEW a \in Nat, NEW n \in Nat \ {0}
    PROVE  a % n \in 0 .. n - 1
OBVIOUS

\* A chunk is never empty, never more than what is left, and never more than
\* what the page holds from addr on.
LEMMA ChunkFits ==
    ASSUME addr \in Nat, written \in 0 .. Size, written < Size
    PROVE  /\ Chunk \in 1 .. Size - written
           /\ (addr % PageSize) + Chunk <= PageSize
<1>1. addr % PageSize \in 0 .. PageSize - 1
  BY ModRange, StorageAssumption
<1> DEFINE m == addr % PageSize
<1> HIDE DEF m
<1>2. m \in Nat /\ m < PageSize /\ PageSize \in Nat /\ Size \in Nat /\ written \in Nat
  BY <1>1, StorageAssumption DEF m
<1>3. Chunk = IF Size - written > PageSize - m THEN PageSize - m ELSE Size - written
  BY DEF Chunk, m
<1> QED
  BY <1>2, <1>3 DEF m

\* So a transfer changes the bytes from addr to addr + Chunk - 1 and no other.
LEMMA TransferWrites ==
    ASSUME addr \in Nat, written \in 0 .. Size, written < Size, NEW c,
           NEW b \in EepromCells
    PROVE  EepromWith(c)[b] = IF addr <= b /\ b < addr + Chunk THEN c ELSE eeprom[b]
<1>1. \A i \in 0 .. Chunk - 1 : Target(i) = addr + i
  <2> TAKE i \in 0 .. Chunk - 1
  <2>1. Chunk \in Nat /\ (addr % PageSize) + Chunk <= PageSize
    BY ChunkFits, StorageAssumption
  <2>2. addr % PageSize \in 0 .. PageSize - 1
    BY ModRange, StorageAssumption
  <2>3. (addr % PageSize) + i < PageSize
    BY <2>1, <2>2, StorageAssumption
  <2> QED
    BY <2>3 DEF Target
<1>2. b \in Nat /\ Chunk \in Nat
  BY ChunkFits, StorageAssumption DEF EepromCells
<1>3. (\E i \in 0 .. Chunk - 1 : b = Target(i)) <=> (addr <= b /\ b < addr + Chunk)
  <2>1. ASSUME addr <= b, b < addr + Chunk PROVE \E i \in 0 .. Chunk - 1 : b = Target(i)
    <3>1. b - addr \in 0 .. Chunk - 1 /\ b = addr + (b - addr)
      BY <1>2, <2>1
    <3> QED
      BY <1>1, <3>1
  <2>2. ASSUME NEW i \in 0 .. Chunk - 1, b = Target(i) PROVE addr <= b /\ b < addr + Chunk
    BY <1>1, <1>2, <2>2
  <2> QED
    BY <2>1, <2>2
<1> QED
  BY <1>3 DEF EepromWith
-----------------------------------------------------------------------------
LEMMA Sizes ==
    /\ Size \in Nat /\ PageSize \in Nat /\ Words \in Nat
    /\ 0 \in Bytes /\ 0 \in FlashCells
    /\ Bytes \subseteq EepromCells
    /\ \A b \in Bytes : b \in Nat /\ b < Size
    /\ \A w \in FlashCells : w \in Nat /\ w < Words
BY StorageAssumption DEF Words, Bytes, FlashCells, EepromCells

LEMMA NoneIsNoVersion == None \notin Version
BY StorageAssumption DEF Cell

\* A transfer leaves cells behind.
LEMMA TransferTyped ==
    ASSUME eeprom \in [EepromCells -> Cell], NEW c \in Cell
    PROVE  EepromWith(c) \in [EepromCells -> Cell]
BY DEF EepromWith

\* A configuration is there from the load on.
LEMMA ConfigThere ==
    ASSUME TypeOK, pc \notin {"probe", "load"}
    PROVE  config \in Version /\ config \in Cell
BY DEF TypeOK, Cell

LEMMA TypeStep ==
    ASSUME TypeOK, [Next]_vars
    PROVE  TypeOK'
<1> USE DEF TypeOK, loop, storage
<1>1. CASE Probe
  <2>1. eepromOk' \in BOOLEAN
    BY <1>1 DEF Probe
  <2> QED
    BY <1>1, <2>1 DEF Probe
<1>2. CASE Load
  <2>1. \/ eepromOk /\ EepromValid /\ config' = eeprom[0] /\ saved' = config' /\ pc' = "loaded"
        \/ FlashValid /\ config' = flash[0] /\ saved' = config' /\ pc' = "loaded"
        \/ config' = Default /\ pc' = "save" /\ saved' = saved
    BY <1>2 DEF Load
  <2>2. /\ EepromValid => eeprom[0] \in Version
        /\ FlashValid => flash[0] \in Version
        /\ Default \in Version
    BY Sizes, StorageAssumption DEF EepromValid, FlashValid
  <2>3. config' \in Version /\ saved' \in Version \cup {None} /\ pc' \in {"loaded", "save"}
    BY <2>1, <2>2
  <2> QED
    BY <1>2, <2>3, NoneIsNoVersion DEF Load
<1>3. CASE Start \/ CallSave
  BY <1>3 DEF Start, CallSave
<1>4. ASSUME NEW v \in Version, SetConfig(v) PROVE TypeOK'
  BY <1>4, NoneIsNoVersion DEF SetConfig
<1>5. CASE Save
  <2>1. pc' \in {"eeprom", "erase"}
    BY <1>5 DEF Save
  <2> QED
    BY <1>5, <2>1, Sizes DEF Save
<1>6. CASE WritePage
  <2>1. Chunk \in 1 .. Size - written
    BY <1>6, ChunkFits DEF WritePage
  <2>2. addr + Chunk \in Nat /\ written + Chunk \in 0 .. Size
    BY <2>1, Sizes
  <2>3. EepromWith(config) \in [EepromCells -> Cell] /\ EepromWith(Junk) \in [EepromCells -> Cell]
    BY <1>6, ConfigThere, TransferTyped DEF WritePage, Cell
  <2>4. /\ eeprom' \in {eeprom, EepromWith(config), EepromWith(Junk)}
        /\ \/ addr' = addr + Chunk /\ written' = written + Chunk
           \/ addr' = addr /\ written' = written
        /\ pc' \in {"eeprom", "erase"}
    BY <1>6 DEF WritePage
  <2>5. eeprom' \in [EepromCells -> Cell] /\ addr' \in Nat /\ written' \in 0 .. Size
    BY <2>2, <2>3, <2>4
  <2> QED
    BY <1>6, <2>4, <2>5 DEF WritePage
<1>7. CASE EepromDone \/ FlashDone
  BY <1>7, ConfigThere DEF EepromDone, FlashDone
<1>8. CASE Erase
  <2>1. flash' \in [FlashCells -> Cell]
    BY <1>8 DEF Erase, Cell
  <2> QED
    BY <1>8, <2>1 DEF Erase
<1>9. CASE ProgramWord
  <2>1. flash' \in [FlashCells -> Cell]
    BY <1>9, ConfigThere DEF ProgramWord
  <2>2. word' \in 0 .. Words
    BY <1>9, Sizes DEF ProgramWord
  <2> QED
    BY <1>9, <2>1, <2>2 DEF ProgramWord
<1>10. CASE Crash
  <2>1. eeprom' \in [EepromCells -> Cell]
    <3>1. EepromWith(Junk) \in [EepromCells -> Cell]
      BY TransferTyped DEF Cell
    <3> QED
      BY <1>10, <3>1 DEF Crash
  <2>2. flash' \in [FlashCells -> Cell]
    <3>1. [w \in FlashCells |-> Junk] \in [FlashCells -> Cell]
          /\ [flash EXCEPT ![word] = Junk] \in [FlashCells -> Cell]
      BY DEF Cell
    <3>2. flash' \in {flash, [w \in FlashCells |-> Junk], [flash EXCEPT ![word] = Junk]}
      BY <1>10 DEF Crash
    <3> QED
      BY <3>1, <3>2
  <2>3. crashes' \in 0 .. MaxCrashes
    BY <1>10, StorageAssumption DEF Crash
  <2> QED
    BY <1>10, <2>1, <2>2, <2>3 DEF Crash
<1>11. CASE UNCHANGED vars
  BY <1>11 DEF vars
<1> QED
  BY <1>1, <1>2, <1>3, <1>4, <1>5, <1>6, <1>7, <1>8, <1>9, <1>10, <1>11
     DEF Next, Steps
-----------------------------------------------------------------------------
\* What the loops write, stays until they are through.
LEMMA LoopsStep ==
    ASSUME TypeOK, LoopsOnTrack, [Next]_vars
    PROVE  LoopsOnTrack'
<1> USE DEF loop, storage
<1>0. mode' = mode
  BY DEF Next, Steps, vars, Probe, Load, Start, SetConfig, CallSave, Save, WritePage,
         EepromDone, Erase, ProgramWord, FlashDone, Crash
<1>1. CASE Probe
  BY <1>0, <1>1 DEF Probe, LoopsOnTrack
<1>2. CASE Load
  <2>1. pc = "load" /\ pc' \in {"loaded", "save"} /\ eepromOk' = eepromOk
    BY <1>2 DEF Load
  <2> QED
    BY <1>0, <2>1 DEF LoopsOnTrack
<1>3. CASE Start \/ CallSave
  BY <1>3 DEF Start, CallSave, LoopsOnTrack
<1>4. ASSUME NEW v \in Version, SetConfig(v) PROVE LoopsOnTrack'
  BY <1>4 DEF SetConfig, LoopsOnTrack
<1>5. CASE Save
  <2>1. /\ pc' = IF eepromOk THEN "eeprom" ELSE "erase"
        /\ saved' = None /\ eepromOk' = eepromOk /\ pc = "save"
        /\ addr' = 0 /\ written' = 0 /\ word' = 0
    BY <1>5 DEF Save
  <2>2. \A b \in Bytes : ~(b < 0)
    BY Sizes
  <2> QED
    BY <1>0, <2>1, <2>2 DEF LoopsOnTrack
<1>6. CASE WritePage
  <2>1. /\ pc = "eeprom" /\ saved' = saved /\ config' = config /\ eepromOk' = eepromOk
        /\ written < Size /\ pc' \in {"eeprom", "erase"}
    BY <1>6 DEF WritePage
  <2>2. ASSUME mode = "good"
        PROVE  /\ addr' = written' /\ pc' = "eeprom"
               /\ \A b \in Bytes : b < written' => eeprom'[b] = config
    <3>1. /\ eeprom' = EepromWith(config) /\ pc' = "eeprom"
          /\ addr' = addr + Chunk /\ written' = written + Chunk
      BY <1>6, <2>1, <2>2 DEF WritePage, Outcome
    <3>2. addr = written /\ \A b \in Bytes : b < written => eeprom[b] = config
      BY <2>1, <2>2 DEF LoopsOnTrack
    <3>3. addr \in Nat /\ written \in 0 .. Size
      BY DEF TypeOK
    <3>4. \A b \in Bytes :
              EepromWith(config)[b] = IF addr <= b /\ b < addr + Chunk THEN config
                                      ELSE eeprom[b]
      BY <2>1, <3>3, TransferWrites, Sizes
    <3>5. Chunk \in Nat
      BY <2>1, <3>3, ChunkFits, Sizes
    <3> QED
      BY <3>1, <3>2, <3>3, <3>4, <3>5, Sizes
  <2>3. mode # "absent"
    BY <2>1 DEF LoopsOnTrack
  <2> QED
    BY <1>0, <2>1, <2>2, <2>3 DEF LoopsOnTrack
<1>7. CASE EepromDone \/ FlashDone
  BY <1>7 DEF EepromDone, FlashDone, LoopsOnTrack
<1>8. CASE Erase
  <2>1. /\ pc = "erase" /\ pc' = "program" /\ saved' = saved /\ eepromOk' = eepromOk
        /\ word' = word /\ config' = config
    BY <1>8 DEF Erase
  <2>2. mode = "absent" => flash' = [w \in FlashCells |-> Blank]
    BY <1>8 DEF Erase, Outcome
  <2>3. mode = "absent" => word = 0
    BY <2>1 DEF LoopsOnTrack
  <2> QED
    BY <1>0, <2>1, <2>2, <2>3, Sizes DEF LoopsOnTrack
<1>9. CASE ProgramWord
  <2>1. /\ pc = "program" /\ pc' = pc /\ saved' = saved /\ eepromOk' = eepromOk
        /\ word' = word + 1 /\ config' = config /\ word < Words
    BY <1>9 DEF ProgramWord
  <2>2. ASSUME mode = "absent", NEW w \in FlashCells
        PROVE  flash'[w] = IF w < word' THEN config ELSE Blank
    <3>1. \A u \in FlashCells : flash[u] = IF u < word THEN config ELSE Blank
      BY <2>1, <2>2 DEF LoopsOnTrack
    <3>2. word \in FlashCells /\ word \in Nat
      BY <2>1, Sizes DEF TypeOK, FlashCells
    <3>3. flash' = [flash EXCEPT ![word] = config]
      BY <1>9, <2>2, <3>1, <3>2 DEF ProgramWord, Outcome
    <3>4. flash'[w] = IF w = word THEN config ELSE flash[w]
      BY <3>2, <3>3 DEF TypeOK
    <3> QED
      BY <2>1, <3>1, <3>2, <3>4, Sizes
  <2> QED
    BY <1>0, <2>1, <2>2 DEF LoopsOnTrack
<1>10. CASE Crash
  BY <1>0, <1>10 DEF Crash, LoopsOnTrack
<1>11. CASE UNCHANGED vars
  BY <1>11 DEF vars, LoopsOnTrack
<1> QED
  BY <1>1, <1>2, <1>3, <1>4, <1>5, <1>6, <1>7, <1>8, <1>9, <1>10, <1>11
     DEF Next, Steps

\* A whole copy of a version is found, whatever it is found beside.
LEMMA FoundCopy ==
    ASSUME NEW v \in Version
    PROVE  /\ (\A b \in Bytes : eeprom[b] = v) => Found(TRUE) = v
           /\ (\A w \in FlashCells : flash[w] = v) => Found(FALSE) = v
BY Sizes DEF Found, EepromValid, FlashValid

\* Only a save changes what storage gives, and it is through when it says so.
LEMMA FoundStep ==
    ASSUME TypeOK, LoopsOnTrack, SavedIsFound, [Next]_vars
    PROVE  SavedIsFound'
<1> USE DEF loop, storage
<1> SUFFICES ASSUME mode \in {"good", "absent"}, mode' = mode, saved' # None
             PROVE  Found(mode = "good")' = saved'
  <2>1. mode' = mode
    BY DEF Next, Steps, vars, Probe, Load, Start, SetConfig, CallSave, Save,
           WritePage, EepromDone, Erase, ProgramWord, FlashDone, Crash
  <2> QED
    BY <2>1 DEF SavedIsFound, TypeOK
<1>1. ASSUME UNCHANGED <<storage, saved>>
      PROVE  Found(mode = "good")' = saved'
  BY <1>1 DEF SavedIsFound, Found, EepromValid, FlashValid
<1>2. CASE Probe \/ Start \/ CallSave \/ UNCHANGED vars
  BY <1>1, <1>2 DEF Probe, Start, CallSave, vars
<1>3. ASSUME NEW v \in Version, SetConfig(v) PROVE Found(mode = "good")' = saved'
  BY <1>1, <1>3 DEF SetConfig
<1>4. CASE Load
  <2>1. eepromOk = (mode = "good")
    BY <1>4 DEF Load, LoopsOnTrack, TypeOK
  <2>2. UNCHANGED storage
    BY <1>4 DEF Load
  <2>3. \/ saved' = Found(mode = "good")
        \/ saved' = saved
    BY <1>4, <2>1 DEF Load, Outcome, Found
  <2> QED
    BY <1>1, <2>2, <2>3 DEF Found, EepromValid, FlashValid
<1>5. CASE Save \/ WritePage \/ Erase \/ ProgramWord
  BY <1>5 DEF Save, WritePage, Erase, ProgramWord, LoopsOnTrack
<1>6. CASE EepromDone
  <2>1. mode = "good" /\ saved' = config /\ UNCHANGED storage /\ config \in Version
    BY <1>6, ConfigThere DEF EepromDone, LoopsOnTrack
  <2>2. \A b \in Bytes : b < written
    BY <1>6, Sizes DEF EepromDone, TypeOK
  <2>3. \A b \in Bytes : eeprom[b] = config
    BY <1>6, <2>1, <2>2 DEF EepromDone, LoopsOnTrack
  <2>4. Found(TRUE) = config
    BY <2>1, <2>3, FoundCopy
  <2> QED
    BY <2>1, <2>4 DEF Found, EepromValid, FlashValid
<1>7. CASE FlashDone
  <2>1. mode = "absent" /\ saved' = config /\ UNCHANGED storage /\ config \in Version
    BY <1>7, ConfigThere DEF FlashDone, LoopsOnTrack
  <2>2. \A w \in FlashCells : w < word
    BY <1>7, Sizes DEF FlashDone, TypeOK
  <2>3. \A w \in FlashCells : flash[w] = config
    BY <1>7, <2>1, <2>2 DEF FlashDone, LoopsOnTrack
  <2>4. Found(FALSE) = config
    BY <2>1, <2>3, FoundCopy
  <2> QED
    BY <2>1, <2>4 DEF Found, EepromValid, FlashValid
<1>8. CASE Crash
  <2>1. saved' = saved
    BY <1>8 DEF Crash
  <2>2. pc \notin {"eeprom", "erase", "program"}
    BY <2>1 DEF LoopsOnTrack
  <2> QED
    BY <1>1, <1>8, <2>1, <2>2 DEF Crash
<1> QED
  BY <1>2, <1>3, <1>4, <1>5, <1>6, <1>7, <1>8 DEF Next, Steps

\* A load takes what storage gives.
LEMMA LoadTakesFound ==
    ASSUME TypeOK, LoopsOnTrack, SavedIsFound, [Next]_vars, LoadStep,
           mode # "flaky"
    PROVE  saved \in {None, config'}
<1> SUFFICES ASSUME saved # None PROVE config' = saved
  OBVIOUS
<1>1. Load
  BY DEF LoadStep, Next, Steps, vars, Probe, Start, SetConfig, CallSave, Save,
         WritePage, EepromDone, Erase, ProgramWord, FlashDone, Crash
<1>2. Found(mode = "good") = saved
  BY DEF SavedIsFound
<1>3. eepromOk = (mode = "good")
  BY <1>1 DEF Load, LoopsOnTrack, TypeOK
<1>4. \/ config' = Found(mode = "good")
      \/ Found(mode = "good") = None
  BY <1>1, <1>3 DEF Load, Outcome, Found
<1> QED
  BY <1>2, <1>4

LEMMA StorageInvariant == Spec => [](TypeOK /\ LoopsOnTrack /\ SavedIsFound)
<1>1. Init => TypeOK /\ LoopsOnTrack /\ SavedIsFound
  <2> SUFFICES ASSUME Init PROVE TypeOK /\ LoopsOnTrack /\ SavedIsFound
    OBVIOUS
  <2>1. eeprom \in [EepromCells -> Cell] /\ flash \in [FlashCells -> Cell]
    BY DEF Init, Cell
  <2>2. 0 \in 0 .. Size /\ 0 \in 0 .. Words /\ 0 \in 0 .. MaxCrashes
    BY Sizes, StorageAssumption
  <2>3. TypeOK
    BY <2>1, <2>2 DEF Init, TypeOK
  <2> QED
    BY <2>3 DEF Init, LoopsOnTrack, SavedIsFound
<1>2. TypeOK /\ LoopsOnTrack /\ SavedIsFound /\ [Next]_vars
        => (TypeOK /\ LoopsOnTrack /\ SavedIsFound)'
  BY TypeStep, LoopsStep, FoundStep
<1> QED
  BY <1>1, <1>2, PTL DEF Spec

\* s_config is never a torn or spoilt configuration, and every transfer to the
\* EEPROM and every word of the Flash is inside the structure.
THEOREM StorageTypeCorrect == Spec => []TypeOK
BY StorageInvariant, PTL

\* What the loops of eeprom_write and flash_save have behind them is written, for every
\* size of the structure and of a page of the EEPROM.
THEOREM LoopsAlwaysOnTrack == Spec => []LoopsOnTrack
BY StorageInvariant, PTL

\* With parts that work, storage gives what was saved or loaded last, for every
\* size, and wherever the power failed.
THEOREM SavedAlwaysFound == Spec => []SavedIsFound
BY StorageInvariant, PTL

\* ... so that every start loads it.
THEOREM StartLoadsLastSaved == Spec => SteadyLoadsLastSaved
<1>1. TypeOK /\ LoopsOnTrack /\ SavedIsFound /\ [Next]_vars
        => [LoadStep /\ mode # "flaky" => saved \in {None, config'}]_vars
  BY LoadTakesFound
<1> QED
  BY <1>1, StorageInvariant, PTL DEF Spec, SteadyLoadsLastSaved

-----------------------------------------------------------------------------
(* The two copies of ConfigCopies.                                         *)

\* A page is written behind the one before.
LoopsTogether == pc = "eeprom" => addr = written

LEMMA TogetherStep ==
    ASSUME TypeOK, LoopsTogether, [Next]_vars
    PROVE  LoopsTogether'
<1> USE DEF LoopsTogether, loop
<1>1. CASE Save
  BY <1>1 DEF Save
<1>2. CASE WritePage
  BY <1>2 DEF WritePage
<1>3. CASE ~Save /\ ~WritePage
  BY <1>3 DEF Next, Steps, vars, Probe, Load, Start, SetConfig, CallSave, EepromDone, Erase,
              ProgramWord, FlashDone, Crash
<1> QED
  BY <1>1, <1>2, <1>3

\* A copy is of a version when all of it is.
LEMMA CopyWhole ==
    /\ Primary \in Version \cup {None} /\ Backup \in Version \cup {None}
    /\ \A v \in Version : Primary = v <=> \A b \in Bytes : eeprom[b] = v
    /\ \A v \in Version : Backup = v <=> \A w \in FlashCells : flash[w] = v
BY Sizes, NoneIsNoVersion DEF Primary, Backup, EepromValid, FlashValid

LEMMA CopyWholeNext ==
    /\ Primary' \in Version \cup {None} /\ Backup' \in Version \cup {None}
    /\ \A v \in Version : Primary' = v <=> \A b \in Bytes : eeprom'[b] = v
    /\ \A v \in Version : Backup' = v <=> \A w \in FlashCells : flash'[w] = v
BY Sizes, NoneIsNoVersion DEF Primary, Backup, EepromValid, FlashValid

\* A copy nothing writes stays what it is.
LEMMA CopiesKept ==
    /\ eeprom' = eeprom => Primary' = Primary
    /\ flash' = flash => Backup' = Backup
BY DEF Primary, Backup, EepromValid, FlashValid

\* A transfer of c leaves the EEPROM in pieces, or whole with c.
LEMMA TransferLeaves ==
    ASSUME TypeOK, LoopsTogether, pc = "eeprom", written < Size, NEW c,
           eeprom' = EepromWith(c)
    PROVE  Primary' \in {None, c}
<1>1. addr = written /\ addr \in Nat /\ written \in 0 .. Size /\ written \in Bytes
  BY Sizes DEF TypeOK, LoopsTogether, Bytes
<1>2. Chunk \in 1 .. Size - written
  BY <1>1, ChunkFits
<1>3. eeprom'[written] = c
  <2>1. EepromWith(c)[written] = IF addr <= written /\ written < addr + Chunk THEN c ELSE eeprom[written]
    BY <1>1, TransferWrites, Sizes
  <2> QED
    BY <1>1, <1>2, <2>1
<1> QED
  BY <1>1, <1>3, CopyWholeNext

\* A word c in the Flash leaves it in pieces, or whole with c.
LEMMA WordLeaves ==
    ASSUME TypeOK, word < Words, NEW c, flash' = [flash EXCEPT ![word] = c]
    PROVE  Backup' \in {None, c}
<1>1. word \in FlashCells
  BY Sizes DEF TypeOK, FlashCells
<1>2. flash'[word] = c
  BY <1>1 DEF TypeOK
<1> QED
  BY <1>1, <1>2, CopyWholeNext

\* Where the program is, in the terms of ConfigCopies.
LEMMA PhaseOf ==
    /\ pc \in {"probe", "load"} => Phase = "off"
    /\ pc \in {"loaded", "run"} => Phase = "on"
    /\ pc = "save" => Phase = "due"
    /\ pc = "eeprom" => Phase = "primary"
    /\ pc \in {"erase", "program"} => Phase = "backup"
BY DEF Phase

LEMMA PhaseOfNext ==
    /\ pc' \in {"probe", "load"} => Phase' = "off"
    /\ pc' \in {"loaded", "run"} => Phase' = "on"
    /\ pc' = "save" => Phase' = "due"
    /\ pc' = "eeprom" => Phase' = "primary"
    /\ pc' \in {"erase", "program"} => Phase' = "backup"
BY DEF Phase

LEMMA CopiesInit ==
    ASSUME Init PROVE Copies!Init
BY CopyWhole, PhaseOf DEF Init, Copies!Init

\* Every step is one of ConfigCopies, or none of its variables tell of it.
LEMMA CopiesStep ==
    ASSUME TypeOK, LoopsOnTrack, LoopsTogether, [Next]_vars
    PROVE  [Copies!Next]_(Copies!vars)
<1> USE DEF loop, storage
<1>0. mode' = mode
  BY DEF Next, Steps, vars, Probe, Load, Start, SetConfig, CallSave, Save, WritePage,
         EepromDone, Erase, ProgramWord, FlashDone, Crash
<1>s. ASSUME config' = config, Primary' = Primary, Backup' = Backup, Phase' = Phase
      PROVE  UNCHANGED Copies!vars
  BY <1>0, <1>s DEF Copies!vars
<1>1. CASE Probe \/ Start
  <2>1. config' = config /\ eeprom' = eeprom /\ flash' = flash /\ Phase' = Phase
    BY <1>1, PhaseOf, PhaseOfNext DEF Probe, Start
  <2> QED
    BY <1>s, <2>1, CopiesKept
<1>2. CASE Load
  <2>1. /\ pc = "load" /\ Phase = "off"
        /\ Primary' = Primary /\ Backup' = Backup
    BY <1>2, PhaseOf, CopiesKept DEF Load
  <2>2. PICK readOk \in Outcome :
           \/ /\ eepromOk /\ readOk /\ EepromValid
              /\ config' = eeprom[0]
              /\ pc' = "loaded"
           \/ /\ ~(eepromOk /\ readOk /\ EepromValid)
              /\ FlashValid
              /\ config' = flash[0]
              /\ pc' = "loaded"
           \/ /\ ~(eepromOk /\ readOk /\ EepromValid)
              /\ ~FlashValid
              /\ config' = Default
              /\ pc' = "save"
    BY <1>2 DEF Load
  <2> DEFINE reach == IF eepromOk /\ readOk THEN "primary" ELSE "backup"
  <2>3. reach \in Copies!Reach
    BY <2>1, <2>2 DEF Outcome, Copies!Reach, LoopsOnTrack, TypeOK
  <2>4. /\ EepromValid <=> Primary # None
        /\ FlashValid <=> Backup # None
        /\ EepromValid => Primary = eeprom[0]
        /\ FlashValid => Backup = flash[0]
    <3>1. /\ EepromValid => eeprom[0] \in Version
          /\ FlashValid => flash[0] \in Version
      BY Sizes DEF EepromValid, FlashValid
    <3> QED
      BY <3>1, NoneIsNoVersion DEF Primary, Backup
  <2>5. CASE eepromOk /\ readOk /\ EepromValid /\ config' = eeprom[0] /\ pc' = "loaded"
    <3>1. Copies!Choice(reach) = config' /\ config' # None /\ Phase' = "on"
      BY <2>4, <2>5, PhaseOfNext DEF Copies!Choice
    <3> QED
      BY <1>0, <2>1, <2>3, <3>1 DEF Copies!Start, Copies!Next
  <2>6. CASE /\ ~(eepromOk /\ readOk /\ EepromValid) /\ FlashValid
             /\ config' = flash[0] /\ pc' = "loaded"
    <3>1. Copies!Choice(reach) = config' /\ config' # None /\ Phase' = "on"
      BY <2>4, <2>6, PhaseOfNext DEF Copies!Choice
    <3> QED
      BY <1>0, <2>1, <2>3, <3>1 DEF Copies!Start, Copies!Next
  <2>7. CASE /\ ~(eepromOk /\ readOk /\ EepromValid) /\ ~FlashValid
             /\ config' = Default /\ pc' = "save"
    <3>1. Copies!Choice(reach) = None /\ Phase' = "due"
      BY <2>4, <2>7, PhaseOfNext DEF Copies!Choice
    <3> QED
      BY <1>0, <2>1, <2>3, <2>7, <3>1 DEF Copies!Start, Copies!Next
  <2> QED
    BY <2>2, <2>5, <2>6, <2>7
<1>3. ASSUME NEW v \in Version, SetConfig(v) PROVE Copies!Next
  <2>1. /\ Phase = "on" /\ Phase' = "on" /\ config' = v
        /\ Primary' = Primary /\ Backup' = Backup
    BY <1>3, PhaseOf, PhaseOfNext, CopiesKept DEF SetConfig
  <2> QED
    BY <1>0, <2>1 DEF Copies!Change, Copies!Next
<1>4. CASE CallSave
  <2>1. /\ Phase = "on" /\ Phase' = "due" /\ config' = config
        /\ Primary' = Primary /\ Backup' = Backup
    BY <1>4, PhaseOf, PhaseOfNext, CopiesKept DEF CallSave
  <2> QED
    BY <1>0, <2>1 DEF Copies!Ask, Copies!Next
<1>5. CASE Save
  <2>1. /\ Phase = "due" /\ config' = config
        /\ Phase' = IF eepromOk THEN "primary" ELSE "backup"
        /\ Primary' = Primary /\ Backup' = Backup
    BY <1>5, PhaseOf, PhaseOfNext, CopiesKept DEF Save
  <2>2. Phase' \in Copies!Reach
    BY <1>5, <2>1 DEF Save, Copies!Reach, LoopsOnTrack, TypeOK
  <2> QED
    BY <1>0, <2>1, <2>2 DEF Copies!Begin, Copies!Next
<1>6. CASE WritePage
  <2>1. /\ pc = "eeprom" /\ written < Size /\ Phase = "primary"
        /\ config' = config /\ Backup' = Backup /\ config \in Version
    BY <1>6, PhaseOf, CopiesKept, ConfigThere DEF WritePage
  <2>2. CASE eeprom' = EepromWith(config) /\ pc' = pc
    <3>1. Primary' \in {None, config} /\ Phase' = Phase
      BY <2>1, <2>2, TransferLeaves, PhaseOfNext
    <3> QED
      BY <1>0, <2>1, <3>1 DEF Copies!Write, Copies!Next
  <2>3. CASE mode = "flaky" /\ eeprom' \in {eeprom, EepromWith(Junk)} /\ pc' = "erase"
    <3>1. Phase' = "backup"
      BY <2>3, PhaseOfNext
    <3>2. CASE eeprom' = eeprom
      BY <1>0, <2>1, <2>3, <3>1, <3>2, CopiesKept DEF Copies!GiveUp, Copies!Next
    <3>3. CASE eeprom' = EepromWith(Junk)
      <4>1. Primary' \in {None, Junk}
        BY <2>1, <3>3, TransferLeaves
      <4>2. Primary' = None
        BY <4>1, CopyWholeNext, StorageAssumption
      <4> QED
        BY <1>0, <2>1, <2>3, <3>1, <4>2 DEF Copies!GiveUp, Copies!Next
    <3> QED
      BY <2>3, <3>2, <3>3
  <2> QED
    BY <1>6, <2>2, <2>3 DEF WritePage, Outcome
<1>7. CASE EepromDone
  <2>1. /\ pc = "eeprom" /\ Phase = "primary" /\ Phase' = "on"
        /\ config' = config /\ Primary' = Primary /\ Backup' = Backup
        /\ config \in Version
    BY <1>7, PhaseOf, PhaseOfNext, CopiesKept, ConfigThere DEF EepromDone
  <2>2. ASSUME mode # "flaky" PROVE config = Primary
    <3>1. \A b \in Bytes : b < written
      BY <1>7, Sizes DEF EepromDone, TypeOK
    <3>2. mode = "good"
      BY <2>1, <2>2 DEF LoopsOnTrack, TypeOK
    <3>3. \A b \in Bytes : eeprom[b] = config
      BY <2>1, <3>1, <3>2 DEF LoopsOnTrack
    <3> QED
      BY <2>1, <3>3, CopyWhole
  <2> QED
    BY <1>0, <2>1, <2>2 DEF Copies!End, Copies!Next
<1>8. CASE Erase
  <2>1. /\ Phase = "backup" /\ Phase' = "backup"
        /\ config' = config /\ Primary' = Primary
    BY <1>8, PhaseOf, PhaseOfNext, CopiesKept DEF Erase
  <2>2. CASE flash' = flash
    BY <1>s, <2>1, <2>2, CopiesKept
  <2>3. CASE flash' = [w \in FlashCells |-> Blank]
    <3>1. Backup' = None
      BY <2>3, CopyWholeNext, Sizes, StorageAssumption
    <3> QED
      BY <1>0, <2>1, <3>1 DEF Copies!Write, Copies!Next
  <2> QED
    BY <1>8, <2>2, <2>3 DEF Erase
<1>9. CASE ProgramWord
  <2>1. /\ Phase = "backup" /\ Phase' = "backup" /\ word < Words
        /\ config' = config /\ Primary' = Primary
    BY <1>9, PhaseOf, PhaseOfNext, CopiesKept DEF ProgramWord
  <2>2. CASE flash' = flash
    BY <1>s, <2>1, <2>2, CopiesKept
  <2>3. CASE flash' = [flash EXCEPT ![word] = config]
    <3>1. Backup' \in {None, config}
      BY <2>1, <2>3, WordLeaves
    <3> QED
      BY <1>0, <2>1, <3>1 DEF Copies!Write, Copies!Next
  <2> QED
    BY <1>9, <2>2, <2>3 DEF ProgramWord
<1>10. CASE FlashDone
  <2>1. /\ pc = "program" /\ Phase = "backup" /\ Phase' = "on"
        /\ config' = config /\ Primary' = Primary /\ Backup' = Backup
        /\ config \in Version
    BY <1>10, PhaseOf, PhaseOfNext, CopiesKept, ConfigThere DEF FlashDone
  <2>2. ASSUME mode # "flaky" PROVE config = Backup
    <3>1. \A w \in FlashCells : w < word
      BY <1>10, Sizes DEF FlashDone, TypeOK
    <3>2. mode = "absent"
      BY <2>1, <2>2 DEF LoopsOnTrack, TypeOK
    <3>3. \A w \in FlashCells : flash[w] = config
      BY <2>1, <3>1, <3>2 DEF LoopsOnTrack
    <3> QED
      BY <2>1, <3>3, CopyWhole
  <2> QED
    BY <1>0, <2>1, <2>2 DEF Copies!End, Copies!Next
<1>11. CASE Crash
  <2>1. config' = None /\ Phase' = "off"
    BY <1>11, PhaseOfNext DEF Crash
  <2>2. Primary' \in {Primary} \cup (IF Phase = "primary" THEN {None} ELSE {})
    <3>1. CASE eeprom' = eeprom
      BY <3>1, CopiesKept
    <3>2. CASE pc = "eeprom" /\ written < Size /\ eeprom' = EepromWith(Junk)
      <4>1. Primary' \in {None, Junk}
        BY <3>2, TransferLeaves
      <4> QED
        BY <3>2, <4>1, CopyWholeNext, PhaseOf, StorageAssumption
    <3> QED
      BY <1>11, <3>1, <3>2 DEF Crash
  <2>3. Backup' \in {Backup} \cup (IF Phase = "backup" THEN {None} ELSE {})
    <3>1. CASE flash' = flash
      BY <3>1, CopiesKept
    <3>2. CASE pc = "erase" /\ flash' = [w \in FlashCells |-> Junk]
      <4>1. Backup' = None
        BY <3>2, CopyWholeNext, Sizes, StorageAssumption
      <4> QED
        BY <3>2, <4>1, PhaseOf
    <3>3. CASE pc = "program" /\ word < Words /\ flash' = [flash EXCEPT ![word] = Junk]
      <4>1. Backup' \in {None, Junk}
        BY <3>3, WordLeaves
      <4> QED
        BY <3>3, <4>1, CopyWholeNext, PhaseOf, StorageAssumption
    <3> QED
      BY <1>11, <3>1, <3>2, <3>3 DEF Crash
  <2> QED
    BY <1>0, <2>1, <2>2, <2>3 DEF Copies!PowerFails, Copies!Next
<1>12. CASE UNCHANGED vars
  <2>1. config' = config /\ eeprom' = eeprom /\ flash' = flash /\ Phase' = Phase
    BY <1>12 DEF vars, Phase
  <2> QED
    BY <1>s, <2>1, CopiesKept
<1> QED
  BY <1>1, <1>2, <1>3, <1>4, <1>5, <1>6, <1>7, <1>8, <1>9, <1>10, <1>11, <1>12
     DEF Next, Steps

\* For every size of the configuration, of the pages and whatever fails: the EEPROM and
\* the Flash are the two copies of ConfigCopies, through every transfer of eeprom_write,
\* every word of flash_save, and a power failure in any of them.
THEOREM StorageImplementsCopies == Spec => ImplementsCopies
<1>1. Init => Copies!Init /\ LoopsTogether
  BY CopiesInit DEF Init, LoopsTogether
<1>2. TypeOK /\ LoopsTogether /\ [Next]_vars => LoopsTogether'
  BY TogetherStep
<1>3. TypeOK /\ LoopsOnTrack /\ LoopsTogether /\ [Next]_vars
        => [Copies!Next]_(Copies!vars)
  BY CopiesStep
<1> QED
  BY <1>1, <1>2, <1>3, StorageInvariant, PTL DEF Spec, ImplementsCopies, Copies!Spec
=============================================================================
