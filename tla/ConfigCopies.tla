---------------------------- MODULE ConfigCopies ----------------------------
(***************************************************************************)
(* What configuration storage promises, bytes and pages apart: two copies, *)
(* of which a start takes the first that is whole and within reach.  A     *)
(* save puts the configuration in use into one of them, which is not whole *)
(* while that goes on, and no other version ever appears there.            *)
(***************************************************************************)
CONSTANTS
    Version,        \* the configurations
    Default,        \* the one to start with
    None            \* no configuration

VARIABLES
    running,            \* the configuration in use
    primary, backup,    \* what each copy holds, None if it is not whole
    phase,              \* what the program is at
    parts               \* the primary is good or absent, or it and the backup may fail

vars == <<running, primary, backup, phase, parts>>

\* The copies that a start or a save may have within reach
Reach == CASE parts = "good" -> {"primary"}
           [] parts = "absent" -> {"backup"}
           [] parts = "flaky" -> {"primary", "backup"}

Init ==
    /\ running = None
    /\ primary \in Version \cup {None}
    /\ backup \in Version \cup {None}
    /\ phase = "off"
    /\ parts \in {"good", "absent", "flaky"}

\* Which of the copies a start takes, None if there is none
Choice(reach) ==
    IF reach = "primary" /\ primary # None THEN primary ELSE backup

Start ==
    /\ phase = "off"
    /\ \E reach \in Reach :
           \/ /\ Choice(reach) # None
              /\ running' = Choice(reach)
              /\ phase' = "on"
           \/ /\ Choice(reach) = None
              /\ running' = Default
              /\ phase' = "due"
    /\ UNCHANGED <<primary, backup, parts>>

Change(v) ==
    /\ phase = "on"
    /\ running' = v
    /\ UNCHANGED <<primary, backup, phase, parts>>

\* The configuration in use is to be saved,
Ask ==
    /\ phase = "on"
    /\ phase' = "due"
    /\ UNCHANGED <<running, primary, backup, parts>>

Begin ==
    /\ phase = "due"
    /\ phase' \in Reach
    /\ UNCHANGED <<running, primary, backup, parts>>

\* and is, in one copy, for which there may be steps that leave it in pieces;
Write ==
    /\ \/ phase = "primary" /\ primary' \in {None, running} /\ backup' = backup
       \/ phase = "backup" /\ backup' \in {None, running} /\ primary' = primary
    /\ UNCHANGED <<running, phase, parts>>

\* only if a part fails, in the other one.
GiveUp ==
    /\ parts = "flaky"
    /\ phase = "primary"
    /\ phase' = "backup"
    /\ primary' \in {None, primary}
    /\ UNCHANGED <<running, backup, parts>>

End ==
    /\ phase \in {"primary", "backup"}
    /\ parts # "flaky" => running = IF phase = "primary" THEN primary ELSE backup
    /\ phase' = "on"
    /\ UNCHANGED <<running, primary, backup, parts>>

\* At any time, the copy being written is lost at worst.
PowerFails ==
    /\ phase' = "off"
    /\ running' = None
    /\ primary' \in {primary} \cup (IF phase = "primary" THEN {None} ELSE {})
    /\ backup' \in {backup} \cup (IF phase = "backup" THEN {None} ELSE {})
    /\ UNCHANGED parts

Next ==
    \/ Start \/ Ask \/ Begin \/ Write \/ GiveUp \/ End \/ PowerFails
    \/ \E v \in Version : Change(v)

Spec == Init /\ [][Next]_vars
=============================================================================
