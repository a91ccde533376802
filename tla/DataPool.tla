------------------------------ MODULE DataPool ------------------------------
(***************************************************************************)
(* data_pool.c: every value is kept twice, whole in s_values and split     *)
(* into the registers of s_regs, with s_reg_map telling which half of      *)
(* which point a register mirrors.  Only the main loop calls the pool, one *)
(* operation at a time; RebuildMap, a pair of nested loops, takes one step *)
(* per data point here so that its loop invariant can be stated.           *)
(*                                                                         *)
(* A value is the pair of words its 32 bits are, which is all that the     *)
(* shifts and masks of the code do to it.                                  *)
(***************************************************************************)
EXTENDS Naturals, FiniteSets

CONSTANTS
    MaxSensors,     \* CFG_MAX_SENSORS
    MaxPoints,      \* CFG_MAX_DATA_POINTS
    Counts,         \* the sensor_count and dp_count a stored config may have
    Word, Zero,     \* the 16-bit words, and the one memset leaves
    Addrs           \* the register addresses the Modbus servers pass

ASSUME PoolAssumption ==
    /\ MaxSensors \in Nat \ {0}
    /\ MaxPoints \in Nat \ {0}
    /\ Counts \subseteq Nat
    /\ Zero \in Word
    /\ Addrs \subseteq Nat

VARIABLES
    sensorCount, dpCount,   \* the configuration, fixed from start to reset
    values,                 \* s_values
    regs,                   \* s_regs
    regMap,                 \* s_reg_map
    totalRegs,              \* s_total_regs
    si, di,                 \* the loop counters of DataPool_RebuildMap
    rebuilding,             \* RebuildMap has been called and not returned
    reply                   \* address and result of the latest ReadReg

config == <<sensorCount, dpCount>>
map == <<regMap, totalRegs, si, di, rebuilding>>
vars == <<config, values, regs, map, reply>>

Sensors == 0 .. MaxSensors - 1
Points == Sensors \X (0 .. MaxPoints - 1)
MaxRegs == MaxSensors * MaxPoints * 2       \* MAX_TOTAL_REGS
RegAddrs == 0 .. MaxRegs - 1
Half == {"lo", "hi"}
Value == [Half -> Word]
Entry == [point : Points, half : Half]      \* RegMap_t

\* DataPool_Init: two memsets, then RebuildMap.
Init ==
    /\ sensorCount \in Counts
    /\ dpCount \in [Sensors -> Counts]
    /\ values = [p \in Points |-> [h \in Half |-> Zero]]
    /\ regs = [a \in RegAddrs |-> Zero]
    /\ regMap = [a \in RegAddrs |-> [point |-> <<0, 0>>, half |-> "lo"]]
    /\ totalRegs = 0
    /\ si = 0
    /\ di = 0
    /\ rebuilding = TRUE
    /\ reply = <<0, Zero>>
\* The points the configuration has, within the array bounds.
Active == {p \in Points : p[1] < sensorCount /\ p[2] < dpCount[p[1]]}

-----------------------------------------------------------------------------
\* The register map loop: every register of the point takes its new half.
\* The only caller, the Modbus master, passes configured points.

\* Faulty variant of SetValue: the loop stops at the first register found.
SetValueFirstOnly(p, v) ==
    /\ ~rebuilding
    /\ values' = [values EXCEPT ![p] = v]
    /\ regs' = [a \in RegAddrs |->
                   IF a < totalRegs /\ regMap[a].point = p
                        /\ regMap[a].half = "lo"
                   THEN v[regMap[a].half] ELSE regs[a]]
    /\ UNCHANGED <<config, map, reply>>

SetValue(p, v) ==
    /\ ~rebuilding
    /\ values' = [values EXCEPT ![p] = v]
    /\ regs' = [a \in RegAddrs |->
                   IF a < totalRegs /\ regMap[a].point = p
                   THEN v[regMap[a].half] ELSE regs[a]]
    /\ UNCHANGED <<config, map, reply>>

\* Faulty variant of WriteReg: the raw value is replaced, not merged.
WriteRegUnmerged(a, w) ==
    /\ ~rebuilding
    /\ a < totalRegs
    /\ regs' = [regs EXCEPT ![a] = w]
    /\ values' = [values EXCEPT ![regMap[a].point] = [h \in {regMap[a].half} |-> w]]
    /\ UNCHANGED <<config, map, reply>>

\* Faulty variant of WriteReg: the raw value is not written back.
WriteRegOnly(a, w) ==
    /\ ~rebuilding
    /\ a < totalRegs
    /\ regs' = [regs EXCEPT ![a] = w]
    /\ UNCHANGED <<config, values, map, reply>>

WriteReg(a, w) ==
    /\ ~rebuilding
    /\ a < totalRegs
    /\ regs' = [regs EXCEPT ![a] = w]
    /\ values' = [values EXCEPT ![regMap[a].point][regMap[a].half] = w]
    /\ UNCHANGED <<config, map, reply>>

ReadReg(a) ==
    /\ ~rebuilding
    /\ reply' = <<a, IF a >= totalRegs THEN Zero ELSE regs[a]>>
    /\ UNCHANGED <<config, values, regs, map>>
-----------------------------------------------------------------------------
(* DataPool_RebuildMap.                                                    *)

RebuildMap ==
    /\ ~rebuilding
    /\ totalRegs' = 0
    /\ si' = 0
    /\ di' = 0
    /\ rebuilding' = TRUE
    /\ UNCHANGED <<config, values, regs, regMap, reply>>

MoreSensors == si < sensorCount /\ si < MaxSensors
MorePoints == di < dpCount[si] /\ di < MaxPoints

\* The body of the inner loop: a low and a high register, each entered only
\* while s_total_regs < MAX_TOTAL_REGS.
MapPoint ==
    /\ rebuilding
    /\ MoreSensors
    /\ MorePoints
    /\ LET half == [a \in {totalRegs, totalRegs + 1} |->
                       IF a = totalRegs THEN "lo" ELSE "hi"]
       IN  /\ regMap' = [a \in RegAddrs |->
                  IF a \in DOMAIN half
                  THEN [point |-> <<si, di>>, half |-> half[a]] ELSE regMap[a]]
           /\ regs' = [a \in RegAddrs |->
                  IF a \in DOMAIN half THEN values[<<si, di>>][half[a]] ELSE regs[a]]
    /\ totalRegs' = IF totalRegs + 2 > MaxRegs THEN MaxRegs ELSE totalRegs + 2
    /\ di' = di + 1
    /\ UNCHANGED <<config, values, si, rebuilding, reply>>

\* Faulty variant of MapNextSensor: di goes on where the last sensor ended.
MapNextSensorNoReset ==
    /\ rebuilding
    /\ MoreSensors
    /\ ~MorePoints
    /\ si' = si + 1
    /\ UNCHANGED <<config, values, regs, regMap, totalRegs, di, rebuilding, reply>>

MapNextSensor ==
    /\ rebuilding
    /\ MoreSensors
    /\ ~MorePoints
    /\ si' = si + 1
    /\ di' = 0
    /\ UNCHANGED <<config, values, regs, regMap, totalRegs, rebuilding, reply>>

MapDone ==
    /\ rebuilding
    /\ ~MoreSensors
    /\ rebuilding' = FALSE
    /\ UNCHANGED <<config, values, regs, regMap, totalRegs, si, di, reply>>

Next ==
    \/ \E p \in Active, v \in Value : SetValue(p, v)
    \/ \E a \in Addrs, w \in Word : WriteReg(a, w)
    \/ \E a \in Addrs : ReadReg(a)
    \/ RebuildMap
    \/ MapPoint
    \/ MapNextSensor
    \/ MapDone

Spec == Init /\ [][Next]_vars
-----------------------------------------------------------------------------
TypeOK ==
    /\ sensorCount \in Counts
    /\ dpCount \in [Sensors -> Counts]
    /\ values \in [Points -> Value]
    /\ regs \in [RegAddrs -> Word]
    /\ regMap \in [RegAddrs -> Entry]
    /\ totalRegs \in 0 .. MaxRegs
    /\ si \in 0 .. MaxSensors
    /\ di \in 0 .. MaxPoints
    /\ rebuilding \in BOOLEAN
    /\ reply \in (Addrs \cup {0}) \X Word

Store == INSTANCE PointStore WITH active <- Active, store <- values

\* The points the loops have passed.
Passed == {p \in Active : p[1] < si \/ (p[1] = si /\ p[2] < di)}

\* The loop invariant of RebuildMap.  The registers below s_total_regs are
\* the halves of the points passed, each once and in order, so the bound on
\* s_total_regs is never what ends the loop; after it they are all the points.
MapCorrect ==
    /\ totalRegs = 2 * Cardinality(Passed)
    /\ \A a \in 0 .. totalRegs - 1 :
           /\ regMap[a].point \in Passed
           /\ a = Store!Address(regMap[a].point, regMap[a].half)
    /\ ~rebuilding => Passed = Active

\* s_regs and s_values are two copies of the same data and never differ,
\* whichever of SetValue, WriteReg and RebuildMap ran last.
RegsMirrorValues ==
    \A a \in 0 .. totalRegs - 1 :
        regs[a] = values[regMap[a].point][regMap[a].half]

\* The two copies and the map behave as the single store of PointStore: a
\* register read gives the latest word, from the sensor or from a client, of
\* the point its position in the configuration calls for.
ImplementsStore == Store!Spec
=============================================================================
