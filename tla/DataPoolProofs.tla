--------------------------- MODULE DataPoolProofs ---------------------------
(***************************************************************************)
(* Proofs about DataPool, for every number of sensors and points, every    *)
(* configuration and every set of words: RebuildMap lays the points out    *)
(* completely and without overlap, the two copies of a value never differ, *)
(* and the pool implements PointStore.                                     *)
(***************************************************************************)
EXTENDS DataPool, TLAPS, FiniteSetTheorems

LEMMA PointsFinite ==
    IsFiniteSet(Points) /\ Cardinality(Points) = MaxSensors * MaxPoints
<1> DEFINE S == 0 .. MaxSensors - 1
           T == 0 .. MaxPoints - 1
<1>1. IsFiniteSet(S) /\ Cardinality(S) = MaxSensors
  BY PoolAssumption, FS_Interval
<1>2. IsFiniteSet(T) /\ Cardinality(T) = MaxPoints
  BY PoolAssumption, FS_Interval
<1>3. Points = S \X T
  BY DEF Points, Sensors
<1> HIDE DEF S, T
<1>4. IsFiniteSet(S \X T) /\ Cardinality(S \X T) = Cardinality(S) * Cardinality(T)
  BY <1>1, <1>2, FS_Product
<1> QED
  BY <1>1, <1>2, <1>3, <1>4

LEMMA ConstantTypes ==
    /\ MaxRegs \in Nat
    /\ MaxRegs = 2 * (MaxSensors * MaxPoints)
    /\ <<0, 0>> \in Points
<1>1. MaxSensors * MaxPoints \in Nat
  BY PoolAssumption
<1>2. MaxRegs = 2 * (MaxSensors * MaxPoints)
  BY PoolAssumption DEF MaxRegs
<1> QED
  BY <1>1, <1>2, PoolAssumption DEF Points, Sensors

\* Every index the pool computes is inside its arrays.
THEOREM PoolTypeCorrect == Spec => []TypeOK
<1>1. Init => TypeOK
  BY PoolAssumption, ConstantTypes
     DEF Init, TypeOK, Value, Entry, Half, RegAddrs
<1>2. TypeOK /\ [Next]_vars => TypeOK'
  <2> SUFFICES ASSUME TypeOK, [Next]_vars PROVE TypeOK'
    OBVIOUS
  <2> USE DEF TypeOK, config, map
  <2>1. ASSUME NEW p \in Active, NEW v \in Value, SetValue(p, v) PROVE TypeOK'
    <3>1. p \in Points
      BY DEF Active
    <3>2. values' \in [Points -> Value]
      BY <2>1, <3>1 DEF SetValue
    <3>3. regs' \in [RegAddrs -> Word]
      <4> \A a \in RegAddrs : v[regMap[a].half] \in Word
        BY DEF Value, Entry
      <4> QED
        BY <2>1 DEF SetValue
    <3> QED
      BY <2>1, <3>2, <3>3 DEF SetValue
  <2>2. ASSUME NEW a \in Addrs, NEW w \in Word, WriteReg(a, w) PROVE TypeOK'
    <3>1. a \in RegAddrs
      BY <2>2, PoolAssumption, ConstantTypes DEF WriteReg, RegAddrs
    <3>2. regMap[a].point \in Points /\ regMap[a].half \in Half
      BY <3>1 DEF Entry
    <3>3. [values[regMap[a].point] EXCEPT ![regMap[a].half] = w] \in Value
      BY <3>2 DEF Value
    <3> QED
      BY <2>2, <3>2, <3>3 DEF WriteReg
  <2>3. ASSUME NEW a \in Addrs, ReadReg(a) PROVE TypeOK'
    <3>1. a < totalRegs => a \in RegAddrs
      BY PoolAssumption, ConstantTypes DEF RegAddrs
    <3>2. (IF a >= totalRegs THEN Zero ELSE regs[a]) \in Word
      BY <3>1, PoolAssumption, ConstantTypes
    <3> QED
      BY <2>3, <3>2 DEF ReadReg
  <2>4. CASE RebuildMap
    BY <2>4, PoolAssumption, ConstantTypes DEF RebuildMap
  <2>5. CASE MapPoint
    <3>1. si \in Sensors /\ di \in 0 .. MaxPoints - 1 /\ <<si, di>> \in Points
      BY <2>5, PoolAssumption
         DEF MapPoint, MoreSensors, MorePoints, Points, Sensors
    <3>2. totalRegs' \in 0 .. MaxRegs
      BY <2>5, ConstantTypes DEF MapPoint
    <3>3. di' \in 0 .. MaxPoints
      BY <2>5, <3>1, PoolAssumption DEF MapPoint
    <3> DEFINE h(a) == IF a = totalRegs THEN "lo" ELSE "hi"
               fresh == {totalRegs, totalRegs + 1}
    <3>4. regMap' = [a \in RegAddrs |-> IF a \in fresh
                       THEN [point |-> <<si, di>>, half |-> h(a)] ELSE regMap[a]]
      BY <2>5 DEF MapPoint
    <3>5. regs' = [a \in RegAddrs |-> IF a \in fresh
                       THEN values[<<si, di>>][h(a)] ELSE regs[a]]
      BY <2>5 DEF MapPoint
    <3>6. \A a : h(a) \in Half
      BY DEF Half
    <3>7. \A a : values[<<si, di>>][h(a)] \in Word
      BY <3>1, <3>6 DEF Value
    <3>8. regMap' \in [RegAddrs -> Entry] /\ regs' \in [RegAddrs -> Word]
      <4> HIDE DEF h, fresh
      <4> QED
        BY <3>1, <3>4, <3>5, <3>6, <3>7 DEF Entry
    <3> QED
      BY <2>5, <3>2, <3>3, <3>8 DEF MapPoint
  <2>6. CASE MapNextSensor
    BY <2>6, PoolAssumption DEF MapNextSensor, MoreSensors
  <2>7. CASE MapDone
    BY <2>7 DEF MapDone
  <2>8. CASE UNCHANGED vars
    BY <2>8 DEF vars
  <2> QED
    BY <2>1, <2>2, <2>3, <2>4, <2>5, <2>6, <2>7, <2>8 DEF Next
<1> QED
  BY <1>1, <1>2, PTL DEF Spec
-----------------------------------------------------------------------------
(* The register layout.                                                    *)

\* The sets of points the layout counts are finite.
LEMMA FiniteCounts ==
    /\ IsFiniteSet(Active) /\ Cardinality(Active) \in Nat
    /\ IsFiniteSet(Passed) /\ Cardinality(Passed) \in Nat
    /\ Cardinality(Passed) <= MaxSensors * MaxPoints
<1>1. Active \in SUBSET Points /\ Passed \in SUBSET Points
  BY DEF Active, Passed
<1>2. IsFiniteSet(Active) /\ IsFiniteSet(Passed)
      /\ Cardinality(Passed) <= Cardinality(Points)
  BY <1>1, PointsFinite, FS_Subset
<1> QED
  BY <1>2, PointsFinite, FS_CardinalityType

\* PointStore counts with the same Cardinality.
LEMMA SameCardinality == \A S : Store!Cardinality(S) = Cardinality(S)
BY DEF Store!Cardinality, Cardinality

\* One turn of the inner loop passes one more point, and the registers it
\* fills are the ones PointStore gives that point.
LEMMA PointPassed ==
    ASSUME TypeOK, TypeOK', MapPoint
    PROVE  /\ <<si, di>> \in Active
           /\ Passed' = Passed \cup {<<si, di>>}
           /\ Cardinality(Passed') = Cardinality(Passed) + 1
           /\ Cardinality(Passed) + 1 <= MaxSensors * MaxPoints
           /\ \A h \in Half : Store!Address(<<si, di>>, h) =
                  2 * Cardinality(Passed) + (IF h = "lo" THEN 0 ELSE 1)
<1> DEFINE p == <<si, di>>
<1>1. si \in Nat /\ di \in Nat /\ p \in Points /\ p \in Active
  BY PoolAssumption
     DEF MapPoint, MoreSensors, MorePoints, Active, Points, Sensors, TypeOK
<1>2. \A q \in Active : q = <<q[1], q[2]>> /\ q[1] \in Nat /\ q[2] \in Nat
  BY PoolAssumption DEF Active, Points, Sensors
<1>3. Active' = Active /\ si' = si /\ di' = di + 1
  BY DEF MapPoint, Active, config
<1>4. p \notin Passed
  BY <1>1 DEF Passed
<1>5. \A q \in Active : q[1] = si /\ q[2] < di + 1 <=> q = p \/ (q[1] = si /\ q[2] < di)
  BY <1>1, <1>2
<1>6. Passed' = Passed \cup {p}
  BY <1>1, <1>3, <1>5 DEF Passed
<1>7. {q \in Active : Store!Precedes(q, p)} = Passed
  BY DEF Store!Precedes, Passed
<1>8. \A h \in Half : Store!Address(p, h) =
          2 * Cardinality(Passed) + (IF h = "lo" THEN 0 ELSE 1)
  BY <1>7, SameCardinality DEF Store!Address
<1>9. Cardinality(Passed \cup {p}) = Cardinality(Passed) + 1
  <2> HIDE DEF p
  <2> QED
    BY <1>4, FiniteCounts, FS_AddElement
<1>10. Cardinality(Passed \cup {p}) <= MaxSensors * MaxPoints
  <2>1. Passed \cup {p} \in SUBSET Points
    BY <1>1 DEF Passed, Active
  <2> HIDE DEF p
  <2> QED
    BY <2>1, PointsFinite, FS_Subset
<1> QED
  BY <1>1, <1>6, <1>8, <1>9, <1>10

\* The guards s_total_regs < MAX_TOTAL_REGS never fail: there is always room
\* for both registers of the next point.
LEMMA TwoMoreRegs ==
    ASSUME TypeOK, TypeOK', MapCorrect, MapPoint
    PROVE  /\ totalRegs \in Nat
           /\ totalRegs = 2 * Cardinality(Passed) /\ Cardinality(Passed) \in Nat
           /\ totalRegs' = totalRegs + 2
           /\ totalRegs + 2 <= MaxRegs
<1> DEFINE M == MaxSensors * MaxPoints
<1>1. totalRegs = 2 * Cardinality(Passed) /\ Cardinality(Passed) \in Nat
  BY FiniteCounts DEF MapCorrect
<1>2. M \in Nat /\ MaxRegs = 2 * M /\ Cardinality(Passed) + 1 <= M
  BY PointPassed, ConstantTypes, PoolAssumption
<1>3. totalRegs' = IF totalRegs + 2 > MaxRegs THEN MaxRegs ELSE totalRegs + 2
  BY DEF MapPoint
<1> HIDE DEF M
<1> QED
  BY <1>1, <1>2, <1>3

\* The address of a point does not change while the configuration does not.
LEMMA AddressFixed ==
    ASSUME UNCHANGED config
    PROVE  /\ Active' = Active
           /\ \A p, h : Store!Address(p, h)' = Store!Address(p, h)
BY DEF config, Active, Store!Address, Store!Precedes,
       Store!Cardinality, Cardinality

\* RebuildMap enters every configured point once, in order and within the
\* arrays; when it returns, the map is complete and no register is left over.
THEOREM LayoutCorrect == Spec => []MapCorrect
<1>1. Init => MapCorrect
  <2> SUFFICES ASSUME Init PROVE MapCorrect
    OBVIOUS
  <2>1. Passed = {}
    BY PoolAssumption DEF Init, Passed, Active, Points, Sensors
  <2> QED
    BY <2>1, FS_EmptySet DEF Init, MapCorrect
<1>2. TypeOK /\ TypeOK' /\ MapCorrect /\ [Next]_vars => MapCorrect'
  <2> SUFFICES ASSUME TypeOK, TypeOK', MapCorrect, [Next]_vars
               PROVE  MapCorrect'
    OBVIOUS
  <2>1. UNCHANGED config /\ Active' = Active
        /\ \A p, h : Store!Address(p, h)' = Store!Address(p, h)
    <3>1. UNCHANGED config
      BY DEF Next, vars, config, SetValue, WriteReg, ReadReg, RebuildMap,
             MapPoint, MapNextSensor, MapDone
    <3> QED
      BY <3>1, AddressFixed
  <2>2. ASSUME UNCHANGED map PROVE MapCorrect'
    <3>1. Passed' = Passed
      BY <2>1, <2>2 DEF map, Passed
    <3> QED
      BY <2>1, <2>2, <3>1 DEF map, MapCorrect
  <2>3. CASE RebuildMap
    <3>1. Passed' = {}
      BY <2>1, <2>3, PoolAssumption DEF RebuildMap, Passed, Active, Points, Sensors
    <3> QED
      BY <2>3, <3>1, FS_EmptySet DEF RebuildMap, MapCorrect
  <2>4. CASE MapPoint
    <3> DEFINE p == <<si, di>>
    <3>1. /\ p \in Active
          /\ Passed' = Passed \cup {p}
          /\ Cardinality(Passed') = Cardinality(Passed) + 1
          /\ Cardinality(Passed) + 1 <= MaxSensors * MaxPoints
          /\ \A h \in Half : Store!Address(p, h) =
                 2 * Cardinality(Passed) + (IF h = "lo" THEN 0 ELSE 1)
      BY <2>4, PointPassed
    <3> HIDE DEF p
    <3>2. totalRegs \in Nat /\ totalRegs = 2 * Cardinality(Passed)
          /\ Cardinality(Passed) \in Nat
      BY <2>4, TwoMoreRegs
    <3>3. totalRegs' = totalRegs + 2 /\ totalRegs + 2 <= MaxRegs
      BY <2>4, TwoMoreRegs
    <3>4. totalRegs' = 2 * Cardinality(Passed')
      BY <3>1, <3>2, <3>3
    <3>5. ASSUME NEW a \in 0 .. totalRegs' - 1
          PROVE  /\ regMap'[a].point \in Passed'
                 /\ a = Store!Address(regMap'[a].point, regMap'[a].half)
      <4>1. a \in RegAddrs
        BY <3>2, <3>3, ConstantTypes DEF RegAddrs
      <4>2. CASE a \in 0 .. totalRegs - 1
        <5>1. a \notin {totalRegs, totalRegs + 1}
          BY <4>2, <3>2
        <5>2. regMap'[a] = regMap[a]
          BY <2>4, <4>1, <5>1 DEF MapPoint
        <5> QED
          BY <4>2, <5>2, <3>1 DEF MapCorrect
      <4>3. CASE a = totalRegs
        <5>1. regMap'[a] = [point |-> p, half |-> "lo"]
          BY <2>4, <4>1, <4>3 DEF MapPoint, p
        <5> QED
          BY <4>3, <5>1, <3>1, <3>2 DEF Half
      <4>4. CASE a = totalRegs + 1
        <5>1. a # totalRegs
          BY <4>4, <3>2
        <5>2. regMap'[a] = [point |-> p, half |-> "hi"]
          BY <2>4, <4>1, <4>4, <5>1 DEF MapPoint, p
        <5> QED
          BY <4>4, <5>2, <3>1, <3>2 DEF Half
      <4>5. a \in 0 .. totalRegs - 1 \/ a = totalRegs \/ a = totalRegs + 1
        <5>1. a \in 0 .. (totalRegs + 2) - 1
          BY <3>3
        <5> QED
          BY <3>2, <5>1
      <4> QED
        BY <4>2, <4>3, <4>4, <4>5
    <3>6. rebuilding'
      BY <2>4 DEF MapPoint
    <3> QED
      BY <2>1, <3>4, <3>5, <3>6 DEF MapCorrect
  <2>5. CASE MapNextSensor
    <3>1. Passed' = Passed
      <4>1. si \in Nat /\ di \in Nat /\ si' = si + 1 /\ di' = 0
        BY <2>5 DEF MapNextSensor, TypeOK
      <4>2. ASSUME NEW q \in Active
            PROVE  (q[1] < si + 1 \/ (q[1] = si + 1 /\ q[2] < 0))
                       <=> (q[1] < si \/ (q[1] = si /\ q[2] < di))
        <5>1. q[1] \in Nat /\ q[2] \in Nat /\ q[2] < MaxPoints /\ q[2] < dpCount[q[1]]
          BY PoolAssumption DEF Active, Points, Sensors
        <5>2. q[1] = si => q[2] < di
          <6>1. dpCount[si] \in Nat
            <7>1. si \in Sensors
              BY <2>5, <4>1, PoolAssumption DEF MapNextSensor, MoreSensors, Sensors
            <7>2. dpCount[si] \in Counts
              BY <7>1 DEF TypeOK
            <7> QED
              BY <7>2, PoolAssumption
          <6> QED
            BY <2>5, <4>1, <5>1, <6>1, PoolAssumption DEF MapNextSensor, MorePoints
        <5> QED
          BY <4>1, <5>1, <5>2
      <4> QED
        BY <2>1, <4>1, <4>2 DEF Passed
    <3> QED
      BY <2>1, <2>5, <3>1 DEF MapNextSensor, MapCorrect
  <2>6. CASE MapDone
    <3>1. Passed' = Passed
      BY <2>1, <2>6 DEF MapDone, Passed
    <3>2. Passed = Active
      <4>1. \A q \in Active : q[1] < si
        BY <2>6, PoolAssumption
           DEF MapDone, MoreSensors, Active, Points, Sensors, TypeOK
      <4> QED
        BY <4>1 DEF Passed
    <3> QED
      BY <2>1, <2>6, <3>1, <3>2 DEF MapDone, MapCorrect
  <2> QED
    BY <2>2, <2>3, <2>4, <2>5, <2>6 DEF Next, SetValue, WriteReg, ReadReg, vars
<1> QED
  BY <1>1, <1>2, PoolTypeCorrect, PTL DEF Spec
-----------------------------------------------------------------------------
(* The two copies, and the store they make up.                             *)

\* Below s_total_regs the map never names the same half twice.
LEMMA EntriesDiffer ==
    ASSUME MapCorrect, NEW a \in 0 .. totalRegs - 1, NEW b \in 0 .. totalRegs - 1,
           regMap[a].point = regMap[b].point, regMap[a].half = regMap[b].half
    PROVE  a = b
BY DEF MapCorrect

\* A register and the value it is part of agree after every operation of every
\* client, also while RebuildMap is laying the registers out anew.
THEOREM CopiesAgree == Spec => []RegsMirrorValues
<1>1. Init => RegsMirrorValues
  BY DEF Init, RegsMirrorValues
<1>2. TypeOK /\ TypeOK' /\ MapCorrect /\ RegsMirrorValues /\ [Next]_vars
        => RegsMirrorValues'
  <2> SUFFICES ASSUME TypeOK, TypeOK', MapCorrect, RegsMirrorValues, [Next]_vars
               PROVE  RegsMirrorValues'
    OBVIOUS
  <2>0. /\ totalRegs \in Nat
        /\ \A a \in 0 .. totalRegs - 1 :
              /\ a \in RegAddrs
              /\ regMap[a].point \in Points
              /\ regMap[a].half \in Half
    <3>1. totalRegs \in Nat /\ totalRegs <= MaxRegs /\ MaxRegs \in Nat
      BY ConstantTypes DEF TypeOK
    <3>2. \A a \in 0 .. totalRegs - 1 : a \in RegAddrs
      BY <3>1 DEF RegAddrs
    <3>3. \A a \in RegAddrs : regMap[a] \in Entry
      BY DEF TypeOK
    <3> QED
      BY <3>1, <3>2, <3>3 DEF Entry
  <2>1. ASSUME NEW p \in Active, NEW v \in Value, SetValue(p, v)
        PROVE  RegsMirrorValues'
    <3>1. totalRegs' = totalRegs /\ regMap' = regMap
      BY <2>1 DEF SetValue, map
    <3>2. ASSUME NEW a \in 0 .. totalRegs - 1
          PROVE  regs'[a] = values'[regMap[a].point][regMap[a].half]
      <4>1. regs'[a] = IF regMap[a].point = p THEN v[regMap[a].half] ELSE regs[a]
        BY <2>0, <2>1 DEF SetValue
      <4>2. values'[regMap[a].point] =
                IF regMap[a].point = p THEN v ELSE values[regMap[a].point]
        BY <2>0, <2>1 DEF SetValue, TypeOK
      <4> QED
        BY <4>1, <4>2 DEF RegsMirrorValues
    <3> QED
      BY <3>1, <3>2 DEF RegsMirrorValues
  <2>2. ASSUME NEW a \in Addrs, NEW w \in Word, WriteReg(a, w)
        PROVE  RegsMirrorValues'
    <3>1. totalRegs' = totalRegs /\ regMap' = regMap /\ a \in 0 .. totalRegs - 1
      BY <2>0, <2>2, PoolAssumption DEF WriteReg, map
    <3> DEFINE p == regMap[a].point
               h == regMap[a].half
    <3>2. p \in Points /\ h \in Half
      BY <2>0, <3>1
    <3>3. values' = [values EXCEPT ![p] = [values[p] EXCEPT ![h] = w]]
      BY <2>2 DEF WriteReg
    <3>4. ASSUME NEW b \in 0 .. totalRegs - 1
          PROVE  regs'[b] = values'[regMap[b].point][regMap[b].half]
      <4>1. CASE b = a
        <5>1. regs'[a] = w
          BY <2>0, <2>2, <3>1 DEF WriteReg, TypeOK
        <5>2. values'[p][h] = w
          BY <3>2, <3>3 DEF TypeOK, Value
        <5> QED
          BY <4>1, <5>1, <5>2
      <4>2. CASE b # a
        <5>1. regs'[b] = regs[b]
          BY <2>0, <2>2, <4>2 DEF WriteReg, TypeOK
        <5>2. regMap[b].point # p \/ regMap[b].half # h
          BY <3>1, <4>2, EntriesDiffer
        <5>3. values'[regMap[b].point][regMap[b].half]
                 = values[regMap[b].point][regMap[b].half]
          <6> HIDE DEF p, h
          <6> regMap[b].point \in Points /\ regMap[b].half \in Half
            BY <2>0
          <6> QED
            BY <3>2, <3>3, <5>2 DEF TypeOK, Value
        <5> QED
          BY <5>1, <5>3 DEF RegsMirrorValues
      <4> QED
        BY <4>1, <4>2
    <3> QED
      BY <3>1, <3>4 DEF RegsMirrorValues
  <2>3. CASE RebuildMap
    BY <2>3 DEF RebuildMap, RegsMirrorValues
  <2>4. CASE MapPoint
    <3>1. /\ totalRegs' = totalRegs + 2
          /\ totalRegs + 2 <= MaxRegs
          /\ totalRegs \in Nat
          /\ values' = values
      BY <2>4, TwoMoreRegs DEF MapPoint
    <3>2. ASSUME NEW a \in 0 .. totalRegs' - 1
          PROVE  regs'[a] = values[regMap'[a].point][regMap'[a].half]
      <4>0. a \in 0 .. (totalRegs + 2) - 1
        BY <3>1
      <4>1. a \in RegAddrs
        BY <4>0, <3>1, ConstantTypes DEF RegAddrs
      <4>2. a \in 0 .. totalRegs - 1 \/ a \in {totalRegs, totalRegs + 1}
        BY <4>0, <3>1
      <4>3. CASE a \in {totalRegs, totalRegs + 1}
        BY <2>4, <4>1, <4>3 DEF MapPoint
      <4>4. CASE a \in 0 .. totalRegs - 1 /\ a \notin {totalRegs, totalRegs + 1}
        <5>1. regs'[a] = regs[a] /\ regMap'[a] = regMap[a]
          BY <2>4, <4>1, <4>4 DEF MapPoint
        <5> QED
          BY <4>4, <5>1 DEF RegsMirrorValues
      <4> QED
        BY <4>2, <4>3, <4>4
    <3> QED
      BY <3>1, <3>2 DEF RegsMirrorValues
  <2>5. ASSUME UNCHANGED <<values, regs, regMap, totalRegs>>
        PROVE  RegsMirrorValues'
    BY <2>5 DEF RegsMirrorValues
  <2> QED
    BY <2>1, <2>2, <2>3, <2>4, <2>5
       DEF Next, ReadReg, MapNextSensor, MapDone, vars, map
<1> QED
  BY <1>1, <1>2, PoolTypeCorrect, LayoutCorrect, PTL DEF Spec

\* The pool is one store: every register read, of a value the master set or
\* one a Modbus client wrote, returns what PointStore says.
THEOREM PoolImplementsStore == Spec => ImplementsStore
<1>1. Init => Store!Init
  BY DEF Init, Store!Init, Active, Half, Store!Half
<1>2. TypeOK /\ MapCorrect /\ RegsMirrorValues /\ [Next]_vars
        => [Store!Next]_(Store!vars)
  <2> SUFFICES ASSUME TypeOK, MapCorrect, RegsMirrorValues, [Next]_vars
               PROVE  [Store!Next]_(Store!vars)
    OBVIOUS
  <2> USE DEF Half, Store!Half
  <2>0. ASSUME NEW a \in 0 .. totalRegs - 1
        PROVE  /\ regMap[a].point \in Points
               /\ regMap[a].half \in Half
               /\ Store!Holds(a, regMap[a].point, regMap[a].half)
    <3>1. a \in RegAddrs
      BY ConstantTypes DEF TypeOK, RegAddrs
    <3>2. regMap[a].point \in Passed /\ a = Store!Address(regMap[a].point, regMap[a].half)
      BY DEF MapCorrect
    <3> QED
      BY <3>1, <3>2 DEF TypeOK, Entry, Passed, Store!Holds
  <2>1. ASSUME UNCHANGED config PROVE Active' = Active
    BY <2>1, AddressFixed
  <2>2. ASSUME NEW p \in Active, NEW v \in Value, SetValue(p, v)
        PROVE  Store!Next
    <3>1. p \in Points /\ v \in Store!Value
      BY DEF Active, Value, Store!Value
    <3>2. Store!SetValue(p, v)
      BY <2>1, <2>2 DEF SetValue, Store!SetValue
    <3> QED
      BY <3>1, <3>2 DEF Store!Next
  <2>3. ASSUME NEW a \in Addrs, NEW w \in Word, WriteReg(a, w)
        PROVE  Store!Next
    <3>1. a \in 0 .. totalRegs - 1
      BY <2>3, PoolAssumption DEF WriteReg, TypeOK
    <3>2. Store!WriteReg(a, w)
      BY <2>0, <2>1, <2>3, <3>1 DEF WriteReg, Store!WriteReg
    <3> QED
      BY <3>2 DEF Store!Next
  <2>4. ASSUME NEW a \in Addrs, ReadReg(a) PROVE Store!Next
    <3>1. Active' = Active /\ values' = values
      BY <2>1, <2>4 DEF ReadReg
    <3>2. CASE a < totalRegs
      <4>1. a \in 0 .. totalRegs - 1
        BY <3>2, PoolAssumption DEF TypeOK
      <4>2. reply' = <<a, values[regMap[a].point][regMap[a].half]>>
        <5>1. regs[a] = values[regMap[a].point][regMap[a].half]
          BY <4>1 DEF RegsMirrorValues
        <5>2. ~(a >= totalRegs)
          BY <3>2, PoolAssumption, ConstantTypes DEF TypeOK
        <5> QED
          BY <2>4, <5>1, <5>2 DEF ReadReg
      <4>3. Store!ReadReg(a)
        BY <2>0, <3>1, <4>1, <4>2 DEF Store!ReadReg
      <4> QED
        BY <4>3 DEF Store!Next
    <3>3. CASE a >= totalRegs
      <4>1. totalRegs = 2 * Cardinality(Active)
        BY <2>4 DEF ReadReg, MapCorrect
      <4>2. Store!ReadReg(a)
        BY <2>4, <3>1, <3>3, <4>1, SameCardinality DEF ReadReg, Store!ReadReg
      <4> QED
        BY <4>2 DEF Store!Next
    <3> QED
      BY <3>2, <3>3, PoolAssumption, ConstantTypes DEF TypeOK
  <2>5. ASSUME UNCHANGED <<config, values, reply>> PROVE UNCHANGED Store!vars
    BY <2>1, <2>5 DEF Store!vars
  <2> QED
    BY <2>2, <2>3, <2>4, <2>5
       DEF Next, RebuildMap, MapPoint, MapNextSensor, MapDone, vars
<1> QED
  BY <1>1, <1>2, PoolTypeCorrect, LayoutCorrect, CopiesAgree, PTL
     DEF Spec, ImplementsStore, Store!Spec
=============================================================================
