------------------------- MODULE ModbusMasterProofs -------------------------
(***************************************************************************)
(* Proofs about ModbusMaster, for every configuration, interval, timeout   *)
(* and number of retries: the cursor stays inside the configuration, the   *)
(* retries are bounded, and timely devices' answers go to their points.    *)
(***************************************************************************)
EXTENDS ModbusMaster, TLAPS, SequenceTheorems

LEMMA PointsShape ==
    /\ \A p \in Points : /\ p = <<p[1], p[2]>> /\ p[1] \in Sensors
                         /\ p[2] \in Nat /\ p[2] < DpCount[p[1]]
    /\ \A s \in Sensors, d \in Nat : d < DpCount[s] => <<s, d>> \in Points
<1>1. \A s \in Sensors : DpCount[s] \in Nat
  BY MasterAssumption
<1>2. ASSUME NEW p \in Points
      PROVE  /\ p = <<p[1], p[2]>> /\ p[1] \in Sensors
             /\ p[2] \in Nat /\ p[2] < DpCount[p[1]]
  <2>1. PICK s \in Sensors : p \in {s} \X (0 .. DpCount[s] - 1)
    BY DEF Points
  <2> QED
    BY <1>1, <2>1
<1>3. ASSUME NEW s \in Sensors, NEW d \in Nat, d < DpCount[s]
      PROVE  <<s, d>> \in Points
  BY <1>1, <1>3 DEF Points
<1> QED
  BY <1>2, <1>3

\* The first byte of a frame of two pieces is one of its pieces.
LEMMA FirstElement ==
    ASSUME NEW S, NEW s \in Seq(S), Len(s) = 2
    PROVE  s[1] \in S /\ 1 \in DOMAIN s
<1>1. 1 \in 1 .. Len(s)
  OBVIOUS
<1>2. s[1] \in S
  BY <1>1, ElementOfSeq
<1>3. DOMAIN s = 1 .. Len(s)
  OBVIOUS
<1> QED
  BY <1>1, <1>2, <1>3

\* A frame is a sequence of pieces.
LEMMA FrameProperties ==
    ASSUME NEW p \in Points, NEW ok \in BOOLEAN
    PROVE  /\ Frame(p, ok) \in Seq(Piece)
           /\ Len(Frame(p, ok)) = 2
           /\ \A i \in 1 .. 2 : Frame(p, ok)[i].from = p
<1>1. Frame(p, ok) \in [1 .. 2 -> Piece]
  BY DEF Frame, Piece
<1> QED
  BY <1>1 DEF Frame

\* What send_request and process_response may index.
LEMMA PositionInside ==
    ASSUME TypeOK, curSensor < SensorCount, curDp < DpCount[curSensor]
    PROVE  position \in Points
BY PointsShape, MasterAssumption DEF TypeOK, Sensors, position

\* Types follow from the types and the two bounds in the state before: the
\* cursor bounds s_cur_sensor and s_retry is bounded by the requests sent.
LEMMA TypeStep ==
    ASSUME TypeOK, CursorValid, RetriesBounded, [Next]_vars
    PROVE  TypeOK'
<1> USE MasterAssumption DEF TypeOK, position, ages, bus, world
<1>1. CASE StartCycle
  BY <1>1 DEF StartCycle
<1>2. CASE SendNothing
  BY <1>2 DEF SendNothing
<1>3. CASE SendRequest
  <2>1. position \in Points
    BY <1>3, PositionInside DEF SendRequest
  <2>2. owed' \subseteq Points /\ ring' \in Seq(Piece)
    <3> HIDE DEF position
    <3> QED
      BY <1>3, <2>1, EmptySeq DEF SendRequest
  <2> QED
    BY <1>3, <2>2 DEF SendRequest
<1>4. CASE Receive
  BY <1>4, EmptySeq DEF Receive
<1>5. CASE TimedOut
  <2>1. retry < MaxRetry
    BY <1>5 DEF TimedOut, RetriesBounded
  <2> QED
    BY <1>5, <2>1 DEF TimedOut
<1>6. CASE ProcessResponse
  <2>1. values' \in [Points -> SUBSET Points]
    <3>1. ASSUME Complete(rxBuf) PROVE rxBuf[1].from \in Points
      <4>1. rxBuf \in Seq(Piece) /\ Len(rxBuf) = 2
        BY <3>1 DEF Complete
      <4>2. rxBuf[1] \in Piece
        BY <4>1, FirstElement
      <4> QED
        BY <4>2 DEF Piece
    <3> QED
      BY <1>6, <3>1 DEF ProcessResponse
  <2> QED
    BY <1>6, <2>1 DEF ProcessResponse
<1>7. CASE Advance
  <2>1. curSensor < SensorCount
    BY <1>7 DEF Advance, CursorValid
  <2>2. curSensor' \in 0 .. SensorCount /\ curDp' \in Nat
    BY <1>7, <2>1 DEF Advance
  <2>3. state' \in {"idle", "send"}
    BY <1>7 DEF Advance
  <2> QED
    BY <1>7, <2>2, <2>3 DEF Advance
<1>8. ASSUME NEW p \in Points, NEW ok \in BOOLEAN, Answer(p, ok) PROVE TypeOK'
  <2>1. Frame(p, ok) \in Seq(Piece) /\ Frame(p, ok) # <<>>
    BY FrameProperties
  <2>2. Head(Frame(p, ok)) \in Piece /\ Tail(Frame(p, ok)) \in Seq(Piece)
    BY <2>1, HeadTailProperties
  <2>3. <<Head(Frame(p, ok))>> \in Seq(Piece)
    BY <2>2
  <2>4. /\ ring \o Frame(p, ok) \in Seq(Piece)
        /\ ring \o <<Head(Frame(p, ok))>> \in Seq(Piece)
    BY <2>1, <2>3, ConcatProperties
  <2>5. ring' \in Seq(Piece) /\ sending' \in Seq(Piece)
    BY <1>8, <2>2, <2>4 DEF Answer
  <2> QED
    BY <1>8, <2>5 DEF Answer
<1>9. CASE FinishFrame
  <2>1. ring' \in Seq(Piece)
    BY <1>9, ConcatProperties DEF FinishFrame
  <2> QED
    BY <1>9, <2>1 DEF FinishFrame
<1>10. ASSUME NEW p \in Points, StaySilent(p) PROVE TypeOK'
  BY <1>10 DEF StaySilent
<1>11. ASSUME NEW p \in Points, NEW ok \in BOOLEAN, Noise(p, ok)
       PROVE  TypeOK'
  <2>1. ring' \in Seq(Piece)
    BY <1>11, FrameProperties, ConcatProperties DEF Noise
  <2> QED
    BY <1>11, <2>1 DEF Noise
<1>12. CASE Tick
  BY <1>12 DEF Tick
<1>13. CASE UNCHANGED vars
  BY <1>13 DEF vars
<1> QED
  BY <1>1, <1>2, <1>3, <1>4, <1>5, <1>6, <1>7, <1>8, <1>9, <1>10, <1>11,
     <1>12, <1>13 DEF Next, Process, Device

LEMMA CursorStep ==
    ASSUME TypeOK, TypeOK', CursorValid, [Next]_vars
    PROVE  CursorValid'
<1> USE MasterAssumption DEF CursorValid, TypeOK
<1>1. CASE StartCycle
  <2> 0 \in Sensors /\ DpCount[0] \in Nat
    BY <1>1 DEF StartCycle, Sensors
  <2> QED
    BY <1>1 DEF StartCycle
<1>2. CASE SendNothing
  BY <1>2 DEF SendNothing, position
<1>3. CASE SendRequest
  <2>1. position \in Points
    BY <1>3, PositionInside DEF SendRequest
  <2> QED
    BY <1>3, <2>1 DEF SendRequest, position
<1>4. CASE Receive
  BY <1>4 DEF Receive, position
<1>5. ASSUME TimedOut \/ ProcessResponse PROVE CursorValid'
  <2>1. position \in Points
    BY <1>5 DEF TimedOut, ProcessResponse
  <2>2. curSensor < SensorCount /\ curDp < DpCount[curSensor]
    <3> HIDE DEF TypeOK, CursorValid
    <3>1. position[1] = curSensor /\ position[2] = curDp
      BY DEF position
    <3> QED
      BY <2>1, <3>1, PointsShape DEF Sensors
  <2>3. state' \in {"next", "send"} /\ curSensor' = curSensor /\ curDp' = curDp
    BY <1>5 DEF TimedOut, ProcessResponse, position
  <2> QED
    BY <2>2, <2>3
<1>6. CASE Advance
  <2>1. curSensor < SensorCount /\ curSensor \in Nat
    BY <1>6 DEF Advance
  <2>0. DpCount[curSensor] \in Nat /\ curDp \in Nat
    BY <2>1 DEF Sensors
  <2>2. CASE curDp + 1 < DpCount[curSensor]
    <3>1. curDp' = curDp + 1 /\ curSensor' = curSensor /\ state' = "send"
      BY <1>6, <2>0, <2>2 DEF Advance
    <3> QED
      BY <2>1, <2>0, <2>2, <3>1
  <2>3. CASE curDp + 1 >= DpCount[curSensor]
    <3>1. curDp' = 0 /\ curSensor' = curSensor + 1
          /\ state' = IF curSensor + 1 >= SensorCount THEN "idle" ELSE "send"
      BY <1>6, <2>0, <2>1, <2>3 DEF Advance
    <3>2. curSensor + 1 < SensorCount => DpCount[curSensor + 1] \in Nat
      BY <2>1 DEF Sensors
    <3> QED
      BY <2>1, <3>1, <3>2
  <2> QED
    BY <2>0, <2>2, <2>3
<1>7. ASSUME UNCHANGED <<state, position>> PROVE CursorValid'
  BY <1>7 DEF position
<1> QED
  BY <1>1, <1>2, <1>3, <1>4, <1>5, <1>6, <1>7
     DEF Next, Process, Device, Answer, FinishFrame, StaySilent, Noise,
         Tick, vars

LEMMA RetriesStep ==
    ASSUME TypeOK, RetriesBounded, [Next]_vars
    PROVE  RetriesBounded'
<1> USE MasterAssumption DEF RetriesBounded, TypeOK
<1>1. CASE StartCycle
  BY <1>1 DEF StartCycle
<1>2. CASE SendNothing
  BY <1>2 DEF SendNothing
<1>3. CASE SendRequest
  BY <1>3 DEF SendRequest
<1>4. CASE Receive
  BY <1>4 DEF Receive
<1>5. CASE TimedOut
  BY <1>5 DEF TimedOut
<1>6. CASE ProcessResponse
  BY <1>6 DEF ProcessResponse
<1>7. CASE Advance
  <2>1. retry' = 0 /\ sent' = 0 /\ state' \in {"idle", "send"}
    BY <1>7 DEF Advance
  <2> QED
    BY <2>1
<1>8. ASSUME UNCHANGED <<state, retry, sent>> PROVE RetriesBounded'
  BY <1>8
<1> QED
  BY <1>1, <1>2, <1>3, <1>4, <1>5, <1>6, <1>7, <1>8
     DEF Next, Process, Device, Answer, FinishFrame, StaySilent, Noise,
         Tick, vars

\* The master's own invariant: the types, the cursor and the retry count
\* support each other, none is preserved alone.
LEMMA MasterInvariant == Spec => [](TypeOK /\ CursorValid /\ RetriesBounded)
<1>1. Init => TypeOK /\ CursorValid /\ RetriesBounded
  BY MasterAssumption, EmptySeq DEF Init, TypeOK, CursorValid, RetriesBounded
<1>2. TypeOK /\ CursorValid /\ RetriesBounded /\ [Next]_vars
        => (TypeOK /\ CursorValid /\ RetriesBounded)'
  BY TypeStep, CursorStep, RetriesStep
<1> QED
  BY <1>1, <1>2, PTL DEF Spec

\* The state and the buffers of the master stay well formed.
THEOREM MasterTypeCorrect == Spec => []TypeOK
BY MasterInvariant, PTL

\* Whatever the devices do, the master only ever uses a sensor and a point the
\* configuration has.
THEOREM CursorAlwaysValid == Spec => []CursorValid
BY MasterInvariant, PTL

\* No point gets more than CFG_MODBUS_MAX_RETRY requests in a cycle.
THEOREM RetriesAlwaysBounded == Spec => []RetriesBounded
BY MasterInvariant, PTL
-----------------------------------------------------------------------------
\* The invariant behind TimelyAnswersMatch: a step keeps the bus free of
\* requests the master has given up.
LEMMA TimelyBusStep ==
    ASSUME TypeOK, TimelyBus, [Next]_vars
    PROVE  TimelyBus'
<1> SUFFICES ASSUME ~late, ~split, ~noisy PROVE TimelyBus'
  <2>1. world' = world
    BY DEF Next, Process, Device, vars, StartCycle, SendNothing, SendRequest,
           Receive, TimedOut, ProcessResponse, Advance, Answer, FinishFrame,
           StaySilent, Noise, Tick
  <2>2. late' = late /\ split' = split /\ noisy' = noisy
    BY <2>1 DEF world
  <2> QED
    BY <2>2 DEF TimelyBus, Orderly
<1>0. /\ sending = <<>>
      /\ owed \subseteq {position}
      /\ owed # {} => state = "wait" /\ ring = <<>> /\ sendAge < Timeout
      /\ state = "wait" => \A i \in DOMAIN ring : ring[i].from = position
      /\ state = "process" => \A i \in DOMAIN rxBuf : rxBuf[i].from = position
  BY DEF TimelyBus, Orderly
<1>a. sendAge \in Nat /\ Timeout \in Nat /\ Timeout > 0
  BY MasterAssumption DEF TypeOK
<1>1. ASSUME StartCycle \/ SendNothing \/ ProcessResponse \/ Advance
      PROVE  TimelyBus'
  <2>1. owed = {}
    BY <1>0, <1>1 DEF StartCycle, SendNothing, ProcessResponse, Advance
  <2>2. owed' = owed /\ sending' = sending /\ state' \notin {"wait", "process"}
    BY <1>1 DEF StartCycle, SendNothing, ProcessResponse, Advance, bus
  <2> QED
    BY <1>0, <2>1, <2>2 DEF TimelyBus
<1>2. CASE SendRequest
  <2>1. /\ owed' = {position} /\ position' = position /\ sending' = sending
        /\ ring' = <<>> /\ sendAge' = 0 /\ state' = "wait"
    BY <1>0, <1>2 DEF SendRequest
  <2> QED
    BY <1>0, <1>a, <2>1 DEF TimelyBus
<1>3. CASE Receive
  <2>1. owed = {} /\ state = "wait"
    BY <1>0, <1>3 DEF Receive
  <2>2. /\ owed' = owed /\ sending' = sending /\ position' = position
        /\ rxBuf' = ring /\ state' = "process"
    BY <1>3 DEF Receive, bus
  <2> QED
    BY <1>0, <2>1, <2>2 DEF TimelyBus
<1>4. CASE TimedOut
  <2>1. owed = {}
    BY <1>0, <1>a, <1>4 DEF TimedOut
  <2>2. owed' = owed /\ sending' = sending /\ state' \in {"next", "send"}
    BY <1>4 DEF TimedOut, bus
  <2> QED
    BY <1>0, <2>1, <2>2 DEF TimelyBus
<1>5. ASSUME NEW p \in Points, NEW ok \in BOOLEAN, Answer(p, ok)
      PROVE  TimelyBus'
  <2>1. p = position /\ state = "wait" /\ ring = <<>>
    BY <1>0, <1>5 DEF Answer
  <2>2. ring' = <<>> \o Frame(p, ok) /\ sending' = sending
    BY <1>5, <2>1 DEF Answer
  <2>3. ring' = Frame(p, ok)
    BY <2>2, FrameProperties
  <2>4. \A i \in DOMAIN ring' : ring'[i].from = position
    BY <2>1, <2>3, FrameProperties DEF Frame
  <2>5. owed' = {} /\ state' = state /\ position' = position
    BY <1>0, <1>5, <2>1 DEF Answer
  <2> QED
    BY <1>0, <2>1, <2>2, <2>4, <2>5 DEF TimelyBus
<1>6. CASE FinishFrame
  BY <1>0, <1>6 DEF FinishFrame
<1>7. ASSUME NEW p \in Points, StaySilent(p) PROVE TimelyBus'
  <2>1. /\ owed' \subseteq owed /\ position' = position /\ sending' = sending
        /\ ring' = ring /\ rxBuf' = rxBuf /\ state' = state /\ sendAge' = sendAge
    BY <1>7 DEF StaySilent, ages
  <2> QED
    BY <1>0, <2>1 DEF TimelyBus
<1>8. CASE Tick
  <2>1. /\ owed' = owed /\ position' = position /\ sending' = sending
        /\ ring' = ring /\ rxBuf' = rxBuf /\ state' = state
    BY <1>8 DEF Tick, bus
  <2>2. owed # {} => sendAge' < Timeout
    BY <1>a, <1>8 DEF Tick
  <2> QED
    BY <1>0, <2>1, <2>2 DEF TimelyBus
<1>9. CASE UNCHANGED vars
  BY <1>0, <1>9 DEF vars, ages, bus, TimelyBus
<1>10. ~(\E p \in Points, ok \in BOOLEAN : Noise(p, ok))
  BY DEF Noise
<1> QED
  BY <1>1, <1>2, <1>3, <1>4, <1>5, <1>6, <1>7, <1>8, <1>9, <1>10
     DEF Next, Process, Device

\* Only process_response stores, and what it stores came from the point.
LEMMA TimelyMatchStep ==
    ASSUME TypeOK, TimelyBus, TimelyAnswersMatch, [Next]_vars
    PROVE  TimelyAnswersMatch'
<1>1. CASE ProcessResponse
  <2>1. Orderly' = Orderly
    BY <1>1 DEF Orderly, ProcessResponse, world
  <2> SUFFICES ASSUME Orderly, NEW p \in Points
               PROVE  values'[p] \subseteq {p}
    BY <2>1 DEF TimelyAnswersMatch, AnswersMatchRequests
  <2>2. values[p] \subseteq {p} /\ values \in [Points -> SUBSET Points]
    BY DEF TypeOK, TimelyAnswersMatch, AnswersMatchRequests, Orderly
  <2>3. CASE Complete(rxBuf)
    <3>1. rxBuf \in Seq(Piece) /\ Len(rxBuf) = 2
      BY <2>3 DEF TypeOK, Complete
    <3>2. rxBuf[1].from = position
      BY <1>1, <3>1, FirstElement DEF TimelyBus, ProcessResponse
    <3>3. values' = [values EXCEPT ![position] = {rxBuf[1].from}]
      BY <1>1, <2>3 DEF ProcessResponse
    <3> HIDE DEF position
    <3> QED
      BY <2>2, <3>2, <3>3
  <2>4. CASE ~Complete(rxBuf)
    BY <1>1, <2>2, <2>4 DEF ProcessResponse
  <2> QED
    BY <2>3, <2>4
<1>2. CASE UNCHANGED <<values, late, split, noisy>>
  BY <1>2 DEF TimelyAnswersMatch, AnswersMatchRequests, Orderly
<1> QED
  BY <1>1, <1>2 DEF Next, Process, Device, vars, world, StartCycle, SendNothing,
     SendRequest, Receive, TimedOut, Advance, Answer, FinishFrame, StaySilent,
     Noise, Tick

LEMMA TimelyInvariant == Spec => [](TimelyBus /\ TimelyAnswersMatch)
<1>1. Init => TimelyBus /\ TimelyAnswersMatch
  BY DEF Init, TimelyBus, TimelyAnswersMatch, AnswersMatchRequests
<1>2. TypeOK /\ TimelyBus /\ TimelyAnswersMatch /\ [Next]_vars
        => (TimelyBus /\ TimelyAnswersMatch)'
  BY TimelyBusStep, TimelyMatchStep
<1> QED
  BY <1>1, <1>2, MasterTypeCorrect, PTL DEF Spec

\* No request the master has stopped waiting for is still open, as long as the
\* devices answer within the timeout and only what they are asked for, and
\* frames are read whole.
THEOREM NoRequestLeftOpen == Spec => []TimelyBus
BY TimelyInvariant, PTL

\* Under the same condition a point's value is always an answer to a request for
\* that point, for every configuration, although the code does not compare them.
THEOREM TimelyAnswersStoredRight == Spec => []TimelyAnswersMatch
BY TimelyInvariant, PTL
=============================================================================
