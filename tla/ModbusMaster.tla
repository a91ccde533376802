---------------------------- MODULE ModbusMaster ----------------------------
(***************************************************************************)
(* modbus_master.c: the RTU master polling the data points of the          *)
(* configured sensors one by one over USART4, with the sensors' devices,   *)
(* the receive ring and the millisecond clock around it.                   *)
(*                                                                         *)
(* A reply is two pieces of bytes, since the main loop can read the ring   *)
(* while a frame is still arriving.  Elapsed times stop counting at the    *)
(* interval they are compared with, as Utils_IsElapsed is all that reads   *)
(* them.  Of a value, only whose answer it is matters here.                *)
(*                                                                         *)
(* On a noisy bus a device babbles: frames nobody has asked for, or        *)
(* garbage, arrive at any time the ring holds at most NoiseBound pieces.   *)
(***************************************************************************)
EXTENDS Naturals, Sequences

CONSTANTS
    SensorCount,    \* sensor_count
    DpCount,        \* dp_count of each sensor
    PollInterval,   \* poll_interval_ms
    Timeout,        \* CFG_MODBUS_TIMEOUT_MS
    MaxRetry,       \* CFG_MODBUS_MAX_RETRY
    Buses,          \* the buses considered: <<late, split, noisy>>
    NoiseBound      \* noise is added to at most so many waiting pieces

Sensors == 0 .. SensorCount - 1

ASSUME MasterAssumption ==
    /\ SensorCount \in Nat
    /\ DpCount \in [Sensors -> Nat]
    /\ PollInterval \in Nat
    /\ Timeout \in Nat \ {0}
    /\ MaxRetry \in Nat \ {0}
    /\ Buses \subseteq BOOLEAN \X BOOLEAN \X BOOLEAN
    /\ NoiseBound \in Nat

VARIABLES
    state,          \* s_state
    curSensor,      \* s_cur_sensor
    curDp,          \* s_cur_dp
    retry,          \* s_retry
    sendAge,        \* the time since s_send_tick, up to Timeout
    pollAge,        \* the time since s_last_poll_tick, up to PollInterval
    rxBuf,          \* s_rx_buf, its first s_rx_len bytes
    ring,           \* received on USART4 and not read
    values,         \* whose answer the data pool holds for each point
    sent,           \* how many requests this visit to the point has sent
    owed,           \* the requests the devices still have to answer
    sending,        \* the rest of a frame of which the start has arrived
    late,           \* devices may answer after the master's timeout
    split,          \* a frame may be read in two parts
    noisy,          \* pieces may arrive that answer no request
    healthy         \* the points whose device answers each request well

position == <<curSensor, curDp>>
ages == <<sendAge, pollAge>>
bus == <<owed, sending>>
world == <<late, split, noisy, healthy>>
vars == <<state, position, retry, ages, rxBuf, ring, values, sent, bus, world>>

Points == UNION {{s} \X (0 .. DpCount[s] - 1) : s \in Sensors}
Piece == [from : Points, ok : BOOLEAN, half : {1, 2}]

\* A frame whose length and CRC are right and that is no exception response.
\* What two frames run together, or a part of one, fail is the CRC.
Complete(buf) ==
    /\ Len(buf) = 2
    /\ buf[1].half = 1 /\ buf[2].half = 2
    /\ buf[1].from = buf[2].from
    /\ buf[1].ok /\ buf[2].ok

Init ==
    /\ state = "idle"
    /\ curSensor = 0
    /\ curDp = 0
    /\ retry = 0
    /\ sendAge = 0
    /\ pollAge = 0
    /\ rxBuf = <<>>
    /\ ring = <<>>
    /\ values = [p \in Points |-> {}]
    /\ sent = 0
    /\ owed = {}
    /\ sending = <<>>
    /\ \E w \in Buses : late = w[1] /\ split = w[2] /\ noisy = w[3]
    /\ healthy \in SUBSET Points
    /\ late \/ split \/ noisy => healthy = {}
-----------------------------------------------------------------------------
(* ModbusMaster_Process, a case of its switch each.                        *)

\* MSTATE_IDLE
StartCycle ==
    /\ state = "idle"
    /\ SensorCount # 0
    /\ pollAge >= PollInterval
    /\ curSensor' = 0
    /\ curDp' = 0
    /\ retry' = 0
    /\ sent' = 0
    /\ pollAge' = 0
    /\ state' = "send"
    /\ UNCHANGED <<sendAge, rxBuf, ring, values, bus, world>>

\* MSTATE_SEND_REQUEST past the last sensor, or past the sensor's last point.
SendNothing ==
    /\ state = "send"
    /\ IF curSensor >= SensorCount THEN state' = "idle"
       ELSE curDp >= DpCount[curSensor] /\ state' = "next"
    /\ UNCHANGED <<position, retry, ages, rxBuf, ring, values, sent, bus, world>>

\* MSTATE_SEND_REQUEST: send_request flushes the ring and then transmits; what
\* arrives from then on stays in the ring.
SendRequest ==
    /\ state = "send"
    /\ curSensor < SensorCount
    /\ curDp < DpCount[curSensor]
    /\ ring' = <<>>
    /\ owed' = owed \cup {position}
    /\ sendAge' = 0
    /\ sent' = sent + 1
    /\ state' = "wait"
    /\ UNCHANGED <<position, retry, pollAge, rxBuf, values, sending, world>>

\* MSTATE_WAIT_RESPONSE: whatever is in the ring is the response.
Receive ==
    /\ state = "wait"
    /\ ring # <<>>
    /\ rxBuf' = ring
    /\ ring' = <<>>
    /\ state' = "process"
    /\ UNCHANGED <<position, retry, ages, values, sent, bus, world>>

\* Faulty variant of TimedOut: the timeout goes before what has arrived.
TimedOutFirst ==
    /\ state = "wait"
    /\ sendAge >= Timeout
    /\ retry' = retry + 1
    /\ state' = IF retry + 1 >= MaxRetry THEN "next" ELSE "send"
    /\ UNCHANGED <<position, ages, rxBuf, ring, values, sent, bus, world>>

\* Faulty variant of TimedOut: the timeout runs out a tick early.
TimedOutEarly ==
    /\ state = "wait"
    /\ ring = <<>>
    /\ sendAge + 1 >= Timeout
    /\ retry' = retry + 1
    /\ state' = IF retry + 1 >= MaxRetry THEN "next" ELSE "send"
    /\ UNCHANGED <<position, ages, rxBuf, ring, values, sent, bus, world>>

\* Faulty variant of TimedOut: one retry too many.
TimedOutOnceMore ==
    /\ state = "wait"
    /\ ring = <<>>
    /\ sendAge >= Timeout
    /\ retry' = retry + 1
    /\ state' = IF retry + 1 > MaxRetry THEN "next" ELSE "send"
    /\ UNCHANGED <<position, ages, rxBuf, ring, values, sent, bus, world>>

\* The read that finds nothing and the look at the clock behind it are one
\* step: an answer that arrives between the two is taken to arrive after both,
\* which leaves the same state unless the last millisecond ends there as well.
TimedOut ==
    /\ state = "wait"
    /\ ring = <<>>
    /\ sendAge >= Timeout
    /\ retry' = retry + 1
    /\ state' = IF retry + 1 >= MaxRetry THEN "next" ELSE "send"
    /\ UNCHANGED <<position, ages, rxBuf, ring, values, sent, bus, world>>

\* Faulty variant of ProcessResponse: after a bad frame it waits for another.
ProcessResponseWaitsOn ==
    /\ state = "process"
    /\ values' = IF Complete(rxBuf)
                 THEN [values EXCEPT ![position] = {rxBuf[1].from}]
                 ELSE values
    /\ rxBuf' = <<>>
    /\ state' = IF Complete(rxBuf) THEN "next" ELSE "wait"
    /\ UNCHANGED <<position, retry, ages, ring, sent, bus, world>>

\* MSTATE_PROCESS_RESPONSE: a good frame is stored under the current point,
\* any other is dropped; the request is not repeated.  s_rx_buf is not used
\* again before the next read overwrites it.
ProcessResponse ==
    /\ state = "process"
    /\ values' = IF Complete(rxBuf)
                 THEN [values EXCEPT ![position] = {rxBuf[1].from}]
                 ELSE values
    /\ rxBuf' = <<>>
    /\ state' = "next"
    /\ UNCHANGED <<position, retry, ages, ring, sent, bus, world>>

\* Faulty variant of Advance: the point after the last one is polled too.
AdvanceOnePast ==
    /\ state = "next"
    /\ retry' = 0
    /\ sent' = 0
    /\ \/ /\ curDp + 1 <= DpCount[curSensor]
          /\ curDp' = curDp + 1
          /\ state' = "send"
          /\ UNCHANGED curSensor
       \/ /\ curDp + 1 > DpCount[curSensor]
          /\ curDp' = 0
          /\ curSensor' = curSensor + 1
          /\ state' = IF curSensor + 1 >= SensorCount THEN "idle" ELSE "send"
    /\ UNCHANGED <<ages, rxBuf, ring, values, bus, world>>

\* Faulty variant of Advance: the retries of the last point count on.
AdvanceKeepsRetry ==
    /\ state = "next"
    /\ sent' = 0
    /\ \/ /\ curDp + 1 < DpCount[curSensor]
          /\ curDp' = curDp + 1
          /\ state' = "send"
          /\ UNCHANGED curSensor
       \/ /\ curDp + 1 >= DpCount[curSensor]
          /\ curDp' = 0
          /\ curSensor' = curSensor + 1
          /\ state' = IF curSensor + 1 >= SensorCount THEN "idle" ELSE "send"
    /\ UNCHANGED <<retry, ages, rxBuf, ring, values, bus, world>>

\* MSTATE_NEXT
Advance ==
    /\ state = "next"
    /\ retry' = 0
    /\ sent' = 0
    /\ \/ /\ curDp + 1 < DpCount[curSensor]
          /\ curDp' = curDp + 1
          /\ state' = "send"
          /\ UNCHANGED curSensor
       \/ /\ curDp + 1 >= DpCount[curSensor]
          /\ curDp' = 0
          /\ curSensor' = curSensor + 1
          /\ state' = IF curSensor + 1 >= SensorCount THEN "idle" ELSE "send"
    /\ UNCHANGED <<ages, rxBuf, ring, values, bus, world>>

Process ==
    \/ StartCycle
    \/ SendNothing
    \/ SendRequest
    \/ Receive
    \/ TimedOut
    \/ ProcessResponse
    \/ Advance
-----------------------------------------------------------------------------
(* The devices on the collect bus and the clock.                           *)

Frame(p, ok) == [h \in 1 .. 2 |-> [from |-> p, ok |-> ok, half |-> h]]

Answer(p, ok) ==
    /\ p \in owed
    /\ sending = <<>>
    /\ p \in healthy => ok
    /\ owed' = owed \ {p}
    /\ IF split
       THEN /\ ring' = ring \o <<Head(Frame(p, ok))>>
            /\ sending' = Tail(Frame(p, ok))
       ELSE /\ ring' = ring \o Frame(p, ok)
            /\ UNCHANGED sending
    /\ UNCHANGED <<state, position, retry, ages, rxBuf, values, sent, world>>

FinishFrame ==
    /\ sending # <<>>
    /\ ring' = ring \o sending
    /\ sending' = <<>>
    /\ UNCHANGED <<state, position, retry, ages, rxBuf, values, sent, owed, world>>

\* The request or the whole reply is lost, or the device is not there.
StaySilent(p) ==
    /\ p \in owed \ healthy
    /\ owed' = owed \ {p}
    /\ UNCHANGED <<state, position, retry, ages, rxBuf, ring, values, sent,
                   sending, world>>

\* Something nobody has asked for: a stray frame, or garbage.
Noise(p, ok) ==
    /\ noisy
    /\ Len(ring) <= NoiseBound
    /\ ring' = ring \o Frame(p, ok)
    /\ UNCHANGED <<state, position, retry, ages, rxBuf, values, sent, bus, world>>

Device ==
    \/ \E p \in Points, ok \in BOOLEAN : Answer(p, ok)
    \/ FinishFrame
    \/ \E p \in Points : StaySilent(p)

\* A millisecond.  Unless devices may be late, a request has been answered in
\* full, or will not be, when the timeout runs out.
Tick ==
    /\ sendAge < Timeout \/ pollAge < PollInterval
    /\ ~late /\ sendAge + 1 >= Timeout => owed = {} /\ sending = <<>>
    /\ sendAge' = IF sendAge < Timeout THEN sendAge + 1 ELSE sendAge
    /\ pollAge' = IF pollAge < PollInterval THEN pollAge + 1 ELSE pollAge
    /\ UNCHANGED <<state, position, retry, rxBuf, ring, values, sent, bus, world>>

Next ==
    \/ Process
    \/ Device
    \/ \E p \in Points, ok \in BOOLEAN : Noise(p, ok)
    \/ Tick

Spec == Init /\ [][Next]_vars

\* User_Loop calls ModbusMaster_Process forever, SysTick counts on, and a
\* device's answer is over at some time, if there is one.  Noise may come at
\* any time, and need not ever.
FairSpec == Spec /\ WF_vars(Process) /\ WF_vars(Device) /\ WF_vars(Tick)
-----------------------------------------------------------------------------
TypeOK ==
    /\ state \in {"idle", "send", "wait", "process", "next"}
    /\ curSensor \in 0 .. SensorCount
    /\ curDp \in Nat
    /\ retry \in 0 .. MaxRetry
    /\ sendAge \in 0 .. Timeout
    /\ pollAge \in 0 .. PollInterval
    /\ rxBuf \in Seq(Piece)
    /\ ring \in Seq(Piece)
    /\ values \in [Points -> SUBSET Points]
    /\ sent \in Nat
    /\ owed \subseteq Points
    /\ sending \in Seq(Piece)
    /\ late \in BOOLEAN
    /\ split \in BOOLEAN
    /\ noisy \in BOOLEAN
    /\ healthy \subseteq Points

\* The master is never at a sensor or a point the configuration does not have
\* when it uses one: cfg->sensors[s_cur_sensor].dp[s_cur_dp] is what
\* send_request reads and process_response stores under.
CursorValid ==
    /\ state \in {"send", "next"} =>
           /\ curSensor < SensorCount
           /\ curDp < DpCount[curSensor] \/ (curDp = 0 /\ DpCount[curSensor] = 0)
    /\ state \in {"wait", "process"} => position \in Points

\* A point gets at most MaxRetry requests before the master goes on to the
\* next one, and s_retry counts those of them that were not answered.
RetriesBounded ==
    /\ sent <= MaxRetry
    /\ state = "send" => sent = retry /\ retry < MaxRetry
    /\ state \in {"wait", "process"} => sent = retry + 1

\* On a bus where every piece belongs to an answer that is read whole, every
\* value the data pool holds for a point was sent in answer to a request for
\* that point; process_response itself compares neither address nor function.
AnswersMatchRequests ==
    ~split /\ ~noisy => \A p \in Points : values[p] \subseteq {p}

\* The same where, besides, the devices answer within the timeout.
Orderly == ~late /\ ~split /\ ~noisy
TimelyAnswersMatch == Orderly => AnswersMatchRequests

\* Why: no request is left open when the master goes on, so that all that can
\* arrive is the answer to the request it waits for.
TimelyBus ==
    Orderly =>
        /\ sending = <<>>
        /\ owed \subseteq {position}
        /\ owed # {} => state = "wait" /\ ring = <<>> /\ sendAge < Timeout
        /\ state = "wait" => \A i \in DOMAIN ring : ring[i].from = position
        /\ state = "process" => \A i \in DOMAIN rxBuf : rxBuf[i].from = position

\* Devices that are dead, slow, answer badly or never stop babbling do not keep
\* the master from requesting every configured point, in every cycle anew:
\* what has arrived is looked at before the timeout, but only once a request.
EveryPointPolled ==
    \A p \in Points : []<>(state = "wait" /\ position = p)

\* A device that answers is read again and again, whatever the others do.
HealthyPointsRead ==
    \A p \in Points :
        (Orderly /\ p \in healthy)
            => []<>(state = "process" /\ position = p
                        /\ Complete(rxBuf) /\ rxBuf[1].from = p)
=============================================================================
