---------------------------- MODULE ModbusSlave ----------------------------
(***************************************************************************)
(* modbus_slave.c: the RTU slave on the forward bus (USART1), with the     *)
(* Modbus client that is the master of that bus, and its receive ring.     *)
(*                                                                         *)
(* A frame is two pieces, as the main loop can read the ring while a frame *)
(* is arriving.  Of the data pool only the order matters in which writes   *)
(* reach it; "refused" stands for the requests answered by an exception    *)
(* and "garbled" for those that arrive with a wrong CRC.  Frames of other  *)
(* slaves and to other slaves are the same to this one.                    *)
(***************************************************************************)
EXTENDS Naturals, Sequences

CONSTANT MaxRequests    \* bounds the frames sent on the forward bus

ASSUME SlaveAssumption == MaxRequests \in Nat

VARIABLES
    lastId,         \* frames sent so far
    open,           \* the request the client waits on, if any
    sending,        \* the rest of a frame of which the start has arrived
    ring,           \* received on USART1 and not read
    rxBuf,          \* s_rx_buf, its first s_rx_len bytes
    pc,             \* where ModbusSlave_Process is
    applied,        \* the writes the data pool got, in order
    acked,          \* the writes the client takes for done
    prompt,         \* the main loop is back before the client sends again
    whole           \* no frame is read in two parts

bus == <<lastId, open, sending>>
world == <<prompt, whole>>
vars == <<bus, ring, rxBuf, pc, applied, acked, world>>

Ops == {"read", "write", "refused", "garbled"}
Request == [id : 1 .. MaxRequests, to : {"self", "all", "other"}, op : Ops]
Piece == [req : Request, half : {1, 2}]
NoRequest == [id |-> 0]

\* At least 8 bytes and a right CRC: one whole frame and nothing else.
Complete(buf) ==
    /\ Len(buf) = 2
    /\ buf[1].half = 1 /\ buf[2].half = 2
    /\ buf[1].req = buf[2].req
    /\ buf[1].req.op # "garbled"

Init ==
    /\ lastId = 0
    /\ open = NoRequest
    /\ sending = <<>>
    /\ ring = <<>>
    /\ rxBuf = <<>>
    /\ pc = "poll"
    /\ applied = <<>>
    /\ acked = {}
    /\ prompt \in BOOLEAN
    /\ whole \in BOOLEAN
-----------------------------------------------------------------------------
(* ModbusSlave_Process.                                                    *)

ForMe(buf) == Complete(buf) /\ buf[1].req.to \in {"self", "all"}

\* Faulty variant of Poll: with nothing to read the old length stands.
PollStale ==
    /\ pc = "poll"
    /\ rxBuf' = IF ring = <<>> THEN rxBuf ELSE ring
    /\ ring' = <<>>
    /\ pc' = IF ForMe(rxBuf') THEN "handle" ELSE "poll"
    /\ UNCHANGED <<bus, applied, acked, world>>

\* Faulty variant of Poll: the address is not looked at.
PollEveryAddress ==
    /\ pc = "poll"
    /\ ring # <<>>
    /\ rxBuf' = ring
    /\ ring' = <<>>
    /\ pc' = IF Complete(ring) THEN "handle" ELSE "poll"
    /\ UNCHANGED <<bus, applied, acked, world>>

\* Faulty variant of Poll: a request of the least length is too short.
PollLonger ==
    /\ pc = "poll"
    /\ ring # <<>>
    /\ rxBuf' = ring
    /\ ring' = <<>>
    /\ pc' = IF ForMe(ring) /\ Len(ring) > 2 THEN "handle" ELSE "poll"
    /\ UNCHANGED <<bus, applied, acked, world>>

\* Rs485_ReadData and the checks: what is not a request for this slave, or is
\* only a part of one, is gone.
Poll ==
    /\ pc = "poll"
    /\ ring # <<>>
    /\ rxBuf' = ring
    /\ ring' = <<>>
    /\ pc' = IF ForMe(ring) THEN "handle" ELSE "poll"
    /\ UNCHANGED <<bus, applied, acked, world>>

\* What the client does with a reply to r: it knows it by its function code.
ClientTakes(r) ==
    IF open # NoRequest /\ open.op = r.op
    THEN /\ open' = NoRequest
         /\ acked' = IF r.op = "write" THEN acked \cup {open.id} ELSE acked
    ELSE UNCHANGED <<open, acked>>

\* Faulty variant of Handle: the echo goes out without DataPool_WriteReg.
HandleEchoOnly ==
    /\ pc = "handle"
    /\ LET r == rxBuf[1].req
       IN  IF r.to = "all" THEN UNCHANGED <<open, acked>> ELSE ClientTakes(r)
    /\ pc' = "flush"
    /\ UNCHANGED <<lastId, sending, ring, rxBuf, applied, world>>

\* The switch on the function code and Rs485_SendData, which waits until the
\* reply is out; a broadcast is served and not answered.
Handle ==
    /\ pc = "handle"
    /\ LET r == rxBuf[1].req
       IN  /\ applied' = IF r.op = "write" THEN Append(applied, r.id) ELSE applied
           /\ IF r.to = "all" THEN UNCHANGED <<open, acked>> ELSE ClientTakes(r)
    /\ pc' = "flush"
    /\ UNCHANGED <<lastId, sending, ring, rxBuf, world>>

\* The Rs485_FlushRx at the end: what arrived in the meantime is gone too.
Flush ==
    /\ pc = "flush"
    /\ ring' = <<>>
    /\ pc' = "poll"
    /\ UNCHANGED <<bus, rxBuf, applied, acked, world>>

Process == Poll \/ Handle \/ Flush
-----------------------------------------------------------------------------
(* The client.                                                             *)

\* The slave has read all there is and waits for more.
Quiet == pc = "poll" /\ ring = <<>> /\ sending = <<>>

Send(to, op) ==
    /\ lastId < MaxRequests
    /\ open = NoRequest
    /\ sending = <<>>
    /\ prompt => Quiet
    /\ lastId' = lastId + 1
    /\ LET r == [id |-> lastId', to |-> to, op |-> op]
           piece(h) == [req |-> r, half |-> h]
       IN  /\ open' = IF to = "self" THEN r ELSE NoRequest
           /\ IF whole
              THEN /\ ring' = ring \o <<piece(1), piece(2)>>
                   /\ UNCHANGED sending
              ELSE /\ ring' = Append(ring, piece(1))
                   /\ sending' = <<piece(2)>>
    /\ UNCHANGED <<rxBuf, pc, applied, acked, world>>

FinishFrame ==
    /\ sending # <<>>
    /\ ring' = ring \o sending
    /\ sending' = <<>>
    /\ UNCHANGED <<lastId, open, rxBuf, pc, applied, acked, world>>

\* The client's timeout.
GiveUp ==
    /\ open # NoRequest
    /\ sending = <<>>
    /\ prompt => Quiet
    /\ open' = NoRequest
    /\ UNCHANGED <<lastId, sending, ring, rxBuf, pc, applied, acked, world>>

Client ==
    \/ \E to \in {"self", "all", "other"}, op \in Ops : Send(to, op)
    \/ FinishFrame
    \/ GiveUp

Next == Process \/ Client

Spec == Init /\ [][Next]_vars

\* User_Loop calls ModbusSlave_Process forever; a frame begun is finished and
\* an unanswered request given up.
FairSpec ==
    Spec /\ WF_vars(Process) /\ WF_vars(FinishFrame) /\ WF_vars(GiveUp)
-----------------------------------------------------------------------------
TypeOK ==
    /\ lastId \in 0 .. MaxRequests
    /\ open \in Request \cup {NoRequest}
    /\ sending \in Seq(Piece)
    /\ ring \in Seq(Piece)
    /\ rxBuf \in Seq(Piece)
    /\ pc \in {"poll", "handle", "flush"}
    /\ pc # "poll" => ForMe(rxBuf)
    /\ applied \in Seq(1 .. MaxRequests)
    /\ acked \subseteq 1 .. MaxRequests
    /\ prompt \in BOOLEAN
    /\ whole \in BOOLEAN

\* However slow the main loop, however the client times out and repeats: the
\* pool gets every write at most once, and in the order they were sent.
AppliedInOrder ==
    \A i, j \in DOMAIN applied : i < j => applied[i] < applied[j]

\* A write that was acknowledged reached the pool, if the gateway answers
\* before the client gives up (RTU replies carry nothing to tell a late one by).
AckedApplied ==
    prompt => \A id \in acked : \E i \in DOMAIN applied : applied[i] = id

\* The gateway transmits on the shared bus only when the client is waiting for
\* it and nobody else sends.
SpeaksInTurn ==
    prompt /\ pc = "handle" /\ rxBuf[1].req.to # "all"
        => open = rxBuf[1].req /\ sending = <<>> /\ ring = <<>>

\* The strengthenings that make these inductive.  What is not yet read, or is
\* read and not handled, came after every write applied; when half a frame is
\* still to come, no frame of the same request is complete before it.
StreamOrdered ==
    /\ \A j \in DOMAIN ring :
           /\ ring[j].req.id <= lastId
           /\ sending # <<>> /\ ring[j].half = 2 => ring[j].req.id < lastId
           /\ pc = "handle" => rxBuf[1].req.id < ring[j].req.id
           /\ \A i \in DOMAIN applied : applied[i] < ring[j].req.id
    /\ pc = "handle" =>
           /\ rxBuf[1].req.id <= lastId
           /\ sending # <<>> => rxBuf[1].req.id < lastId
           /\ \A i \in DOMAIN applied : applied[i] < rxBuf[1].req.id
    /\ \A i \in DOMAIN applied :
           /\ applied[i] <= lastId
           /\ sending # <<>> => applied[i] < lastId
    /\ sending # <<>> =>
           /\ Len(sending) = 1
           /\ sending[1].req.id = lastId
           /\ sending[1].half = 2

\* A prompt gateway has one frame before it at a time, and it is the last one.
OneFrame ==
    prompt =>
        /\ pc # "poll" => ring = <<>> /\ sending = <<>>
        /\ \A j \in DOMAIN ring :
               /\ ring[j].req.id = lastId
               /\ ring[j].req.to = "self" => open = ring[j].req
        /\ sending # <<>> /\ sending[1].req.to = "self" => open = sending[1].req

\* Every proper request for this slave is answered, given a client that waits
\* long enough.
EveryRequestAnswered ==
    \A r \in {q \in Request : q.to = "self" /\ q.op # "garbled"} :
        (open = r /\ prompt) ~> (pc = "flush" /\ rxBuf[1].req = r /\ open # r)

\* ... which holds as long as frames are read whole.
WholeRequestAnswered ==
    \A r \in {q \in Request : q.to = "self" /\ q.op # "garbled"} :
        (open = r /\ prompt /\ whole) ~> (pc = "flush" /\ rxBuf[1].req = r /\ open # r)
=============================================================================
