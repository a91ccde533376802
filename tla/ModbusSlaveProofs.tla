------------------------- MODULE ModbusSlaveProofs -------------------------
(***************************************************************************)
(* Proofs about ModbusSlave, for every number of requests: writes reach    *)
(* the pool once and in order, and a prompt gateway speaks in turn and     *)
(* acknowledges only what it has done.                                     *)
(***************************************************************************)
EXTENDS ModbusSlave, TLAPS, SequenceTheorems

\* Every element of a concatenation is one of its parts' elements.
LEMMA ConcatElements ==
    ASSUME NEW S, NEW s \in Seq(S), NEW t \in Seq(S)
    PROVE  \A j \in DOMAIN (s \o t) :
               \/ \E k \in DOMAIN s : (s \o t)[j] = s[k]
               \/ \E k \in DOMAIN t : (s \o t)[j] = t[k]
<1> TAKE j \in DOMAIN (s \o t)
<1>1. Len(s) \in Nat /\ Len(t) \in Nat /\ DOMAIN s = 1 .. Len(s) /\ DOMAIN t = 1 .. Len(t)
  OBVIOUS
<1>2. j \in 1 .. Len(s) + Len(t)
  BY ConcatProperties
<1>3. CASE j <= Len(s)
  <2>1. j \in DOMAIN s /\ (s \o t)[j] = s[j]
    BY <1>1, <1>2, <1>3, ConcatProperties
  <2> QED
    BY <2>1
<1>4. CASE j > Len(s)
  <2>1. j - Len(s) \in DOMAIN t /\ (s \o t)[j] = t[j - Len(s)]
    BY <1>1, <1>2, <1>4, ConcatProperties
  <2> QED
    BY <2>1
<1> QED
  BY <1>1, <1>2, <1>3, <1>4

\* Every element of a sequence is in the set it is a sequence over.
LEMMA Elements ==
    ASSUME NEW S, NEW s \in Seq(S)
    PROVE  \A j \in DOMAIN s : s[j] \in S
<1>1. DOMAIN s = 1 .. Len(s)
  OBVIOUS
<1> QED
  BY <1>1, ElementOfSeq

\* A request in the buffer of a slave that is handling it is a request.
LEMMA BufferedRequest ==
    ASSUME TypeOK, pc # "poll"
    PROVE  /\ rxBuf[1].req \in Request
           /\ rxBuf[1].req.to \in {"self", "all"}
<1>1. rxBuf \in Seq(Piece) /\ Len(rxBuf) = 2 /\ rxBuf[1].req.to \in {"self", "all"}
  BY DEF TypeOK, ForMe, Complete
<1>2. 1 \in DOMAIN rxBuf
  BY <1>1
<1>3. rxBuf[1] \in Piece
  BY <1>1, <1>2, Elements
<1> QED
  BY <1>1, <1>3 DEF Piece

\* What Send puts on the bus: old pieces, and new ones of the new request, of
\* which the second, when it is still to come, is not among them.
LEMMA SentPieces ==
    ASSUME TypeOK, NEW to \in {"self", "all", "other"}, NEW op \in Ops, Send(to, op)
    PROVE  /\ lastId + 1 \in 1 .. MaxRequests
           /\ ring' \in Seq(Piece) /\ sending' \in Seq(Piece)
           /\ LET r == [id |-> lastId + 1, to |-> to, op |-> op]
              IN  /\ r \in Request
                  /\ \A j \in DOMAIN ring' :
                         \/ \E k \in DOMAIN ring : ring'[j] = ring[k]
                         \/ /\ ring'[j].req = r
                            /\ ring'[j].half = 1 \/ sending' = <<>>
                  /\ sending' # <<>> =>
                         sending' = <<[req |-> r, half |-> 2]>>
<1> DEFINE r == [id |-> lastId + 1, to |-> to, op |-> op]
           piece(h) == [req |-> r, half |-> h]
<1>1. lastId + 1 \in 1 .. MaxRequests /\ lastId' = lastId + 1
  BY SlaveAssumption DEF TypeOK, Send
<1>2. r \in Request
  BY <1>1 DEF Request
<1>3. piece(1) \in Piece /\ piece(2) \in Piece
  BY <1>2 DEF Piece
<1>4. ring \in Seq(Piece) /\ sending = <<>>
  BY DEF TypeOK, Send
<1>5. CASE whole
  <2> DEFINE new == <<piece(1), piece(2)>>
  <2>1. ring' = ring \o new /\ sending' = sending
    BY <1>1, <1>5 DEF Send
  <2>2. new \in Seq(Piece) /\ \A k \in DOMAIN new : new[k].req = r
    <3>1. \A k \in DOMAIN new : k \in {1, 2}
      OBVIOUS
    <3>2. new[1] = piece(1) /\ new[2] = piece(2)
      OBVIOUS
    <3>3. piece(1).req = r /\ piece(2).req = r
      OBVIOUS
    <3> HIDE DEF piece, r
    <3>4. new \in Seq(Piece)
      BY <1>3
    <3> QED
      BY <3>1, <3>2, <3>3, <3>4
  <2> HIDE DEF new
  <2>3. ring' \in Seq(Piece)
    BY <1>4, <2>1, <2>2, ConcatProperties
  <2>4. \A j \in DOMAIN ring' :
           (\E k \in DOMAIN ring : ring'[j] = ring[k]) \/ ring'[j].req = r
    BY <1>4, <2>1, <2>2, ConcatElements
  <2> QED
    BY <1>1, <1>2, <1>4, <2>1, <2>3, <2>4, EmptySeq
<1>6. CASE ~whole
  <2> DEFINE new == <<piece(1)>>
  <2>1. ring' = Append(ring, piece(1)) /\ sending' = <<piece(2)>>
    BY <1>1, <1>6 DEF Send
  <2>2. piece(1).req = r /\ piece(1).half = 1
    OBVIOUS
  <2>3. ring' \in Seq(Piece) /\ sending' \in Seq(Piece)
    <3> HIDE DEF piece
    <3> QED
      BY <1>3, <1>4, <2>1, AppendProperties
  <2>4. \A j \in DOMAIN ring' :
           (\E k \in DOMAIN ring : ring'[j] = ring[k]) \/ ring'[j] = piece(1)
    <3> HIDE DEF piece
    <3>1. TAKE j \in DOMAIN ring'
    <3>2. Len(ring) \in Nat /\ DOMAIN ring = 1 .. Len(ring)
      BY <1>4
    <3>3. j \in 1 .. Len(ring) + 1
      BY <1>3, <1>4, <2>1, AppendProperties
    <3>4. CASE j \in 1 .. Len(ring)
      BY <1>3, <1>4, <2>1, <3>2, <3>4, AppendProperties
    <3>5. CASE j = Len(ring) + 1
      BY <1>3, <1>4, <2>1, <3>5, AppendProperties
    <3> QED
      BY <3>2, <3>3, <3>4, <3>5
  <2> QED
    BY <1>1, <1>2, <2>1, <2>2, <2>3, <2>4
<1> QED
  BY <1>5, <1>6

\* What FinishFrame leaves in the ring.
LEMMA FinishedPieces ==
    ASSUME TypeOK, FinishFrame, Len(sending) = 1
    PROVE  /\ ring' \in Seq(Piece)
           /\ sending' = <<>>
           /\ sending[1] \in Piece
           /\ \A j \in DOMAIN ring' :
                  \/ \E k \in DOMAIN ring : ring'[j] = ring[k]
                  \/ ring'[j] = sending[1]
<1>1. ring \in Seq(Piece) /\ sending \in Seq(Piece)
  BY DEF TypeOK
<1>2. ring' = ring \o sending /\ sending' = <<>>
  BY DEF FinishFrame
<1>3. \A k \in DOMAIN sending : k = 1
  BY <1>1
<1>4. 1 \in DOMAIN sending
  BY <1>1
<1> QED
  BY <1>1, <1>2, <1>3, <1>4, ConcatElements, Elements, ConcatProperties
-----------------------------------------------------------------------------
LEMMA TypeStep ==
    ASSUME TypeOK, Len(sending) = 1 \/ sending = <<>>, [Next]_vars
    PROVE  TypeOK'
<1> USE SlaveAssumption
<1>1. CASE Poll
  <2>1. ring' \in Seq(Piece) /\ rxBuf' \in Seq(Piece)
    BY <1>1, EmptySeq DEF Poll, TypeOK
  <2>2. pc' \in {"poll", "handle"} /\ (pc' # "poll" => ForMe(rxBuf'))
    BY <1>1 DEF Poll
  <2> QED
    BY <1>1, <2>1, <2>2 DEF Poll, TypeOK, bus, world, ForMe, Complete
<1>2. CASE Handle
  <2>1. rxBuf[1].req \in Request
    BY <1>2, BufferedRequest DEF Handle
  <2> DEFINE r == rxBuf[1].req
  <2>2. r.id \in 1 .. MaxRequests
    BY <2>1 DEF Request
  <2>3. applied' \in Seq(1 .. MaxRequests)
    <3>1. applied \in Seq(1 .. MaxRequests)
      BY DEF TypeOK
    <3>2. applied' = Append(applied, r.id) \/ applied' = applied
      BY <1>2 DEF Handle
    <3> HIDE DEF r
    <3> QED
      BY <2>2, <3>1, <3>2, AppendProperties
  <2>4. open' \in Request \cup {NoRequest} /\ acked' \subseteq 1 .. MaxRequests
    <3>1. open \in Request \cup {NoRequest} /\ acked \subseteq 1 .. MaxRequests
      BY DEF TypeOK
    <3>2. \/ UNCHANGED <<open, acked>>
          \/ /\ open # NoRequest
             /\ open' = NoRequest
             /\ acked' = acked \/ acked' = acked \cup {open.id}
      BY <1>2 DEF Handle, ClientTakes
    <3> QED
      BY <3>1, <3>2 DEF Request
  <2>5. rxBuf' = rxBuf /\ pc' = "flush" /\ ForMe(rxBuf)
    BY <1>2 DEF Handle, TypeOK
  <2> QED
    BY <1>2, <2>3, <2>4, <2>5 DEF Handle, TypeOK, world, ForMe, Complete
<1>3. CASE Flush
  <2>1. ring' \in Seq(Piece)
    BY <1>3, EmptySeq DEF Flush
  <2> QED
    BY <1>3, <2>1 DEF Flush, TypeOK, bus, world
<1>4. ASSUME NEW to \in {"self", "all", "other"}, NEW op \in Ops, Send(to, op)
      PROVE  TypeOK'
  <2> DEFINE r == [id |-> lastId + 1, to |-> to, op |-> op]
  <2>1. /\ lastId + 1 \in 1 .. MaxRequests /\ r \in Request
        /\ ring' \in Seq(Piece) /\ sending' \in Seq(Piece)
    BY <1>4, SentPieces
  <2>2. lastId' = lastId + 1 /\ open' \in {r, NoRequest}
    BY <1>4 DEF Send
  <2>3. lastId' \in 0 .. MaxRequests /\ open' \in Request \cup {NoRequest}
    <3> HIDE DEF r
    <3> QED
      BY <2>1, <2>2
  <2> QED
    BY <1>4, <2>1, <2>3 DEF Send, TypeOK, world, ForMe, Complete
<1>5. CASE FinishFrame
  <2>1. ring' \in Seq(Piece) /\ sending' \in Seq(Piece)
    BY <1>5, FinishedPieces, EmptySeq DEF FinishFrame
  <2> QED
    BY <1>5, <2>1 DEF FinishFrame, TypeOK, world, ForMe, Complete
<1>6. CASE GiveUp
  BY <1>6 DEF GiveUp, TypeOK, world, ForMe, Complete
<1>7. CASE UNCHANGED vars
  BY <1>7 DEF vars, bus, world, TypeOK, ForMe, Complete
<1> QED
  BY <1>1, <1>2, <1>3, <1>4, <1>5, <1>6, <1>7 DEF Next, Process, Client

\* A frame the slave takes has both its halves in front of what is to come.
LEMMA OrderStep ==
    ASSUME TypeOK, StreamOrdered, [Next]_vars
    PROVE  StreamOrdered'
<1>0. /\ lastId \in Nat
      /\ \A j \in DOMAIN ring : ring[j] \in Piece /\ ring[j].req.id \in Nat
      /\ \A i \in DOMAIN applied : applied[i] \in Nat
  <2>1. \A j \in DOMAIN ring : ring[j] \in Piece
    BY Elements DEF TypeOK
  <2>2. \A i \in DOMAIN applied : applied[i] \in 1 .. MaxRequests
    BY Elements DEF TypeOK
  <2> QED
    BY <2>1, <2>2 DEF TypeOK, Piece, Request
<1>1. CASE Poll
  <2>1. /\ ring' = <<>> /\ rxBuf' = ring /\ lastId' = lastId
        /\ sending' = sending /\ applied' = applied
    BY <1>1 DEF Poll, bus
  <2>2. ASSUME pc' = "handle"
        PROVE  /\ 1 \in DOMAIN ring /\ 2 \in DOMAIN ring
               /\ ring[2].half = 2 /\ ring[1].req = ring[2].req
    <3>1. Complete(ring)
      BY <1>1, <2>2 DEF Poll, ForMe
    <3>2. ring \in Seq(Piece)
      BY DEF TypeOK
    <3> QED
      BY <3>1, <3>2 DEF Complete
  <2> QED
    BY <1>0, <2>1, <2>2 DEF StreamOrdered
<1>2. CASE Handle
  <2> DEFINE id == rxBuf[1].req.id
  <2>1. /\ ring' = ring /\ lastId' = lastId /\ sending' = sending
        /\ pc = "handle" /\ pc' = "flush"
        /\ applied' = applied \/ applied' = Append(applied, id)
    BY <1>2 DEF Handle
  <2>2. id \in 1 .. MaxRequests
    BY <2>1, BufferedRequest DEF Request
  <2>3. \A i \in DOMAIN applied' :
            applied'[i] = id \/ \E k \in DOMAIN applied : applied'[i] = applied[k]
    <3> HIDE DEF id
    <3>1. CASE applied' = applied
      BY <3>1
    <3>2. CASE applied' = Append(applied, id)
      <4>1. applied \in Seq(1 .. MaxRequests) /\ Len(applied) \in Nat
            /\ DOMAIN applied = 1 .. Len(applied)
        BY DEF TypeOK
      <4> TAKE i \in DOMAIN applied'
      <4>2. i \in 1 .. Len(applied) + 1
        BY <2>2, <3>2, <4>1, AppendProperties
      <4>3. CASE i \in 1 .. Len(applied)
        BY <2>2, <3>2, <4>1, <4>3, AppendProperties
      <4>4. CASE i = Len(applied) + 1
        BY <2>2, <3>2, <4>1, <4>4, AppendProperties
      <4> QED
        BY <4>1, <4>2, <4>3, <4>4
    <3> QED
      BY <2>1, <3>1, <3>2
  <2>4. /\ id <= lastId /\ (sending # <<>> => id < lastId)
        /\ \A j \in DOMAIN ring : id < ring[j].req.id
    BY <2>1 DEF StreamOrdered
  <2> HIDE DEF id
  <2> QED
    BY <2>1, <2>3, <2>4 DEF StreamOrdered
<1>3. CASE Flush
  <2>1. /\ ring' = <<>> /\ lastId' = lastId /\ sending' = sending
        /\ applied' = applied /\ pc' = "poll"
    BY <1>3 DEF Flush, bus
  <2> QED
    BY <2>1 DEF StreamOrdered
<1>4. ASSUME NEW to \in {"self", "all", "other"}, NEW op \in Ops, Send(to, op)
      PROVE  StreamOrdered'
  <2> DEFINE r == [id |-> lastId + 1, to |-> to, op |-> op]
  <2>1. /\ lastId' = lastId + 1 /\ sending = <<>>
        /\ rxBuf' = rxBuf /\ pc' = pc /\ applied' = applied
    BY <1>4 DEF Send
  <2>2. /\ \A j \in DOMAIN ring' :
               \/ \E k \in DOMAIN ring : ring'[j] = ring[k]
               \/ ring'[j].req = r /\ (ring'[j].half = 1 \/ sending' = <<>>)
        /\ sending' # <<>> => sending' = <<[req |-> r, half |-> 2]>>
    BY <1>4, SentPieces
  <2>3. r.id = lastId + 1
    OBVIOUS
  <2>4. sending' # <<>> =>
            /\ Len(sending') = 1
            /\ sending'[1].req.id = lastId + 1
            /\ sending'[1].half = 2
    BY <2>2
  <2> HIDE DEF r
  <2>5. \A j \in DOMAIN ring :
            /\ ring[j].req.id <= lastId
            /\ pc = "handle" => rxBuf[1].req.id < ring[j].req.id
            /\ \A i \in DOMAIN applied : applied[i] < ring[j].req.id
    BY DEF StreamOrdered
  <2>6. /\ pc = "handle" => /\ rxBuf[1].req.id <= lastId
                            /\ rxBuf[1].req.id \in Nat
                            /\ \A i \in DOMAIN applied : applied[i] < rxBuf[1].req.id
        /\ \A i \in DOMAIN applied : applied[i] <= lastId
    BY BufferedRequest DEF StreamOrdered, Request
  <2>7. \A j \in DOMAIN ring' :
           /\ ring'[j].req.id <= lastId + 1
           /\ sending' # <<>> /\ ring'[j].half = 2 => ring'[j].req.id < lastId + 1
           /\ pc = "handle" => rxBuf[1].req.id < ring'[j].req.id
           /\ \A i \in DOMAIN applied : applied[i] < ring'[j].req.id
    <3> TAKE j \in DOMAIN ring'
    <3>1. CASE \E k \in DOMAIN ring : ring'[j] = ring[k]
      BY <1>0, <2>5, <3>1
    <3>2. CASE ring'[j].req = r /\ (ring'[j].half = 1 \/ sending' = <<>>)
      BY <1>0, <2>3, <2>6, <3>2
    <3> QED
      BY <2>2, <3>1, <3>2
  <2> QED
    BY <1>0, <2>1, <2>4, <2>6, <2>7 DEF StreamOrdered
<1>5. CASE FinishFrame
  <2>1. /\ lastId' = lastId /\ rxBuf' = rxBuf /\ pc' = pc /\ applied' = applied
        /\ sending # <<>>
    BY <1>5 DEF FinishFrame
  <2>2. Len(sending) = 1 /\ sending[1].req.id = lastId
    BY <2>1 DEF StreamOrdered
  <2>3. /\ sending' = <<>>
        /\ \A j \in DOMAIN ring' :
               (\E k \in DOMAIN ring : ring'[j] = ring[k]) \/ ring'[j] = sending[1]
    BY <1>5, <2>2, FinishedPieces
  <2> QED
    BY <1>0, <2>1, <2>2, <2>3 DEF StreamOrdered
<1>6. CASE GiveUp
  BY <1>6 DEF GiveUp, StreamOrdered
<1>7. CASE UNCHANGED vars
  BY <1>7 DEF vars, bus, StreamOrdered
<1> QED
  BY <1>1, <1>2, <1>3, <1>4, <1>5, <1>6, <1>7 DEF Next, Process, Client

\* A prompt gateway has nothing else before it while it handles a request, and
\* the client is waiting for it.
LEMMA TurnStep ==
    ASSUME TypeOK, StreamOrdered, OneFrame, SpeaksInTurn, [Next]_vars
    PROVE  OneFrame' /\ SpeaksInTurn'
<1> SUFFICES ASSUME prompt, prompt' = prompt
             PROVE  OneFrame' /\ SpeaksInTurn'
  <2>1. prompt' = prompt
    BY DEF Next, Process, Client, Poll, Handle, Flush, Send, FinishFrame, GiveUp,
           vars, world
  <2> QED
    BY <2>1 DEF OneFrame, SpeaksInTurn
<1>0. /\ pc # "poll" => ring = <<>> /\ sending = <<>>
      /\ \A j \in DOMAIN ring :
             /\ ring[j].req.id = lastId
             /\ ring[j].req.to = "self" => open = ring[j].req
      /\ sending # <<>> /\ sending[1].req.to = "self" => open = sending[1].req
  BY DEF OneFrame
<1>1. CASE Poll
  <2>1. /\ ring' = <<>> /\ rxBuf' = ring /\ sending' = sending /\ open' = open
        /\ pc' = IF ForMe(ring) THEN "handle" ELSE "poll"
    BY <1>1 DEF Poll, bus
  <2>2. ASSUME ForMe(ring)
        PROVE  /\ sending = <<>>
               /\ ring[1].req.to # "all" => open = ring[1].req
    <3>1. ring \in Seq(Piece) /\ Len(ring) = 2 /\ ring[2].half = 2
          /\ ring[1].req.to \in {"self", "all"}
      BY <2>2 DEF ForMe, Complete, TypeOK
    <3>2. 1 \in DOMAIN ring /\ 2 \in DOMAIN ring
      BY <3>1
    <3>3. ring[2].req.id = lastId /\ lastId \in Nat
      BY <1>0, <3>2 DEF TypeOK
    <3>4. sending = <<>>
      BY <3>1, <3>2, <3>3 DEF StreamOrdered
    <3> QED
      BY <1>0, <3>1, <3>2, <3>4
  <2> QED
    BY <1>0, <2>1, <2>2 DEF OneFrame, SpeaksInTurn
<1>2. CASE Handle
  <2>1. /\ ring' = ring /\ sending' = sending /\ pc' = "flush"
        /\ ring = <<>> /\ sending = <<>>
    BY <1>0, <1>2 DEF Handle
  <2> QED
    BY <2>1 DEF OneFrame, SpeaksInTurn
<1>3. CASE Flush
  <2>1. ring' = <<>> /\ sending' = sending /\ pc' = "poll" /\ sending = <<>>
    BY <1>0, <1>3 DEF Flush, bus
  <2> QED
    BY <2>1 DEF OneFrame, SpeaksInTurn
<1>4. ASSUME NEW to \in {"self", "all", "other"}, NEW op \in Ops, Send(to, op)
      PROVE  OneFrame' /\ SpeaksInTurn'
  <2> DEFINE r == [id |-> lastId + 1, to |-> to, op |-> op]
  <2>1. /\ ring = <<>> /\ sending = <<>> /\ pc = "poll" /\ pc' = "poll"
        /\ lastId' = lastId + 1
        /\ to = "self" => open' = r
    BY <1>4 DEF Send, Quiet
  <2>2. /\ \A j \in DOMAIN ring' :
               \/ \E k \in DOMAIN ring : ring'[j] = ring[k]
               \/ ring'[j].req = r
        /\ sending' # <<>> => sending' = <<[req |-> r, half |-> 2]>>
    BY <1>4, SentPieces
  <2>3. \A j \in DOMAIN ring' : ring'[j].req = r
    BY <2>1, <2>2
  <2>4. r.id = lastId' /\ r.to = to
    BY <2>1
  <2>5. sending' # <<>> => sending'[1].req = r
    BY <2>2
  <2> HIDE DEF r
  <2> QED
    BY <2>1, <2>3, <2>4, <2>5 DEF OneFrame, SpeaksInTurn
<1>5. CASE FinishFrame
  <2>1. /\ lastId' = lastId /\ rxBuf' = rxBuf /\ pc' = pc /\ open' = open
        /\ sending # <<>>
    BY <1>5 DEF FinishFrame
  <2>2. Len(sending) = 1 /\ sending[1].req.id = lastId
    BY <2>1 DEF StreamOrdered
  <2>3. /\ sending' = <<>>
        /\ \A j \in DOMAIN ring' :
               (\E k \in DOMAIN ring : ring'[j] = ring[k]) \/ ring'[j] = sending[1]
    BY <1>5, <2>2, FinishedPieces
  <2>4. pc = "poll"
    BY <1>0, <2>1 DEF TypeOK
  <2> QED
    BY <1>0, <2>1, <2>2, <2>3, <2>4 DEF OneFrame, SpeaksInTurn
<1>6. CASE GiveUp
  <2>1. ring' = <<>> /\ sending' = <<>> /\ pc' = "poll"
    BY <1>6 DEF GiveUp, Quiet
  <2> QED
    BY <2>1 DEF OneFrame, SpeaksInTurn
<1>7. CASE UNCHANGED vars
  BY <1>7 DEF vars, bus, OneFrame, SpeaksInTurn
<1> QED
  BY <1>1, <1>2, <1>3, <1>4, <1>5, <1>6, <1>7 DEF Next, Process, Client

\* A write is only appended when it is newer than all those applied.
LEMMA AppliedStep ==
    ASSUME TypeOK, StreamOrdered, AppliedInOrder, [Next]_vars
    PROVE  AppliedInOrder'
<1>1. CASE Handle
  <2> DEFINE id == rxBuf[1].req.id
  <2>1. /\ pc = "handle"
        /\ applied' = applied \/ applied' = Append(applied, id)
    BY <1>1 DEF Handle
  <2>2. id \in 1 .. MaxRequests /\ \A i \in DOMAIN applied : applied[i] < id
    BY <2>1, BufferedRequest DEF Request, StreamOrdered
  <2> HIDE DEF id
  <2>3. CASE applied' = applied
    BY <2>3 DEF AppliedInOrder
  <2>4. CASE applied' = Append(applied, id)
    <3>1. applied \in Seq(1 .. MaxRequests) /\ Len(applied) \in Nat
          /\ DOMAIN applied = 1 .. Len(applied)
      BY DEF TypeOK
    <3>2. /\ DOMAIN applied' = 1 .. Len(applied) + 1
          /\ \A i \in 1 .. Len(applied) : applied'[i] = applied[i]
          /\ applied'[Len(applied) + 1] = id
      BY <2>2, <2>4, <3>1, AppendProperties
    <3>3. ASSUME NEW i \in DOMAIN applied', NEW j \in DOMAIN applied', i < j
          PROVE  applied'[i] < applied'[j]
      <4>1. i \in 1 .. Len(applied)
        BY <3>1, <3>2, <3>3
      <4>2. CASE j \in 1 .. Len(applied)
        BY <3>1, <3>2, <3>3, <4>1, <4>2 DEF AppliedInOrder
      <4>3. CASE j = Len(applied) + 1
        BY <2>2, <3>1, <3>2, <4>1, <4>3
      <4> QED
        BY <3>1, <3>2, <4>2, <4>3
    <3> QED
      BY <3>3 DEF AppliedInOrder
  <2> QED
    BY <2>1, <2>3, <2>4
<1>2. CASE UNCHANGED applied
  BY <1>2 DEF AppliedInOrder
<1> QED
  BY <1>1, <1>2 DEF Next, Process, Client, Poll, Flush, Send, FinishFrame, GiveUp,
     vars

\* The client takes a reply for its own because it is.
LEMMA AckedStep ==
    ASSUME TypeOK, SpeaksInTurn, AckedApplied, [Next]_vars
    PROVE  AckedApplied'
<1>1. CASE Handle
  <2> DEFINE r == rxBuf[1].req
  <2>1. /\ pc = "handle" /\ prompt' = prompt
        /\ applied' = IF r.op = "write" THEN Append(applied, r.id) ELSE applied
        /\ \/ acked' = acked
           \/ r.op = "write" /\ r.to # "all" /\ acked' = acked \cup {open.id}
    BY <1>1 DEF Handle, ClientTakes, world
  <2>2. r.id \in 1 .. MaxRequests
    BY <2>1, BufferedRequest DEF Request
  <2>3. prompt /\ r.to # "all" => open.id = r.id
    BY <2>1 DEF SpeaksInTurn
  <2> HIDE DEF r
  <2>4. /\ \A i \in DOMAIN applied : i \in DOMAIN applied' /\ applied'[i] = applied[i]
        /\ r.op = "write" => \E i \in DOMAIN applied' : applied'[i] = r.id
    <3>1. applied \in Seq(1 .. MaxRequests) /\ Len(applied) \in Nat
          /\ DOMAIN applied = 1 .. Len(applied)
      BY DEF TypeOK
    <3>2. CASE r.op = "write"
      <4>1. /\ DOMAIN applied' = 1 .. Len(applied) + 1
            /\ \A i \in 1 .. Len(applied) : applied'[i] = applied[i]
            /\ applied'[Len(applied) + 1] = r.id
        BY <2>1, <2>2, <3>1, <3>2, AppendProperties
      <4> QED
        BY <3>1, <4>1
    <3> QED
      BY <2>1, <3>2
  <2> QED
    BY <2>1, <2>3, <2>4 DEF AckedApplied
<1>2. CASE UNCHANGED <<acked, applied, prompt>>
  BY <1>2 DEF AckedApplied
<1> QED
  BY <1>1, <1>2 DEF Next, Process, Client, Poll, Flush, Send, FinishFrame, GiveUp,
     vars, world

Inv == TypeOK /\ StreamOrdered /\ OneFrame /\ SpeaksInTurn /\ AppliedInOrder
       /\ AckedApplied

LEMMA SlaveInvariant == Spec => []Inv
<1>1. Init => Inv
  BY SlaveAssumption, EmptySeq
     DEF Init, Inv, TypeOK, StreamOrdered, OneFrame, SpeaksInTurn, AppliedInOrder,
         AckedApplied
<1>2. Inv /\ [Next]_vars => Inv'
  <2> SUFFICES ASSUME Inv, [Next]_vars PROVE Inv'
    OBVIOUS
  <2>1. Len(sending) = 1 \/ sending = <<>>
    BY DEF Inv, StreamOrdered
  <2> QED
    BY <2>1, TypeStep, OrderStep, TurnStep, AppliedStep, AckedStep DEF Inv
<1> QED
  BY <1>1, <1>2, PTL DEF Spec

\* What ModbusSlave_Process handles is always a whole request for this slave.
THEOREM SlaveTypeCorrect == Spec => []TypeOK
<1>1. Inv => TypeOK
  BY DEF Inv
<1> QED
  BY <1>1, SlaveInvariant, PTL

\* Each write reaches the data pool at most once and in the order sent, however
\* slow the main loop and whatever the client repeats.
THEOREM WritesInOrder == Spec => []AppliedInOrder
<1>1. Inv => AppliedInOrder
  BY DEF Inv
<1> QED
  BY <1>1, SlaveInvariant, PTL

\* A gateway that answers before the client gives up never transmits out of
\* turn on the forward bus.
THEOREM NoBusCollision == Spec => []SpeaksInTurn
<1>1. Inv => SpeaksInTurn
  BY DEF Inv
<1> QED
  BY <1>1, SlaveInvariant, PTL

\* ... and what its client takes for written is in the data pool.
THEOREM AckedWritesApplied == Spec => []AckedApplied
<1>1. Inv => AckedApplied
  BY DEF Inv
<1> QED
  BY <1>1, SlaveInvariant, PTL
=============================================================================
