--------------------------- MODULE Rs485RingProofs ---------------------------
(***************************************************************************)
(* Proofs about Rs485Ring, for every ring size: the invariant that makes   *)
(* the lock-free ring safe against the interrupt, and that the ring        *)
(* implements the lossy FIFO of RxFifo.                                    *)
(***************************************************************************)
EXTENDS Rs485Ring, TLAPS, SequenceTheorems

\* Masked indices stay inside the array.
LEMMA MaskInSlots ==
    ASSUME NEW i \in 0 .. 2 * RingSize - 1
    PROVE  Mask(i) \in Slots
BY RingAssumption DEF Mask, Slots

LEMMA PositionInSlots ==
    ASSUME NEW t \in Slots, NEW i \in 1 .. RingSize
    PROVE  Mask(t + i - 1) \in Slots
BY RingAssumption DEF Mask, Slots

\* head, tail and the buffers stay within their ranges: no access of ring_put
\* or ring_get is outside rx_ring.buf.
THEOREM TypeCorrect == Spec => []TypeOK
<1>1. Init => TypeOK
  BY RingAssumption DEF Init, TypeOK, Slots
<1>2. TypeOK /\ [Next]_vars => TypeOK'
  <2> SUFFICES ASSUME TypeOK, [Next]_vars PROVE TypeOK'
    OBVIOUS
  <2> Mask(head + 1) \in Slots /\ Mask(tail + 1) \in Slots
    <3> head + 1 \in 0 .. 2 * RingSize - 1 /\ tail + 1 \in 0 .. 2 * RingSize - 1
      BY RingAssumption DEF TypeOK, Slots
    <3> QED
      BY MaskInSlots
  <2> 0 \in Slots
    BY RingAssumption DEF Slots
  <2> USE DEF TypeOK, ring, Arrival
  <2>1. ASSUME NEW b \in Byte, UartRx(b) PROVE TypeOK'
    BY <2>1 DEF UartRx
  <2>2. ASSUME NEW n \in MaxLens, ReadCall(n) PROVE TypeOK'
    BY <2>2 DEF ReadCall
  <2>3. CASE ReadNonEmpty
    BY <2>3 DEF ReadNonEmpty
  <2>4. CASE ReadReturn
    BY <2>4 DEF ReadReturn
  <2>5. CASE ReadCopy
    BY <2>5 DEF ReadCopy
  <2>6. CASE ReadAdvance
    BY <2>6 DEF ReadAdvance
  <2>7. CASE FlushHead
    BY <2>7 DEF FlushHead
  <2>8. CASE FlushTail
    BY <2>8 DEF FlushTail
  <2>9. CASE UartRxDropped
    BY <2>9 DEF UartRxDropped
  <2>10. CASE UNCHANGED vars
    BY <2>10 DEF vars
  <2> QED
    BY <2>1, <2>2, <2>3, <2>4, <2>5, <2>6, <2>7, <2>8, <2>9,
       <2>10 DEF Next, MainReads
<1> QED
  BY <1>1, <1>2, PTL DEF Spec

\* What ring_get and ring_init have read or written so far is not undone by
\* the interrupts that come between their accesses.
THEOREM InFlightHolds == Spec => []InFlight
<1>1. Init => InFlight
  BY DEF Init, InFlight
<1>2. TypeOK /\ InFlight /\ [Next]_vars => InFlight'
  <2> SUFFICES ASSUME TypeOK, InFlight, [Next]_vars PROVE InFlight'
    OBVIOUS
  <2> USE DEF InFlight, ring, Arrival
  <2>1. ASSUME NEW b \in Byte, UartRx(b) PROVE InFlight'
    <3>1. (pc \in {"copy", "advance"} => head # tail /\ Len(got) < maxLen)'
      BY <2>1 DEF UartRx, Full
    <3>2. (pc = "advance" => byte = buf[tail])'
      BY <2>1 DEF UartRx, TypeOK
    <3>3. (pc = "flush" => tail = 0 \/ head < tail)'
      BY <2>1, RingAssumption DEF UartRx, Full, Mask, TypeOK, Slots
    <3> QED
      BY <3>1, <3>2, <3>3
  <2>2. ASSUME NEW n \in MaxLens, ReadCall(n) PROVE InFlight'
    BY <2>2 DEF ReadCall
  <2>3. CASE ReadNonEmpty
    BY <2>3 DEF ReadNonEmpty
  <2>4. CASE ReadReturn
    BY <2>4 DEF ReadReturn
  <2>5. CASE ReadCopy
    BY <2>5 DEF ReadCopy
  <2>6. CASE ReadAdvance
    BY <2>6 DEF ReadAdvance
  <2>7. CASE FlushHead
    BY <2>7, RingAssumption DEF FlushHead, TypeOK, Slots
  <2>8. CASE FlushTail
    BY <2>8 DEF FlushTail
  <2>9. CASE UartRxDropped
    BY <2>9 DEF UartRxDropped
  <2>10. CASE UNCHANGED vars
    BY <2>10 DEF vars
  <2> QED
    BY <2>1, <2>2, <2>3, <2>4, <2>5, <2>6, <2>7, <2>8, <2>9,
       <2>10 DEF Next, MainReads
<1> QED
  BY <1>1, <1>2, TypeCorrect, PTL DEF Spec
-----------------------------------------------------------------------------
(* The refinement.                                                         *)

\* A function on 1 .. n is a sequence of length n.
LEMMA FunctionIsSeq ==
    ASSUME NEW S, NEW n \in Nat, NEW f \in [1 .. n -> S]
    PROVE  f \in Seq(S) /\ Len(f) = n
OBVIOUS

\* Two functions on 1 .. n that agree everywhere are the same sequence.
LEMMA ExtendedByOne ==
    ASSUME NEW S, NEW n \in Nat, NEW f \in [1 .. n -> S], NEW e \in S,
           NEW g \in [1 .. n + 1 -> S],
           \A i \in 1 .. n : g[i] = f[i], g[n + 1] = e
    PROVE  g = Append(f, e)
<1>1. f \in Seq(S) /\ Len(f) = n /\ g \in Seq(S) /\ Len(g) = n + 1
  BY FunctionIsSeq
<1>2. Append(f, e) \in Seq(S) /\ Len(Append(f, e)) = n + 1
  BY <1>1, AppendProperties
<1>3. \A i \in 1 .. n + 1 : g[i] = Append(f, e)[i]
  BY <1>1, AppendProperties
<1> QED
  BY <1>1, <1>2, <1>3, SeqEqual

\* Dropping the first element shifts the rest down by one.
LEMMA WithoutFirst ==
    ASSUME NEW S, NEW n \in Nat, NEW f \in [1 .. n + 1 -> S],
           NEW g \in [1 .. n -> S],
           \A i \in 1 .. n : g[i] = f[i + 1]
    PROVE  f # <<>> /\ Head(f) = f[1] /\ g = Tail(f)
<1>1. f \in Seq(S) /\ Len(f) = n + 1 /\ g \in Seq(S) /\ Len(g) = n
  BY FunctionIsSeq
<1>2. f # <<>>
  BY <1>1, EmptySeq
<1>3. Head(f) = f[1] /\ Tail(f) \in Seq(S) /\ Len(Tail(f)) = n
      /\ \A i \in 1 .. n : Tail(f)[i] = f[i + 1]
  BY <1>1, <1>2, HeadTailProperties
<1>4. \A i \in 1 .. n : g[i] = Tail(f)[i]
  BY <1>3
<1> QED
  BY <1>1, <1>2, <1>3, <1>4, SeqEqual

\* How many unread bytes head and tail stand for.
LEMMA CountProperties ==
    ASSUME TypeOK
    PROVE  /\ Count \in 0 .. RingSize - 1
           /\ Count = 0 <=> head = tail
           /\ Full <=> Count = RingSize - 1
           /\ Mask(tail + Count) = head
           /\ \A i \in 1 .. RingSize : Mask(tail + i - 1) \in Slots
BY RingAssumption DEF TypeOK, Slots, Count, Mask, Full

\* Distinct positions of the queue are distinct slots, and none of the unread
\* ones is the slot the interrupt writes next.
LEMMA UnreadSlots ==
    ASSUME TypeOK, NEW i \in 1 .. Count
    PROVE  Mask(tail + i - 1) # head
BY RingAssumption DEF TypeOK, Slots, Count, Mask

LEMMA UnreadIsFunction ==
    ASSUME TypeOK
    PROVE  /\ pc = "flush" => Unread \in [1 .. head -> Byte]
           /\ pc # "flush" => Unread \in [1 .. Count -> Byte]
<1>1. ASSUME pc = "flush" PROVE Unread \in [1 .. head -> Byte]
  <2> \A i \in 1 .. head : buf[i - 1] \in Byte
    BY RingAssumption DEF TypeOK, Slots
  <2> QED
    BY <1>1 DEF Unread
<1>2. ASSUME pc # "flush" PROVE Unread \in [1 .. Count -> Byte]
  <2>1. ASSUME NEW i \in 1 .. Count PROVE buf[Mask(tail + i - 1)] \in Byte
    <3>1. i \in 1 .. RingSize
      BY CountProperties, RingAssumption
    <3>2. Mask(tail + i - 1) \in Slots
      BY <3>1, CountProperties
    <3> QED
      BY <3>2 DEF TypeOK
  <2> QED
    BY <1>2, <2>1 DEF Unread
<1> QED
  BY <1>1, <1>2

\* The interrupt appends its byte to the queue, whatever the main loop is at.
LEMMA RxKeeps ==
    ASSUME TypeOK, TypeOK', InFlight, NEW b \in Byte, UartRx(b)
    PROVE  Fifo!Keep(b)
<1>1. CASE pc = "flush"
  <2>1. head < RingSize - 1 /\ head' = head + 1 /\ pc' = "flush"
    BY <1>1, RingAssumption
       DEF UartRx, Full, Mask, InFlight, TypeOK, Slots
  <2>2. head \in Nat /\ Unread \in [1 .. head -> Byte]
    BY <1>1, UnreadIsFunction DEF TypeOK, Slots
  <2>3. Unread' \in [1 .. head + 1 -> Byte]
    <3> \A i \in 1 .. head + 1 : buf'[i - 1] \in Byte
      BY <2>1, RingAssumption DEF TypeOK, Slots
    <3> QED
      BY <2>1 DEF Unread
  <2>4. \A i \in 1 .. head : Unread'[i] = Unread[i]
    <3> SUFFICES ASSUME NEW i \in 1 .. head PROVE Unread'[i] = Unread[i]
      OBVIOUS
    <3> i - 1 \in Slots /\ i - 1 # head
      BY RingAssumption DEF TypeOK, Slots
    <3> buf'[i - 1] = buf[i - 1]
      BY DEF UartRx, TypeOK
    <3> i \in 1 .. head'
      BY <2>1, <2>2
    <3> QED
      BY <1>1, <2>1 DEF Unread
  <2>5. Unread'[head + 1] = b
    BY <2>1, <2>2 DEF Unread, UartRx, TypeOK
  <2>6. Unread' = Append(Unread, b) /\ Len(Unread) = head
    BY <2>2, <2>3, <2>4, <2>5, ExtendedByOne, FunctionIsSeq
  <2> QED
    BY <1>1, <2>1, <2>6 DEF Fifo!Keep, Fifo!Arrival, Arrival, UartRx
<1>2. CASE pc # "flush"
  <2>1. pc' # "flush" /\ tail' = tail
    BY <1>2 DEF UartRx
  <2>2. Count' = Count + 1 /\ Count < RingSize - 1
    BY RingAssumption DEF UartRx, Full, Mask, Count, TypeOK, Slots
  <2>3. Count \in Nat /\ Unread \in [1 .. Count -> Byte]
    BY <1>2, UnreadIsFunction, CountProperties, RingAssumption
  <2>4. Unread' \in [1 .. Count + 1 -> Byte]
    <3>1. \A i \in 1 .. Count + 1 : i \in 1 .. RingSize
      BY <2>2, <2>3, RingAssumption
    <3>2. \A i \in 1 .. Count + 1 : Mask(tail + i - 1) \in Slots
      BY <3>1, CountProperties
    <3> \A i \in 1 .. Count + 1 : buf'[Mask(tail + i - 1)] \in Byte
      BY <3>2 DEF TypeOK
    <3> QED
      BY <2>1, <2>2 DEF Unread, Mask
  <2>5. \A i \in 1 .. Count : Unread'[i] = Unread[i]
    <3> SUFFICES ASSUME NEW i \in 1 .. Count PROVE Unread'[i] = Unread[i]
      OBVIOUS
    <3>1. Mask(tail + i - 1) \in Slots /\ Mask(tail + i - 1) # head
      BY <2>2, <2>3, CountProperties, UnreadSlots, RingAssumption
    <3>2. buf'[Mask(tail + i - 1)] = buf[Mask(tail + i - 1)]
      BY <3>1 DEF UartRx, TypeOK
    <3> QED
      BY <1>2, <2>1, <2>2, <2>3, <3>2 DEF Unread, Mask
  <2>6. Unread'[Count + 1] = b
    <3>1. tail + (Count + 1) - 1 = tail + Count
      BY <2>3 DEF TypeOK, Slots
    <3>2. Mask(tail + (Count + 1) - 1) = head
      BY <3>1, CountProperties
    <3>3. buf'[head] = b
      BY DEF UartRx, TypeOK
    <3> QED
      BY <2>1, <2>2, <2>3, <3>2, <3>3 DEF Unread, Mask
  <2>7. Unread' = Append(Unread, b) /\ Len(Unread) = Count
    BY <2>3, <2>4, <2>5, <2>6, ExtendedByOne, FunctionIsSeq
  <2> QED
    BY <1>2, <2>1, <2>2, <2>7 DEF Fifo!Keep, Fifo!Arrival, Arrival, UartRx
<1> QED
  BY <1>1, <1>2

\* Advancing tail after the copy takes the oldest byte off the queue.
LEMMA AdvanceTakes ==
    ASSUME TypeOK, TypeOK', InFlight, ReadAdvance
    PROVE  Fifo!Take
<1>1. pc = "advance" /\ pc' = "check"
  BY DEF ReadAdvance
<1>2. head # tail /\ Len(got) < maxLen /\ byte = buf[tail]
  BY <1>1 DEF InFlight
<1>3. Count \in Nat \ {0} /\ Count' = Count - 1
  BY <1>2, RingAssumption DEF ReadAdvance, Mask, Count, TypeOK, Slots
<1> DEFINE n == Count - 1
<1>4. n \in Nat /\ Count = n + 1 /\ Count' = n
  BY <1>3
<1> HIDE DEF n
<1>5. Unread \in [1 .. n + 1 -> Byte] /\ Unread' \in [1 .. n -> Byte]
  <2>1. Unread \in [1 .. n + 1 -> Byte]
    BY <1>1, <1>4, UnreadIsFunction
  <2>2. \A i \in 1 .. n : (buf[Mask(tail + i - 1)])' \in Byte
    <3>1. n < RingSize
      BY <1>4, CountProperties, RingAssumption
    <3>2. ASSUME NEW i \in 1 .. n PROVE Mask(tail' + i - 1) \in Slots
      <4>1. tail' \in Slots
        BY DEF TypeOK
      <4>2. i \in 1 .. RingSize
        BY <1>4, <3>1, RingAssumption
      <4> QED
        BY <4>1, <4>2, PositionInSlots
    <3> QED
      BY <3>2 DEF TypeOK, Mask
  <2> QED
    BY <1>1, <1>4, <2>1, <2>2 DEF Unread
<1>6. \A i \in 1 .. n : Unread'[i] = Unread[i + 1]
  <2> SUFFICES ASSUME NEW i \in 1 .. n PROVE Unread'[i] = Unread[i + 1]
    OBVIOUS
  <2>1. n + 1 < RingSize
    BY <1>4, CountProperties, RingAssumption
  <2>2. Mask(tail' + i - 1) = Mask(tail + (i + 1) - 1)
    BY <1>4, <2>1, RingAssumption DEF ReadAdvance, Mask, TypeOK, Slots
  <2>3. buf' = buf
    BY DEF ReadAdvance
  <2> QED
    BY <1>1, <1>4, <2>2, <2>3 DEF Unread, Mask
<1>7. Unread[1] = buf[tail]
  <2> Mask(tail + 1 - 1) = tail
    BY RingAssumption DEF Mask, TypeOK, Slots
  <2> QED
    BY <1>1, <1>4 DEF Unread
<1>8. Unread # <<>> /\ Head(Unread) = buf[tail] /\ Unread' = Tail(Unread)
  BY <1>4, <1>5, <1>6, <1>7, WithoutFirst
<1> QED
  BY <1>1, <1>2, <1>8 DEF Fifo!Take, ReadAdvance

\* The two writes of ring_init begin and end a flush of the queue.
LEMMA FlushBegins ==
    ASSUME TypeOK, TypeOK', FlushHead
    PROVE  Fifo!BeginFlush
<1>1. pc' = "flush" /\ head' = 0
  BY DEF FlushHead
<1>2. Unread' \in [1 .. 0 -> Byte]
  BY <1>1 DEF Unread
<1>3. Unread' = <<>>
  BY <1>2, FunctionIsSeq, EmptySeq
<1> QED
  BY <1>1, <1>3 DEF Fifo!BeginFlush, FlushHead

LEMMA FlushEnds ==
    ASSUME TypeOK, TypeOK', FlushTail
    PROVE  Fifo!EndFlush
<1>1. pc = "flush" /\ pc' # "flush" /\ tail' = 0 /\ head' = head /\ buf' = buf
  BY DEF FlushTail
<1>2. Count' = head
  BY <1>1, RingAssumption DEF Count, Mask, TypeOK, Slots
<1>3. \A i \in 1 .. head : Mask(tail' + i - 1) = i - 1
  BY <1>1, RingAssumption DEF Mask, TypeOK, Slots
<1>4. Unread' = Unread
  BY <1>1, <1>2, <1>3 DEF Unread, Mask
<1> QED
  BY <1>1, <1>4 DEF Fifo!EndFlush, FlushTail

\* Without a write to head, tail or buf the queue stays as it is.
LEMMA RingUnchanged ==
    ASSUME UNCHANGED ring, pc # "flush", pc' # "flush"
    PROVE  Unread' = Unread
BY DEF ring, Unread, Count, Mask

\* A byte is dropped only while RingSize - 1 are unread or a flush is running.
LEMMA DropLoses ==
    ASSUME TypeOK, UartRxDropped
    PROVE  Fifo!Lose
<1>1. Len(Unread) = RingSize - 1 \/ pc = "flush"
  <2>1. CASE pc # "flush"
    <3>1. Count = RingSize - 1
      BY CountProperties DEF UartRxDropped
    <3>2. RingSize - 1 \in Nat /\ Unread \in [1 .. RingSize - 1 -> Byte]
      BY <2>1, <3>1, UnreadIsFunction, RingAssumption
    <3> QED
      BY <3>2, FunctionIsSeq
  <2> QED
    BY <2>1
<1>2. Unread' = Unread
  BY DEF UartRxDropped, ring, Unread, Count, Mask
<1> QED
  BY <1>1, <1>2 DEF Fifo!Lose, Fifo!Arrival, Arrival, UartRxDropped

\* The ring is the lossy FIFO, whenever the interrupt comes: what is read is
\* what was received, in order and once, and an arriving byte is dropped only
\* when the ring holds RingSize - 1 or Rs485_FlushRx is under way.
THEOREM RingImplementsFifo == Spec => ImplementsFifo
<1>1. Init => Fifo!Init
  <2> SUFFICES ASSUME Init PROVE Fifo!Init
    OBVIOUS
  <2>1. TypeOK /\ pc # "flush" /\ Count = 0
    BY RingAssumption DEF Init, TypeOK, Slots, Count, Mask
  <2>2. Unread \in [1 .. 0 -> Byte]
    BY <2>1, UnreadIsFunction
  <2>3. Unread = <<>>
    BY <2>2, FunctionIsSeq, EmptySeq
  <2> QED
    BY <2>1, <2>3 DEF Init, Fifo!Init
<1>2. TypeOK /\ TypeOK' /\ InFlight /\ [Next]_vars => [Fifo!Next]_(Fifo!vars)
  <2> SUFFICES ASSUME TypeOK, TypeOK', InFlight, [Next]_vars
               PROVE  [Fifo!Next]_(Fifo!vars)
    OBVIOUS
  <2>1. ASSUME NEW b \in Byte, UartRx(b) PROVE Fifo!Next
    BY <2>1, RxKeeps DEF Fifo!Next
  <2>2. ASSUME NEW n \in MaxLens, ReadCall(n) PROVE Fifo!Next
    BY <2>2, RingUnchanged DEF ReadCall, Fifo!Next, Fifo!BeginRead
  <2>3. CASE ReadNonEmpty
    BY <2>3, RingUnchanged DEF ReadNonEmpty, Fifo!vars
  <2>4. CASE ReadReturn
    BY <2>4, RingUnchanged DEF ReadReturn, Fifo!vars
  <2>5. CASE ReadCopy
    BY <2>5, RingUnchanged DEF ReadCopy, Fifo!vars
  <2>6. CASE ReadAdvance
    BY <2>6, AdvanceTakes DEF Fifo!Next
  <2>7. CASE FlushHead
    BY <2>7, FlushBegins DEF Fifo!Next
  <2>8. CASE FlushTail
    BY <2>8, FlushEnds DEF Fifo!Next
  <2>9. CASE UartRxDropped
    BY <2>9, DropLoses DEF Fifo!Next
  <2>10. CASE UNCHANGED vars
    <3>1. Unread' = Unread
      BY <2>10 DEF vars, ring, Unread, Count, Mask
    <3> QED
      BY <2>10, <3>1 DEF vars, ring, Fifo!vars
  <2> QED
    BY <2>1, <2>2, <2>3, <2>4, <2>5, <2>6, <2>7, <2>8, <2>9,
       <2>10 DEF Next, MainReads
<1> QED
  BY <1>1, <1>2, TypeCorrect, InFlightHolds, PTL
     DEF Spec, ImplementsFifo, Fifo!Spec
=============================================================================
