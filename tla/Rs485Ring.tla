------------------------------ MODULE Rs485Ring ------------------------------
(***************************************************************************)
(* One receive port of rs485.c: the ring buffer rx_ring, filled by the     *)
(* UART interrupt (Rs485_UartRxCpltCallback -> ring_put) and drained by    *)
(* the main loop (Rs485_ReadData -> ring_get, Rs485_FlushRx -> ring_init). *)
(*                                                                         *)
(* There is no lock and the interrupt is never masked, so it may run       *)
(* between any two accesses the main loop makes to head, tail and buf;     *)
(* the main loop never runs inside the interrupt.  The main loop therefore *)
(* takes one step per access to shared memory, the interrupt one step.     *)
(* head == tail is one step too: the main loop alone writes tail, so only  *)
(* the moment it reads head matters.  buf is not volatile; the module has  *)
(* its accesses in program order, as the builds of this code emit them.    *)
(*                                                                         *)
(* arrived is no variable of the code: it makes every arrival a change of  *)
(* state, so that a dropped byte is a step the specification can forbid.   *)
(***************************************************************************)
EXTENDS Naturals, Sequences

CONSTANTS
    RingSize,   \* RS485_RING_BUF_SIZE
    Byte,       \* the values a received byte can take
    MaxLens     \* the max_len arguments of the callers of Rs485_ReadData

ASSUME RingAssumption ==
    /\ RingSize \in Nat \ {0, 1}
    /\ Byte # {}
    /\ MaxLens \subseteq Nat

VARIABLES
    buf,        \* rx_ring.buf
    head,       \* rx_ring.head: where the interrupt writes next
    tail,       \* rx_ring.tail: where the main loop reads next
    pc,         \* the access the main loop makes next
    maxLen,     \* max_len of the latest Rs485_ReadData
    got,        \* its caller's buffer, as far as *actual_len counts it
    byte,       \* the element after those, written by ring_get
    arrived     \* history: the number of bytes that have arrived, modulo 2

ring == <<buf, head, tail>>
vars == <<buf, head, tail, pc, maxLen, got, byte, arrived>>

Slots == 0 .. RingSize - 1

\* Faulty variant of Mask: wraps one slot too late.
MaskLate(i) == IF i > RingSize THEN i - RingSize ELSE i

\* i & (RS485_RING_BUF_SIZE - 1), for an i below twice the size.
Mask(i) == IF i >= RingSize THEN i - RingSize ELSE i

\* The static array starts as zeros; Rs485_Init runs ring_init.
Init ==
    /\ \E zero \in Byte : buf = [i \in Slots |-> zero] /\ byte = zero
    /\ head = 0
    /\ tail = 0
    /\ pc = "idle"
    /\ maxLen = 0
    /\ got = <<>>
    /\ arrived = 0
-----------------------------------------------------------------------------
(* The interrupt.                                                          *)

Arrival == arrived' = 1 - arrived

\* Faulty variant of Full: the ring counts as full with one slot to spare.
FullEarly == tail \in {Mask(head + 1), Mask(Mask(head + 1) + 1)}

\* ring_put: the slot behind tail stays free, so a full ring drops the byte.
Full == Mask(head + 1) = tail

\* Faulty variant of UartRx: the oldest byte is overwritten in a full ring.
UartRxOverwrites(b) ==
    /\ buf' = [buf EXCEPT ![head] = b]
    /\ head' = Mask(head + 1)
    /\ Arrival
    /\ UNCHANGED <<tail, pc, maxLen, got, byte>>

UartRx(b) ==
    /\ ~Full
    /\ buf' = [buf EXCEPT ![head] = b]
    /\ head' = Mask(head + 1)
    /\ Arrival
    /\ UNCHANGED <<tail, pc, maxLen, got, byte>>

UartRxDropped ==
    /\ Full
    /\ Arrival
    /\ UNCHANGED <<ring, pc, maxLen, got, byte>>
-----------------------------------------------------------------------------
(* The main loop.                                                          *)

ReadCall(n) ==
    /\ pc = "idle"
    /\ pc' = "check"
    /\ maxLen' = n
    /\ got' = <<>>
    /\ UNCHANGED <<ring, byte, arrived>>

\* while (*actual_len < max_len), then head == tail in ring_get.
ReadNonEmpty ==
    /\ pc = "check"
    /\ Len(got) < maxLen
    /\ head # tail
    /\ pc' = "copy"
    /\ UNCHANGED <<ring, maxLen, got, byte, arrived>>

ReadReturn ==
    /\ pc = "check"
    /\ Len(got) >= maxLen \/ head = tail
    /\ pc' = "idle"
    /\ UNCHANGED <<ring, maxLen, got, byte, arrived>>

\* *byte = r->buf[r->tail]
ReadCopy ==
    /\ pc = "copy"
    /\ byte' = buf[tail]
    /\ pc' = "advance"
    /\ UNCHANGED <<ring, maxLen, got, arrived>>

\* Faulty variant of ReadAdvance: actual_len is not incremented.
ReadAdvanceUncounted ==
    /\ pc = "advance"
    /\ tail' = Mask(tail + 1)
    /\ pc' = "check"
    /\ UNCHANGED <<buf, head, maxLen, got, byte, arrived>>

\* r->tail = (r->tail + 1) & (SIZE - 1); then (*actual_len)++ in the caller.
ReadAdvance ==
    /\ pc = "advance"
    /\ tail' = Mask(tail + 1)
    /\ got' = Append(got, byte)
    /\ pc' = "check"
    /\ UNCHANGED <<buf, head, maxLen, byte, arrived>>

\* ring_init writes head first and tail second.
FlushHead ==
    /\ pc = "idle"
    /\ head' = 0
    /\ pc' = "flush"
    /\ UNCHANGED <<buf, tail, maxLen, got, byte, arrived>>

FlushTail ==
    /\ pc = "flush"
    /\ tail' = 0
    /\ pc' = "idle"
    /\ UNCHANGED <<buf, head, maxLen, got, byte, arrived>>

MainReads ==
    \/ ReadNonEmpty
    \/ ReadReturn
    \/ ReadCopy
    \/ ReadAdvance

Next ==
    \/ \E b \in Byte : UartRx(b)
    \/ UartRxDropped
    \/ \E n \in MaxLens : ReadCall(n)
    \/ MainReads
    \/ FlushHead
    \/ FlushTail

Spec == Init /\ [][Next]_vars

\* A call that has begun is executed: the interrupt returns to it each time.
FairSpec == Spec /\ WF_vars(MainReads) /\ WF_vars(FlushTail)
-----------------------------------------------------------------------------
TypeOK ==
    /\ buf \in [Slots -> Byte]
    /\ head \in Slots
    /\ tail \in Slots
    /\ pc \in {"idle", "check", "copy", "advance", "flush"}
    /\ maxLen \in MaxLens \cup {0}
    /\ got \in Seq(Byte)
    /\ byte \in Byte
    /\ arrived \in 0 .. 1

\* ring_count
Count == Mask(head + RingSize - tail)

\* The bytes a reader would be given next.  Between the two writes of
\* ring_init these are the ones received since the first.
Unread ==
    IF pc = "flush"
    THEN [i \in 1 .. head |-> buf[i - 1]]
    ELSE [i \in 1 .. Count |-> buf[Mask(tail + i - 1)]]

Fifo == INSTANCE RxFifo WITH
    Capacity <- RingSize - 1,
    queue    <- Unread,
    flushing <- pc = "flush",
    limit    <- maxLen

\* The ring without a lock behaves as the lossy FIFO RxFifo promises: nothing
\* is reordered, duplicated, invented or read after a flush discarded it, and
\* a byte that arrives is dropped only when RingSize - 1 are unread or a flush
\* is running: with room left its arrival appends it.
ImplementsFifo == Fifo!Spec

\* Strengthening for the proof: what the interrupt cannot undo between the
\* accesses of one ring_get (the ring stays non-empty, the slot under tail
\* keeps its byte) and between the two of ring_init (head does not pass the
\* old tail).
InFlight ==
    /\ pc \in {"copy", "advance"} => head # tail /\ Len(got) < maxLen
    /\ pc = "advance" => byte = buf[tail]
    /\ pc = "flush" => tail = 0 \/ head < tail

\* Rs485_ReadData returns even if the interrupt never stops filling the ring:
\* max_len bounds the loop.
ReadReturns == (pc = "check") ~> (pc = "idle")
=============================================================================
