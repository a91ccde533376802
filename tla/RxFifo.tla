------------------------------- MODULE RxFifo -------------------------------
(***************************************************************************)
(* What a receive port of rs485.c promises its caller, without the ring:   *)
(* a queue of at most Capacity bytes, filled by the interrupt and drained  *)
(* by Rs485_ReadData in arrival order.  A byte that has arrived is lost    *)
(* only because the queue is full, or because Rs485_FlushRx discards what  *)
(* is there; while a flush is under way an arriving byte may be lost too,  *)
(* but one that is kept survives the flush.  Every arrival flips arrived,  *)
(* so a loss is a step of its own and not a step nobody sees.              *)
(***************************************************************************)
EXTENDS Naturals, Sequences

CONSTANTS
    Byte,       \* the values a received byte can take
    Capacity,   \* how many unread bytes the port holds
    MaxLens     \* the max_len arguments Rs485_ReadData is called with

VARIABLES
    queue,      \* received and neither read nor discarded yet, oldest first
    flushing,   \* Rs485_FlushRx has begun and not returned
    limit,      \* max_len of the latest read
    got,        \* the bytes the latest read has stored in its caller's buffer
    arrived     \* the number of bytes that have arrived, modulo 2

vars == <<queue, flushing, limit, got, arrived>>

Init ==
    /\ queue = <<>>
    /\ flushing = FALSE
    /\ limit = 0
    /\ got = <<>>
    /\ arrived = 0

Arrival == arrived' = 1 - arrived

Keep(b) ==
    /\ Len(queue) < Capacity
    /\ queue' = Append(queue, b)
    /\ Arrival
    /\ UNCHANGED <<flushing, limit, got>>

\* An arrival that leaves the queue as it is.
Lose ==
    /\ Len(queue) = Capacity \/ flushing
    /\ Arrival
    /\ UNCHANGED <<queue, flushing, limit, got>>

BeginRead(n) ==
    /\ ~flushing
    /\ limit' = n
    /\ got' = <<>>
    /\ UNCHANGED <<queue, flushing, arrived>>

Take ==
    /\ ~flushing
    /\ queue # <<>>
    /\ Len(got) < limit
    /\ got' = Append(got, Head(queue))
    /\ queue' = Tail(queue)
    /\ UNCHANGED <<flushing, limit, arrived>>

BeginFlush ==
    /\ ~flushing
    /\ flushing' = TRUE
    /\ queue' = <<>>
    /\ UNCHANGED <<limit, got, arrived>>

EndFlush ==
    /\ flushing
    /\ flushing' = FALSE
    /\ UNCHANGED <<queue, limit, got, arrived>>

Next ==
    \/ \E b \in Byte : Keep(b)
    \/ Lose
    \/ \E n \in MaxLens : BeginRead(n)
    \/ Take
    \/ BeginFlush
    \/ EndFlush

Spec == Init /\ [][Next]_vars
=============================================================================
