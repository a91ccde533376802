------------------------------ MODULE Ch395 ------------------------------
(***************************************************************************)
(* ch395_drv.c: the driver of the CH395 on USART3, and the chip as far as  *)
(* its two servers see it.  Nothing calls CH395_Init; the chip is taken to *)
(* be configured all the same, or no connection would ever come.           *)
(*                                                                         *)
(* What peers send is a sequence of pieces, and lengths count pieces: a    *)
(* request that may arrive in two parts is two, its head and its rest.     *)
(* What a reception leaves of a piece it took a part of is Cut.            *)
(*                                                                         *)
(* A reception is good when it brings what the chip holds.  Any other puts *)
(* nothing into the buffer while the UART is armed, and afterwards bytes   *)
(* of which some were lost, or which start inside a request: what the      *)
(* front of the buffer then says depends on the data, and a server takes   *)
(* it to be anything.                                                      *)
(***************************************************************************)
EXTENDS Naturals, Sequences

CONSTANTS
    MaxMessages,    \* bound: requests sent by all peers
    MaxPieces,      \* bound: pieces that an unread len_buf may stand for
    Sent,           \* the requests that peers make
    Worlds          \* the choices of <<flaky, child, calm>> considered

Sockets == 0 .. 3
Requests == {"write", "read", "refused", "short"}
Pages == {"page", "status", "config", "unknown", "post", "other"}

ASSUME ChipAssumption ==
    /\ MaxMessages \in Nat
    /\ MaxPieces \in Nat \ {0}
    /\ Sent \subseteq Requests \cup Pages
    /\ Worlds \subseteq (SUBSET Sockets) \X BOOLEAN \X BOOLEAN

Piece == [id : 0 .. MaxMessages,
          kind : Requests \cup Pages \cup {"blank"},
          part : {"head", "rest", "cut"}]
Blank == [id |-> 0, kind |-> "blank", part |-> "head"]     \* zeros
Cut == [id |-> 0, kind |-> "blank", part |-> "cut"]

VARIABLES
    asked,      \* the requests sent; the id of one is its index
    inbox,      \* what the chip holds for the program, per socket
    listening,  \* the sockets that listen
    armed,      \* USART3 receives by interrupt, which Rs485_Init starts
    len,        \* to_read
    sure,       \* this reception is good so far
    flaky,      \* the sockets whose receptions may lose bytes
    child,      \* a connection gets the socket after the one that listens
    calm        \* peers send a request in one part, when the chip holds no other

chipWorld == <<flaky, child, calm>>
chip == <<asked, inbox, listening, armed, len, sure, chipWorld>>

Least(a, b) == IF a < b THEN a ELSE b
Over(text, buf) == [i \in DOMAIN buf |-> IF i <= Len(text) THEN text[i] ELSE buf[i]]

ChipInit ==
    /\ asked = <<>>
    /\ inbox = [s \in Sockets |-> <<>>]
    /\ listening = {}
    /\ armed = TRUE
    /\ len = 0
    /\ sure = FALSE
    /\ \E w \in Worlds : flaky = w[1] /\ child = w[2] /\ calm = w[3]

\* CH395_TcpListen: the program learns nothing of what the chip makes of it.
TcpListen(s) ==
    /\ listening' = listening \cup {s}
    /\ UNCHANGED <<asked, inbox, armed, len, sure, chipWorld>>

\* Faulty variant of RecvLen: the size of the buffer is not looked at.
RecvLenUnlimited(s, max) ==
    /\ len' = Len(inbox[s])
    /\ sure' = (len' > 0)
    /\ UNCHANGED <<asked, inbox, listening, armed, chipWorld>>

\* CH395_TcpRecv up to to_read.  While the UART is armed HAL_UART_Receive refuses,
\* and it gives up when bytes were lost: len_buf holds what was on the stack.
RecvLen(s, max) ==
    /\ \/ /\ ~armed
          /\ len' = Least(Len(inbox[s]), max)
          /\ sure' = (len' > 0)
       \/ /\ armed \/ s \in flaky
          /\ \E avail \in 0 .. MaxPieces : len' = Least(avail, max)
          /\ sure' = FALSE
    /\ UNCHANGED <<asked, inbox, listening, armed, chipWorld>>

Handed(s) == SubSeq(inbox[s], 1, Least(len, Len(inbox[s])))

\* What stays in the chip: where to_read ends inside a piece, the rest of it first.
\* An unread len_buf ends anywhere, a full buffer inside the piece behind the last.
Left(s, max) ==
    LET left == SubSeq(inbox[s], len + 1, Len(inbox[s]))
    IN  {left} \cup IF ~sure /\ Handed(s) # <<>> THEN {<<Cut>> \o left}
                    ELSE IF len = max /\ left # <<>> THEN {<<Cut>> \o Tail(left)} ELSE {}

Clean(s) == Handed(s) # <<>> /\ \A i \in DOMAIN Handed(s) : Handed(s)[i] # Cut

\* CH395_TcpRecv from CMD_GET_RECV_DATA on.
RecvData(s, max, good) ==
    /\ IF good THEN sure /\ Clean(s) ELSE ~sure \/ s \in flaky \/ ~Clean(s)
    /\ sure' = good
    /\ \E left \in Left(s, max) : inbox' = [inbox EXCEPT ![s] = left]
    /\ UNCHANGED <<asked, listening, armed, len, chipWorld>>

\* The locals of a reception end with it.
Forget ==
    /\ len' = 0
    /\ sure' = FALSE
    /\ UNCHANGED <<asked, inbox, listening, armed, chipWorld>>

\* The interrupt reception of USART3 ends for good: HAL_UART_IRQHandler ends it on
\* an overrun, and Rs485_UartRxCpltCallback does not look whether re-arming worked.
Disarm ==
    /\ armed
    /\ armed' = FALSE
    /\ UNCHANGED <<asked, inbox, listening, len, sure, chipWorld>>

\* Where the connections to a listening socket are served, on the chip's side.
Landing(s) == IF child THEN s + 1 ELSE s

Pieces(id, kind, parts) ==
    [i \in 1 .. Len(parts) |-> [id |-> id, kind |-> kind, part |-> parts[i]]]

\* A peer sends a request to a listening socket, of which the given parts arrive.
Ask(s, kind, parts) ==
    /\ kind \in Sent
    /\ s \in listening
    /\ Len(asked) < MaxMessages
    /\ asked' = Append(asked, kind)
    /\ inbox' = [inbox EXCEPT ![Landing(s)] = @ \o Pieces(Len(asked) + 1, kind, parts)]
    /\ UNCHANGED <<listening, armed, len, sure, chipWorld>>

ChipTypeOK ==
    /\ asked \in Seq(Requests \cup Pages) /\ Len(asked) <= MaxMessages
    /\ inbox \in [Sockets -> Seq(Piece)]
    /\ listening \subseteq Sockets
    /\ armed \in BOOLEAN
    /\ len \in Nat
    /\ sure \in BOOLEAN
    /\ flaky \subseteq Sockets
    /\ child \in BOOLEAN
    /\ calm \in BOOLEAN
=============================================================================
