---------------------------- MODULE ModbusTcp ----------------------------
(***************************************************************************)
(* modbus_tcp.c: the server on port 502 and a client, which may have       *)
(* several requests under way.  A reply names its request by the           *)
(* transaction id, which is not 0 here.  The head of a request is the MBAP *)
(* header, function and register, 10 bytes, the rest the last two; a       *)
(* "short" request has no data, and 8 bytes in all.  One register is       *)
(* modelled; "refused" stands for requests answered by an exception.       *)
(*                                                                         *)
(* applied and answers are of good receptions only.  A reception that is   *)
(* not good may leave an earlier write at the front of s_tcp_rx, under any *)
(* two bytes as its id, and modbus_tcp.c:119-143 makes and echoes it again.*)
(***************************************************************************)
EXTENDS Ch395

CONSTANTS
    TcpRxSize,      \* the pieces that s_tcp_rx holds
    BadFronts       \* what a reception that is not good may leave at its front

WithData == Requests \ {"short"}

\* Bytes 0-1, 2-9 and 10-11: zeros, or what makes a request of the kind; "none" is
\* what is never answered, a short request or another protocol id than 0.
Front == [id    : 0 .. MaxMessages,
          kind  : WithData \cup {"blank", "none"},
          value : 0 .. MaxMessages]

ASSUME TcpAssumption ==
    /\ TcpRxSize \in Nat \ {0, 1}
    /\ BadFronts \subseteq Front

ListenSock == 0
ClientSock == 1         \* the one socket the loop does not skip

VARIABLES
    tcpUp,      \* s_initialized
    tcpRx,      \* what the front of s_tcp_rx says: nothing looks further
    reg,        \* the register: the write it is from, or 0
    applied,    \* the writes made, by the ids of their header and of their value
    half,       \* the request whose rest is still to arrive, or 0
    answers     \* the replies the client has got

tcpServer == <<tcpUp, tcpRx, reg, applied, answers>>
tcp == <<tcpServer, half>>

\* The first pieces of text over an old front.  A rest has two bytes: alone it is no
\* more than a transaction id, and behind it the id of the next request is where the
\* protocol id should be and its register where the value should.
Laid(text, old) ==
    IF text[1].part = "head"
    THEN [id    |-> text[1].id,
          kind  |-> IF text[1].kind \in WithData THEN text[1].kind ELSE "none",
          value |-> IF Len(text) > 1 THEN text[2].id ELSE old.value]
    ELSE [id    |-> text[1].id,
          kind  |-> IF Len(text) > 1 THEN "none" ELSE old.kind,
          value |-> IF Len(text) > 1 THEN 0 ELSE old.value]

TcpInit ==
    /\ tcpUp = FALSE
    /\ tcpRx = [id |-> 0, kind |-> "blank", value |-> 0]
    /\ reg = 0
    /\ applied = <<>>
    /\ half = 0
    /\ answers = {}
-----------------------------------------------------------------------------
(* ModbusTcp_Process                                                       *)

TcpStart ==
    /\ ~tcpUp
    /\ TcpListen(ListenSock)
    /\ tcpUp' = TRUE
    /\ UNCHANGED <<tcpRx, reg, applied, answers, half>>

TcpPoll ==
    /\ tcpUp
    /\ RecvLen(ClientSock, TcpRxSize)
    /\ UNCHANGED tcp

\* What is received goes over the front of s_tcp_rx, which is never cleared.
TcpRead ==
    /\ len > 0
    /\ \/ RecvData(ClientSock, TcpRxSize, TRUE) /\ tcpRx' = Laid(Handed(ClientSock), tcpRx)
       \/ RecvData(ClientSock, TcpRxSize, FALSE) /\ tcpRx' \in IF armed THEN {tcpRx} ELSE BadFronts
    /\ UNCHANGED <<tcpUp, reg, applied, answers, half>>

\* Faulty variant of Complete: the MBAP length is not compared with what came.
CompleteUnchecked == tcpRx.kind \in WithData

\* Faulty variant of Complete: a request that ends with what came is too long.
CompleteOneOff == tcpRx.kind \in WithData /\ len > 2

\* Protocol id 0, and the length of a request with data is not beyond what came.
Complete == tcpRx.kind \in WithData /\ len >= 2

\* Zeros where the lengths are: length 0, so that pdu_len is 65535, and function 0.
Zeros == tcpRx.kind = "blank" /\ len >= 2

\* A reply reaches the client if the socket is its connection.
Reply(id, what, value) ==
    answers' = IF sure /\ Landing(ListenSock) = ClientSock
               THEN answers \cup {[id |-> id, what |-> what, value |-> value]}
               ELSE answers

\* Fewer than 9 bytes, another protocol, a length beyond what came, a PDU of one byte
Drop ==
    /\ ~Complete /\ ~Zeros
    /\ UNCHANGED <<reg, applied, answers>>

\* process_modbus_pdu

\* Faulty variant of WriteRegister: the echo without the write.
EchoOnly ==
    /\ Complete /\ tcpRx.kind = "write"
    /\ Reply(tcpRx.id, "echo", tcpRx.value)
    /\ UNCHANGED <<reg, applied>>

WriteRegister ==
    /\ Complete /\ tcpRx.kind = "write"
    /\ reg' = tcpRx.value
    /\ applied' = IF sure THEN Append(applied, [id |-> tcpRx.id, value |-> tcpRx.value])
                  ELSE applied
    /\ Reply(tcpRx.id, "echo", tcpRx.value)

ReadRegister ==
    /\ Complete /\ tcpRx.kind = "read"
    /\ Reply(tcpRx.id, "value", reg)
    /\ UNCHANGED <<reg, applied>>

\* Zeros are no known function.
Refuse ==
    /\ Zeros \/ (Complete /\ tcpRx.kind = "refused")
    /\ Reply(tcpRx.id, "exception", 0)
    /\ UNCHANGED <<reg, applied>>

\* The first request received is answered, the others in the buffer are not looked at.
TcpHandle ==
    /\ Drop \/ WriteRegister \/ ReadRegister \/ Refuse
    /\ Forget
    /\ UNCHANGED <<tcpUp, tcpRx, half>>
-----------------------------------------------------------------------------
(* The client on port 502                                                  *)

TcpAsk(kind) ==
    /\ half = 0
    /\ calm => inbox[Landing(ListenSock)] = <<>>
    /\ \/ /\ Ask(ListenSock, kind, IF kind = "short" THEN <<"head">> ELSE <<"head", "rest">>)
          /\ half' = 0
       \/ /\ ~calm /\ kind \in WithData
          /\ Ask(ListenSock, kind, <<"head">>)
          /\ half' = Len(asked) + 1
    /\ UNCHANGED tcpServer

FinishRequest ==
    /\ half # 0
    /\ inbox' = [inbox EXCEPT ![Landing(ListenSock)] =
                    Append(@, [id |-> half, kind |-> asked[half], part |-> "rest"])]
    /\ half' = 0
    /\ UNCHANGED <<asked, listening, armed, len, sure, chipWorld, tcpServer>>
-----------------------------------------------------------------------------
Answer == [id : 0 .. MaxMessages, what : {"echo", "value", "exception"}, value : 0 .. MaxMessages]

TcpTypeOK ==
    /\ tcpUp \in BOOLEAN
    /\ tcpRx \in Front
    /\ reg \in 0 .. MaxMessages
    /\ applied \in Seq([id : 0 .. MaxMessages, value : 0 .. MaxMessages])
    /\ half \in 0 .. Len(asked)
    /\ answers \subseteq Answer

\* From good receptions no write is made twice, out of order, or with a value out of
\* another request, whether requests come in parts, back to back or behind a lost
\* one, and whatever earlier receptions have left in s_tcp_rx and in the chip.
WritesIntact ==
    \A i \in DOMAIN applied :
        /\ applied[i].value = applied[i].id
        /\ \A j \in 1 .. i - 1 : applied[j].id < applied[i].id

\* A reply to a good reception answers the request whose id it has: an echo a write
\* that was made, with its value, a value a read, an exception one that deserves it.
AnswersMatch ==
    \A a \in answers :
        /\ a.id # 0
        /\ a.what = "echo" =>
               /\ asked[a.id] = "write" /\ a.value = a.id
               /\ \E i \in DOMAIN applied : applied[i].id = a.id
        /\ a.what = "value" => asked[a.id] = "read"
        /\ a.what = "exception" => asked[a.id] = "refused"
=============================================================================
