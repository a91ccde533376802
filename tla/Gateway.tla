----------------------------- MODULE Gateway -----------------------------
(***************************************************************************)
(* User_Loop with the two servers on the CH395: the modules in turn, while *)
(* requests arrive at any moment and the interrupt reception of USART3,    *)
(* which keeps the servers from receiving, may end.  The two modules on    *)
(* the RS485 buses are here by what they do to the register.               *)
(***************************************************************************)
EXTENDS ModbusTcp, WebServer

VARIABLE turn   \* the module whose Process is called or under way

vars == <<turn, chip, tcp, web>>

Turns == {"master", "slave", "tcp", "tcpRead", "tcpHandle", "isapi",
          "web", "webRead", "webHandle"}

\* main and User_Setup: no module's Init calls another's.
Init ==
    /\ turn = "master"
    /\ ChipInit
    /\ TcpInit
    /\ WebInit

At(t, next) == turn = t /\ turn' = next

\* What a device answers, or a client of the forward bus writes, goes to the pool.
Store ==
    /\ reg' \in {0, reg}
    /\ UNCHANGED <<chip, tcpUp, tcpRx, applied, answers, half, web>>

MasterTurn == At("master", "slave") /\ Store
SlaveTurn == At("slave", "tcp") /\ Store

TcpTurn ==
    \/ At("tcp", "isapi") /\ TcpStart /\ UNCHANGED web
    \/ TcpPoll /\ At("tcp", IF len' = 0 THEN "isapi" ELSE "tcpRead") /\ UNCHANGED web
    \/ At("tcpRead", "tcpHandle") /\ TcpRead /\ UNCHANGED web
    \/ At("tcpHandle", "isapi") /\ TcpHandle /\ UNCHANGED web

\* The camera client reads what has come for the socket it uses when it waits.
IsapiTurn ==
    /\ At("isapi", "web")
    /\ inbox' \in {inbox, [inbox EXCEPT ![WebSock + 1] = <<>>]}
    /\ UNCHANGED <<asked, listening, armed, len, sure, chipWorld, tcp, web>>

WebTurn ==
    \/ At("web", "master") /\ WebStart /\ UNCHANGED tcp
    \/ WebPoll /\ At("web", IF len' = 0 THEN "master" ELSE "webRead") /\ UNCHANGED tcp
    \/ At("webRead", "webHandle") /\ WebRead /\ UNCHANGED tcp
    \/ At("webHandle", "master") /\ WebHandle /\ UNCHANGED tcp

UserLoop == MasterTurn \/ SlaveTurn \/ TcpTurn \/ IsapiTurn \/ WebTurn

Peers ==
    /\ \/ (\E kind \in Requests : TcpAsk(kind)) /\ UNCHANGED web
       \/ FinishRequest /\ UNCHANGED web
       \/ (\E kind \in Pages : Browse(kind)) /\ UNCHANGED tcp
       \/ turn \notin {"webRead", "webHandle"} /\ StopBrowsing /\ UNCHANGED tcp
    /\ UNCHANGED turn

Next ==
    \/ UserLoop
    \/ Peers
    \/ Disarm /\ UNCHANGED <<turn, tcp, web>>

Spec == Init /\ [][Next]_vars

\* main calls User_Loop forever, and every reception has a timeout.  Nothing makes
\* peers send or the interrupt reception end.
FairSpec == Spec /\ WF_vars(UserLoop)
-----------------------------------------------------------------------------
\* What the driver is asked to receive has room in the buffer it is for.
TypeOK ==
    /\ turn \in Turns /\ ChipTypeOK /\ TcpTypeOK /\ WebTypeOK
    /\ turn \in {"tcpRead", "tcpHandle"} => len \in 1 .. TcpRxSize
    /\ turn \in {"webRead", "webHandle"} => len \in 1 .. WebRxSize

\* When the UART is left to the driver and loses nothing, a whole request that waits
\* at the start of a round is answered, if the chip gives its connection the socket
\* polled: by an exception if it deserves one, by an echo or a value if not.  A request
\* of 8 bytes is not answered: the server takes it for too short.
TcpAnswered ==
    ClientSock \notin flaky /\ child /\ calm =>
        \A i \in 1 .. MaxMessages :
            (/\ turn = "master" /\ ~armed /\ half = 0
             /\ i \in DOMAIN asked /\ asked[i] # "short"
             /\ \E j \in DOMAIN inbox[ClientSock] :
                   inbox[ClientSock][j].id = i /\ inbox[ClientSock][j].part = "head")
            ~> (/\ i \in DOMAIN asked
                /\ \E a \in answers :
                      a.id = i /\ (a.what = "exception" <=> asked[i] = "refused"))

\* Likewise a browser gets a response to each GET and POST, if it is served on the
\* socket that listens, nothing of an earlier request is left and the response fits.
WebAnswered ==
    WebSock \notin flaky /\ ~child =>
        \A i \in 1 .. MaxMessages :
            (/\ turn = "master" /\ ~armed /\ browser = i
             /\ asked[i] \in Docs /\ Fits(asked[i])
             /\ inbox[WebSock] # <<>> /\ Head(inbox[WebSock]).id = i)
            ~> (browser = 0 /\ got.to = i /\ got.for = i)

\* A GET that the browser waits for is answered by the document, whole: web_server.c:51
\* says "return main HTML page", :59 "return sensor data as JSON".
DocumentsWhole ==
    [][WebHandle /\ sure /\ browser # 0 /\ webRx.kind \in {"page"} \cup Json
        => got'.text = Whole(webRx.kind)]_vars
=============================================================================
