---------------------------- MODULE WebServer ----------------------------
(***************************************************************************)
(* web_server.c: the server on port 80 and a browser, whose requests come  *)
(* in one piece.  Lengths count cells, a cell being a number of bytes of   *)
(* which a header has HdrSize.  s_tx_buf holds the header and the body     *)
(* sent, and before that the JSON text which is to be the body.            *)
(***************************************************************************)
EXTENDS Ch395

CONSTANTS
    TxSize,         \* WEB_TX_BUF_SIZE
    WebRxSize,      \* the pieces that s_rx_buf holds
    HdrSize,        \* the length of a header
    BodySize,       \* that of each body
    BadPages        \* what a request may look like after a reception that is not good

Docs == Pages \ {"other"}
Json == {"status", "config"}

ASSUME WebAssumption ==
    /\ TxSize \in Nat
    /\ WebRxSize \in Nat \ {0}
    /\ HdrSize \in Nat \ {0} /\ HdrSize < TxSize
    /\ BodySize \in [Docs -> Nat]
    /\ BadPages \subseteq Pages \cup {"blank"}
    /\ \A d \in Json : BodySize[d] < TxSize

WebSock == 2

VARIABLES
    webUp,      \* s_initialized
    webRx,      \* the piece at the front of s_rx_buf
    tx,         \* s_tx_buf: what each cell belongs to, and its place in that
    browser,    \* the request the browser waits for, or 0
    got         \* what it got last: to which request, for which, of what, the text

webServer == <<webUp, webRx, tx>>
web == <<webServer, browser, got>>

Zero == <<"end", 0>>
Cell == (Docs \cup {"header", "end"}) \X Nat
Header == [i \in 1 .. HdrSize |-> <<"header", i>>]
Body(doc) == [i \in 1 .. BodySize[doc] |-> <<doc, i>>]
Whole(doc) == Header \o Body(doc)
NoResponse == [to |-> 0, for |-> 0, doc |-> "other", text |-> <<>>]

\* No browser has sent it.
Garbled == [id : {0}, kind : BadPages, part : {"head"}]

WebInit ==
    /\ webUp = FALSE
    /\ webRx = Blank
    /\ tx = [i \in 1 .. TxSize |-> Zero]
    /\ browser = 0
    /\ got = NoResponse
-----------------------------------------------------------------------------
(* WebServer_Process                                                       *)

WebStart ==
    /\ ~webUp
    /\ TcpListen(WebSock)
    /\ webUp' = TRUE
    /\ UNCHANGED <<webRx, tx, browser, got>>

WebPoll ==
    /\ webUp
    /\ RecvLen(WebSock, WebRxSize)
    /\ UNCHANGED web

WebRead ==
    /\ len > 0
    /\ \/ RecvData(WebSock, WebRxSize, TRUE) /\ webRx' = Handed(WebSock)[1]
       \/ RecvData(WebSock, WebRxSize, FALSE) /\ webRx' \in IF armed THEN {webRx} ELSE Garbled
    /\ UNCHANGED <<webUp, tx, browser, got>>

\* The JSON bodies are built at the front of s_tx_buf.
Built(doc) == IF doc \in Json THEN Over(Append(Body(doc), Zero), tx) ELSE tx

\* snprintf of the header, with its terminator
Printed(buf) == Over(Append(Header, Zero), buf)

\* What memcpy gives for the body.  A JSON body comes from the front of the buffer
\* it goes to, source and target overlap, and the cells come as they were or as they
\* are by then, from the first on.
Sources(doc, buf) ==
    IF doc \in Json THEN {buf, [i \in 1 .. TxSize |-> buf[((i - 1) % HdrSize) + 1]]}
    ELSE {Body(doc)}
\* Faulty variant of Copied: from the start of the buffer, over the header.
CopiedOver(source, n, buf) == Over([i \in 1 .. n |-> source[i]], buf)

\* memcpy behind the header
Copied(source, n, buf) ==
    [i \in 1 .. TxSize |-> IF i \in HdrSize + 1 .. HdrSize + n THEN source[i - HdrSize] ELSE buf[i]]

Fits(doc) == HdrSize + BodySize[doc] < TxSize

\* What is sent arrives at the browser if the socket is its connection.
Deliver(text) ==
    /\ got' = IF browser # 0 /\ Landing(WebSock) = WebSock
              THEN [to |-> webRx.id, for |-> browser, doc |-> webRx.kind, text |-> text] ELSE got
    /\ browser' = IF Landing(WebSock) = WebSock THEN 0 ELSE browser

\* Faulty variant of Respond: the length counts the terminator of the text.
RespondLonger(doc) ==
    LET printed == Printed(Built(doc)) IN
    IF Fits(doc)
    THEN \E source \in Sources(doc, printed) :
            /\ tx' = Copied(source, BodySize[doc], printed)
            /\ Deliver(SubSeq(tx', 1, HdrSize + BodySize[doc] + 1))
    ELSE tx' = printed /\ UNCHANGED <<browser, got>>

\* send_http_response
Respond(doc) ==
    LET printed == Printed(Built(doc)) IN
    IF Fits(doc)
    THEN \E source \in Sources(doc, printed) :
            /\ tx' = Copied(source, BodySize[doc], printed)
            /\ Deliver(SubSeq(tx', 1, HdrSize + BodySize[doc]))
    ELSE tx' = printed /\ UNCHANGED <<browser, got>>

\* Faulty variant of WebHandle: only GET is routed.
WebHandleGetOnly ==
    /\ \/ webRx.kind \in Docs \ {"post"} /\ Respond(webRx.kind)
       \/ webRx.kind \notin Docs \ {"post"} /\ UNCHANGED <<tx, browser, got>>
    /\ Forget
    /\ UNCHANGED <<webUp, webRx>>

\* route_request: a method that is neither GET nor POST gets nothing, as zeros do.
\* POST /api/config saves and maps what is there, which changes neither.
WebHandle ==
    /\ \/ webRx.kind \in Docs /\ Respond(webRx.kind)
       \/ webRx.kind \notin Docs /\ UNCHANGED <<tx, browser, got>>
    /\ Forget
    /\ UNCHANGED <<webUp, webRx>>
-----------------------------------------------------------------------------
(* The browser                                                             *)

Browse(kind) ==
    /\ browser = 0
    /\ Ask(WebSock, kind, <<"head">>)
    /\ browser' = Len(asked) + 1
    /\ UNCHANGED <<webServer, got>>

\* It has waited far longer than the server takes.
StopBrowsing ==
    /\ browser # 0
    /\ inbox[WebSock] = <<>>
    /\ browser' = 0
    /\ UNCHANGED <<chip, webServer, got>>
-----------------------------------------------------------------------------
WebTypeOK ==
    /\ webUp \in BOOLEAN
    /\ webRx \in Piece
    /\ tx \in [1 .. TxSize -> Cell]
    /\ browser \in 0 .. MaxMessages
    /\ got \in [to : 0 .. MaxMessages, for : 0 .. MaxMessages, doc : Pages, text : Seq(Cell)]

\* The buffer is used for every response and never cleared, and still a response
\* carries nothing of an earlier one: only cells of its header and of its own body.
NothingStale ==
    \A i \in DOMAIN got.text : got.text[i][1] \in {"header", "end", got.doc}

\* A response whose body is not built in the buffer itself arrives whole and in order.
LiteralsWhole == got.doc \in Docs \ Json => got.text = Whole(got.doc)
=============================================================================
