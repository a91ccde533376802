--------------------------- MODULE GatewayProofs ---------------------------
(***************************************************************************)
(* Proofs about Gateway, for buffers and messages of any number: the       *)
(* driver's receptions have room, good receptions never mix up the writes  *)
(* and answers of port 502, and responses of port 80 carry nothing stale.  *)
(***************************************************************************)
EXTENDS Gateway, TLAPS, SequenceTheorems

\* What a request's pieces are.
LEMMA PiecesOfRequest ==
    ASSUME NEW id \in 0 .. MaxMessages, NEW kind \in Requests \cup Pages,
           NEW parts, parts \in {<<"head">>, <<"head", "rest">>}
    PROVE  /\ Pieces(id, kind, parts) \in Seq(Piece)
           /\ Len(Pieces(id, kind, parts)) = Len(parts)
           /\ \A i \in 1 .. Len(parts) :
                 Pieces(id, kind, parts)[i] = [id |-> id, kind |-> kind, part |-> parts[i]]
           /\ \A i \in 1 .. Len(Pieces(id, kind, parts)) :
                 /\ Pieces(id, kind, parts)[i].id = id
                 /\ Pieces(id, kind, parts)[i].kind = kind
<1>1. Len(parts) \in Nat /\ \A i \in 1 .. Len(parts) : parts[i] \in {"head", "rest"}
  OBVIOUS
<1>2. \A i \in 1 .. Len(parts) : [id |-> id, kind |-> kind, part |-> parts[i]] \in Piece
  BY <1>1 DEF Piece
<1> DEFINE e(i) == [id |-> id, kind |-> kind, part |-> parts[i]]
<1> HIDE DEF e
<1>3. [i \in 1 .. Len(parts) |-> e(i)] \in Seq(Piece)
  <2>1. \A i \in 1 .. Len(parts) : e(i) \in Piece
    BY <1>2 DEF e
  <2> QED
    BY <1>1, <2>1, IsASeq
<1>4. Pieces(id, kind, parts) = [i \in 1 .. Len(parts) |-> e(i)]
  BY DEF Pieces, e
<1>5. Len(Pieces(id, kind, parts)) = Len(parts)
  <2>1. DOMAIN Pieces(id, kind, parts) = 1 .. Len(parts)
    BY <1>4
  <2> QED
    BY <1>1, <1>3, <1>4, <2>1, LenProperties
<1>6. ASSUME NEW i \in 1 .. Len(Pieces(id, kind, parts))
      PROVE  /\ Pieces(id, kind, parts)[i].id = id
             /\ Pieces(id, kind, parts)[i].kind = kind
  <2>1. i \in 1 .. Len(parts)
    BY <1>5
  <2>2. Pieces(id, kind, parts)[i] = e(i)
    BY <1>4, <2>1
  <2> QED
    BY <2>2 DEF e
<1> QED
  BY <1>3, <1>4, <1>5, <1>6 DEF e

\* The parts of a sequence that a reception takes and leaves.
LEMMA Parts ==
    ASSUME NEW S, NEW q \in Seq(S), NEW m \in Nat, NEW n \in Nat, n <= Len(q)
    PROVE  /\ SubSeq(q, m + 1, n) \in Seq(S)
           /\ Len(SubSeq(q, m + 1, n)) = IF m <= n THEN n - m ELSE 0
           /\ \A i \in 1 .. n - m : SubSeq(q, m + 1, n)[i] = q[m + i]
<1>1. \A i \in m + 1 .. n : q[i] \in S
  <2> TAKE i \in m + 1 .. n
  <2>1. i \in 1 .. Len(q)
    BY LenProperties
  <2> QED
    BY <2>1, ElementOfSeq
<1>2. m + 1 \in Int /\ n \in Int
  OBVIOUS
<1>3. /\ SubSeq(q, m + 1, n) \in Seq(S)
      /\ Len(SubSeq(q, m + 1, n)) = IF m + 1 <= n THEN n - (m + 1) + 1 ELSE 0
      /\ \A i \in 1 .. n - (m + 1) + 1 : SubSeq(q, m + 1, n)[i] = q[m + 1 + i - 1]
  BY <1>1, <1>2, SubSeqProperties
<1> QED
  BY <1>3
-----------------------------------------------------------------------------
(* Type correctness                                                        *)

LEMMA LandingType ==
    ASSUME child \in BOOLEAN
    PROVE  Landing(ListenSock) \in Sockets /\ Landing(WebSock) \in Sockets
BY DEF Landing, Sockets, ListenSock, WebSock

LEMMA BlankType == Blank \in Piece
BY ChipAssumption DEF Blank, Piece

LEMMA AskType ==
    ASSUME ChipTypeOK, NEW s \in {ListenSock, WebSock}, NEW kind,
           NEW parts, parts \in {<<"head">>, <<"head", "rest">>}, Ask(s, kind, parts)
    PROVE  /\ ChipTypeOK'
           /\ Len(asked') = Len(asked) + 1 /\ Len(asked') \in 1 .. MaxMessages
           /\ Len(asked) \in Nat /\ kind \in Requests \cup Pages
<1>1. kind \in Requests \cup Pages
  BY ChipAssumption DEF Ask
<1>2. asked \in Seq(Requests \cup Pages) /\ Len(asked) \in Nat
  BY LenProperties DEF ChipTypeOK
<1>3. Len(asked) + 1 \in 1 .. MaxMessages
  BY <1>2, ChipAssumption DEF Ask
<1>4. asked' \in Seq(Requests \cup Pages) /\ Len(asked') = Len(asked) + 1
  BY <1>1, <1>2, AppendProperties DEF Ask
<1>5. Landing(s) \in Sockets
  BY LandingType DEF ChipTypeOK
<1>6. inbox[Landing(s)] \o Pieces(Len(asked) + 1, kind, parts) \in Seq(Piece)
  <2>1. Pieces(Len(asked) + 1, kind, parts) \in Seq(Piece)
    BY <1>1, <1>3, PiecesOfRequest
  <2>2. inbox[Landing(s)] \in Seq(Piece)
    BY <1>5 DEF ChipTypeOK
  <2> QED
    BY <2>1, <2>2, ConcatProperties
<1>7. inbox' \in [Sockets -> Seq(Piece)]
  BY <1>5, <1>6 DEF Ask, ChipTypeOK
<1> QED
  BY <1>1, <1>2, <1>3, <1>4, <1>7 DEF Ask, ChipTypeOK, chipWorld

LEMMA RecvLenType ==
    ASSUME ChipTypeOK, NEW s \in Sockets, NEW max \in Nat \ {0}, RecvLen(s, max)
    PROVE  ChipTypeOK' /\ len' \in 0 .. max
<1>1. Len(inbox[s]) \in Nat
  BY LenProperties DEF ChipTypeOK
<1>2. \A n \in Nat : Least(n, max) \in 0 .. max
  BY DEF Least
<1>3. \E n \in Nat : len' = Least(n, max)
  <2>1. MaxPieces \in Nat
    BY ChipAssumption
  <2> QED
    BY <1>1, <2>1 DEF RecvLen
<1>4. len' \in 0 .. max
  BY <1>2, <1>3
<1>5. len' \in Nat
  BY <1>4
<1>6. sure' \in BOOLEAN
  <2>1. (len' > 0) \in BOOLEAN
    BY <1>5
  <2> QED
    BY <2>1 DEF RecvLen
<1> QED
  BY <1>4, <1>5, <1>6 DEF RecvLen, ChipTypeOK, chipWorld

LEMMA CutType == Cut \in Piece
BY ChipAssumption DEF Cut, Piece

\* What is handed over is the front of what the chip holds.
LEMMA HandedType ==
    ASSUME ChipTypeOK, NEW s \in Sockets
    PROVE  /\ Handed(s) \in Seq(Piece) /\ Len(Handed(s)) = Least(len, Len(inbox[s]))
           /\ \A i \in 1 .. Len(Handed(s)) :
                 i \in 1 .. Len(inbox[s]) /\ Handed(s)[i] = inbox[s][i]
<1> DEFINE q == inbox[s]
           n == Least(len, Len(q))
<1>1. q \in Seq(Piece) /\ Len(q) \in Nat /\ len \in Nat
  BY LenProperties DEF ChipTypeOK
<1>2. n \in Nat /\ n <= Len(q)
  BY <1>1 DEF Least
<1> HIDE DEF q, n
<1>3. Handed(s) = SubSeq(q, 0 + 1, n)
  BY DEF Handed, q, n
<1>4. /\ Handed(s) \in Seq(Piece)
      /\ Len(Handed(s)) = IF 0 <= n THEN n - 0 ELSE 0
      /\ \A i \in 1 .. n - 0 : Handed(s)[i] = q[0 + i]
  BY <1>1, <1>2, <1>3, Parts
<1>5. Len(Handed(s)) = n
  BY <1>2, <1>4
<1>6. ASSUME NEW i \in 1 .. n PROVE i \in 1 .. Len(q) /\ Handed(s)[i] = q[i]
  <2>1. i \in 1 .. n - 0 /\ 0 + i = i
    BY <1>2
  <2> QED
    BY <1>1, <1>2, <1>4, <2>1
<1> QED
  BY <1>4, <1>5, <1>6 DEF q, n

\* r is what is left of q behind its first m pieces, or less, behind c = 1 cut one.
RemainsAt(r, q, m, c, d) ==
    /\ c = 1 => r[1] = Cut
    /\ \A j \in c + 1 .. Len(r) : d + j \in m + 1 .. Len(q) /\ r[j] = q[d + j]
    /\ Len(r) > c => d + Len(r) = Len(q)
Remains(r, q, m) == r \in Seq(Piece) /\ \E c \in {0, 1}, d \in Int : RemainsAt(r, q, m, c, d)

LEMMA LeftRemains ==
    ASSUME ChipTypeOK, NEW s \in Sockets, NEW max, NEW left \in Left(s, max)
    PROVE  Remains(left, inbox[s], len)
<1> DEFINE q == inbox[s]
           r == SubSeq(q, len + 1, Len(q))
<1>1. q \in Seq(Piece) /\ Len(q) \in Nat /\ len \in Nat
  BY LenProperties DEF ChipTypeOK
<1>2. \/ left = r
      \/ left = <<Cut>> \o r
      \/ r # <<>> /\ left = <<Cut>> \o Tail(r)
  BY DEF Left
<1>3. /\ r \in Seq(Piece)
      /\ Len(r) = IF len <= Len(q) THEN Len(q) - len ELSE 0
      /\ \A i \in 1 .. Len(q) - len : r[i] = q[len + i]
  BY <1>1, Parts
<1> HIDE DEF q, r
<1>4. Len(r) \in Nat /\ (Len(r) > 0 => len + Len(r) = Len(q))
  BY <1>1, <1>3
<1>5. \A i \in 1 .. Len(r) : len + i \in len + 1 .. Len(q) /\ r[i] = q[len + i]
  BY <1>1, <1>3
<1>6. ASSUME NEW t \in Seq(Piece)
      PROVE  /\ <<Cut>> \o t \in Seq(Piece) /\ Len(<<Cut>> \o t) = Len(t) + 1
             /\ (<<Cut>> \o t)[1] = Cut /\ Len(t) \in Nat
             /\ \A j \in 2 .. Len(<<Cut>> \o t) :
                   j - 1 \in 1 .. Len(t) /\ (<<Cut>> \o t)[j] = t[j - 1]
  <2>1. <<Cut>> \in Seq(Piece) /\ Len(<<Cut>>) = 1 /\ <<Cut>>[1] = Cut
    BY CutType
  <2>2. /\ <<Cut>> \o t \in Seq(Piece) /\ Len(<<Cut>> \o t) = Len(<<Cut>>) + Len(t)
        /\ \A i \in 1 .. Len(<<Cut>>) + Len(t) :
              (<<Cut>> \o t)[i] = IF i <= Len(<<Cut>>) THEN <<Cut>>[i] ELSE t[i - Len(<<Cut>>)]
    BY <2>1, ConcatProperties
  <2>3. Len(t) \in Nat
    BY LenProperties
  <2> QED
    BY <2>1, <2>2, <2>3
<1>7. CASE left = r
  <2>1. \A j \in 0 + 1 .. Len(left) : len + j \in len + 1 .. Len(q) /\ left[j] = q[len + j]
    BY <1>5, <1>7
  <2>2. Len(left) > 0 => len + Len(left) = Len(q)
    BY <1>4, <1>7
  <2>3. RemainsAt(left, q, len, 0, len)
    BY <2>1, <2>2 DEF RemainsAt
  <2> QED
    BY <1>1, <1>3, <1>7, <2>3 DEF Remains, q
<1>8. CASE left = <<Cut>> \o r
  <2>1. left \in Seq(Piece) /\ Len(left) = Len(r) + 1 /\ left[1] = Cut
    BY <1>3, <1>6, <1>8
  <2>2. ASSUME NEW j \in 1 + 1 .. Len(left)
        PROVE  (len - 1) + j \in len + 1 .. Len(q) /\ left[j] = q[(len - 1) + j]
    <3>1. j - 1 \in 1 .. Len(r) /\ left[j] = r[j - 1] /\ len + (j - 1) = (len - 1) + j
      BY <1>1, <1>3, <1>6, <1>8
    <3> QED
      BY <1>5, <3>1
  <2>3. Len(left) > 1 => (len - 1) + Len(left) = Len(q)
    BY <1>1, <1>4, <2>1
  <2>4. len - 1 \in Int
    BY <1>1
  <2>5. RemainsAt(left, q, len, 1, len - 1)
    BY <2>1, <2>2, <2>3 DEF RemainsAt
  <2> QED
    BY <2>1, <2>4, <2>5 DEF Remains, q
<1>9. CASE r # <<>> /\ left = <<Cut>> \o Tail(r)
  <2>1. /\ Tail(r) \in Seq(Piece) /\ Len(Tail(r)) = Len(r) - 1
        /\ \A i \in 1 .. Len(Tail(r)) : Tail(r)[i] = r[i + 1]
    BY <1>3, <1>9, HeadTailProperties
  <2>2. left \in Seq(Piece) /\ Len(left) = Len(r) /\ left[1] = Cut
    BY <1>4, <1>6, <1>9, <2>1
  <2>3. ASSUME NEW j \in 1 + 1 .. Len(left)
        PROVE  len + j \in len + 1 .. Len(q) /\ left[j] = q[len + j]
    <3>1. j - 1 \in 1 .. Len(Tail(r)) /\ left[j] = Tail(r)[j - 1]
      BY <1>6, <1>9, <2>1
    <3>2. j \in 1 .. Len(r) /\ (j - 1) + 1 = j
      BY <1>4, <2>2
    <3> QED
      BY <1>5, <2>1, <3>1, <3>2
  <2>4. Len(left) > 1 => len + Len(left) = Len(q)
    BY <1>4, <2>2
  <2>5. RemainsAt(left, q, len, 1, len)
    BY <2>2, <2>3, <2>4 DEF RemainsAt
  <2> QED
    BY <1>1, <2>2, <2>5 DEF Remains, q
<1> QED
  BY <1>2, <1>7, <1>8, <1>9

LEMMA RecvDataType ==
    ASSUME ChipTypeOK, NEW s \in Sockets, NEW max, NEW good \in BOOLEAN,
           RecvData(s, max, good)
    PROVE  ChipTypeOK' /\ len' = len
<1>1. PICK left \in Left(s, max) : inbox' = [inbox EXCEPT ![s] = left]
  BY DEF RecvData
<1>2. left \in Seq(Piece)
  BY LeftRemains DEF Remains
<1>3. inbox' \in [Sockets -> Seq(Piece)]
  BY <1>1, <1>2 DEF ChipTypeOK
<1> QED
  BY <1>3 DEF RecvData, ChipTypeOK, chipWorld
-----------------------------------------------------------------------------
(* The buffer of the web server                                            *)

LEMMA HeaderCells ==
    /\ Header \in Seq(Cell) /\ Len(Header) = HdrSize
    /\ Append(Header, Zero) \in Seq(Cell) /\ Len(Append(Header, Zero)) = HdrSize + 1
    /\ \A i \in 1 .. HdrSize : Append(Header, Zero)[i] = <<"header", i>>
    /\ Append(Header, Zero)[HdrSize + 1] = Zero
<1>1. HdrSize \in Nat /\ HdrSize > 0
  BY WebAssumption
<1>2. \A i \in 1 .. HdrSize : <<"header", i>> \in Cell
  BY <1>1 DEF Cell
<1>3. Zero \in Cell
  BY DEF Zero, Cell
<1> DEFINE e(i) == <<"header", i>>
<1>4. \A i \in 1 .. HdrSize : e(i) \in Cell
  BY <1>2
<1>5. Header = [i \in 1 .. HdrSize |-> e(i)]
  BY DEF Header
<1>6. Header \in Seq(Cell)
  <2> HIDE DEF e
  <2> QED
    BY <1>1, <1>4, <1>5, IsASeq
<1>7. Len(Header) = HdrSize
  <2>1. DOMAIN Header = 1 .. HdrSize
    BY <1>5
  <2> QED
    BY <1>1, <1>6, <2>1, LenProperties
<1>8. \A i \in 1 .. HdrSize : Header[i] = <<"header", i>>
  BY <1>5
<1> QED
  BY <1>3, <1>6, <1>7, <1>8, AppendProperties

LEMMA BodyCells ==
    ASSUME NEW doc \in Docs
    PROVE  /\ BodySize[doc] \in Nat
           /\ Body(doc) \in Seq(Cell) /\ Len(Body(doc)) = BodySize[doc]
           /\ \A i \in 1 .. BodySize[doc] : Body(doc)[i] = <<doc, i>> /\ <<doc, i>> \in Cell
           /\ Append(Body(doc), Zero) \in Seq(Cell)
           /\ Len(Append(Body(doc), Zero)) = BodySize[doc] + 1
           /\ \A i \in 1 .. BodySize[doc] : Append(Body(doc), Zero)[i] = <<doc, i>>
<1>1. BodySize[doc] \in Nat
  BY WebAssumption
<1>2. \A i \in 1 .. BodySize[doc] : <<doc, i>> \in Cell
  BY <1>1 DEF Cell
<1>3. Zero \in Cell
  BY DEF Zero, Cell
<1> DEFINE e(i) == <<doc, i>>
<1>4. \A i \in 1 .. BodySize[doc] : e(i) \in Cell
  BY <1>2
<1>5. Body(doc) = [i \in 1 .. BodySize[doc] |-> e(i)]
  BY DEF Body
<1>6. Body(doc) \in Seq(Cell)
  <2> HIDE DEF e
  <2> QED
    BY <1>1, <1>4, <1>5, IsASeq
<1>7. Len(Body(doc)) = BodySize[doc]
  <2>1. DOMAIN Body(doc) = 1 .. BodySize[doc]
    BY <1>5
  <2> QED
    BY <1>1, <1>6, <2>1, LenProperties
<1>8. \A i \in 1 .. BodySize[doc] : Body(doc)[i] = <<doc, i>>
  BY <1>5
<1> QED
  BY <1>1, <1>2, <1>3, <1>6, <1>7, <1>8, AppendProperties

\* Text written over the front of a buffer of cells leaves a buffer of cells.
LEMMA OverCells ==
    ASSUME NEW buf \in [1 .. TxSize -> Cell], NEW text \in Seq(Cell)
    PROVE  Over(text, buf) \in [1 .. TxSize -> Cell]
<1>1. \A i \in 1 .. Len(text) : text[i] \in Cell
  BY ElementOfSeq
<1>2. TxSize \in Nat /\ Len(text) \in Nat
  BY WebAssumption, LenProperties
<1>3. \A i \in 1 .. TxSize : (IF i <= Len(text) THEN text[i] ELSE buf[i]) \in Cell
  BY <1>1, <1>2
<1> QED
  BY <1>3 DEF Over

\* The buffer when the header is in place: of a body built there, what the header has
\* left of it follows.
LEMMA PrintedCells ==
    ASSUME tx \in [1 .. TxSize -> Cell], NEW doc \in Docs, NEW p, p = Printed(Built(doc))
    PROVE  /\ p \in [1 .. TxSize -> Cell]
           /\ \A i \in 1 .. HdrSize : p[i] = <<"header", i>>
           /\ doc \in Json =>
                 \A i \in 1 .. BodySize[doc] : i <= TxSize /\ p[i][1] \in {"header", "end", doc}
<1>1. Built(doc) \in [1 .. TxSize -> Cell]
  BY BodyCells, OverCells DEF Built
<1>2. p \in [1 .. TxSize -> Cell]
  BY <1>1, HeaderCells, OverCells DEF Printed
<1>3. HdrSize \in Nat /\ TxSize \in Nat /\ HdrSize < TxSize
  BY WebAssumption
<1>4. \A i \in 1 .. TxSize :
         p[i] = IF i <= HdrSize + 1 THEN Append(Header, Zero)[i] ELSE Built(doc)[i]
  BY <1>1, HeaderCells DEF Printed, Over
<1>5. \A i \in 1 .. HdrSize : p[i] = <<"header", i>>
  <2> TAKE i \in 1 .. HdrSize
  <2>1. i \in 1 .. TxSize /\ i <= HdrSize + 1
    BY <1>3
  <2> QED
    BY <1>4, <2>1, HeaderCells
<1>6. ASSUME doc \in Json, NEW i \in 1 .. BodySize[doc]
      PROVE  i <= TxSize /\ p[i][1] \in {"header", "end", doc}
  <2>1. BodySize[doc] \in Nat /\ BodySize[doc] < TxSize
    BY <1>6, BodyCells, WebAssumption
  <2>2. i \in 1 .. TxSize
    BY <1>3, <1>6, <2>1
  <2>3. CASE i <= HdrSize
    <3>1. i \in 1 .. HdrSize
      BY <1>3, <2>2, <2>3
    <3>2. p[i] = <<"header", i>>
      BY <1>5, <3>1
    <3> QED
      BY <1>3, <2>2, <3>2
  <2>4. CASE i = HdrSize + 1
    <3>1. p[i] = <<"end", 0>>
      BY <1>3, <1>4, <2>2, <2>4, HeaderCells DEF Zero
    <3> QED
      BY <1>3, <2>2, <3>1
  <2>5. CASE i > HdrSize + 1
    <3>1. p[i] = Built(doc)[i]
      BY <1>3, <1>4, <2>2, <2>5
    <3>2. Built(doc)[i] = <<doc, i>>
      BY <1>6, <2>1, <2>2, BodyCells DEF Built, Over
    <3> QED
      BY <1>3, <2>2, <3>1, <3>2
  <2> QED
    BY <1>3, <2>2, <2>3, <2>4, <2>5
<1> QED
  BY <1>2, <1>5, <1>6

\* What memcpy may read, cell by cell.
LEMMA SourceCells ==
    ASSUME tx \in [1 .. TxSize -> Cell], NEW doc \in Docs, NEW p, p = Printed(Built(doc)),
           NEW source, source \in Sources(doc, p), NEW k \in 1 .. BodySize[doc]
    PROVE  /\ source[k] \in Cell /\ source[k][1] \in {"header", "end", doc}
           /\ doc \notin Json => source[k] = <<doc, k>>
<1>1. /\ p \in [1 .. TxSize -> Cell]
      /\ \A i \in 1 .. HdrSize : p[i] = <<"header", i>>
      /\ doc \in Json =>
            \A i \in 1 .. BodySize[doc] : i <= TxSize /\ p[i][1] \in {"header", "end", doc}
  BY PrintedCells
<1>2. HdrSize \in Nat \ {0} /\ TxSize \in Nat /\ HdrSize < TxSize /\ BodySize[doc] \in Nat
  BY WebAssumption, BodyCells
<1>3. CASE doc \notin Json
  <2>1. source[k] = <<doc, k>>
    BY <1>3, BodyCells DEF Sources
  <2> QED
    BY <1>3, <2>1, BodyCells
<1>4. CASE doc \in Json /\ source = p
  <2>1. k \in 1 .. TxSize
    BY <1>1, <1>2, <1>4
  <2> QED
    BY <1>1, <1>4, <2>1
<1>5. CASE doc \in Json /\ source = [i \in 1 .. TxSize |-> p[((i - 1) % HdrSize) + 1]]
  <2>1. k \in 1 .. TxSize /\ k - 1 \in Nat
    BY <1>1, <1>2, <1>5
  <2>2. (k - 1) % HdrSize \in 0 .. HdrSize - 1
    BY <1>2, <2>1
  <2>3. ((k - 1) % HdrSize) + 1 \in 1 .. HdrSize
    BY <1>2, <2>2
  <2>4. source[k] = p[((k - 1) % HdrSize) + 1]
    BY <1>5, <2>1
  <2>5. source[k] = <<"header", ((k - 1) % HdrSize) + 1>>
    BY <1>1, <2>3, <2>4
  <2>6. ((k - 1) % HdrSize) + 1 \in 1 .. TxSize
    BY <1>2, <2>3
  <2>7. source[k] \in Cell
    BY <1>1, <2>4, <2>6
  <2>8. source[k][1] = "header"
    BY <2>5
  <2> QED
    BY <1>5, <2>7, <2>8
<1> QED
  BY <1>3, <1>4, <1>5 DEF Sources

\* The buffer when the body is in place.
LEMMA CopiedCells ==
    ASSUME tx \in [1 .. TxSize -> Cell], NEW doc \in Docs, Fits(doc),
           NEW p, p = Printed(Built(doc)), NEW source, source \in Sources(doc, p),
           NEW t, t = Copied(source, BodySize[doc], p)
    PROVE  /\ t \in [1 .. TxSize -> Cell]
           /\ \A i \in 1 .. HdrSize + BodySize[doc] :
                 /\ i \in 1 .. TxSize /\ t[i][1] \in {"header", "end", doc}
                 /\ doc \notin Json =>
                       t[i] = IF i <= HdrSize THEN <<"header", i>> ELSE <<doc, i - HdrSize>>
<1> DEFINE n == BodySize[doc]
<1>1. HdrSize \in Nat /\ TxSize \in Nat /\ n \in Nat /\ HdrSize + n < TxSize
  BY WebAssumption, BodyCells DEF Fits
<1>2. p \in [1 .. TxSize -> Cell] /\ \A i \in 1 .. HdrSize : p[i] = <<"header", i>>
  BY PrintedCells
<1>3. \A k \in 1 .. n : /\ source[k] \in Cell /\ source[k][1] \in {"header", "end", doc}
                        /\ doc \notin Json => source[k] = <<doc, k>>
  BY SourceCells
<1>4. \A i \in 1 .. TxSize : t[i] = IF i \in HdrSize + 1 .. HdrSize + n
                                    THEN source[i - HdrSize] ELSE p[i]
  BY DEF Copied
<1>5. t = [i \in 1 .. TxSize |-> t[i]]
  BY DEF Copied
<1> HIDE DEF n
<1>6. \A i \in 1 .. TxSize : t[i] \in Cell
  <2> TAKE i \in 1 .. TxSize
  <2>1. CASE i \in HdrSize + 1 .. HdrSize + n
    <3>1. i - HdrSize \in 1 .. n
      BY <1>1, <2>1
    <3> QED
      BY <1>3, <1>4, <2>1, <3>1
  <2> QED
    BY <1>2, <1>4, <2>1
<1>7. t \in [1 .. TxSize -> Cell]
  BY <1>5, <1>6
<1>8. ASSUME NEW i \in 1 .. HdrSize + n
      PROVE  /\ i \in 1 .. TxSize /\ t[i][1] \in {"header", "end", doc}
             /\ doc \notin Json =>
                   t[i] = IF i <= HdrSize THEN <<"header", i>> ELSE <<doc, i - HdrSize>>
  <2>1. i \in 1 .. TxSize
    BY <1>1
  <2>2. CASE i <= HdrSize
    <3>1. i \in 1 .. HdrSize /\ i \notin HdrSize + 1 .. HdrSize + n
      BY <1>1, <2>2
    <3>2. t[i] = <<"header", i>>
      BY <1>2, <1>4, <2>1, <3>1
    <3> QED
      BY <2>1, <2>2, <3>2
  <2>3. CASE ~(i <= HdrSize)
    <3>1. i - HdrSize \in 1 .. n /\ i \in HdrSize + 1 .. HdrSize + n
      BY <1>1, <2>3
    <3> QED
      BY <1>3, <1>4, <2>1, <2>3, <3>1
  <2> QED
    BY <2>2, <2>3
<1> QED
  BY <1>7, <1>8 DEF n

LEMMA WholeCells ==
    ASSUME NEW doc \in Docs
    PROVE  /\ Whole(doc) \in Seq(Cell) /\ Len(Whole(doc)) = HdrSize + BodySize[doc]
           /\ \A i \in 1 .. HdrSize + BodySize[doc] :
                 Whole(doc)[i] = IF i <= HdrSize THEN Header[i] ELSE Body(doc)[i - HdrSize]
<1> DEFINE b == Body(doc)
           h == Header
<1>1. /\ h \in Seq(Cell) /\ Len(h) = HdrSize
      /\ b \in Seq(Cell) /\ Len(b) = BodySize[doc]
  BY HeaderCells, BodyCells
<1>2. Whole(doc) = h \o b
  BY DEF Whole
<1> HIDE DEF b, h
<1>3. /\ h \o b \in Seq(Cell) /\ Len(h \o b) = Len(h) + Len(b)
      /\ \A i \in 1 .. Len(h) + Len(b) : (h \o b)[i] = IF i <= Len(h) THEN h[i] ELSE b[i - Len(h)]
  BY <1>1, ConcatProperties
<1>4. \A i \in 1 .. HdrSize + BodySize[doc] :
         Whole(doc)[i] = IF i <= HdrSize THEN h[i] ELSE b[i - HdrSize]
  BY <1>1, <1>2, <1>3
<1> QED
  BY <1>1, <1>2, <1>3, <1>4 DEF h, b

\* The buffer as a response is sent.
Placed(doc, t) ==
    \E source \in Sources(doc, Printed(Built(doc))) :
        t = Copied(source, BodySize[doc], Printed(Built(doc)))

\* What is sent of it.
Response(doc, t) == SubSeq(t, 1, HdrSize + BodySize[doc])

LEMMA ResponseCells ==
    ASSUME tx \in [1 .. TxSize -> Cell], NEW doc \in Docs, Fits(doc),
           NEW t, Placed(doc, t)
    PROVE  /\ t \in [1 .. TxSize -> Cell]
           /\ Response(doc, t) \in Seq(Cell)
           /\ \A i \in DOMAIN Response(doc, t) :
                 Response(doc, t)[i][1] \in {"header", "end", doc}
           /\ doc \notin Json => Response(doc, t) = Whole(doc)
<1> DEFINE n == HdrSize + BodySize[doc]
           text == Response(doc, t)
<1>1. /\ t \in [1 .. TxSize -> Cell]
      /\ \A i \in 1 .. n :
            /\ i \in 1 .. TxSize /\ t[i][1] \in {"header", "end", doc}
            /\ doc \notin Json =>
                  t[i] = IF i <= HdrSize THEN <<"header", i>> ELSE <<doc, i - HdrSize>>
  <2> DEFINE p == Printed(Built(doc))
  <2>1. PICK source \in Sources(doc, p) : t = Copied(source, BodySize[doc], p)
    BY DEF Placed
  <2>2. p = Printed(Built(doc))
    OBVIOUS
  <2> HIDE DEF p
  <2> QED
    BY <2>1, <2>2, CopiedCells
<1>2. HdrSize \in Nat /\ BodySize[doc] \in Nat /\ n \in Nat
  BY WebAssumption, BodyCells
<1>3. \A i \in 1 .. n : t[i] \in Cell
  BY <1>1
<1> HIDE DEF n, text
<1>4. /\ text \in Seq(Cell) /\ Len(text) = n
      /\ \A i \in 1 .. n : text[i] = t[i]
  <2>1. /\ SubSeq(t, 1, n) \in Seq(Cell)
        /\ Len(SubSeq(t, 1, n)) = IF 1 <= n THEN n - 1 + 1 ELSE 0
        /\ \A i \in 1 .. n - 1 + 1 : SubSeq(t, 1, n)[i] = t[1 + i - 1]
    BY <1>2, <1>3, SubSeqProperties
  <2>2. text = SubSeq(t, 1, n)
    BY DEF n, text, Response
  <2>3. n - 1 + 1 = n /\ \A i \in 1 .. n : 1 + i - 1 = i
    BY <1>2
  <2>4. Len(text) = n
    BY <1>2, <2>1, <2>2
  <2>5. \A i \in 1 .. n : text[i] = t[i]
    BY <2>1, <2>2, <2>3
  <2> QED
    BY <2>1, <2>2, <2>4, <2>5
<1>5. DOMAIN text = 1 .. n
  BY <1>4, LenProperties
<1>6. doc \notin Json => text = Whole(doc)
  <2> SUFFICES ASSUME doc \notin Json PROVE text = Whole(doc)
    OBVIOUS
  <2>1. /\ Whole(doc) \in Seq(Cell) /\ Len(Whole(doc)) = n
        /\ \A i \in 1 .. n : Whole(doc)[i] = IF i <= HdrSize THEN Header[i]
                                             ELSE Body(doc)[i - HdrSize]
    BY WholeCells DEF n
  <2>2. ASSUME NEW i \in 1 .. n PROVE text[i] = Whole(doc)[i]
    <3>1. CASE i <= HdrSize
      <4>1. Header[i] = <<"header", i>>
        BY <1>2, <3>1 DEF Header
      <4> QED
        BY <1>1, <1>4, <2>1, <3>1, <4>1
    <3>2. CASE ~(i <= HdrSize)
      <4>1. i - HdrSize \in 1 .. BodySize[doc]
        BY <1>2, <3>2 DEF n
      <4>2. Body(doc)[i - HdrSize] = <<doc, i - HdrSize>>
        BY <4>1, BodyCells
      <4> QED
        BY <1>1, <1>4, <2>1, <3>2, <4>2
    <3> QED
      BY <3>1, <3>2
  <2> QED
    BY <1>4, <2>1, <2>2, SeqEqual
<1>7. \A i \in DOMAIN text : text[i][1] \in {"header", "end", doc}
  <2> TAKE i \in DOMAIN text
  <2>1. i \in 1 .. n
    BY <1>5
  <2>2. text[i] = t[i]
    BY <1>4, <2>1
  <2> QED
    BY <1>1, <2>1, <2>2
<1> QED
  BY <1>1, <1>4, <1>6, <1>7 DEF text
-----------------------------------------------------------------------------
(* Every step keeps the types                                              *)

LEMMA FirstOf ==
    ASSUME NEW S, NEW q \in Seq(S), q # <<>>
    PROVE  1 \in 1 .. Len(q) /\ q[1] \in S
<1>1. Len(q) \in Nat /\ Len(q) # 0
  BY LenProperties, EmptySeq
<1> QED
  BY <1>1, ElementOfSeq

\* What a good reception leaves at the front of s_tcp_rx.
LEMMA LaidType ==
    ASSUME ChipTypeOK, NEW s \in Sockets, Handed(s) # <<>>, NEW old \in Front
    PROVE  Laid(Handed(s), old) \in Front
<1> DEFINE text == Handed(s)
<1>1. text \in Seq(Piece) /\ text # <<>> /\ Len(text) \in Nat
  BY HandedType, LenProperties
<1> HIDE DEF text
<1>2. text[1] \in Piece
  BY <1>1, FirstOf
<1>3. Len(text) > 1 => text[2] \in Piece
  <2>1. Len(text) > 1 => 2 \in 1 .. Len(text)
    BY <1>1
  <2> QED
    BY <1>1, <2>1, ElementOfSeq
<1>4. Laid(text, old) \in Front
  <2>1. 0 \in 0 .. MaxMessages
    BY ChipAssumption
  <2> QED
    BY <1>2, <1>3, <2>1 DEF Laid, Front, Piece
<1> QED
  BY <1>4 DEF text

\* process_modbus_pdu, whichever way it goes.
LEMMA TcpHandleType ==
    ASSUME TypeOK, TcpHandle
    PROVE  /\ reg' \in 0 .. MaxMessages
           /\ applied' \in Seq([id : 0 .. MaxMessages, value : 0 .. MaxMessages])
           /\ answers' \subseteq Answer
<1>1. /\ tcpRx.id \in 0 .. MaxMessages /\ tcpRx.value \in 0 .. MaxMessages
      /\ 0 \in 0 .. MaxMessages
  BY ChipAssumption DEF TypeOK, TcpTypeOK, Front
<1>2. /\ reg \in 0 .. MaxMessages
      /\ applied \in Seq([id : 0 .. MaxMessages, value : 0 .. MaxMessages])
      /\ answers \subseteq Answer
  BY DEF TypeOK, TcpTypeOK
<1>3. ASSUME NEW id \in 0 .. MaxMessages, NEW what \in {"echo", "value", "exception"},
             NEW value \in 0 .. MaxMessages, Reply(id, what, value)
      PROVE  answers' \subseteq Answer
  <2>1. [id |-> id, what |-> what, value |-> value] \in Answer
    BY DEF Answer
  <2> QED
    BY <1>2, <1>3, <2>1 DEF Reply
<1>4. CASE Drop
  BY <1>2, <1>4 DEF Drop
<1>5. CASE WriteRegister
  <2>1. [id |-> tcpRx.id, value |-> tcpRx.value]
          \in [id : 0 .. MaxMessages, value : 0 .. MaxMessages]
    BY <1>1
  <2>2. applied' \in Seq([id : 0 .. MaxMessages, value : 0 .. MaxMessages])
    BY <1>2, <1>5, <2>1, AppendProperties DEF WriteRegister
  <2>3. answers' \subseteq Answer
    BY <1>1, <1>3, <1>5 DEF WriteRegister
  <2> QED
    BY <1>1, <1>2, <1>5, <2>2, <2>3 DEF WriteRegister
<1>6. CASE ReadRegister
  BY <1>1, <1>2, <1>3, <1>6 DEF ReadRegister
<1>7. CASE Refuse
  <2>1. answers' \subseteq Answer
    BY <1>1, <1>3, <1>7 DEF Refuse
  <2> QED
    BY <1>2, <1>7, <2>1 DEF Refuse
<1> QED
  BY <1>4, <1>5, <1>6, <1>7 DEF TcpHandle

\* route_request, whichever way it goes.
LEMMA WebHandleType ==
    ASSUME TypeOK, WebHandle
    PROVE  WebTypeOK'
<1>1. /\ webUp \in BOOLEAN /\ webRx \in Piece /\ tx \in [1 .. TxSize -> Cell]
      /\ browser \in 0 .. MaxMessages
      /\ got \in [to : 0 .. MaxMessages, for : 0 .. MaxMessages, doc : Pages, text : Seq(Cell)]
  BY DEF TypeOK, WebTypeOK
<1>2. webRx.id \in 0 .. MaxMessages /\ 0 \in 0 .. MaxMessages
  BY <1>1, ChipAssumption DEF Piece
<1>3. ASSUME NEW text \in Seq(Cell), webRx.kind \in Docs, Deliver(text)
      PROVE  /\ browser' \in 0 .. MaxMessages
             /\ got' \in [to : 0 .. MaxMessages, for : 0 .. MaxMessages, doc : Pages, text : Seq(Cell)]
  BY <1>1, <1>2, <1>3 DEF Deliver, Docs
<1>4. CASE webRx.kind \notin Docs
  BY <1>1, <1>4 DEF WebHandle, WebTypeOK
<1>5. CASE webRx.kind \in Docs
  <2> DEFINE p == Printed(Built(webRx.kind))
  <2>1. CASE Fits(webRx.kind)
    <3>1. PICK source \in Sources(webRx.kind, p) :
             /\ tx' = Copied(source, BodySize[webRx.kind], p)
             /\ Deliver(SubSeq(tx', 1, HdrSize + BodySize[webRx.kind]))
      BY <1>5, <2>1 DEF WebHandle, Respond
    <3>2. Placed(webRx.kind, tx')
      BY <3>1 DEF Placed
    <3>3. /\ tx' \in [1 .. TxSize -> Cell]
          /\ SubSeq(tx', 1, HdrSize + BodySize[webRx.kind]) \in Seq(Cell)
      BY <1>1, <1>5, <2>1, <3>2, ResponseCells DEF Response
    <3> QED
      BY <1>1, <1>3, <1>5, <3>1, <3>3 DEF WebHandle, WebTypeOK
  <2>2. CASE ~Fits(webRx.kind)
    <3>1. tx' = p /\ UNCHANGED <<browser, got>>
      BY <1>5, <2>2 DEF WebHandle, Respond
    <3>2. tx' \in [1 .. TxSize -> Cell]
      BY <1>1, <1>5, <3>1, PrintedCells
    <3> QED
      BY <1>1, <3>1, <3>2 DEF WebHandle, WebTypeOK
  <2> QED
    BY <2>1, <2>2
<1> QED
  BY <1>4, <1>5

LEMMA TypeInit == Init => TypeOK
<1> SUFFICES ASSUME Init PROVE TypeOK
  OBVIOUS
<1>1. ChipTypeOK
  <2>1. PICK w \in Worlds : flaky = w[1] /\ child = w[2] /\ calm = w[3]
    BY DEF Init, ChipInit
  <2>2. flaky \subseteq Sockets /\ child \in BOOLEAN /\ calm \in BOOLEAN
    BY <2>1, ChipAssumption
  <2>3. <<>> \in Seq(Requests \cup Pages) /\ Len(<<>>) <= MaxMessages /\ <<>> \in Seq(Piece)
    BY ChipAssumption, EmptySeq
  <2>4. asked = <<>> /\ inbox \in [Sockets -> Seq(Piece)] /\ listening = {}
    BY <2>3 DEF Init, ChipInit
  <2>5. armed \in BOOLEAN /\ len \in Nat /\ sure \in BOOLEAN
    BY DEF Init, ChipInit
  <2> QED
    BY <2>2, <2>3, <2>4, <2>5 DEF ChipTypeOK
<1>2. TcpTypeOK
  <2>1. <<>> \in Seq([id : 0 .. MaxMessages, value : 0 .. MaxMessages]) /\ Len(<<>>) = 0
    BY EmptySeq
  <2>2. asked = <<>> /\ 0 \in 0 .. MaxMessages
    BY ChipAssumption DEF Init, ChipInit
  <2>3. half = 0 /\ 0 \in 0 .. Len(asked)
    BY <2>1, <2>2 DEF Init, TcpInit
  <2>4. tcpRx \in Front
    BY <2>2 DEF Init, TcpInit, Front
  <2> QED
    BY <2>1, <2>2, <2>3, <2>4 DEF Init, TcpInit, TcpTypeOK
<1>3. WebTypeOK
  <2>1. Zero \in Cell /\ <<>> \in Seq(Cell) /\ 0 \in 0 .. MaxMessages
    BY ChipAssumption, EmptySeq DEF Zero, Cell
  <2>2. NoResponse \in [to : 0 .. MaxMessages, for : 0 .. MaxMessages, doc : Pages, text : Seq(Cell)]
    BY <2>1 DEF NoResponse, Pages
  <2> QED
    BY <2>1, <2>2, BlankType DEF Init, WebInit, WebTypeOK
<1> QED
  BY <1>1, <1>2, <1>3 DEF Init, TypeOK, Turns

LEMMA TypeStep == TypeOK /\ [Next]_vars => TypeOK'
<1> SUFFICES ASSUME TypeOK, [Next]_vars PROVE TypeOK'
  OBVIOUS
<1> DEFINE Rounds == /\ turn \in {"tcpRead", "tcpHandle"} => len \in 1 .. TcpRxSize
                     /\ turn \in {"webRead", "webHandle"} => len \in 1 .. WebRxSize
<1> USE DEF At
<1>0. /\ turn \in Turns /\ ChipTypeOK /\ TcpTypeOK /\ WebTypeOK /\ Rounds
      /\ TcpRxSize \in Nat \ {0} /\ WebRxSize \in Nat \ {0}
      /\ ClientSock \in Sockets /\ WebSock \in Sockets
      /\ Len(asked) \in Nat
  BY TcpAssumption, WebAssumption, LenProperties
     DEF TypeOK, ClientSock, WebSock, Sockets, ChipTypeOK
<1> HIDE DEF Rounds
<1>a. ASSUME TcpTypeOK', WebTypeOK', ChipTypeOK', turn' \in Turns, Rounds' PROVE TypeOK'
  BY <1>a DEF TypeOK, Rounds
<1>b. ASSUME UNCHANGED <<tcp, asked>> PROVE TcpTypeOK'
  BY <1>0, <1>b DEF tcp, tcpServer, TcpTypeOK
<1>c. ASSUME UNCHANGED web PROVE WebTypeOK'
  BY <1>0, <1>c DEF web, webServer, WebTypeOK
<1>d. ASSUME UNCHANGED chip PROVE ChipTypeOK'
  BY <1>0, <1>d DEF chip, chipWorld, ChipTypeOK
<1>1. CASE MasterTurn \/ SlaveTurn
  <2>1. UNCHANGED chip /\ UNCHANGED web
    BY <1>1 DEF MasterTurn, SlaveTurn, Store
  <2>2. TcpTypeOK'
    <3>1. reg' \in 0 .. MaxMessages
      BY <1>0, <1>1, ChipAssumption DEF MasterTurn, SlaveTurn, Store, TcpTypeOK
    <3> QED
      BY <1>0, <1>1, <2>1, <3>1
         DEF MasterTurn, SlaveTurn, Store, TcpTypeOK, chip
  <2>3. turn' \in {"slave", "tcp"}
    BY <1>1 DEF MasterTurn, SlaveTurn
  <2> QED
    BY <1>a, <1>c, <1>d, <2>1, <2>2, <2>3 DEF Turns, Rounds
<1>2. CASE TcpTurn
  <2>1. WebTypeOK'
    BY <1>2, <1>c DEF TcpTurn
  <2>2. CASE turn' = "isapi" /\ TcpStart
    <3>1. ChipTypeOK' /\ TcpTypeOK'
      BY <1>0, <2>2
         DEF TcpStart, TcpListen, ChipTypeOK, TcpTypeOK, chipWorld, ListenSock, Sockets
    <3> QED
      BY <1>a, <2>1, <2>2, <3>1 DEF Turns, Rounds
  <2>3. CASE TcpPoll /\ turn' = IF len' = 0 THEN "isapi" ELSE "tcpRead"
    <3>1. ChipTypeOK' /\ len' \in 0 .. TcpRxSize /\ UNCHANGED asked
      BY <1>0, <2>3, RecvLenType DEF TcpPoll, RecvLen
    <3>2. TcpTypeOK'
      BY <1>b, <2>3, <3>1 DEF TcpPoll
    <3>3. turn' \in Turns
      BY <2>3 DEF Turns
    <3>4. Rounds'
      <4>1. CASE len' = 0
        BY <2>3, <4>1 DEF Rounds
      <4>2. CASE len' # 0
        <5>1. len' \in 1 .. TcpRxSize
          BY <3>1, <4>2
        <5> QED
          BY <2>3, <4>2, <5>1 DEF Rounds
      <4> QED
        BY <4>1, <4>2
    <3> QED
      BY <1>a, <2>1, <3>1, <3>2, <3>3, <3>4
  <2>4. CASE turn = "tcpRead" /\ turn' = "tcpHandle" /\ TcpRead
    <3>1. \/ /\ RecvData(ClientSock, TcpRxSize, TRUE)
             /\ tcpRx' = Laid(Handed(ClientSock), tcpRx)
          \/ RecvData(ClientSock, TcpRxSize, FALSE) /\ tcpRx' \in {tcpRx} \cup BadFronts
      BY <2>4 DEF TcpRead
    <3>2. ChipTypeOK' /\ len' = len /\ UNCHANGED asked
      BY <1>0, <3>1, RecvDataType DEF RecvData
    <3>3. tcpRx' \in Front
      <4>1. CASE RecvData(ClientSock, TcpRxSize, TRUE) /\ tcpRx' = Laid(Handed(ClientSock), tcpRx)
        <5>1. Handed(ClientSock) # <<>>
          BY <4>1 DEF RecvData, Clean
        <5> QED
          BY <1>0, <4>1, <5>1, LaidType DEF TcpTypeOK
      <4>2. CASE tcpRx' \in {tcpRx} \cup BadFronts
        BY <1>0, <4>2, TcpAssumption DEF TcpTypeOK
      <4> QED
        BY <3>1, <4>1, <4>2
    <3>4. TcpTypeOK'
      BY <1>0, <2>4, <3>2, <3>3 DEF TcpRead, TcpTypeOK
    <3>5. Rounds'
      BY <1>0, <2>4, <3>2 DEF Rounds
    <3> QED
      BY <1>a, <2>1, <2>4, <3>2, <3>4, <3>5 DEF Turns
  <2>5. CASE turn' = "isapi" /\ TcpHandle
    <3>1. ChipTypeOK' /\ UNCHANGED asked
      BY <1>0, <2>5 DEF TcpHandle, Forget, ChipTypeOK, chipWorld
    <3>2. TcpTypeOK'
      <4>1. /\ reg' \in 0 .. MaxMessages
            /\ applied' \in Seq([id : 0 .. MaxMessages, value : 0 .. MaxMessages])
            /\ answers' \subseteq Answer
        BY <2>5, TcpHandleType
      <4>2. UNCHANGED <<tcpUp, tcpRx, half>>
        BY <2>5 DEF TcpHandle
      <4> QED
        BY <1>0, <3>1, <4>1, <4>2 DEF TcpTypeOK
    <3> QED
      BY <1>a, <2>1, <2>5, <3>1, <3>2 DEF Turns, Rounds
  <2> QED
    BY <1>2, <2>2, <2>3, <2>4, <2>5 DEF TcpTurn
<1>3. CASE IsapiTurn
  <2>1. TcpTypeOK' /\ WebTypeOK' /\ turn' = "web"
    BY <1>3, <1>b, <1>c DEF IsapiTurn
  <2>2. inbox' \in [Sockets -> Seq(Piece)]
    BY <1>0, <1>3, EmptySeq DEF IsapiTurn, ChipTypeOK
  <2>3. ChipTypeOK'
    BY <1>0, <1>3, <2>2 DEF IsapiTurn, ChipTypeOK, chipWorld
  <2> QED
    BY <1>a, <2>1, <2>3 DEF Turns, Rounds
<1>4. CASE WebTurn
  <2>0. UNCHANGED tcp
    BY <1>4 DEF WebTurn
  <2>1. CASE turn' = "master" /\ WebStart
    <3>1. ChipTypeOK' /\ WebTypeOK' /\ UNCHANGED asked
      BY <1>0, <2>1 DEF WebStart, TcpListen, ChipTypeOK, WebTypeOK, chipWorld
    <3> QED
      BY <1>a, <1>b, <2>0, <2>1, <3>1 DEF Turns, Rounds
  <2>2. CASE WebPoll /\ turn' = IF len' = 0 THEN "master" ELSE "webRead"
    <3>1. ChipTypeOK' /\ len' \in 0 .. WebRxSize /\ UNCHANGED asked
      BY <1>0, <2>2, RecvLenType DEF WebPoll, RecvLen
    <3>2. WebTypeOK'
      BY <1>c, <2>2 DEF WebPoll
    <3>3. turn' \in Turns
      BY <2>2 DEF Turns
    <3>4. Rounds'
      <4>1. CASE len' = 0
        BY <2>2, <4>1 DEF Rounds
      <4>2. CASE len' # 0
        <5>1. len' \in 1 .. WebRxSize
          BY <3>1, <4>2
        <5> QED
          BY <2>2, <4>2, <5>1 DEF Rounds
      <4> QED
        BY <4>1, <4>2
    <3> QED
      BY <1>a, <1>b, <2>0, <3>1, <3>2, <3>3, <3>4
  <2>3. CASE turn = "webRead" /\ turn' = "webHandle" /\ WebRead
    <3>1. \/ RecvData(WebSock, WebRxSize, TRUE) /\ webRx' = Handed(WebSock)[1]
          \/ RecvData(WebSock, WebRxSize, FALSE) /\ webRx' \in {webRx} \cup Garbled
      BY <2>3 DEF WebRead
    <3>2. ChipTypeOK' /\ len' = len /\ UNCHANGED asked
      BY <1>0, <3>1, RecvDataType DEF RecvData
    <3>3. webRx' \in Piece
      <4>1. CASE RecvData(WebSock, WebRxSize, TRUE) /\ webRx' = Handed(WebSock)[1]
        <5>1. Handed(WebSock) \in Seq(Piece) /\ Handed(WebSock) # <<>>
          BY <1>0, <4>1, HandedType DEF RecvData, Clean
        <5> QED
          BY <4>1, <5>1, FirstOf
      <4>2. CASE webRx' \in {webRx} \cup Garbled
        BY <1>0, <4>2, WebAssumption, ChipAssumption DEF Garbled, Piece, WebTypeOK
      <4> QED
        BY <3>1, <4>1, <4>2
    <3>4. WebTypeOK'
      BY <1>0, <2>3, <3>3 DEF WebRead, WebTypeOK
    <3>5. Rounds'
      BY <1>0, <2>3, <3>2 DEF Rounds
    <3> QED
      BY <1>a, <1>b, <2>0, <2>3, <3>2, <3>4, <3>5 DEF Turns
  <2>4. CASE turn' = "master" /\ WebHandle
    <3>1. ChipTypeOK' /\ UNCHANGED asked
      BY <1>0, <2>4 DEF WebHandle, Forget, ChipTypeOK, chipWorld
    <3>2. WebTypeOK'
      BY <2>4, WebHandleType
    <3> QED
      BY <1>a, <1>b, <2>0, <2>4, <3>1, <3>2 DEF Turns, Rounds
  <2> QED
    BY <1>4, <2>1, <2>2, <2>3, <2>4 DEF WebTurn
<1>5. ASSUME NEW kind \in Requests, TcpAsk(kind), UNCHANGED web, UNCHANGED turn PROVE TypeOK'
  <2>1. PICK parts \in {<<"head">>, <<"head", "rest">>} :
           Ask(ListenSock, kind, parts) /\ half' \in {0, Len(asked) + 1}
    BY <1>5 DEF TcpAsk
  <2>2. /\ ChipTypeOK'
        /\ Len(asked') = Len(asked) + 1
    BY <1>0, <2>1, AskType
  <2>3. half' \in 0 .. Len(asked')
    BY <1>0, <2>1, <2>2
  <2>4. TcpTypeOK'
    BY <1>0, <1>5, <2>3 DEF TcpAsk, tcpServer, TcpTypeOK
  <2>5. len' = len /\ turn' = turn
    BY <1>5, <2>1 DEF Ask
  <2> QED
    BY <1>0, <1>5, <1>a, <1>c, <2>2, <2>4, <2>5 DEF Rounds
<1>6. CASE FinishRequest /\ UNCHANGED web /\ UNCHANGED turn
  <2>1. half \in 1 .. Len(asked) /\ Landing(ListenSock) \in Sockets
    BY <1>0, <1>6, LandingType DEF FinishRequest, TcpTypeOK, ChipTypeOK
  <2>2. asked[half] \in Requests \cup Pages /\ half \in 0 .. MaxMessages
    <3>1. asked \in Seq(Requests \cup Pages) /\ Len(asked) <= MaxMessages
      BY <1>0 DEF ChipTypeOK
    <3>2. MaxMessages \in Nat
      BY ChipAssumption
    <3> QED
      BY <1>0, <2>1, <3>1, <3>2, ElementOfSeq
  <2>3. [id |-> half, kind |-> asked[half], part |-> "rest"] \in Piece
    BY <2>2 DEF Piece
  <2>4. inbox' \in [Sockets -> Seq(Piece)]
    <3>1. inbox[Landing(ListenSock)] \in Seq(Piece)
      BY <1>0, <2>1 DEF ChipTypeOK
    <3>2. Append(inbox[Landing(ListenSock)],
                 [id |-> half, kind |-> asked[half], part |-> "rest"]) \in Seq(Piece)
      BY <2>3, <3>1, AppendProperties
    <3> QED
      BY <1>0, <1>6, <3>2 DEF FinishRequest, ChipTypeOK
  <2>5. ChipTypeOK' /\ UNCHANGED <<asked, len, turn>>
    BY <1>0, <1>6, <2>4 DEF FinishRequest, ChipTypeOK, chipWorld
  <2>6. half' \in 0 .. Len(asked')
    BY <1>0, <1>6, <2>5 DEF FinishRequest
  <2>7. TcpTypeOK'
    BY <1>0, <1>6, <2>5, <2>6 DEF FinishRequest, tcpServer, TcpTypeOK
  <2> QED
    BY <1>0, <1>6, <1>a, <1>c, <2>5, <2>7 DEF Rounds
<1>7. ASSUME NEW kind \in Pages, Browse(kind), UNCHANGED tcp, UNCHANGED turn PROVE TypeOK'
  <2>1. Ask(WebSock, kind, <<"head">>)
    BY <1>7 DEF Browse
  <2>2. /\ ChipTypeOK'
        /\ Len(asked') = Len(asked) + 1 /\ Len(asked') \in 1 .. MaxMessages
    BY <1>0, <2>1, AskType
  <2>3. browser' \in 0 .. MaxMessages
    BY <1>0, <1>7, <2>2 DEF Browse
  <2>4. WebTypeOK'
    BY <1>0, <1>7, <2>3 DEF Browse, webServer, WebTypeOK
  <2>5. half' \in 0 .. Len(asked')
    BY <1>0, <1>7, <2>2 DEF tcp, TcpTypeOK
  <2>6. TcpTypeOK'
    BY <1>0, <1>7, <2>5 DEF tcp, tcpServer, TcpTypeOK
  <2>7. len' = len /\ turn' = turn
    BY <1>7, <2>1 DEF Ask
  <2> QED
    BY <1>0, <1>a, <2>2, <2>4, <2>6, <2>7 DEF Rounds
<1>8. CASE StopBrowsing /\ UNCHANGED tcp /\ UNCHANGED turn
  <2>1. UNCHANGED chip /\ WebTypeOK'
    BY <1>0, <1>8, ChipAssumption DEF StopBrowsing, webServer, WebTypeOK
  <2>2. UNCHANGED <<asked, len, turn>>
    BY <1>8, <2>1 DEF chip
  <2> QED
    BY <1>0, <1>8, <1>a, <1>b, <1>d, <2>1, <2>2 DEF Rounds
<1>9. CASE Disarm /\ UNCHANGED <<turn, tcp, web>>
  <2>1. ChipTypeOK' /\ UNCHANGED <<asked, len, turn>>
    BY <1>0, <1>9 DEF Disarm, ChipTypeOK, chipWorld
  <2> QED
    BY <1>0, <1>9, <1>a, <1>b, <1>c, <2>1 DEF Rounds
<1>10. CASE UNCHANGED vars
  <2>1. UNCHANGED chip /\ UNCHANGED tcp /\ UNCHANGED web /\ UNCHANGED <<asked, len, turn>>
    BY <1>10 DEF vars, chip
  <2> QED
    BY <1>0, <1>a, <1>b, <1>c, <1>d, <2>1 DEF Rounds
<1> QED
  BY <1>1, <1>2, <1>3, <1>4, <1>5, <1>6, <1>7, <1>8, <1>9, <1>10
     DEF Next, UserLoop, Peers

\* What the driver is asked to receive has room in the buffer it is for, whatever the
\* chip, or the stack, says there is to receive.
THEOREM GatewayTypeCorrect == Spec => []TypeOK
<1>1. Init => TypeOK
  BY TypeInit
<1>2. TypeOK /\ [Next]_vars => TypeOK'
  BY TypeStep
<1> QED
  BY <1>1, <1>2, PTL DEF Spec
-----------------------------------------------------------------------------
(* Where pieces come from                                                  *)

Asked(p, a) == p.id \in 1 .. Len(a) /\ p.kind = a[p.id]

\* Everything in the chip has been sent, but for what is left of a piece.
InboxAsked ==
    \A s \in Sockets : \A i \in 1 .. Len(inbox[s]) :
        inbox[s][i] = Cut \/ Asked(inbox[s][i], asked)

\* Which step changes what.
LEMMA WhatChanges ==
    ASSUME [Next]_vars
    PROVE  /\ UNCHANGED <<applied, answers>> \/ (turn = "tcpHandle" /\ TcpHandle)
           /\ UNCHANGED got \/ WebHandle
           /\ \/ UNCHANGED inbox
              \/ TcpRead \/ WebRead \/ IsapiTurn \/ FinishRequest
              \/ \E s \in {ListenSock, WebSock}, kind \in Requests \cup Pages,
                    parts \in {<<"head">>, <<"head", "rest">>} : Ask(s, kind, parts)
           /\ \/ UNCHANGED asked
              \/ \E s \in {ListenSock, WebSock}, kind \in Requests \cup Pages,
                    parts \in {<<"head">>, <<"head", "rest">>} : Ask(s, kind, parts)
<1> DEFINE Asking == \E s \in {ListenSock, WebSock}, kind \in Requests \cup Pages,
                        parts \in {<<"head">>, <<"head", "rest">>} : Ask(s, kind, parts)
           Goal == /\ UNCHANGED <<applied, answers>> \/ (turn = "tcpHandle" /\ TcpHandle)
                   /\ UNCHANGED got \/ WebHandle
                   /\ UNCHANGED inbox \/ TcpRead \/ WebRead \/ IsapiTurn \/ FinishRequest \/ Asking
                   /\ UNCHANGED asked \/ Asking
<1> SUFFICES Goal
  OBVIOUS
<1> HIDE DEF Asking
<1> USE DEF tcp, tcpServer, web, webServer, chip
<1>1. CASE MasterTurn \/ SlaveTurn
  BY <1>1 DEF MasterTurn, SlaveTurn, Store
<1>2. CASE TcpTurn
  <2>1. CASE TcpStart /\ UNCHANGED web
    BY <2>1 DEF TcpStart, TcpListen
  <2>2. CASE TcpPoll /\ UNCHANGED web
    BY <2>2 DEF TcpPoll, RecvLen
  <2>3. CASE TcpRead /\ UNCHANGED web
    BY <2>3 DEF TcpRead, RecvData
  <2>4. CASE turn = "tcpHandle" /\ TcpHandle /\ UNCHANGED web
    BY <2>4 DEF TcpHandle, Forget
  <2> QED
    BY <1>2, <2>1, <2>2, <2>3, <2>4 DEF TcpTurn, At
<1>3. CASE IsapiTurn
  BY <1>3 DEF IsapiTurn
<1>4. CASE WebTurn
  <2>1. CASE WebStart /\ UNCHANGED tcp
    BY <2>1 DEF WebStart, TcpListen
  <2>2. CASE WebPoll /\ UNCHANGED tcp
    BY <2>2 DEF WebPoll, RecvLen
  <2>3. CASE WebRead /\ UNCHANGED tcp
    BY <2>3 DEF WebRead, RecvData
  <2>4. CASE WebHandle /\ UNCHANGED tcp
    BY <2>4 DEF WebHandle, Forget
  <2> QED
    BY <1>4, <2>1, <2>2, <2>3, <2>4 DEF WebTurn
<1>5. ASSUME NEW kind \in Requests, TcpAsk(kind), UNCHANGED web PROVE Goal
  <2>1. Asking
    BY <1>5 DEF TcpAsk, Asking
  <2> QED
    BY <1>5, <2>1 DEF TcpAsk
<1>6. CASE FinishRequest /\ UNCHANGED web
  BY <1>6 DEF FinishRequest
<1>7. ASSUME NEW kind \in Pages, Browse(kind), UNCHANGED tcp PROVE Goal
  <2>1. Asking
    BY <1>7 DEF Browse, Asking
  <2> QED
    BY <1>7, <2>1 DEF Browse
<1>8. CASE StopBrowsing /\ UNCHANGED tcp
  BY <1>8 DEF StopBrowsing
<1>9. CASE Disarm /\ UNCHANGED <<turn, tcp, web>>
  BY <1>9 DEF Disarm
<1>10. CASE UNCHANGED vars
  BY <1>10 DEF vars
<1> HIDE DEF Goal, tcp, tcpServer, web, webServer, chip
<1> QED
  BY <1>1, <1>2, <1>3, <1>4, <1>5, <1>6, <1>7, <1>8, <1>9, <1>10
     DEF Next, UserLoop, Peers

\* What has been asked stays.
LEMMA AskedStays ==
    ASSUME TypeOK, [Next]_vars
    PROVE  /\ Len(asked) \in Nat /\ Len(asked') \in Nat /\ Len(asked) <= Len(asked')
           /\ \A i \in 1 .. Len(asked) : asked'[i] = asked[i]
           /\ \A p : Asked(p, asked) => Asked(p, asked')
<1>1. asked \in Seq(Requests \cup Pages) /\ Len(asked) \in Nat
  BY LenProperties DEF TypeOK, ChipTypeOK
<1>2. CASE UNCHANGED asked
  BY <1>1, <1>2
<1>3. CASE \E s \in {ListenSock, WebSock}, kind \in Requests \cup Pages,
              parts \in {<<"head">>, <<"head", "rest">>} : Ask(s, kind, parts)
  <2>1. PICK kind \in Requests \cup Pages : asked' = Append(asked, kind)
    BY <1>3 DEF Ask
  <2>2. Len(asked') = Len(asked) + 1 /\ \A i \in 1 .. Len(asked) : asked'[i] = asked[i]
    BY <1>1, <2>1, AppendProperties
  <2>3. \A i \in 1 .. Len(asked) : i \in 1 .. Len(asked')
    BY <1>1, <2>2
  <2> QED
    BY <1>1, <2>2, <2>3 DEF Asked
<1> QED
  BY <1>2, <1>3, WhatChanges

\* What a reception leaves in the chip was there.
LEMMA ReceptionKeepsAsked ==
    ASSUME TypeOK, InboxAsked, UNCHANGED asked,
           NEW s \in Sockets, NEW max, NEW good, RecvData(s, max, good)
    PROVE  InboxAsked'
<1>1. PICK left \in Left(s, max) : inbox' = [inbox EXCEPT ![s] = left]
  BY DEF RecvData
<1>2. Remains(left, inbox[s], len) /\ len \in Nat
  BY LeftRemains DEF TypeOK, ChipTypeOK
<1>3. Len(inbox[s]) \in Nat /\ Len(left) \in Nat
  BY <1>2, LenProperties DEF TypeOK, ChipTypeOK, Remains
<1>4. PICK c \in {0, 1}, d \in Int : RemainsAt(left, inbox[s], len, c, d)
  BY <1>2 DEF Remains
<1>5. \A i \in 1 .. Len(left) : left[i] = Cut \/ Asked(left[i], asked)
  <2> TAKE i \in 1 .. Len(left)
  <2>1. CASE i <= c
    BY <1>4, <2>1 DEF RemainsAt
  <2>2. CASE ~(i <= c)
    <3>1. i \in c + 1 .. Len(left)
      BY <1>3, <2>2
    <3>2. d + i \in len + 1 .. Len(inbox[s]) /\ left[i] = inbox[s][d + i]
      BY <1>4, <3>1 DEF RemainsAt
    <3>3. d + i \in 1 .. Len(inbox[s])
      BY <1>2, <1>3, <3>2
    <3> QED
      BY <3>2, <3>3 DEF InboxAsked
  <2> QED
    BY <2>1, <2>2
<1> SUFFICES ASSUME NEW r \in Sockets, NEW i \in 1 .. Len(inbox'[r])
             PROVE  inbox'[r][i] = Cut \/ Asked(inbox'[r][i], asked')
  BY DEF InboxAsked
<1>6. inbox'[r] = IF r = s THEN left ELSE inbox[r]
  BY <1>1 DEF TypeOK, ChipTypeOK
<1> QED
  BY <1>5, <1>6 DEF InboxAsked

LEMMA AskedInbox ==
    ASSUME TypeOK, InboxAsked, [Next]_vars
    PROVE  InboxAsked'
<1>1. /\ Len(asked) \in Nat /\ Len(asked') \in Nat /\ Len(asked) <= Len(asked')
      /\ \A p : Asked(p, asked) => Asked(p, asked')
  BY AskedStays
<1>2. inbox \in [Sockets -> Seq(Piece)] /\ asked \in Seq(Requests \cup Pages)
  BY DEF TypeOK, ChipTypeOK
<1>3. CASE UNCHANGED inbox
  BY <1>1, <1>3 DEF InboxAsked
<1>4. CASE TcpRead
  BY <1>4, ReceptionKeepsAsked DEF TcpRead, RecvData, ClientSock, Sockets
<1>5. CASE WebRead
  BY <1>5, ReceptionKeepsAsked DEF WebRead, RecvData, WebSock, Sockets
<1>6. CASE IsapiTurn
  <2> SUFFICES ASSUME NEW s \in Sockets, NEW i \in 1 .. Len(inbox'[s])
               PROVE  inbox'[s][i] = Cut \/ Asked(inbox'[s][i], asked')
    BY DEF InboxAsked
  <2>1. inbox'[s] \in {inbox[s], <<>>}
    BY <1>2, <1>6 DEF IsapiTurn
  <2>2. inbox'[s] # <<>>
    BY EmptySeq
  <2> QED
    BY <1>1, <2>1, <2>2 DEF InboxAsked
<1>7. CASE FinishRequest
  <2> DEFINE s == Landing(ListenSock)
             p == [id |-> half, kind |-> asked[half], part |-> "rest"]
  <2>1. half \in 1 .. Len(asked) /\ s \in Sockets /\ UNCHANGED asked
    BY <1>1, <1>7, LandingType DEF FinishRequest, TypeOK, TcpTypeOK, ChipTypeOK
  <2>2. Asked(p, asked)
    BY <2>1 DEF Asked
  <2>3. p \in Piece
    <3>1. asked[half] \in Requests \cup Pages
      BY <1>2, <2>1, ElementOfSeq
    <3>2. half \in 0 .. MaxMessages
      BY <2>1, ChipAssumption DEF TypeOK, ChipTypeOK
    <3> QED
      BY <3>1, <3>2 DEF Piece
  <2>4. inbox' = [inbox EXCEPT ![s] = Append(@, p)]
    BY <1>7 DEF FinishRequest
  <2> HIDE DEF s, p
  <2>5. \A i \in 1 .. Len(inbox'[s]) : inbox'[s][i] = Cut \/ Asked(inbox'[s][i], asked)
    <3>1. inbox'[s] = Append(inbox[s], p) /\ inbox[s] \in Seq(Piece)
      BY <1>2, <2>1, <2>4
    <3>2. /\ Len(inbox'[s]) = Len(inbox[s]) + 1 /\ inbox'[s][Len(inbox[s]) + 1] = p
          /\ \A i \in 1 .. Len(inbox[s]) : inbox'[s][i] = inbox[s][i]
          /\ Len(inbox[s]) \in Nat
      BY <2>3, <3>1, AppendProperties, LenProperties
    <3> QED
      BY <2>1, <2>2, <3>2 DEF InboxAsked
  <2>6. \A r \in Sockets \ {s} : inbox'[r] = inbox[r]
    BY <1>2, <2>4
  <2> QED
    BY <2>1, <2>5, <2>6 DEF InboxAsked
<1>8. CASE \E s \in {ListenSock, WebSock}, kind \in Requests \cup Pages,
              parts \in {<<"head">>, <<"head", "rest">>} : Ask(s, kind, parts)
  <2>1. PICK at \in {ListenSock, WebSock}, kind \in Requests \cup Pages,
             parts \in {<<"head">>, <<"head", "rest">>} : Ask(at, kind, parts)
    BY <1>8
  <2> DEFINE s == Landing(at)
             q == Pieces(Len(asked) + 1, kind, parts)
  <2>2. s \in Sockets
    BY LandingType DEF TypeOK, ChipTypeOK
  <2>3. Len(asked) + 1 \in 0 .. MaxMessages
    BY <1>1, <2>1, ChipAssumption DEF Ask
  <2>4. /\ q \in Seq(Piece)
        /\ \A i \in 1 .. Len(q) : q[i].id = Len(asked) + 1 /\ q[i].kind = kind
    <3> DEFINE id == Len(asked) + 1
    <3>1. id \in 0 .. MaxMessages
      BY <2>3
    <3> HIDE DEF id
    <3>2. /\ Pieces(id, kind, parts) \in Seq(Piece)
          /\ \A i \in 1 .. Len(Pieces(id, kind, parts)) :
                /\ Pieces(id, kind, parts)[i].id = id
                /\ Pieces(id, kind, parts)[i].kind = kind
      BY <3>1, PiecesOfRequest
    <3> QED
      BY <3>2 DEF id
  <2>5. Len(asked') = Len(asked) + 1 /\ asked'[Len(asked) + 1] = kind
    BY <1>2, <2>1, AppendProperties DEF Ask
  <2>6. \A i \in 1 .. Len(q) : Asked(q[i], asked')
    BY <1>1, <2>4, <2>5 DEF Asked
  <2>7. inbox' = [inbox EXCEPT ![s] = @ \o q]
    BY <2>1 DEF Ask
  <2> HIDE DEF s, q
  <2>8. \A i \in 1 .. Len(inbox'[s]) : inbox'[s][i] = Cut \/ Asked(inbox'[s][i], asked')
    <3>1. inbox'[s] = inbox[s] \o q /\ inbox[s] \in Seq(Piece)
      BY <1>2, <2>2, <2>7
    <3>2. /\ Len(inbox'[s]) = Len(inbox[s]) + Len(q)
          /\ \A i \in 1 .. Len(inbox[s]) + Len(q) :
                inbox'[s][i] = IF i <= Len(inbox[s]) THEN inbox[s][i] ELSE q[i - Len(inbox[s])]
          /\ Len(inbox[s]) \in Nat /\ Len(q) \in Nat
      BY <2>4, <3>1, ConcatProperties, LenProperties
    <3>3. TAKE i \in 1 .. Len(inbox'[s])
    <3>4. CASE i <= Len(inbox[s])
      <4>1. inbox'[s][i] = inbox[s][i] /\ i \in 1 .. Len(inbox[s])
        BY <3>2, <3>3, <3>4
      <4>2. inbox[s][i] = Cut \/ Asked(inbox[s][i], asked)
        BY <2>2, <4>1 DEF InboxAsked
      <4> QED
        BY <1>1, <4>1, <4>2
    <3>5. CASE ~(i <= Len(inbox[s]))
      <4>1. i - Len(inbox[s]) \in 1 .. Len(q)
        BY <3>2, <3>3, <3>5
      <4> QED
        BY <2>6, <3>2, <3>3, <3>5, <4>1
    <3> QED
      BY <3>4, <3>5
  <2>9. \A r \in Sockets \ {s} : inbox'[r] = inbox[r]
    BY <1>2, <2>7
  <2> QED
    BY <1>1, <2>8, <2>9 DEF InboxAsked
<1> QED
  BY <1>3, <1>4, <1>5, <1>6, <1>7, <1>8, WhatChanges

LEMMA AskedAlways == Spec => [](TypeOK /\ InboxAsked)
<1>1. Init => InboxAsked
  <2> SUFFICES ASSUME Init PROVE InboxAsked
    OBVIOUS
  <2>1. \A s \in Sockets : inbox[s] = <<>> /\ Len(inbox[s]) = 0
    BY EmptySeq DEF Init, ChipInit
  <2> QED
    BY <2>1 DEF InboxAsked
<1>2. Init => TypeOK /\ InboxAsked
  BY <1>1, TypeInit
<1>3. TypeOK /\ InboxAsked /\ [Next]_vars => (TypeOK /\ InboxAsked)'
  BY TypeStep, AskedInbox
<1> QED
  BY <1>2, <1>3, PTL DEF Spec
-----------------------------------------------------------------------------
(* What the web server answers                                             *)

\* A response is whole if its body is not built in the buffer, and of no cells but
\* its own.
LEMMA ResponseFor ==
    ASSUME TypeOK, WebHandle, got' # got
    PROVE  NothingStale' /\ LiteralsWhole'
<1> DEFINE doc == webRx.kind
           p == Printed(Built(doc))
<1>1. doc \in Docs /\ Respond(doc)
  BY DEF WebHandle
<1>2. Fits(doc)
  BY <1>1 DEF Respond
<1>3. PICK source \in Sources(doc, p) :
         /\ tx' = Copied(source, BodySize[doc], p)
         /\ Deliver(SubSeq(tx', 1, HdrSize + BodySize[doc]))
  BY <1>1, <1>2 DEF Respond
<1> DEFINE text == Response(doc, tx')
<1>4. /\ \A i \in DOMAIN text : text[i][1] \in {"header", "end", doc}
      /\ doc \notin Json => text = Whole(doc)
  <2>1. tx \in [1 .. TxSize -> Cell] /\ Placed(doc, tx')
    BY <1>3 DEF TypeOK, WebTypeOK, Placed
  <2>2. doc \in Docs /\ Fits(doc)
    BY <1>1, <1>2
  <2> HIDE DEF doc
  <2> QED
    BY <2>1, <2>2, ResponseCells
<1>5. got' = [to |-> webRx.id, for |-> browser, doc |-> doc, text |-> text]
  BY <1>3 DEF Deliver, Response
<1> HIDE DEF text, doc
<1>6. got'.doc = doc /\ got'.text = text
  BY <1>5
<1> QED
  BY <1>4, <1>6 DEF NothingStale, LiteralsWhole

LEMMA ResponsesHold == Spec => [](NothingStale /\ LiteralsWhole)
<1>1. Init => NothingStale /\ LiteralsWhole
  BY DEF Init, WebInit, NoResponse, NothingStale, LiteralsWhole, Docs
<1>2. TypeOK /\ NothingStale /\ LiteralsWhole /\ [Next]_vars => (NothingStale /\ LiteralsWhole)'
  <2> SUFFICES ASSUME TypeOK, NothingStale, LiteralsWhole, [Next]_vars
               PROVE  NothingStale' /\ LiteralsWhole'
    OBVIOUS
  <2>1. CASE UNCHANGED got
    BY <2>1 DEF NothingStale, LiteralsWhole
  <2>2. CASE WebHandle /\ got' # got
    BY <2>2, ResponseFor
  <2> QED
    BY <2>1, <2>2, WhatChanges
<1> QED
  BY <1>1, <1>2, GatewayTypeCorrect, PTL DEF Spec

\* No response carries a cell of an earlier one out of the buffer they share, for any
\* sizes of the buffer, the header and the bodies.
THEOREM NothingStaleSent == Spec => []NothingStale
BY ResponsesHold, PTL

\* A response whose body is not built in the buffer arrives whole and in order.
THEOREM LiteralsArriveWhole == Spec => []LiteralsWhole
BY ResponsesHold, PTL
-----------------------------------------------------------------------------
(* The order of the writes                                                 *)

Stream == inbox[ClientSock]

\* The head of a request of which more is to come
Open(p) == p.part = "head" /\ p.kind # "short"

\* Requests are in the order they were made in, their parts together, and only the last
\* may lack its rest, which is the request h.
InOrder(q) ==
    \A j \in 1 .. Len(q) : q[j].part = "head" =>
        0 < q[j].id /\ \A i \in 1 .. j - 1 : q[i].id < q[j].id
Together(q) == \A i \in 1 .. Len(q) - 1 : Open(q[i]) => q[i + 1].id = q[i].id
Ending(q, h) == q # <<>> /\ Open(q[Len(q)]) => h # 0 /\ q[Len(q)].id = h

StreamOrdered ==
    /\ ~child => Stream = <<>>
    /\ InOrder(Stream) /\ Together(Stream) /\ Ending(Stream, half)

\* A good reception has no more than there is.
Measured == turn = "tcpRead" /\ sure => len <= Len(Stream)

\* Every request in q that has its head there is newer than id.
Before(id, q) == \A j \in 1 .. Len(q) : q[j].part = "head" => id < q[j].id

\* The writes made are older than the requests still to be read,
Older == \A k \in 1 .. Len(applied) :
            applied[k].id <= Len(asked) /\ Before(applied[k].id, Stream)

\* and the request that a good reception brought is one made, between them, and its own
\* throughout.
InHand ==
    turn = "tcpHandle" /\ sure =>
        /\ ~Zeros
        /\ Complete =>
              /\ tcpRx.id \in 1 .. Len(asked) /\ tcpRx.kind = asked[tcpRx.id]
              /\ tcpRx.value = tcpRx.id
              /\ \A k \in 1 .. Len(applied) : applied[k].id < tcpRx.id
              /\ Before(tcpRx.id, Stream)

WriteInv == StreamOrdered /\ Measured /\ Older /\ InHand /\ WritesIntact

LEMMA RemainsOrdered ==
    ASSUME NEW q \in Seq(Piece), NEW m \in Nat, NEW h, InOrder(q), Together(q), Ending(q, h),
           NEW r, Remains(r, q, m)
    PROVE  /\ r \in Seq(Piece) /\ Len(r) \in Nat
           /\ \A j \in 1 .. Len(r) : r[j].part = "head" =>
                 \E k \in m + 1 .. Len(q) : r[j] = q[k]
           /\ InOrder(r) /\ Together(r) /\ Ending(r, h)
<1> DEFINE n == Len(q)
<1>1. n \in Nat /\ r \in Seq(Piece) /\ Len(r) \in Nat
  BY LenProperties DEF Remains
<1>2. PICK c \in {0, 1}, d \in Int : RemainsAt(r, q, m, c, d)
  BY DEF Remains
<1>3. \A j \in 1 .. Len(r) :
         \/ j <= c /\ r[j] = Cut
         \/ j > c /\ d + j \in m + 1 .. n /\ d + j \in 1 .. n /\ r[j] = q[d + j]
  BY <1>1, <1>2 DEF RemainsAt
<1>4. Cut.part = "cut" /\ Cut.id = 0
  BY DEF Cut
<1>5. \A j \in 1 .. Len(r) : r[j].part = "head" =>
         j > c /\ d + j \in m + 1 .. n /\ d + j \in 1 .. n /\ r[j] = q[d + j]
  BY <1>3, <1>4
<1> HIDE DEF n
<1>6. InOrder(r)
  <2> SUFFICES ASSUME NEW j \in 1 .. Len(r), r[j].part = "head"
               PROVE  0 < r[j].id /\ \A i \in 1 .. j - 1 : r[i].id < r[j].id
    BY DEF InOrder
  <2>1. j > c /\ d + j \in 1 .. n /\ r[j] = q[d + j]
    BY <1>5
  <2>2. 0 < r[j].id /\ \A k \in 1 .. (d + j) - 1 : q[k].id < r[j].id
    BY <2>1 DEF InOrder, n
  <2>3. ASSUME NEW i \in 1 .. j - 1 PROVE r[i].id < r[j].id
    <3>1. i \in 1 .. Len(r)
      BY <1>1
    <3>2. CASE r[i] = Cut
      BY <1>4, <2>2, <3>2
    <3>3. CASE d + i \in 1 .. n /\ r[i] = q[d + i]
      <4>1. d + i \in 1 .. (d + j) - 1
        BY <3>3
      <4> QED
        BY <2>2, <3>3, <4>1
    <3> QED
      BY <1>3, <3>1, <3>2, <3>3
  <2> QED
    BY <2>2, <2>3
<1>7. Together(r)
  <2> SUFFICES ASSUME NEW i \in 1 .. Len(r) - 1, Open(r[i])
               PROVE  r[i + 1].id = r[i].id
    BY DEF Together
  <2>1. i \in 1 .. Len(r) /\ i + 1 \in 1 .. Len(r) /\ d + (i + 1) = (d + i) + 1
    BY <1>1
  <2>2. i > c /\ d + i \in 1 .. n /\ r[i] = q[d + i]
    BY <1>5, <2>1 DEF Open
  <2>3. d + (i + 1) \in 1 .. n /\ r[i + 1] = q[(d + i) + 1]
    BY <1>3, <2>1, <2>2
  <2>4. d + i \in 1 .. n - 1
    BY <1>1, <2>2, <2>3
  <2> QED
    BY <2>2, <2>3, <2>4 DEF Together, n
<1>8. Ending(r, h)
  <2> SUFFICES ASSUME r # <<>>, Open(r[Len(r)]) PROVE h # 0 /\ r[Len(r)].id = h
    BY DEF Ending
  <2>1. Len(r) \in 1 .. Len(r)
    BY <1>1, EmptySeq
  <2>2. Len(r) > c /\ d + Len(r) \in 1 .. n /\ r[Len(r)] = q[d + Len(r)]
    BY <1>5, <2>1 DEF Open
  <2>3. d + Len(r) = n /\ n # 0
    BY <1>1, <1>2, <2>2 DEF RemainsAt, n
  <2>4. q # <<>>
    BY <2>3, EmptySeq DEF n
  <2> QED
    BY <2>2, <2>3, <2>4 DEF Ending, n
<1>9. \A j \in 1 .. Len(r) : r[j].part = "head" => \E k \in m + 1 .. n : r[j] = q[k]
  BY <1>5
<1> QED
  BY <1>1, <1>6, <1>7, <1>8, <1>9 DEF n

\* A piece may follow if it begins a newer request, or goes on with the last.
LEMMA AppendOrdered ==
    ASSUME NEW q \in Seq(Piece), NEW p \in Piece, InOrder(q), Together(q),
           \/ /\ p.part = "head" /\ 0 < p.id
              /\ \A i \in 1 .. Len(q) : q[i].id < p.id
              /\ q # <<>> => ~Open(q[Len(q)])
           \/ /\ p.part = "rest"
              /\ q # <<>> /\ Open(q[Len(q)]) => q[Len(q)].id = p.id
    PROVE  /\ Append(q, p) \in Seq(Piece)
           /\ Len(q) \in Nat /\ Len(Append(q, p)) = Len(q) + 1
           /\ Append(q, p)[Len(q) + 1] = p
           /\ \A i \in 1 .. Len(q) : Append(q, p)[i] = q[i]
           /\ InOrder(Append(q, p)) /\ Together(Append(q, p))
           /\ Append(q, p) # <<>>
<1> DEFINE r == Append(q, p)
           n == Len(q)
<1>1. n \in Nat
  BY LenProperties
<1>2. /\ r \in Seq(Piece) /\ Len(r) = n + 1 /\ r[n + 1] = p
      /\ \A i \in 1 .. n : r[i] = q[i]
  BY AppendProperties
<1> HIDE DEF r
<1>3. InOrder(r)
  <2> SUFFICES ASSUME NEW j \in 1 .. Len(r), r[j].part = "head"
               PROVE  0 < r[j].id /\ \A i \in 1 .. j - 1 : r[i].id < r[j].id
    BY DEF InOrder
  <2>1. \A i \in 1 .. j - 1 : i \in 1 .. n /\ r[i] = q[i]
    BY <1>1, <1>2
  <2>2. CASE j \in 1 .. n
    BY <1>2, <2>1, <2>2 DEF InOrder
  <2>3. CASE j = n + 1
    BY <1>2, <2>1, <2>3
  <2> QED
    BY <1>1, <1>2, <2>2, <2>3
<1>4. Together(r)
  <2> SUFFICES ASSUME NEW i \in 1 .. Len(r) - 1, Open(r[i])
               PROVE  r[i + 1].id = r[i].id
    BY DEF Together
  <2>1. i \in 1 .. n /\ r[i] = q[i]
    BY <1>1, <1>2
  <2>2. CASE i # n
    <3>1. i \in 1 .. n - 1 /\ i + 1 \in 1 .. n
      BY <1>1, <2>1, <2>2
    <3> QED
      BY <1>2, <2>1, <3>1 DEF Together
  <2>3. CASE i = n
    <3>1. q # <<>>
      BY <2>1, EmptySeq
    <3> QED
      BY <1>2, <2>1, <2>3, <3>1
  <2> QED
    BY <2>2, <2>3
<1>5. r # <<>>
  BY <1>1, <1>2, EmptySeq
<1> QED
  BY <1>1, <1>2, <1>3, <1>4, <1>5 DEF r

\* Steps that leave the connection of port 502 and the writes alone.
Quiet ==
    /\ Stream' = Stream
    /\ UNCHANGED <<half, applied, child, tcpRx>>
    /\ turn' \in {"tcpRead", "tcpHandle"} => UNCHANGED <<turn, len, sure>>

LEMMA StreamSteps ==
    ASSUME TypeOK, [Next]_vars
    PROVE  \/ Quiet
           \/ turn' \notin {"tcpHandle"} /\ TcpPoll
           \/ turn = "tcpRead" /\ turn' = "tcpHandle" /\ TcpRead
           \/ turn = "tcpHandle" /\ turn' = "isapi" /\ TcpHandle
           \/ UNCHANGED turn /\ \E kind \in Requests : TcpAsk(kind)
           \/ UNCHANGED turn /\ FinishRequest
<1> USE DEF tcp, tcpServer, web, webServer, chip, chipWorld, At
<1>0. inbox \in [Sockets -> Seq(Piece)] /\ ClientSock \in Sockets
  BY DEF TypeOK, ChipTypeOK, ClientSock, Sockets
<1>1. CASE MasterTurn \/ SlaveTurn
  BY <1>1 DEF MasterTurn, SlaveTurn, Store, Quiet, Stream
<1>2. CASE TcpTurn
  <2>1. CASE turn' = "isapi" /\ TcpStart
    BY <2>1 DEF TcpStart, TcpListen, Quiet, Stream
  <2> QED
    BY <1>2, <2>1 DEF TcpTurn
<1>3. CASE IsapiTurn
  <2>1. inbox'[ClientSock] = inbox[ClientSock]
    BY <1>0, <1>3 DEF IsapiTurn, ClientSock, WebSock
  <2> QED
    BY <1>3, <2>1 DEF IsapiTurn, Quiet, Stream
<1>4. CASE WebTurn
  <2>1. CASE WebStart /\ turn' = "master" /\ UNCHANGED tcp
    BY <2>1 DEF WebStart, TcpListen, Quiet, Stream
  <2>2. CASE WebPoll /\ turn' \in {"master", "webRead"} /\ UNCHANGED tcp
    BY <2>2 DEF WebPoll, RecvLen, Quiet, Stream
  <2>3. CASE WebRead /\ turn' = "webHandle" /\ UNCHANGED tcp
    <3>1. PICK good : RecvData(WebSock, WebRxSize, good)
      BY <2>3 DEF WebRead
    <3>2. inbox'[ClientSock] = inbox[ClientSock] /\ UNCHANGED child
      BY <1>0, <3>1 DEF RecvData, ClientSock, WebSock
    <3> QED
      BY <2>3, <3>2 DEF Quiet, Stream
  <2>4. CASE WebHandle /\ turn' = "master" /\ UNCHANGED tcp
    BY <2>4 DEF WebHandle, Forget, Quiet, Stream
  <2> QED
    BY <1>4, <2>1, <2>2, <2>3, <2>4 DEF WebTurn
<1>5. ASSUME NEW kind \in Pages, Browse(kind), UNCHANGED tcp, UNCHANGED turn PROVE Quiet
  <2>1. Ask(WebSock, kind, <<"head">>)
    BY <1>5 DEF Browse
  <2>2. Landing(WebSock) # ClientSock
    BY DEF Landing, WebSock, ClientSock
  <2>3. inbox'[ClientSock] = inbox[ClientSock] /\ UNCHANGED <<child, len, sure>>
    BY <1>0, <2>1, <2>2 DEF Ask
  <2> QED
    BY <1>5, <2>3 DEF Quiet, Stream
<1>6. CASE StopBrowsing /\ UNCHANGED tcp /\ UNCHANGED turn
  BY <1>6 DEF StopBrowsing, Quiet, Stream
<1>7. CASE Disarm /\ UNCHANGED <<turn, tcp, web>>
  BY <1>7 DEF Disarm, Quiet, Stream
<1>8. CASE UNCHANGED vars
  BY <1>8 DEF vars, Quiet, Stream
<1> QED
  BY <1>1, <1>2, <1>3, <1>4, <1>5, <1>6, <1>7, <1>8 DEF Next, UserLoop, Peers

\* The request in hand stays what it is while others are made.
LEMMA HandStays ==
    ASSUME InHand, UNCHANGED <<turn, len, sure, tcpRx, applied>>,
           \A i \in 1 .. Len(asked) : i \in 1 .. Len(asked') /\ asked'[i] = asked[i],
           \A id \in 1 .. Len(asked) : Before(id, Stream) => Before(id, Stream')
    PROVE  InHand'
<1> SUFFICES ASSUME turn = "tcpHandle", sure PROVE InHand'
  BY DEF InHand
<1>1. (Zeros' <=> Zeros) /\ (Complete' <=> Complete)
  BY DEF Zeros, Complete
<1>2. ~Zeros'
  BY <1>1 DEF InHand
<1>3. ASSUME Complete'
      PROVE  /\ tcpRx'.id \in 1 .. Len(asked') /\ tcpRx'.kind = asked'[tcpRx'.id]
             /\ tcpRx'.value = tcpRx'.id
             /\ \A k \in 1 .. Len(applied') : applied'[k].id < tcpRx'.id
             /\ Before(tcpRx.id, Stream)'
  <2>1. /\ tcpRx.id \in 1 .. Len(asked) /\ tcpRx.kind = asked[tcpRx.id]
        /\ tcpRx.value = tcpRx.id
        /\ \A k \in 1 .. Len(applied) : applied[k].id < tcpRx.id
        /\ Before(tcpRx.id, Stream)
    BY <1>1, <1>3 DEF InHand
  <2>2. Before(tcpRx'.id, Stream')
    BY <2>1
  <2>3. Before(tcpRx.id, Stream)'
    BY <2>2 DEF Before
  <2> QED
    BY <2>1, <2>3
<1> QED
  BY <1>2, <1>3 DEF InHand

LEMMA QuietKeeps ==
    ASSUME TypeOK, WriteInv, Quiet, Len(asked) <= Len(asked'), Len(asked') \in Nat,
           \A i \in 1 .. Len(asked) : asked'[i] = asked[i]
    PROVE  WriteInv'
<1>1. applied \in Seq([id : 0 .. MaxMessages, value : 0 .. MaxMessages]) /\ Len(asked) \in Nat
  BY LenProperties DEF TypeOK, TcpTypeOK, ChipTypeOK
<1>2. StreamOrdered'
  BY DEF WriteInv, Quiet, StreamOrdered
<1>3. Measured'
  BY DEF WriteInv, Quiet, Measured
<1>4. Older'
  <2> SUFFICES ASSUME NEW k \in 1 .. Len(applied)
               PROVE  applied[k].id <= Len(asked') /\ Before(applied[k].id, Stream)
    BY DEF Quiet, Older
  <2>1. applied[k].id <= Len(asked) /\ Before(applied[k].id, Stream)
    BY DEF WriteInv, Older
  <2>2. applied[k].id \in 0 .. MaxMessages
    <3>1. applied[k] \in [id : 0 .. MaxMessages, value : 0 .. MaxMessages]
      BY <1>1, ElementOfSeq
    <3> QED
      BY <3>1
  <2> QED
    BY <1>1, <2>1, <2>2, ChipAssumption
<1>5. InHand'
  <2>1. CASE turn' \notin {"tcpRead", "tcpHandle"}
    BY <2>1 DEF InHand
  <2>2. CASE UNCHANGED <<turn, len, sure>>
    <3>1. \A i \in 1 .. Len(asked) : i \in 1 .. Len(asked') /\ asked'[i] = asked[i]
      BY <1>1
    <3> QED
      BY <2>2, <3>1, HandStays DEF WriteInv, Quiet
  <2> QED
    BY <2>1, <2>2 DEF Quiet
<1>6. WritesIntact'
  BY DEF WriteInv, Quiet, WritesIntact
<1> QED
  BY <1>2, <1>3, <1>4, <1>5, <1>6 DEF WriteInv

LEMMA PollKeeps ==
    ASSUME TypeOK, WriteInv, turn' # "tcpHandle", TcpPoll
    PROVE  WriteInv'
<1>1. UNCHANGED <<inbox, asked, child, half, applied>>
  BY DEF TcpPoll, RecvLen, chipWorld, tcp, tcpServer
<1>2. Stream' = Stream /\ Len(Stream) \in Nat
  BY <1>1, LenProperties DEF Stream, TypeOK, ChipTypeOK, ClientSock, Sockets
<1>3. sure' => len' <= Len(Stream)
  <2>1. sure' => len' = Least(Len(Stream), TcpRxSize)
    BY DEF TcpPoll, RecvLen, Stream
  <2>2. TcpRxSize \in Nat
    BY TcpAssumption
  <2>3. Least(Len(Stream), TcpRxSize) <= Len(Stream)
    BY <1>2, <2>2 DEF Least
  <2> QED
    BY <2>1, <2>3
<1>4. StreamOrdered' /\ Older' /\ WritesIntact'
  BY <1>1, <1>2 DEF WriteInv, StreamOrdered, Older, WritesIntact
<1>5. Measured' /\ InHand'
  BY <1>2, <1>3 DEF Measured, InHand
<1> QED
  BY <1>4, <1>5 DEF WriteInv

\* A reception that is not good leaves the chip in order, and one that is good brings
\* the next request, or none.
LEMMA ReadKeeps ==
    ASSUME TypeOK, InboxAsked, WriteInv, turn = "tcpRead", turn' = "tcpHandle", TcpRead
    PROVE  WriteInv'
<1> DEFINE q == Stream
           r == Stream'
<1>1. /\ q \in Seq(Piece) /\ Len(q) \in Nat /\ ClientSock \in Sockets
      /\ len \in Nat /\ len > 0
      /\ inbox \in [Sockets -> Seq(Piece)]
  BY LenProperties DEF Stream, TypeOK, ChipTypeOK, ClientSock, Sockets, TcpRead
<1>2. PICK good \in BOOLEAN :
         /\ RecvData(ClientSock, TcpRxSize, good)
         /\ good => tcpRx' = Laid(Handed(ClientSock), tcpRx)
  BY DEF TcpRead
<1>3. UNCHANGED <<asked, child, half, applied, len>> /\ sure' = good
  BY <1>2 DEF TcpRead, RecvData, chipWorld
<1>4. r \in Left(ClientSock, TcpRxSize)
  BY <1>1, <1>2 DEF RecvData, Stream
<1>5. InOrder(q) /\ Together(q) /\ Ending(q, half) /\ (~child => q = <<>>)
  BY DEF WriteInv, StreamOrdered
<1>6. Remains(r, q, len)
  BY <1>1, <1>4, LeftRemains DEF TypeOK, Stream
<1>7. q = <<>> => r = <<>>
  <2> SUFFICES ASSUME q = <<>> PROVE r = <<>>
    OBVIOUS
  <2>1. Len(q) = 0
    BY EmptySeq
  <2>2. Len(Handed(ClientSock)) = 0 /\ Handed(ClientSock) \in Seq(Piece)
    <3>1. Least(len, 0) = 0
      BY <1>1 DEF Least
    <3> QED
      BY <1>1, <2>1, <3>1, HandedType DEF TypeOK, Stream
  <2>3. Handed(ClientSock) = <<>>
    BY <2>2, EmptySeq
  <2>4. SubSeq(q, len + 1, Len(q)) = <<>>
    <3>1. /\ SubSeq(q, len + 1, Len(q)) \in Seq(Piece)
          /\ Len(SubSeq(q, len + 1, Len(q))) = 0
      BY <1>1, <2>1, Parts
    <3> QED
      BY <3>1, EmptySeq
  <2> QED
    BY <1>4, <2>3, <2>4 DEF Left, Stream
<1> HIDE DEF q, r
<1>8. /\ r \in Seq(Piece) /\ Len(r) \in Nat
      /\ \A j \in 1 .. Len(r) : r[j].part = "head" =>
            \E k \in len + 1 .. Len(q) : r[j] = q[k]
      /\ InOrder(r) /\ Together(r) /\ Ending(r, half)
  BY <1>1, <1>5, <1>6, RemainsOrdered
<1>9. StreamOrdered'
  BY <1>3, <1>5, <1>7, <1>8 DEF StreamOrdered, r
<1>10. \A id : Before(id, q) => Before(id, r)
  <2> SUFFICES ASSUME NEW id, Before(id, q), NEW j \in 1 .. Len(r), r[j].part = "head"
               PROVE  id < r[j].id
    BY DEF Before
  <2>1. PICK k \in len + 1 .. Len(q) : r[j] = q[k]
    BY <1>8
  <2>2. k \in 1 .. Len(q)
    BY <1>1
  <2> QED
    BY <2>1, <2>2 DEF Before
<1>11. Older'
  BY <1>3, <1>10 DEF WriteInv, Older, q, r
<1>12. WritesIntact'
  BY <1>3 DEF WriteInv, WritesIntact
<1>13. Measured'
  BY DEF Measured
<1>14. ASSUME sure' PROVE InHand'
  <2> DEFINE text == Handed(ClientSock)
  <2>1. sure /\ good /\ Clean(ClientSock) /\ tcpRx' = Laid(text, tcpRx)
    BY <1>2, <1>3, <1>14 DEF RecvData
  <2>2. len <= Len(q)
    BY <2>1 DEF WriteInv, Measured, q
  <2>3. Len(text) = len /\ \A i \in 1 .. len : i \in 1 .. Len(q) /\ text[i] = q[i]
    <3>1. Least(len, Len(q)) = len
      BY <1>1, <2>2 DEF Least
    <3> QED
      BY <1>1, <3>1, HandedType DEF TypeOK, Stream, q
  <2>4. \A i \in 1 .. len : q[i] # Cut /\ Asked(q[i], asked)
    <3> TAKE i \in 1 .. len
    <3>1. DOMAIN text = 1 .. len
      BY <1>1, <2>3, HandedType, LenProperties DEF TypeOK
    <3>2. text[i] # Cut
      BY <2>1, <3>1 DEF Clean
    <3> QED
      BY <1>1, <2>3, <3>2 DEF InboxAsked, Stream, q
  <2> HIDE DEF text
  <2>5. 1 \in 1 .. len /\ 1 \in 1 .. Len(q) /\ q[1] \in Piece
    BY <1>1, <2>2, ElementOfSeq
  <2>6. len >= 2 => 2 \in 1 .. len /\ 1 \in 1 .. Len(q) - 1
    BY <1>1, <2>2
  <2>7. q[1].id \in 1 .. Len(asked) /\ q[1].kind = asked[q[1].id]
    BY <2>4, <2>5 DEF Asked
  <2>8. CASE q[1].part = "head"
    <3>1. tcpRx' = [id    |-> q[1].id,
                    kind  |-> IF q[1].kind \in WithData THEN q[1].kind ELSE "none",
                    value |-> IF len > 1 THEN q[2].id ELSE tcpRx.value]
      <4>1. text[1] = q[1] /\ (len > 1 => text[2] = q[2])
        BY <1>1, <2>3, <2>5, <2>6
      <4> QED
        BY <2>1, <2>3, <2>8, <4>1 DEF Laid
    <3>2. tcpRx'.kind # "blank"
      BY <3>1 DEF WithData, Requests
    <3>3. ~Zeros'
      BY <3>2 DEF Zeros
    <3>4. \A k \in 1 .. Len(applied) : applied[k].id < q[1].id
      BY <2>5, <2>8 DEF WriteInv, Older, Before, q
    <3>5. Before(q[1].id, r)
      <4> SUFFICES ASSUME NEW j \in 1 .. Len(r), r[j].part = "head" PROVE q[1].id < r[j].id
        BY DEF Before
      <4>1. PICK k \in len + 1 .. Len(q) : r[j] = q[k]
        BY <1>8
      <4>2. k \in 1 .. Len(q) /\ 1 \in 1 .. k - 1
        BY <1>1
      <4> QED
        BY <1>5, <4>1, <4>2 DEF InOrder
    <3>6. ASSUME Complete'
          PROVE  tcpRx'.kind = q[1].kind /\ tcpRx'.value = q[1].id
      <4>1. tcpRx'.kind \in WithData /\ len >= 2
        BY <1>3, <3>6 DEF Complete
      <4>2. q[1].kind \in WithData /\ tcpRx'.kind = q[1].kind
        BY <3>1, <4>1 DEF WithData, Requests
      <4>3. Open(q[1])
        BY <2>8, <4>2 DEF Open, WithData
      <4>4. q[2].id = q[1].id
        BY <1>5, <2>6, <4>1, <4>3 DEF Together
      <4> QED
        BY <1>1, <3>1, <4>1, <4>2, <4>4
    <3>7. tcpRx'.id = q[1].id
      BY <3>1
    <3> QED
      BY <1>3, <2>7, <3>3, <3>4, <3>5, <3>6, <3>7 DEF InHand, r
  <2>9. CASE q[1].part # "head"
    <3>1. len >= 2 => tcpRx'.kind = "none"
      <4>1. text[1] = q[1]
        BY <2>3, <2>5
      <4> QED
        BY <1>1, <2>1, <2>3, <2>9, <4>1 DEF Laid
    <3>2. ~Zeros' /\ ~Complete'
      BY <1>3, <3>1 DEF Zeros, Complete, WithData, Requests
    <3> QED
      BY <3>2 DEF InHand
  <2> QED
    BY <2>8, <2>9
<1>15. InHand'
  BY <1>14 DEF InHand
<1> QED
  BY <1>9, <1>11, <1>12, <1>13, <1>15 DEF WriteInv

\* A write is made only if it is the next and its value is its own.
LEMMA HandleKeeps ==
    ASSUME TypeOK, WriteInv, turn = "tcpHandle", turn' = "isapi", TcpHandle
    PROVE  WriteInv'
<1>1. UNCHANGED <<inbox, asked, child, half>>
  BY DEF TcpHandle, Forget, chipWorld
<1>2. StreamOrdered' /\ Measured' /\ InHand'
  BY <1>1 DEF WriteInv, StreamOrdered, Measured, InHand, Stream
<1>3. applied \in Seq([id : 0 .. MaxMessages, value : 0 .. MaxMessages]) /\ Len(applied) \in Nat
  BY LenProperties DEF TypeOK, TcpTypeOK
<1>4. CASE UNCHANGED applied
  BY <1>1, <1>2, <1>4 DEF WriteInv, Older, WritesIntact, Stream
<1>5. CASE applied' # applied
  <2> DEFINE w == [id |-> tcpRx.id, value |-> tcpRx.value]
  <2>1. Complete /\ sure /\ applied' = Append(applied, w)
    BY <1>5 DEF TcpHandle, Drop, ReadRegister, Refuse, WriteRegister
  <2>2. w \in [id : 0 .. MaxMessages, value : 0 .. MaxMessages]
    BY DEF TypeOK, TcpTypeOK, Front
  <2>3. /\ tcpRx.id \in 1 .. Len(asked) /\ tcpRx.value = tcpRx.id
        /\ \A k \in 1 .. Len(applied) : applied[k].id < tcpRx.id
        /\ Before(tcpRx.id, Stream)
    BY <2>1 DEF WriteInv, InHand
  <2>4. w.value = w.id
    BY <2>3
  <2>5. /\ \A k \in 1 .. Len(applied) : applied[k].id < w.id
        /\ Before(w.id, Stream)
    BY <2>3
  <2>6. w.id <= Len(asked)
    <3>1. Len(asked) \in Nat
      BY LenProperties DEF TypeOK, ChipTypeOK
    <3> QED
      BY <2>3, <3>1
  <2> HIDE DEF w
  <2>7. /\ Len(applied') = Len(applied) + 1 /\ applied'[Len(applied) + 1] = w
        /\ \A k \in 1 .. Len(applied) : applied'[k] = applied[k]
    BY <1>3, <2>1, <2>2, AppendProperties
  <2>8. Older'
    <3> SUFFICES ASSUME NEW k \in 1 .. Len(applied')
                 PROVE  applied'[k].id <= Len(asked) /\ Before(applied'[k].id, Stream)
      BY <1>1 DEF Older, Stream
    <3>1. CASE k \in 1 .. Len(applied)
      BY <2>7, <3>1 DEF WriteInv, Older
    <3>2. CASE k = Len(applied) + 1
      BY <2>5, <2>6, <2>7, <3>2
    <3> QED
      BY <1>3, <2>7, <3>1, <3>2
  <2>9. WritesIntact'
    <3>1. DOMAIN applied = 1 .. Len(applied) /\ DOMAIN applied' = 1 .. Len(applied')
      <4>1. applied' \in Seq([id : 0 .. MaxMessages, value : 0 .. MaxMessages])
        BY <1>3, <2>1, <2>2, AppendProperties
      <4> QED
        BY <1>3, <4>1, LenProperties
    <3> SUFFICES ASSUME NEW i \in 1 .. Len(applied')
                 PROVE  /\ applied'[i].value = applied'[i].id
                        /\ \A j \in 1 .. i - 1 : applied'[j].id < applied'[i].id
      BY <3>1 DEF WritesIntact
    <3>2. \A j \in 1 .. i - 1 : j \in 1 .. Len(applied)
      BY <1>3, <2>7
    <3>3. CASE i \in 1 .. Len(applied)
      BY <2>7, <3>1, <3>2, <3>3 DEF WriteInv, WritesIntact
    <3>4. CASE i = Len(applied) + 1
      BY <2>4, <2>5, <2>7, <3>2, <3>4
    <3> QED
      BY <1>3, <2>7, <3>3, <3>4
  <2> QED
    BY <1>2, <2>8, <2>9 DEF WriteInv
<1> QED
  BY <1>4, <1>5

Part(id, kind, part) == [id |-> id, kind |-> kind, part |-> part]

\* A request in one part or two goes behind what is there.
LEMMA PiecesBehind ==
    ASSUME NEW q \in Seq(Piece), NEW id \in 0 .. MaxMessages, NEW kind \in Requests \cup Pages
    PROVE  /\ Part(id, kind, "head") \in Piece /\ Part(id, kind, "rest") \in Piece
           /\ q \o Pieces(id, kind, <<"head">>) = Append(q, Part(id, kind, "head"))
           /\ q \o Pieces(id, kind, <<"head", "rest">>)
                 = Append(Append(q, Part(id, kind, "head")), Part(id, kind, "rest"))
<1> DEFINE a == Part(id, kind, "head")
           b == Part(id, kind, "rest")
<1>1. a \in Piece /\ b \in Piece
  BY DEF Part, Piece
<1>2. Pieces(id, kind, <<"head">>) = <<a>>
  BY DEF Pieces, Part
<1>3. Pieces(id, kind, <<"head", "rest">>) = <<a, b>>
  BY DEF Pieces, Part
<1> HIDE DEF a, b
<1>4. q \o <<a>> = Append(q, a)
  BY <1>1
<1>5. q \o <<a, b>> = Append(Append(q, a), b)
  BY <1>1
<1> QED
  BY <1>1, <1>2, <1>3, <1>4, <1>5 DEF a, b

LEMMA AskKeeps ==
    ASSUME TypeOK, InboxAsked, WriteInv, UNCHANGED turn,
           NEW kind \in Requests, TcpAsk(kind)
    PROVE  WriteInv'
<1> DEFINE n == Len(asked) + 1
           q == Stream
           a == Part(n, kind, "head")
           b == Part(n, kind, "rest")
<1>1. /\ q \in Seq(Piece) /\ Len(q) \in Nat
      /\ inbox \in [Sockets -> Seq(Piece)] /\ child \in BOOLEAN
      /\ asked \in Seq(Requests \cup Pages) /\ Len(asked) \in Nat
  BY LenProperties DEF Stream, TypeOK, ChipTypeOK, ClientSock, Sockets
<1>2. PICK parts \in {<<"head">>, <<"head", "rest">>} :
         /\ Ask(ListenSock, kind, parts)
         /\ \/ half' = 0 /\ parts = <<"head">> /\ kind = "short"
            \/ half' = 0 /\ parts = <<"head", "rest">>
            \/ half' = n /\ parts = <<"head">>
  BY DEF TcpAsk
<1>3. UNCHANGED <<tcpRx, applied, child, len, sure>> /\ half = 0
  BY <1>2 DEF TcpAsk, tcpServer, Ask, chipWorld
<1>4. /\ Len(asked') = n /\ Len(asked) < n /\ 0 < n
      /\ n \in 0 .. MaxMessages
      /\ \A i \in 1 .. Len(asked) : i \in 1 .. Len(asked') /\ asked'[i] = asked[i]
  BY <1>1, <1>2, AppendProperties, ChipAssumption DEF Ask
<1>5. InOrder(q) /\ Together(q) /\ Ending(q, 0) /\ (~child => q = <<>>)
  BY <1>3 DEF WriteInv, StreamOrdered
<1>6. /\ a \in Piece /\ b \in Piece
      /\ q \o Pieces(n, kind, <<"head">>) = Append(q, a)
      /\ q \o Pieces(n, kind, <<"head", "rest">>) = Append(Append(q, a), b)
  BY <1>1, <1>4, PiecesBehind
<1>7. \A i \in 1 .. Len(q) : q[i].id < n
  <2> TAKE i \in 1 .. Len(q)
  <2>1. q[i].id = 0 \/ q[i].id \in 1 .. Len(asked)
    BY DEF InboxAsked, Asked, Cut, Stream, ClientSock, Sockets
  <2> QED
    BY <1>1, <2>1
<1>8. child => Stream' = q \o Pieces(n, kind, parts)
  BY <1>1, <1>2 DEF Ask, Stream, Landing, ListenSock, ClientSock, Sockets
<1>9. ~child => Stream' = q
  BY <1>1, <1>2 DEF Ask, Stream, Landing, ListenSock, ClientSock, Sockets
<1>10. /\ a.id = n /\ a.part = "head" /\ (kind = "short" => ~Open(a))
       /\ b.id = n /\ b.part = "rest" /\ ~Open(b)
  BY DEF Part, Open
<1>11. WritesIntact'
  BY <1>3 DEF WriteInv, WritesIntact
<1> HIDE DEF a, b, q, n
<1>12. /\ Append(q, a) \in Seq(Piece)
       /\ Len(Append(q, a)) = Len(q) + 1
       /\ Append(q, a)[Len(q) + 1] = a
       /\ \A i \in 1 .. Len(q) : Append(q, a)[i] = q[i]
       /\ InOrder(Append(q, a)) /\ Together(Append(q, a)) /\ Append(q, a) # <<>>
  <2>1. q # <<>> => ~Open(q[Len(q)])
    BY <1>5 DEF Ending
  <2> QED
    BY <1>1, <1>4, <1>5, <1>6, <1>7, <1>10, <2>1, AppendOrdered
<1>13. CASE ~child
  <2>1. q = <<>> /\ Stream' = q
    BY <1>5, <1>9, <1>13
  <2>2. StreamOrdered'
    BY <1>3, <1>5, <1>13, <2>1 DEF StreamOrdered, Ending, q
  <2>3. Measured'
    BY <1>3, <2>1 DEF WriteInv, Measured, q
  <2>4. Older'
    <3> SUFFICES ASSUME NEW k \in 1 .. Len(applied)
                 PROVE  applied[k].id <= Len(asked') /\ Before(applied[k].id, Stream')
      BY <1>3 DEF Older, Before
    <3>1. applied[k].id <= Len(asked) /\ Before(applied[k].id, q)
      BY DEF WriteInv, Older, q
    <3>2. applied[k].id \in Nat
      <4>1. applied[k] \in [id : 0 .. MaxMessages, value : 0 .. MaxMessages]
        BY ElementOfSeq DEF TypeOK, TcpTypeOK
      <4> QED
        BY <4>1, ChipAssumption
    <3> QED
      BY <1>1, <1>4, <2>1, <3>1, <3>2
  <2>5. InHand'
    <3>1. Stream' = Stream /\ UNCHANGED <<turn, len, sure, tcpRx, applied>>
      BY <1>3, <2>1 DEF q
    <3> QED
      BY <1>4, <3>1, HandStays DEF WriteInv
  <2> QED
    BY <1>11, <2>2, <2>3, <2>4, <2>5 DEF WriteInv
<1>14. CASE child
  <2> DEFINE r == Stream'
  <2>1. /\ r \in Seq(Piece) /\ Len(r) \in Nat /\ Len(q) < Len(r)
        /\ InOrder(r) /\ Together(r) /\ Ending(r, half')
        /\ \A j \in 1 .. Len(q) : r[j] = q[j]
        /\ \A j \in 1 .. Len(r) : j > Len(q) => r[j].id = n
    <3>1. CASE parts = <<"head">>
      <4>1. r = Append(q, a)
        BY <1>6, <1>8, <1>14, <3>1
      <4>2. r[Len(r)] = a
        BY <1>12, <4>1
      <4>3. Ending(r, half')
        BY <1>2, <1>4, <1>10, <3>1, <4>2 DEF Ending
      <4> QED
        BY <1>1, <1>10, <1>12, <4>1, <4>3
    <3>2. CASE parts = <<"head", "rest">>
      <4> DEFINE s == Append(q, a)
      <4>0. s[Len(s)].id = b.id /\ Len(s) = Len(q) + 1
        BY <1>10, <1>12
      <4> HIDE DEF s
      <4>1. r = Append(s, b)
        BY <1>6, <1>8, <1>14, <3>2 DEF s
      <4>2. s \in Seq(Piece) /\ InOrder(s) /\ Together(s)
        BY <1>12 DEF s
      <4>3. /\ r \in Seq(Piece) /\ Len(r) = Len(s) + 1 /\ r[Len(s) + 1] = b
            /\ \A i \in 1 .. Len(s) : r[i] = s[i]
            /\ InOrder(r) /\ Together(r)
        BY <1>6, <1>10, <4>0, <4>1, <4>2, AppendOrdered
      <4>4. Ending(r, half')
        <5>1. r[Len(r)] = b /\ half' = 0
          BY <1>2, <3>2, <4>3
        <5> QED
          BY <1>10, <5>1 DEF Ending
      <4>5. \A j \in 1 .. Len(q) : r[j] = q[j]
        BY <1>1, <1>12, <4>0, <4>3 DEF s
      <4>6. \A j \in 1 .. Len(r) : j > Len(q) => r[j].id = n
        BY <1>1, <1>10, <1>12, <4>0, <4>3 DEF s
      <4> QED
        BY <1>1, <4>0, <4>3, <4>4, <4>5, <4>6
    <3> QED
      BY <3>1, <3>2
  <2> HIDE DEF r
  <2>2. ASSUME NEW id \in Nat, id < n, Before(id, q) PROVE Before(id, r)
    <3> SUFFICES ASSUME NEW j \in 1 .. Len(r), r[j].part = "head" PROVE id < r[j].id
      BY DEF Before
    <3>1. CASE j \in 1 .. Len(q)
      BY <2>1, <2>2, <3>1 DEF Before
    <3>2. CASE j > Len(q)
      BY <2>1, <2>2, <3>2
    <3> QED
      BY <1>1, <2>1, <3>1, <3>2
  <2>3. StreamOrdered'
    BY <1>3, <1>14, <2>1 DEF StreamOrdered, r
  <2>4. Measured'
    <3>1. turn = "tcpRead" /\ sure => len <= Len(q)
      BY DEF WriteInv, Measured, q
    <3>2. len \in Nat
      BY DEF TypeOK, ChipTypeOK
    <3>3. turn = "tcpRead" /\ sure => len <= Len(r)
      BY <1>1, <2>1, <3>1, <3>2
    <3> QED
      BY <1>3, <3>3 DEF Measured, r
  <2>5. Older'
    <3> SUFFICES ASSUME NEW k \in 1 .. Len(applied)
                 PROVE  applied[k].id <= Len(asked') /\ Before(applied[k].id, r)
      BY <1>3 DEF Older, Before, r
    <3>1. applied[k].id <= Len(asked) /\ Before(applied[k].id, q)
      BY DEF WriteInv, Older, q
    <3>2. applied[k].id \in Nat
      <4>1. applied[k] \in [id : 0 .. MaxMessages, value : 0 .. MaxMessages]
        BY ElementOfSeq DEF TypeOK, TcpTypeOK
      <4> QED
        BY <4>1, ChipAssumption
    <3>3. applied[k].id <= n /\ applied[k].id < n
      BY <1>1, <1>4, <3>1, <3>2
    <3> QED
      BY <1>4, <2>2, <3>1, <3>2, <3>3
  <2>6. InHand'
    <3>1. \A id \in 1 .. Len(asked) : Before(id, Stream) => Before(id, Stream')
      <4> TAKE id \in 1 .. Len(asked)
      <4>1. id \in Nat /\ id < n
        BY <1>1, <1>4
      <4> QED
        BY <2>2, <4>1 DEF q, r
    <3> QED
      BY <1>3, <1>4, <3>1, HandStays DEF WriteInv
  <2> QED
    BY <1>11, <2>3, <2>4, <2>5, <2>6 DEF WriteInv
<1> QED
  BY <1>13, <1>14

LEMMA FinishKeeps ==
    ASSUME TypeOK, WriteInv, UNCHANGED turn, FinishRequest
    PROVE  WriteInv'
<1> DEFINE q == Stream
           b == Part(half, asked[half], "rest")
           r == Stream'
<1>1. /\ q \in Seq(Piece) /\ Len(q) \in Nat
      /\ inbox \in [Sockets -> Seq(Piece)] /\ child \in BOOLEAN
      /\ asked \in Seq(Requests \cup Pages) /\ Len(asked) \in Nat
  BY LenProperties DEF Stream, TypeOK, ChipTypeOK, ClientSock, Sockets
<1>2. UNCHANGED <<asked, tcpRx, applied, child, len, sure>> /\ half # 0 /\ half' = 0
  BY DEF FinishRequest, tcpServer, chipWorld
<1>3. b \in Piece /\ b.id = half /\ b.part = "rest" /\ ~Open(b)
  <2>1. half \in 1 .. Len(asked) /\ half \in 0 .. MaxMessages
    BY <1>1, <1>2, ChipAssumption DEF TypeOK, TcpTypeOK, ChipTypeOK
  <2>2. asked[half] \in Requests \cup Pages
    BY <1>1, <2>1, ElementOfSeq
  <2> QED
    BY <2>1, <2>2 DEF Part, Piece, Open
<1>4. InOrder(q) /\ Together(q) /\ Ending(q, half) /\ (~child => q = <<>>)
  BY DEF WriteInv, StreamOrdered
<1>5. WritesIntact'
  BY <1>2 DEF WriteInv, WritesIntact
<1>6. r = IF child THEN Append(q, b) ELSE q
  BY <1>1 DEF FinishRequest, Stream, Landing, ListenSock, ClientSock, Sockets, Part
<1> HIDE DEF q, b, r
<1>7. /\ Append(q, b) \in Seq(Piece)
      /\ Len(Append(q, b)) = Len(q) + 1
      /\ Append(q, b)[Len(q) + 1] = b
      /\ \A i \in 1 .. Len(q) : Append(q, b)[i] = q[i]
      /\ InOrder(Append(q, b)) /\ Together(Append(q, b))
  <2>1. q # <<>> /\ Open(q[Len(q)]) => q[Len(q)].id = b.id
    BY <1>2, <1>3, <1>4 DEF Ending
  <2> QED
    BY <1>1, <1>3, <1>4, <2>1, AppendOrdered
<1>8. StreamOrdered'
  <2>1. InOrder(r) /\ Together(r) /\ (~child => r = <<>>)
    BY <1>4, <1>6, <1>7
  <2>2. Ending(r, 0)
    <3>1. CASE child
      <4>1. r[Len(r)] = b
        BY <1>6, <1>7, <3>1
      <4> QED
        BY <1>3, <4>1 DEF Ending
    <3>2. CASE ~child
      BY <1>4, <1>6, <3>2 DEF Ending
    <3> QED
      BY <3>1, <3>2
  <2> QED
    BY <1>2, <2>1, <2>2 DEF StreamOrdered, r
<1>9. \A j \in 1 .. Len(r) : r[j].part = "head" => j \in 1 .. Len(q) /\ r[j] = q[j]
  BY <1>1, <1>3, <1>6, <1>7
<1>10. \A id : Before(id, q) => Before(id, r)
  BY <1>9 DEF Before
<1>11. Older'
  BY <1>2, <1>10 DEF WriteInv, Older, q, r
<1>12. InHand'
  <2>1. \A id \in 1 .. Len(asked) : Before(id, Stream) => Before(id, Stream')
    BY <1>10 DEF q, r
  <2> QED
    BY <1>2, <2>1, HandStays DEF WriteInv
<1>13. Measured'
  <2>1. turn = "tcpRead" /\ sure => len <= Len(q)
    BY DEF WriteInv, Measured, q
  <2>2. len \in Nat
    BY DEF TypeOK, ChipTypeOK
  <2>3. Len(r) = Len(q) \/ Len(r) = Len(q) + 1
    BY <1>6, <1>7
  <2>4. turn = "tcpRead" /\ sure => len <= Len(r)
    BY <1>1, <2>1, <2>2, <2>3
  <2> QED
    BY <1>2, <2>4 DEF Measured, r
<1> QED
  BY <1>5, <1>8, <1>11, <1>12, <1>13 DEF WriteInv

LEMMA WriteInvInit == Init => WriteInv
<1> SUFFICES ASSUME Init PROVE WriteInv
  OBVIOUS
<1>1. Stream = <<>> /\ applied = <<>> /\ turn = "master"
  BY DEF Init, ChipInit, TcpInit, Stream, ClientSock, Sockets
<1>2. Len(Stream) = 0 /\ Len(applied) = 0
  BY <1>1, EmptySeq
<1>3. StreamOrdered
  BY <1>1, <1>2 DEF StreamOrdered, InOrder, Together, Ending
<1>4. Measured /\ Older /\ InHand
  BY <1>1, <1>2 DEF Measured, Older, InHand
<1>5. WritesIntact
  BY <1>1 DEF WritesIntact
<1> QED
  BY <1>3, <1>4, <1>5 DEF WriteInv

LEMMA WriteInvHolds == Spec => [](TypeOK /\ WriteInv)
<1>1. Init => WriteInv
  BY WriteInvInit
<1>2. TypeOK /\ InboxAsked /\ WriteInv /\ [Next]_vars => WriteInv'
  BY StreamSteps, AskedStays, QuietKeeps, PollKeeps, ReadKeeps, HandleKeeps, AskKeeps,
     FinishKeeps
<1> QED
  BY <1>1, <1>2, AskedAlways, PTL DEF Spec

\* From receptions that bring what the chip holds, no write of port 502 is made twice,
\* out of order or with a value out of another request, for any number of requests,
\* sent in any parts: what s_tcp_rx still holds of earlier receptions, good or not,
\* never passes for part of what a good one brought.  A reception that is not good may
\* repeat a write, and such writes are not in applied.
THEOREM WritesStayIntact == Spec => []WritesIntact
<1>1. WriteInv => WritesIntact
  BY DEF WriteInv
<1> QED
  BY <1>1, WriteInvHolds, PTL
-----------------------------------------------------------------------------
(* What the server on port 502 answers                                     *)

AnswersAsked == \A a \in answers : a.id \in 1 .. Len(asked)

\* A reply to a good reception is to the request it brought.
LEMMA ReplyFor ==
    ASSUME TypeOK, WriteInv, turn = "tcpHandle", TcpHandle
    PROVE  /\ UNCHANGED asked
           /\ \A i \in DOMAIN applied : i \in DOMAIN applied' /\ applied'[i] = applied[i]
           /\ \A a \in answers' \ answers :
                 /\ a.id \in 1 .. Len(asked)
                 /\ a.what = "echo" =>
                        /\ asked[a.id] = "write" /\ a.value = a.id
                        /\ \E i \in DOMAIN applied' : applied'[i].id = a.id
                 /\ a.what = "value" => asked[a.id] = "read"
                 /\ a.what = "exception" => asked[a.id] = "refused"
<1>1. UNCHANGED asked
  BY DEF TcpHandle, Forget
<1>2. /\ sure => ~Zeros
      /\ sure /\ Complete => /\ tcpRx.id \in 1 .. Len(asked) /\ tcpRx.kind = asked[tcpRx.id]
                             /\ tcpRx.value = tcpRx.id
  BY DEF WriteInv, InHand
<1>3. ASSUME NEW id, NEW what, NEW value, Reply(id, what, value)
      PROVE  \A a \in answers' \ answers : sure /\ a.id = id /\ a.what = what /\ a.value = value
  BY <1>3 DEF Reply
<1>4. applied \in Seq([id : 0 .. MaxMessages, value : 0 .. MaxMessages])
  BY DEF TypeOK, TcpTypeOK
<1>5. CASE Drop
  BY <1>1, <1>5 DEF Drop
<1>6. CASE WriteRegister
  <2> DEFINE w == [id |-> tcpRx.id, value |-> tcpRx.value]
  <2>1. w \in [id : 0 .. MaxMessages, value : 0 .. MaxMessages] /\ w.id = tcpRx.id
    BY DEF TypeOK, TcpTypeOK, Front
  <2>2. applied' = IF sure THEN Append(applied, w) ELSE applied
    BY <1>6 DEF WriteRegister
  <2> HIDE DEF w
  <2>3. \A i \in DOMAIN applied : i \in DOMAIN applied' /\ applied'[i] = applied[i]
    <3>1. CASE sure
      <4>1. /\ Append(applied, w) \in Seq([id : 0 .. MaxMessages, value : 0 .. MaxMessages])
            /\ Len(Append(applied, w)) = Len(applied) + 1
            /\ \A i \in 1 .. Len(applied) : Append(applied, w)[i] = applied[i]
        BY <1>4, <2>1, AppendProperties
      <4>2. DOMAIN applied = 1 .. Len(applied) /\ Len(applied) \in Nat
        BY <1>4, LenProperties
      <4>3. DOMAIN Append(applied, w) = 1 .. Len(applied) + 1
        BY <4>1, LenProperties
      <4> QED
        BY <2>2, <3>1, <4>1, <4>2, <4>3
    <3>2. CASE ~sure
      BY <2>2, <3>2
    <3> QED
      BY <3>1, <3>2
  <2>4. sure => \E i \in DOMAIN applied' : applied'[i].id = tcpRx.id
    <3> SUFFICES ASSUME sure PROVE \E i \in DOMAIN applied' : applied'[i].id = tcpRx.id
      OBVIOUS
    <3>1. /\ applied' \in Seq([id : 0 .. MaxMessages, value : 0 .. MaxMessages])
          /\ Len(applied') = Len(applied) + 1 /\ applied'[Len(applied) + 1] = w
      BY <1>4, <2>1, <2>2, AppendProperties
    <3>2. Len(applied) + 1 \in DOMAIN applied'
      BY <1>4, <3>1, LenProperties
    <3> QED
      BY <2>1, <3>1, <3>2
  <2>5. \A a \in answers' \ answers :
           sure /\ a.id = tcpRx.id /\ a.what = "echo" /\ a.value = tcpRx.value
    BY <1>3, <1>6 DEF WriteRegister
  <2>6. Complete /\ tcpRx.kind = "write"
    BY <1>6 DEF WriteRegister
  <2>7. ASSUME NEW a \in answers' \ answers
        PROVE  /\ a.id \in 1 .. Len(asked)
               /\ a.what = "echo" /\ asked[a.id] = "write" /\ a.value = a.id
               /\ \E i \in DOMAIN applied' : applied'[i].id = a.id
    BY <1>2, <2>4, <2>5, <2>6
  <2> QED
    BY <1>1, <2>3, <2>7
<1>7. CASE ReadRegister
  <2>1. \A a \in answers' \ answers : sure /\ a.id = tcpRx.id /\ a.what = "value"
    BY <1>3, <1>7 DEF ReadRegister
  <2> QED
    BY <1>1, <1>2, <1>7, <2>1 DEF ReadRegister
<1>8. CASE Refuse
  <2>1. \A a \in answers' \ answers : sure /\ a.id = tcpRx.id /\ a.what = "exception"
    BY <1>3, <1>8 DEF Refuse
  <2> QED
    BY <1>1, <1>2, <1>8, <2>1 DEF Refuse
<1> QED
  BY <1>5, <1>6, <1>7, <1>8 DEF TcpHandle

\* Whatever earlier receptions left in s_tcp_rx and in the chip, what the server sends
\* after one that brings what the chip holds answers the request whose id it has: an
\* echo a write that was made, with its value, a value a read, an exception a request
\* that deserves it.  Nothing is said of replies to receptions that are not good.
THEOREM AnswersAlwaysMatch == Spec => []AnswersMatch
<1>1. Init => AnswersAsked /\ AnswersMatch
  BY DEF Init, TcpInit, AnswersAsked, AnswersMatch
<1>2. TypeOK /\ WriteInv /\ AnswersAsked /\ AnswersMatch /\ [Next]_vars
      => (AnswersAsked /\ AnswersMatch)'
  <2> SUFFICES ASSUME TypeOK, WriteInv, AnswersAsked, AnswersMatch, [Next]_vars
               PROVE  AnswersAsked' /\ AnswersMatch'
    OBVIOUS
  <2>1. /\ Len(asked) \in Nat
        /\ \A i \in 1 .. Len(asked) : i \in 1 .. Len(asked') /\ asked'[i] = asked[i]
    <3>1. /\ Len(asked) \in Nat /\ Len(asked') \in Nat /\ Len(asked) <= Len(asked')
          /\ \A i \in 1 .. Len(asked) : asked'[i] = asked[i]
      BY AskedStays
    <3> QED
      BY <3>1
  <2>2. CASE UNCHANGED <<applied, answers>>
    <3>1. AnswersAsked'
      BY <2>1, <2>2 DEF AnswersAsked
    <3> SUFFICES AnswersMatch'
      BY <3>1
    <3>2. \A a \in answers : asked'[a.id] = asked[a.id]
      BY <2>1 DEF AnswersAsked
    <3> QED
      BY <2>2, <3>2 DEF AnswersMatch
  <2>3. CASE turn = "tcpHandle" /\ TcpHandle
    <3>1. /\ UNCHANGED asked
          /\ \A i \in DOMAIN applied : i \in DOMAIN applied' /\ applied'[i] = applied[i]
          /\ \A a \in answers' \ answers :
                /\ a.id \in 1 .. Len(asked)
                /\ a.what = "echo" =>
                       /\ asked[a.id] = "write" /\ a.value = a.id
                       /\ \E i \in DOMAIN applied' : applied'[i].id = a.id
                /\ a.what = "value" => asked[a.id] = "read"
                /\ a.what = "exception" => asked[a.id] = "refused"
      BY <2>3, ReplyFor
    <3>2. ASSUME NEW a \in answers'
          PROVE  /\ a.id \in 1 .. Len(asked)
                 /\ a.what = "echo" =>
                        /\ asked[a.id] = "write" /\ a.value = a.id
                        /\ \E i \in DOMAIN applied' : applied'[i].id = a.id
                 /\ a.what = "value" => asked[a.id] = "read"
                 /\ a.what = "exception" => asked[a.id] = "refused"
      <4>1. CASE a \notin answers
        BY <3>1, <4>1
      <4>2. CASE a \in answers
        <5>1. a.id \in 1 .. Len(asked)
          BY <4>2 DEF AnswersAsked
        <5>2. /\ a.what = "echo" =>
                     /\ asked[a.id] = "write" /\ a.value = a.id
                     /\ \E i \in DOMAIN applied : applied[i].id = a.id
              /\ a.what = "value" => asked[a.id] = "read"
              /\ a.what = "exception" => asked[a.id] = "refused"
          BY <4>2 DEF AnswersMatch
        <5>3. a.what = "echo" => \E i \in DOMAIN applied' : applied'[i].id = a.id
          BY <3>1, <5>2
        <5> QED
          BY <5>1, <5>2, <5>3
      <4> QED
        BY <4>1, <4>2
    <3>3. \A a \in answers' : a.id # 0
      <4> TAKE a \in answers'
      <4>1. a.id \in 1 .. Len(asked)
        BY <3>2
      <4> QED
        BY <2>1, <4>1
    <3> QED
      BY <3>1, <3>2, <3>3 DEF AnswersAsked, AnswersMatch
  <2> QED
    BY <2>2, <2>3, WhatChanges
<1> QED
  BY <1>1, <1>2, WriteInvHolds, PTL DEF Spec
=============================================================================
