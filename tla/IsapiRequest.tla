---------------------------- MODULE IsapiRequest ----------------------------
(***************************************************************************)
(* The request that IsapiClient pushes: build_osd_text, the text that the  *)
(* camera shows, and base64_encode, its authorisation.  A value is the     *)
(* readings of a sensor's data points; the name of a point is one          *)
(* character of the text here.                                             *)
(***************************************************************************)
EXTENDS IsapiClient, Utils

CONSTANTS
    Name,       \* of each data point
    Divisor     \* scale_divisor of each

Layout == {":", ","}    \* what stands between names and numbers

Is32Bits(n) == -2147483647 - 1 <= n /\ n <= 2147483647

\* The names of a sensor's points differ, as those of Config_GetDefault do, and are not
\* taken for numbers.
ASSUME RequestAssumption ==
    /\ Value \subseteq Seq(Int)
    /\ \A v \in Value : Len(v) = Len(Name) /\ \A i \in 1 .. Len(v) : Is32Bits(v[i])
    /\ Divisor \in Seq(Nat) /\ Len(Divisor) = Len(Name)
    /\ \A i \in 1 .. Len(Name) : Divisor[i] < 65536
    /\ Name \in Seq({Name[i] : i \in 1 .. Len(Name)})
    /\ \A i, j \in 1 .. Len(Name) : Name[i] = Name[j] => i = j
    /\ \A i \in 1 .. Len(Name) : Name[i] \notin Figures \cup {"-", "."} \cup Layout

\* Faulty variant of Reading: numbers without decimals are printed as unsigned.
ReadingUnsigned(raw, divisor) ==
    IF divisor <= 1 THEN Uint16ToStr(ToUint16(raw)) ELSE FloatToStr(raw, divisor)

\* How a reading is shown; what does not fit into 16 bits is cut.
Reading(raw, divisor) ==
    IF divisor <= 1 THEN Int16ToStr(ToInt16(raw)) ELSE FloatToStr(raw, divisor)

\* What build_osd_text appends for data point di
Entry(v, di) ==
    <<Name[di], ":">> \o Reading(v[di], Divisor[di])
        \o (IF di < Len(v) THEN <<",">> ELSE <<>>)

\* The text after each round of its loop; 8 points of the longest names and numbers
\* still fit into osd_text.
Osd(v) ==
    LET upTo[di \in 0 .. Len(v)] == IF di = 0 THEN <<>> ELSE upTo[di - 1] \o Entry(v, di)
    IN  upTo

OsdText(v) == Osd(v)[Len(v)]
-----------------------------------------------------------------------------
(* base64_encode.  Its characters are their numbers in b64_table.          *)

Pad == 64

\* A round of the loop makes four characters of three bytes.  i stops at the end of
\* src, so that the two comparisons that are to write the padding never hold.
Base64Encode(src) ==
    LET n == Len(src)
        byte(k) == IF k <= n THEN src[k] ELSE 0
        triple(g) == 65536 * byte(3 * g + 1) + 256 * byte(3 * g + 2) + byte(3 * g + 3)
        i(g) == IF 3 * g + 3 < n THEN 3 * g + 3 ELSE n
        char(g, c) ==
            CASE c = 0 -> triple(g) \div 262144
              [] c = 1 -> (triple(g) \div 4096) % 64
              [] c = 2 -> IF i(g) > n + 1 THEN Pad ELSE (triple(g) \div 64) % 64
              [] c = 3 -> IF i(g) > n THEN Pad ELSE triple(g) % 64
    IN  [j \in 1 .. 4 * ((n + 2) \div 3) |-> char((j - 1) \div 4, (j - 1) % 4)]

\* What Base64 stands for: the bytes whose bits the characters in front of the padding
\* are, as many as they make whole.
Base64Decode(text) ==
    LET used == {k \in 1 .. Len(text) : \A j \in 1 .. k : text[j] # Pad}
        bytes == {k \in 1 .. Len(text) : (4 * k + 2) \div 3 \in used}
        char(k) == text[(4 * k + 2) \div 3 - 1]
        next(k) == text[(4 * k + 2) \div 3]
    IN  [k \in bytes |->
            CASE k % 3 = 1 -> 4 * char(k) + next(k) \div 16
              [] k % 3 = 2 -> 16 * (char(k) % 16) + next(k) \div 4
              [] k % 3 = 0 -> 64 * (char(k) % 4) + next(k)]
-----------------------------------------------------------------------------
(* What a reader makes of the text                                         *)

Abs(n) == IF n < 0 THEN -n ELSE n
Digit(c) == CHOOSE d \in 0 .. 9 : Chr(d) = c

\* The number that the figures make
Number[figures \in Seq(Figures \cup {"."})] ==
    IF figures = <<>> THEN 0
    ELSE LET front == SubSeq(figures, 1, Len(figures) - 1)
             last == figures[Len(figures)]
         IN  IF last = "." THEN Number[front] ELSE 10 * Number[front] + Digit(last)

\* The number a text stands for, in tenths
Unsigned(text) ==
    IF \E k \in 1 .. Len(text) : text[k] = "." THEN Number[text] ELSE 10 * Number[text]

Tenths(text) == IF Head(text) = "-" THEN -Unsigned(Tail(text)) ELSE Unsigned(text)

\* The number behind the name of point di
Shown(text, di) ==
    LET at(j) == CHOOSE k \in 1 .. Len(text) : text[k] = Name[j] IN
    Tenths(SubSeq(text, at(di) + 2, IF di = Len(Name) THEN Len(text) ELSE at(di + 1) - 2))

\* The numbers that are shown right: what is printed without decimals has to fit into
\* 16 bits, and larger quotients than these lose their tenths in the 24 bits of a float.
Tellable(raw, divisor) ==
    IF divisor <= 1 THEN ToInt16(raw) = raw ELSE Abs(raw) < 1048576

\* The text says raw / divisor, cut off behind the first decimal or a tenth below that.
Says(tenths, raw, divisor) ==
    /\ (tenths < 0) => (raw < 0)
    /\ Abs(tenths) * divisor <= 10 * Abs(raw)
    /\ 10 * Abs(raw) <= (Abs(tenths) + 1) * divisor

\* 23.3 is one of the numbers that come out a tenth too low, 23.5 is not.
ASSUME TenthLost ==
    FloatToStr(233, 10) = <<"2", "3", ".", "2">> /\ FloatToStr(235, 10) = <<"2", "3", ".", "5">>

\* ... and this one comes out too high.
ASSUME TenthGained == ~Says(Tenths(FloatToStr(2904904, 87)), 2904904, 87)

\* A camera that takes its updates tells its reader every value that was noted, by its
\* name, if no value changes between the check and the request and the number is one
\* that can be shown.  isapi_client.c:75: 'Format: "smoke:0,water:1,temp:23.5,humi:65.0"'.
CamerasTell ==
    reliable /\ calm =>
        \A c \in Cameras \ Unset :
            \/ state = "build" /\ curCam = c
            \/ \A di \in 1 .. Len(Name) :
                   Tellable(prev[c][di], Divisor[di]) =>
                      Says(Shown(OsdText(shown[c]), di), prev[c][di],
                           IF Divisor[di] = 0 THEN 1 ELSE Divisor[di])
=============================================================================
