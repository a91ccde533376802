------------------------- MODULE IsapiRequestProofs -------------------------
(***************************************************************************)
(* Proofs about the request that IsapiClient pushes: for every number and  *)
(* every divisor, what its text says, where the text of a sensor has it,   *)
(* and for all credentials what their Base64 decodes to; and about elapsed *)
(* time.                                                                   *)
(*                                                                         *)
(* The recursive functions of Utils and IsapiRequest are CHOOSE terms.     *)
(* That they satisfy their equations follows from Recursion, and what they *)
(* compute from Induction; both speak of sets and functions, not of        *)
(* operators, and rest on the numbers being well-founded.                  *)
(***************************************************************************)
EXTENDS IsapiRequest, IsapiClientProofs, WellFoundedInduction, SequenceTheorems

\* A set of numbers has a least one.
LEMMA Least ==
    ASSUME NEW T \in SUBSET Nat, T # {}
    PROVE  \E n \in T : \A m \in T : n <= m
<1>1. PICK n \in T : \A m \in T : <<m, n>> \notin OpToRel(<, Nat)
  BY WFMin, NatLessThanWellFounded, Zenon
<1>2. \A m \in T : ~(m < n)
  BY <1>1, Zenon DEF OpToRel
<1> QED
  BY <1>2

\* What holds of a number whenever it holds of all smaller ones holds of every number.
LEMMA Induction ==
    ASSUME NEW S \in SUBSET Nat,
           \A n \in Nat : (\A m \in 0 .. n - 1 : m \in S) => n \in S
    PROVE  S = Nat
<1> SUFFICES ASSUME Nat \ S # {} PROVE FALSE
  OBVIOUS
<1>1. PICK n \in Nat \ S : \A m \in Nat \ S : n <= m
  BY Least
<1> QED
  BY <1>1

\* ... and so does what holds of 0 and of the number behind each of which it holds.
LEMMA StepInduction ==
    ASSUME NEW S \in SUBSET Nat, 0 \in S, \A n \in S : n + 1 \in S
    PROVE  S = Nat
<1> SUFFICES ASSUME NEW n \in Nat, \A m \in 0 .. n - 1 : m \in S PROVE n \in S
  BY Induction
<1>1. CASE n = 0
  BY <1>1
<1>2. CASE n # 0
  <2>1. n - 1 \in S
    BY <1>2
  <2> QED
    BY <1>2, <2>1
<1> QED
  BY <1>1, <1>2

\* A recursion over X: the value at x in B is base[x], and step[x] makes any other
\* of the value at less[x], which is smaller.
IsRecursion(X, S, B, size, less, base, step) ==
    /\ B \in SUBSET X
    /\ size \in [X -> Nat]
    /\ less \in [X -> X]
    /\ base \in [B -> S]
    /\ step \in [X \ B -> [S -> S]]
    /\ \A x \in X \ B : size[less[x]] < size[x]

Solves(g, X, B, less, base, step) ==
    g = [x \in X |-> IF x \in B THEN base[x] ELSE step[x][g[less[x]]]]

\* The function so described exists.
LEMMA Recursion ==
    ASSUME NEW X, NEW S, NEW B, NEW size, NEW less, NEW base, NEW step,
           IsRecursion(X, S, B, size, less, base, step)
    PROVE  \E g \in [X -> S] : Solves(g, X, B, less, base, step)
<1> USE DEF IsRecursion, Solves
<1> DEFINE Small(n) == {x \in X : size[x] < n}
           Value1(h, x) == IF x \in B THEN base[x] ELSE step[x][h[less[x]]]
           Good(n) == {h \in [Small(n) -> S] : \A x \in Small(n) : h[x] = Value1(h, x)}
<1>1. \A n \in Nat : Good(n) # {}
  <2> DEFINE N == {n \in Nat : Good(n) # {}}
  <2>1. 0 \in N
    <3>1. Small(0) = {}
      OBVIOUS
    <3>2. [x \in Small(0) |-> base[x]] \in Good(0)
      BY <3>1
    <3> QED
      BY <3>2
  <2>2. ASSUME NEW n \in N PROVE n + 1 \in N
    <3>1. PICK h \in Good(n) : TRUE
      OBVIOUS
    <3> DEFINE h1 == [x \in Small(n + 1) |-> Value1(h, x)]
    <3>2. \A x \in Small(n + 1) \ B : less[x] \in Small(n)
      OBVIOUS
    <3>3. h1 \in [Small(n + 1) -> S]
      <4> SUFFICES ASSUME NEW x \in Small(n + 1) PROVE Value1(h, x) \in S
        OBVIOUS
      <4>1. CASE x \in B
        BY <4>1
      <4>2. CASE x \notin B
        BY <3>1, <3>2, <4>2
      <4> QED
        BY <4>1, <4>2
    <3>4. \A x \in Small(n) : h1[x] = h[x]
      BY <3>1
    <3>5. \A x \in Small(n + 1) : h1[x] = Value1(h1, x)
      BY <3>2, <3>4
    <3>6. h1 \in Good(n + 1)
      BY <3>3, <3>5
    <3>7. n + 1 \in Nat
      OBVIOUS
    <3> HIDE DEF Good, h1
    <3> QED
      BY <3>6, <3>7
  <2> HIDE DEF N
  <2>3. N = Nat
    BY <2>1, <2>2, StepInduction, N \in SUBSET Nat DEF N
  <2> QED
    BY <2>3 DEF N
<1>2. ASSUME NEW m \in Nat, NEW n \in Nat, NEW g \in Good(m), NEW h \in Good(n),
             NEW x \in Small(m), x \in Small(n)
      PROVE  g[x] = h[x]
  <2> DEFINE N == {k \in Nat : \A y \in Small(m) \cap Small(n) : size[y] = k => g[y] = h[y]}
  <2>1. ASSUME NEW k \in Nat, \A j \in 0 .. k - 1 : j \in N PROVE k \in N
    <3> SUFFICES ASSUME NEW y \in Small(m) \cap Small(n), size[y] = k PROVE g[y] = h[y]
      OBVIOUS
    <3>1. CASE y \in B
      BY <3>1
    <3>2. CASE y \notin B
      <4>1. less[y] \in Small(m) \cap Small(n) /\ size[less[y]] \in 0 .. k - 1
        BY <3>2
      <4>2. g[less[y]] = h[less[y]]
        BY <2>1, <4>1
      <4> QED
        BY <3>2, <4>2
    <3> QED
      BY <3>1, <3>2
  <2> HIDE DEF N
  <2>2. N = Nat
    BY <2>1, Induction, N \in SUBSET Nat DEF N
  <2>3. size[x] \in N
    BY <2>2
  <2> QED
    BY <1>2, <2>3 DEF N
<1> DEFINE At(n) == CHOOSE h : h \in Good(n)
           f == [x \in X |-> At(size[x] + 1)[x]]
<1>3. \A n \in Nat : At(n) \in Good(n)
  BY <1>1
<1> HIDE DEF At
<1>4. f \in [X -> S]
  <2> SUFFICES ASSUME NEW x \in X PROVE At(size[x] + 1)[x] \in S
    OBVIOUS
  <2>1. size[x] + 1 \in Nat /\ x \in Small(size[x] + 1)
    OBVIOUS
  <2>2. At(size[x] + 1) \in [Small(size[x] + 1) -> S]
    BY <1>3, <2>1
  <2> HIDE DEF Small
  <2> QED
    BY <2>1, <2>2
<1>5. ASSUME NEW x \in X PROVE f[x] = Value1(f, x)
  <2> DEFINE n == size[x] + 1
             m == size[less[x]] + 1
  <2>0. n \in Nat /\ x \in Small(n)
    OBVIOUS
  <2> HIDE DEF Good, Small, n
  <2>1. At(n) \in Good(n) /\ x \in Small(n)
    BY <1>3, <2>0
  <2> USE DEF Good, Small, n
  <2>2. CASE x \in B
    BY <2>1, <2>2
  <2>3. CASE x \notin B
    <3>1. less[x] \in X /\ m \in Nat /\ n \in Nat
      OBVIOUS
    <3>2. less[x] \in Small(n) /\ less[x] \in Small(m)
      BY <2>3, <3>1
    <3>3. At(m) \in Good(m)
      BY <1>3, <3>1
    <3> HIDE DEF Good, Small, m, n
    <3>4. At(n)[less[x]] = At(m)[less[x]]
      BY <1>2, <2>1, <3>1, <3>2, <3>3
    <3> USE DEF Good, Small, m, n
    <3>5. At(n)[less[x]] = f[less[x]]
      BY <3>1, <3>4
    <3> QED
      BY <2>1, <2>3, <3>5
  <2> QED
    BY <2>2, <2>3
<1> QED
  BY <1>4, <1>5


\* The same over the numbers, each value made of the one before.
SolvesInTurn(g, first, step) ==
    \A n \in Nat : g[n] = IF n = 0 THEN first ELSE step[n][g[n - 1]]

\* A recursion over the numbers, of which each value is made of the one before.
LEMMA NatRecursion ==
    ASSUME NEW S, NEW first \in S, NEW step \in [Nat -> [S -> S]]
    PROVE  \E g \in [Nat -> S] : SolvesInTurn(g, first, step)
<1> DEFINE size == [n \in Nat |-> n]
           less == [n \in Nat |-> IF n = 0 THEN 0 ELSE n - 1]
           base == [n \in {0} |-> first]
           later == [n \in Nat \ {0} |-> step[n]]
<1>1. IsRecursion(Nat, S, {0}, size, less, base, later)
  BY DEF IsRecursion
<1>2. PICK g \in [Nat -> S] : Solves(g, Nat, {0}, less, base, later)
  <2> HIDE DEF size, less, base, later
  <2> QED
    BY <1>1, Recursion, Zenon
<1>3. \A n \in Nat : g[n] = IF n \in {0} THEN base[n] ELSE later[n][g[less[n]]]
  BY <1>2, Zenon DEF Solves
<1>4. ASSUME NEW n \in Nat PROVE g[n] = IF n = 0 THEN first ELSE step[n][g[n - 1]]
  <2>1. CASE n = 0
    <3>1. g[n] = base[n]
      BY <1>3, <2>1
    <3> QED
      BY <2>1, <3>1
  <2>2. CASE n # 0
    <3>1. less[n] = n - 1 /\ later[n] = step[n]
      BY <2>2
    <3> HIDE DEF less, later
    <3> QED
      BY <1>3, <2>2, <3>1
  <2> QED
    BY <2>1, <2>2
<1> QED
  BY <1>4 DEF SolvesInTurn
-----------------------------------------------------------------------------
(* The recursive functions satisfy their equations.                        *)

\* The recursive functions of Utils satisfy their equations: the powers of two,
LEMMA TwoEquation ==
    /\ Two \in [Nat -> Nat]
    /\ \A e \in Nat : Two[e] = IF e = 0 THEN 1 ELSE 2 * Two[e - 1]
<1> DEFINE step == [e \in Nat |-> [t \in Nat |-> 2 * t]]
           Equation(g) == g = [e \in Nat |-> IF e = 0 THEN 1 ELSE 2 * g[e - 1]]
<1>1. step \in [Nat -> [Nat -> Nat]] /\ 1 \in Nat
  OBVIOUS
<1>2. PICK g \in [Nat -> Nat] : SolvesInTurn(g, 1, step)
  <2> HIDE DEF step
  <2> QED
    BY <1>1, NatRecursion
<1>3. ASSUME NEW e \in Nat PROVE g[e] = IF e = 0 THEN 1 ELSE 2 * g[e - 1]
  <2>1. g[e] = IF e = 0 THEN 1 ELSE step[e][g[e - 1]]
    BY <1>2, Zenon DEF SolvesInTurn
  <2>2. e # 0 => step[e][g[e - 1]] = 2 * g[e - 1]
    <3>1. e # 0 => g[e - 1] \in Nat
      OBVIOUS
    <3> QED
      BY <3>1
  <2> HIDE DEF step
  <2> QED
    BY <2>1, <2>2
<1>4. Equation(g)
  BY <1>3
<1>5. Equation(Two)
  <2> HIDE DEF step
  <2> QED
    BY <1>4, Zenon DEF Two
<1>6. \A e \in Nat : Two[e] = IF e = 0 THEN 1 ELSE 2 * Two[e - 1]
  BY <1>5, Zenon
<1>7. \A e \in Nat : Two[e] \in Nat
  <2> DEFINE N == {e \in Nat : Two[e] \in Nat}
  <2>1. 0 \in N /\ \A e \in N : e + 1 \in N
    BY <1>6
  <2> HIDE DEF N
  <2>2. N = Nat
    BY <2>1, StepInduction, N \in SUBSET Nat DEF N
  <2> QED
    BY <2>2 DEF N
<1>8. Two = [e \in Nat |-> Two[e]]
  BY <1>5
<1> QED
  BY <1>6, <1>7, <1>8

\* long division,
LEMMA DivisionEquation ==
    ASSUME NEW n \in Nat, NEW d \in Nat \ {0}
    PROVE  LET after == LongDivision(n, d) IN
           /\ after[0].q = n \div d /\ after[0].rest = n % d
           /\ \A e \in Nat :
                  /\ after[e + 1].q = 2 * after[e].q + (2 * after[e].rest) \div d
                  /\ after[e + 1].rest = (2 * after[e].rest) % d
<1> DEFINE Round(l) == [q |-> 2 * l.q + (2 * l.rest) \div d, rest |-> (2 * l.rest) % d]
           first == [q |-> n \div d, rest |-> n % d]
           Rounds == [q : Nat, rest : Nat]
           step == [e \in Nat |-> [l \in Rounds |-> Round(l)]]
           Equation(g) == g = [e \in Nat |-> IF e = 0 THEN first ELSE Round(g[e - 1])]
           after == LongDivision(n, d)
<1>1. first \in Rounds
  BY SMT
<1>2. \A l \in Rounds : Round(l) \in Rounds
  <2> TAKE l \in Rounds
  <2>1. l.q \in Nat /\ l.rest \in Nat
    OBVIOUS
  <2>2. (2 * l.rest) \div d \in Nat /\ (2 * l.rest) % d \in Nat
    BY <2>1
  <2> QED
    BY <2>1, <2>2
<1>3. PICK g \in [Nat -> Rounds] : SolvesInTurn(g, first, step)
  <2>1. step \in [Nat -> [Rounds -> Rounds]]
    BY <1>2
  <2> HIDE DEF step, first, Rounds
  <2> QED
    BY <1>1, <2>1, NatRecursion
<1>4. ASSUME NEW e \in Nat PROVE g[e] = IF e = 0 THEN first ELSE Round(g[e - 1])
  <2>1. g[e] = IF e = 0 THEN first ELSE step[e][g[e - 1]]
    BY <1>3, Zenon DEF SolvesInTurn
  <2>2. e # 0 => step[e][g[e - 1]] = Round(g[e - 1])
    <3>1. e # 0 => g[e - 1] \in Rounds
      <4> HIDE DEF Rounds
      <4> QED
        BY <1>3
    <3> HIDE DEF Round, Rounds
    <3> QED
      BY <3>1
  <2> HIDE DEF step, Round, first
  <2> QED
    BY <2>1, <2>2
<1>5. Equation(g)
  <2> HIDE DEF Round, first, Rounds
  <2> QED
    BY <1>4
<1>6. Equation(after)
  <2> HIDE DEF step
  <2> QED
    BY <1>5, Zenon DEF LongDivision
<1>7. after[0] = first
  <2> HIDE DEF after, Round, first
  <2> QED
    BY <1>6
<1>8. ASSUME NEW e \in Nat PROVE after[e + 1] = Round(after[e])
  <2> HIDE DEF after, Round, first
  <2>1. e + 1 \in Nat /\ e + 1 # 0 /\ (e + 1) - 1 = e
    OBVIOUS
  <2>2. after[e + 1] = IF e + 1 = 0 THEN first ELSE Round(after[(e + 1) - 1])
    BY <1>6, <2>1, Zenon
  <2> QED
    BY <2>1, <2>2
<1>9. after[0].q = n \div d /\ after[0].rest = n % d
  <2> HIDE DEF after
  <2> QED
    BY <1>7
<1>10. ASSUME NEW e \in Nat
       PROVE  /\ after[e + 1].q = 2 * after[e].q + (2 * after[e].rest) \div d
              /\ after[e + 1].rest = (2 * after[e].rest) % d
  <2> HIDE DEF after, Round
  <2>1. after[e + 1] = Round(after[e])
    BY <1>8
  <2> QED
    BY <2>1 DEF Round
<1> HIDE DEF after
<1>11. /\ after[0].q = n \div d /\ after[0].rest = n % d
       /\ \A e \in Nat :
              /\ after[e + 1].q = 2 * after[e].q + (2 * after[e].rest) \div d
              /\ after[e + 1].rest = (2 * after[e].rest) % d
  BY <1>9, <1>10
<1> QED
  BY <1>11, Zenon DEF after

\* and the loops over tmp.
LEMMA DigitsEquation ==
    /\ Digits \in [Nat -> Seq(Figures)]
    /\ \A n \in Nat : Digits[n] = IF n < 10 THEN <<Chr(n)>> ELSE Append(Digits[n \div 10], Chr(n % 10))
<1> DEFINE B == 0 .. 9
           S == Seq(Figures)
           size == [n \in Nat |-> n]
           less == [n \in Nat |-> n \div 10]
           base == [n \in B |-> <<Chr(n)>>]
           step == [n \in Nat \ B |-> [t \in S |-> Append(t, Chr(n % 10))]]
           Equation(g) ==
               g = [n \in Nat |-> IF n < 10 THEN <<Chr(n)>> ELSE Append(g[n \div 10], Chr(n % 10))]
<1>1. \A n \in 0 .. 9 : Chr(n) \in Figures
  BY DEF Figures
<1>2. IsRecursion(Nat, S, B, size, less, base, step)
  <2>1. base \in [B -> S]
    <3> SUFFICES ASSUME NEW n \in B PROVE <<Chr(n)>> \in S
      OBVIOUS
    <3> QED
      BY <1>1
  <2>2. step \in [Nat \ B -> [S -> S]]
    <3> SUFFICES ASSUME NEW n \in Nat \ B, NEW t \in S PROVE Append(t, Chr(n % 10)) \in S
      OBVIOUS
    <3>1. n % 10 \in 0 .. 9
      OBVIOUS
    <3> QED
      BY <1>1, <3>1
  <2>3. /\ B \in SUBSET Nat /\ size \in [Nat -> Nat] /\ less \in [Nat -> Nat]
        /\ \A n \in Nat \ B : size[less[n]] < size[n]
    OBVIOUS
  <2> HIDE DEF B, S, size, less, base, step
  <2> QED
    BY <2>1, <2>2, <2>3 DEF IsRecursion
<1>3. PICK g \in [Nat -> S] : Solves(g, Nat, B, less, base, step)
  <2> HIDE DEF B, S, size, less, base, step
  <2> QED
    BY <1>2, Recursion, Zenon
<1>4. ASSUME NEW n \in Nat
      PROVE  g[n] = IF n < 10 THEN <<Chr(n)>> ELSE Append(g[n \div 10], Chr(n % 10))
  <2>1. g[n] = IF n \in B THEN base[n] ELSE step[n][g[less[n]]]
    BY <1>3, Zenon DEF Solves
  <2>2. CASE n < 10
    <3>1. n \in B
      BY <2>2
    <3>2. base[n] = <<Chr(n)>>
      BY <3>1, Zenon
    <3> HIDE DEF B, S, less, base, step
    <3> QED
      BY <2>1, <2>2, <3>1, <3>2
  <2>3. CASE ~(n < 10)
    <3>1. n \in Nat \ B /\ n \div 10 \in Nat
      BY <2>3
    <3>2. less[n] = n \div 10 /\ g[n \div 10] \in S
      <4> HIDE DEF S, B
      <4> QED
        BY <1>3, <3>1
    <3>3. step[n][g[n \div 10]] = Append(g[n \div 10], Chr(n % 10))
      BY <3>1, <3>2, Zenon
    <3> HIDE DEF B, S, less, base, step
    <3> QED
      BY <2>1, <2>3, <3>1, <3>2, <3>3
  <2> QED
    BY <2>2, <2>3
<1>5. Equation(g)
  BY <1>3, <1>4, Zenon
<1>6. Equation(Digits)
  <2> HIDE DEF step, less, base, size
  <2> QED
    BY <1>5, Zenon DEF Digits
<1>7. ASSUME NEW n \in Nat
      PROVE  Digits[n] = IF n < 10 THEN <<Chr(n)>> ELSE Append(Digits[n \div 10], Chr(n % 10))
  BY <1>6, Zenon
<1> HIDE DEF B, size, less, base, step, Equation
<1>8. \A n \in Nat : Digits[n] \in S
  <2> DEFINE N == {n \in Nat : Digits[n] \in S}
  <2>1. ASSUME NEW n \in Nat, \A m \in 0 .. n - 1 : m \in N PROVE n \in N
    <3>1. CASE n < 10
      <4>1. Digits[n] = <<Chr(n)>>
        BY <1>7, <3>1
      <4>2. Chr(n) \in Figures
        BY <1>1, <3>1, n \in 0 .. 9
      <4>3. Digits[n] \in Seq(Figures)
        BY <4>1, <4>2
      <4> QED
        BY <4>3
    <3>2. CASE ~(n < 10)
      <4>1. n \div 10 \in 0 .. n - 1 /\ n % 10 \in 0 .. 9
        BY <3>2
      <4>2. Digits[n \div 10] \in Seq(Figures)
        BY <2>1, <4>1
      <4>3. Digits[n] = Append(Digits[n \div 10], Chr(n % 10)) /\ Chr(n % 10) \in Figures
        BY <1>1, <1>7, <3>2, <4>1
      <4>4. Digits[n] \in Seq(Figures)
        BY <4>2, <4>3
      <4> QED
        BY <4>4
    <3> QED
      BY <3>1, <3>2
  <2> HIDE DEF N
  <2>2. N = Nat
    BY <2>1, Induction, N \in SUBSET Nat DEF N
  <2> QED
    BY <2>2 DEF N
<1>9. Digits = [n \in Nat |-> Digits[n]]
  BY <1>6 DEF Equation
<1> QED
  BY <1>7, <1>8, <1>9

\* The figures differ, from one another and from what else is in a number.
LEMMA Characters ==
    /\ \A d \in 0 .. 9 : Chr(d) \in Figures /\ Digit(Chr(d)) = d
    /\ \A c \in Figures : Digit(c) \in 0 .. 9
    /\ {"-", ".", ":", ","} \cap Figures = {}
<1>1. \A d \in 0 .. 9 : Chr(d) \in Figures
  BY DEF Figures
<1>2. \A d, b \in 0 .. 9 : Chr(d) = Chr(b) => d = b
  BY DEF Chr
<1>3. ASSUME NEW d \in 0 .. 9 PROVE Chr(d) \notin {"-", ".", ":", ","}
  <2>1. d \in {0, 1, 2, 3, 4, 5, 6, 7, 8, 9}
    OBVIOUS
  <2>2. Chr(d) \in {"0", "1", "2", "3", "4", "5", "6", "7", "8", "9"}
    BY <2>1 DEF Chr
  <2> QED
    BY <2>2
<1>4. ASSUME NEW d \in 0 .. 9 PROVE Digit(Chr(d)) = d
  BY <1>2, <1>4 DEF Digit
<1> QED
  BY <1>1, <1>3, <1>4 DEF Figures

Numeral == Seq(Figures \cup {"."})
Front(s) == SubSeq(s, 1, Len(s) - 1)

\* A sequence without its last element, for the recursion of Number.
LEMMA FrontAppend ==
    ASSUME NEW S, NEW s \in Seq(S), NEW x \in S
    PROVE  /\ Append(s, x) \in Seq(S)
           /\ Append(s, x) # <<>>
           /\ Len(Append(s, x)) = Len(s) + 1
           /\ Append(s, x)[Len(s) + 1] = x
           /\ Front(Append(s, x)) = s
  BY DEF Front

\* ... which is smaller.
LEMMA FrontShorter ==
    ASSUME NEW S, NEW s \in Seq(S), s # <<>>
    PROVE  Front(s) \in Seq(S) /\ Len(Front(s)) = Len(s) - 1 /\ s[Len(s)] \in S /\ Len(s) > 0
<1>1. Len(s) \in Nat \ {0}
  BY EmptySeq
<1>2. \A i \in 1 .. Len(s) : s[i] \in S
  BY ElementOfSeq
<1>3. Front(s) \in Seq(S) /\ Len(Front(s)) = Len(s) - 1
  BY <1>1, <1>2, SubSeqProperties DEF Front
<1> QED
  BY <1>1, <1>2, <1>3

\* A numeral is read from left to right.
LEMMA NumberEquation ==
    /\ Number[<<>>] = 0
    /\ \A s \in Numeral : Number[s] \in Int
    /\ \A s \in Numeral, c \in Figures \cup {"."} :
           Number[Append(s, c)] = IF c = "." THEN Number[s] ELSE 10 * Number[s] + Digit(c)
<1> DEFINE B == {<<>>}
           size == [s \in Numeral |-> Len(s)]
           less == [s \in Numeral |-> IF s = <<>> THEN s ELSE Front(s)]
           base == [s \in B |-> 0]
           Then(s, v) == IF s[Len(s)] = "." THEN v ELSE 10 * v + Digit(s[Len(s)])
           step == [s \in Numeral \ B |-> [v \in Int |-> Then(s, v)]]
           Equation(g) == g = [s \in Numeral |-> IF s = <<>> THEN 0 ELSE Then(s, g[Front(s)])]
<1>1. ASSUME NEW s \in Numeral, s # <<>>, NEW v \in Int PROVE Then(s, v) \in Int
  <2>1. s[Len(s)] \in Figures \cup {"."}
    BY <1>1, FrontShorter DEF Numeral
  <2>2. s[Len(s)] # "." => Digit(s[Len(s)]) \in 0 .. 9
    BY <2>1, Characters
  <2> QED
    BY <2>2
<1>2. IsRecursion(Numeral, Int, B, size, less, base, step)
  <2>1. step \in [Numeral \ B -> [Int -> Int]]
    <3> HIDE DEF Then
    <3> QED
      BY <1>1
  <2>2. \A s \in Numeral \ B : less[s] \in Numeral /\ size[less[s]] < size[s]
    BY FrontShorter DEF Numeral
  <2>3. B \in SUBSET Numeral /\ size \in [Numeral -> Nat] /\ base \in [B -> Int]
    BY DEF Numeral
  <2>4. less \in [Numeral -> Numeral]
    BY FrontShorter DEF Numeral
  <2> HIDE DEF B, size, less, base, step
  <2> QED
    BY <2>1, <2>2, <2>3, <2>4 DEF IsRecursion
<1>3. PICK g \in [Numeral -> Int] : Solves(g, Numeral, B, less, base, step)
  <2> HIDE DEF B, size, less, base, step
  <2> QED
    BY <1>2, Recursion, Zenon
<1>4. ASSUME NEW s \in Numeral PROVE g[s] = IF s = <<>> THEN 0 ELSE Then(s, g[Front(s)])
  <2>1. g[s] = IF s \in B THEN base[s] ELSE step[s][g[less[s]]]
    BY <1>3, Zenon DEF Solves
  <2>2. CASE s = <<>>
    BY <2>1, <2>2
  <2>3. CASE s # <<>>
    <3>1. less[s] = Front(s) /\ s \in Numeral \ B
      BY <2>3
    <3>2. g[Front(s)] \in Int
      BY <2>3, FrontShorter DEF Numeral
    <3> HIDE DEF Then
    <3>3. step[s][g[Front(s)]] = Then(s, g[Front(s)])
      BY <3>1, <3>2, Zenon
    <3> HIDE DEF less, step
    <3> QED
      BY <2>1, <2>3, <3>1, <3>3
  <2> QED
    BY <2>2, <2>3
<1>5. Equation(g)
  BY <1>3, <1>4, Zenon
<1>6. Equation(Number)
  <2> HIDE DEF step, less, base, size
  <2> QED
    BY <1>5, Zenon DEF Number, Numeral, Front
<1>7. ASSUME NEW s \in Numeral
      PROVE  Number[s] = IF s = <<>> THEN 0 ELSE Then(s, Number[Front(s)])
  BY <1>6, Zenon
<1> HIDE DEF B, size, less, base, step, Equation
<1>8. \A s \in Numeral : Number[s] \in Int
  <2> DEFINE N == {n \in Nat : \A s \in Numeral : Len(s) = n => Number[s] \in Int}
  <2>1. ASSUME NEW n \in Nat, \A m \in 0 .. n - 1 : m \in N PROVE n \in N
    <3> SUFFICES ASSUME NEW s \in Numeral, Len(s) = n PROVE Number[s] \in Int
      OBVIOUS
    <3>1. CASE s = <<>>
      BY <1>7, <3>1
    <3>2. CASE s # <<>>
      <4>1. Front(s) \in Numeral /\ Len(Front(s)) = n - 1 /\ n > 0
        BY <3>2, FrontShorter DEF Numeral
      <4>2. Number[Front(s)] \in Int
        BY <2>1, <4>1
      <4> HIDE DEF Then
      <4> QED
        BY <1>1, <1>7, <3>2, <4>2
    <3> QED
      BY <3>1, <3>2
  <2> HIDE DEF N
  <2>2. N = Nat
    BY <2>1, Induction, N \in SUBSET Nat DEF N
  <2>3. ASSUME NEW s \in Numeral PROVE Number[s] \in Int
    <3>1. Len(s) \in N
      BY <2>2 DEF Numeral
    <3> QED
      BY <3>1 DEF N
  <2> QED
    BY <2>3
<1>9. ASSUME NEW s \in Numeral, NEW c \in Figures \cup {"."}
      PROVE  Number[Append(s, c)] = IF c = "." THEN Number[s] ELSE 10 * Number[s] + Digit(c)
  <2> DEFINE t == Append(s, c)
  <2>1. t \in Numeral /\ t # <<>> /\ t[Len(t)] = c /\ Front(t) = s
    BY FrontAppend DEF Numeral
  <2>2. Number[t] = Then(t, Number[Front(t)])
    BY <1>7, <2>1
  <2> HIDE DEF t
  <2>3. Number[t] = IF c = "." THEN Number[s] ELSE 10 * Number[s] + Digit(c)
    BY <2>1, <2>2
  <2> QED
    BY <2>3 DEF t
<1>10. Number[<<>>] = 0
  BY <1>7, <<>> \in Numeral DEF Numeral
<1> QED
  BY <1>8, <1>9, <1>10

\* What the loops over tmp make of a number (Utils_Uint16ToStr, Utils_FloatToStr) is figures
\* and reads as that number, for every number.
THEOREM DigitsReadBack == \A n \in Nat : Digits[n] \in Seq(Figures) /\ Number[Digits[n]] = n
<1> DEFINE N == {n \in Nat : Number[Digits[n]] = n}
<1>1. ASSUME NEW n \in Nat, \A m \in 0 .. n - 1 : m \in N PROVE n \in N
  <2>1. CASE n < 10
    <3>0. n \in 0 .. 9
      BY <2>1
    <3>1. Digits[n] = Append(<<>>, Chr(n))
      BY <2>1, DigitsEquation
    <3>2. Chr(n) \in Figures /\ Chr(n) # "." /\ Digit(Chr(n)) = n
      BY <3>0, Characters
    <3>3. Number[Append(<<>>, Chr(n))] = 10 * Number[<<>>] + Digit(Chr(n))
      BY <3>2, NumberEquation, <<>> \in Numeral DEF Numeral
    <3> QED
      BY <3>1, <3>2, <3>3, NumberEquation
  <2>2. CASE ~(n < 10)
    <3>1. n \div 10 \in 0 .. n - 1 /\ n % 10 \in 0 .. 9 /\ n = 10 * (n \div 10) + (n % 10)
      BY <2>2
    <3>2. Chr(n % 10) \in Figures /\ Chr(n % 10) # "." /\ Digit(Chr(n % 10)) = n % 10
      BY <3>1, Characters
    <3>3. Digits[n] = Append(Digits[n \div 10], Chr(n % 10))
      BY <2>2, DigitsEquation
    <3>4. Digits[n \div 10] \in Numeral
      BY <3>1, DigitsEquation DEF Numeral
    <3>5. Number[Digits[n]] = 10 * Number[Digits[n \div 10]] + (n % 10)
      BY <3>2, <3>3, <3>4, NumberEquation
    <3>6. Number[Digits[n \div 10]] = n \div 10
      BY <1>1, <3>1
    <3> QED
      BY <3>1, <3>5, <3>6
  <2> QED
    BY <2>1, <2>2
<1> HIDE DEF N
<1>2. N = Nat
  BY <1>1, Induction, N \in SUBSET Nat DEF N
<1> QED
  BY <1>2, DigitsEquation DEF N

-----------------------------------------------------------------------------
(* Quotients: what rounding can do to a decimal.                           *)

\* Products of numbers grow with their factors, which the back-ends do not find by themselves.
LEMMA Times == \A a, b, c \in Nat : a <= b => a * c <= b * c
<1> TAKE a, b, c \in Nat
<1> HAVE a <= b
<1>1. PICK x \in Nat : b = a + x
  BY b - a \in Nat
<1>2. b * c = a * c + x * c
  BY <1>1
<1>3. x * c \in Nat
  OBVIOUS
<1> QED
  BY <1>2, <1>3

\* Quotient and rest as the lemmas below need them.
LEMMA DivMod ==
    ASSUME NEW a \in Nat, NEW b \in Nat \ {0}
    PROVE  /\ a \div b \in Nat /\ a % b \in 0 .. b - 1
           /\ a = (a \div b) * b + (a % b)
  OBVIOUS

\* Long division loses nothing.
LEMMA DivisionExact ==
    ASSUME NEW n \in Nat, NEW d \in Nat \ {0}, NEW e \in Nat
    PROVE  LET l == LongDivision(n, d)[e] IN
           l.q \in Nat /\ l.rest \in 0 .. d - 1 /\ n * Two[e] = l.q * d + l.rest
<1> DEFINE after == LongDivision(n, d)
           Exact(i) == /\ after[i].q \in Nat /\ after[i].rest \in 0 .. d - 1
                       /\ n * Two[i] = after[i].q * d + after[i].rest
           N == {i \in Nat : Exact(i)}
<1>1. 0 \in N
  <2>1. after[0].q = n \div d /\ after[0].rest = n % d
    BY DivisionEquation
  <2>2. Two[0] = 1
    BY TwoEquation
  <2>3. n \div d \in Nat /\ n % d \in 0 .. d - 1 /\ n = (n \div d) * d + (n % d)
    BY DivMod
  <2>4. Exact(0)
    <3> HIDE DEF after
    <3> QED
      BY <2>1, <2>2, <2>3
  <2> QED
    BY <2>4
<1>2. ASSUME NEW i \in N PROVE i + 1 \in N
  <2> DEFINE q == after[i].q
             r == after[i].rest
  <2>1. Exact(i) /\ i \in Nat
    OBVIOUS
  <2>2. after[i + 1].q = 2 * q + (2 * r) \div d /\ after[i + 1].rest = (2 * r) % d
    BY <2>1, DivisionEquation
  <2>3. Two[i + 1] = 2 * Two[i] /\ Two[i] \in Nat
    BY <2>1, TwoEquation
  <2>4. 2 * r \in Nat
    BY <2>1
  <2>5. /\ (2 * r) \div d \in Nat /\ (2 * r) % d \in 0 .. d - 1
        /\ 2 * r = ((2 * r) \div d) * d + ((2 * r) % d)
    BY <2>4, DivMod
  <2>6. n * Two[i + 1] = 2 * (n * Two[i])
    BY <2>3
  <2>7. (2 * q + (2 * r) \div d) * d = 2 * (q * d) + ((2 * r) \div d) * d
    BY <2>1, <2>5
  <2>8. n * Two[i] = q * d + r /\ q \in Nat /\ r \in Nat
    BY <2>1
  <2> HIDE DEF after, q, r
  <2>9. n * Two[i + 1] = (2 * q + (2 * r) \div d) * d + ((2 * r) % d)
    BY <2>5, <2>6, <2>7, <2>8
  <2>10. Exact(i + 1)
    BY <2>2, <2>5, <2>8, <2>9
  <2> QED
    BY <2>1, <2>10
<1> HIDE DEF N
<1>3. N = Nat
  BY <1>1, <1>2, StepInduction, N \in SUBSET Nat DEF N
<1> QED
  BY <1>3 DEF N

\* The powers of two that the bounds are made of.
LEMMA TwoValues ==
    /\ Two[0] = 1 /\ Two[1] = 2 /\ Two[2] = 4 /\ Two[3] = 8 /\ Two[4] = 16
    /\ Two[5] = 32 /\ Two[6] = 64 /\ Two[7] = 128 /\ Two[8] = 256
    /\ Two[16] = 65536 /\ Two[20] = 1048576 /\ Two[25] = 33554432 /\ Two[39] = 549755813888
<1>1. \A e \in Nat : Two[e + 1] = 2 * Two[e] /\ Two[e] \in Nat
  BY SMT, TwoEquation
<1>2. Two[0] = 1 /\ Two[1] = 2 /\ Two[2] = 4 /\ Two[3] = 8 /\ Two[4] = 16
  BY SMT, <1>1, TwoEquation, 0 + 1 = 1, 1 + 1 = 2, 2 + 1 = 3, 3 + 1 = 4
<1>3. ASSUME NEW e \in Nat PROVE Two[e + 7] = 128 * Two[e]
  <2>1. /\ Two[e + 1] = 2 * Two[e] /\ Two[(e + 1) + 1] = 2 * Two[e + 1]
        /\ Two[(e + 2) + 1] = 2 * Two[e + 2] /\ Two[(e + 3) + 1] = 2 * Two[e + 3]
        /\ Two[(e + 4) + 1] = 2 * Two[e + 4] /\ Two[(e + 5) + 1] = 2 * Two[e + 5]
        /\ Two[(e + 6) + 1] = 2 * Two[e + 6] /\ Two[e] \in Nat
    BY SMT, <1>1
  <2>2. /\ (e + 1) + 1 = e + 2 /\ (e + 2) + 1 = e + 3 /\ (e + 3) + 1 = e + 4
        /\ (e + 4) + 1 = e + 5 /\ (e + 5) + 1 = e + 6 /\ (e + 6) + 1 = e + 7
    BY SMT
  <2> QED
    BY SMT, <2>1, <2>2
<1>6. Two[5] = 32 /\ Two[6] = 64 /\ Two[7] = 128 /\ Two[8] = 256
  BY SMT, <1>1, <1>2, 4 + 1 = 5, 5 + 1 = 6, 6 + 1 = 7, 7 + 1 = 8
<1>4. /\ Two[9] = 512 /\ Two[16] = 65536 /\ Two[13] = 8192 /\ Two[20] = 1048576
      /\ Two[11] = 2048 /\ Two[18] = 262144 /\ Two[25] = 33554432
  BY SMT, <1>2, <1>3, <1>6, 6 + 7 = 13, 13 + 7 = 20, 2 + 7 = 9, 9 + 7 = 16, 4 + 7 = 11, 11 + 7 = 18, 18 + 7 = 25
<1>5. Two[32] = 4294967296 /\ Two[39] = 549755813888
  BY SMT, <1>3, <1>4, 25 + 7 = 32, 32 + 7 = 39
<1> QED
  BY SMT, <1>2, <1>4, <1>5, <1>6

\* The loop that fills the mantissa ends.
LEMMA MantissaFound ==
    ASSUME NEW n \in Nat, n # 0, n <= MantissaEnd, NEW d \in Nat \ {0, 1}, d <= Two[16]
    PROVE  \E e \in 0 .. 39 : FillsMantissa(LongDivision(n, d)[e].q)
<1> DEFINE after == LongDivision(n, d)
<1>0. /\ after[0].q = n \div d
      /\ \A e \in Nat : after[e + 1].q = 2 * after[e].q + (2 * after[e].rest) \div d
  BY DivisionEquation, Zenon
<1> DEFINE T == {e \in Nat : 2 * after[e].q >= 16777216}
<1>1. ASSUME NEW e \in Nat
      PROVE  /\ after[e].q \in Nat /\ after[e].rest \in 0 .. d - 1
             /\ n * Two[e] = after[e].q * d + after[e].rest
  BY SMT, DivisionExact
<1>2. 39 \in T
  <2> DEFINE q == after[39].q
             r == after[39].rest
  <2>0. d <= 65536
    BY SMT, TwoValues
  <2>1. q \in Nat /\ r \in 0 .. d - 1 /\ n * 549755813888 = q * d + r
    BY SMT, <1>1, TwoValues
  <2> SUFFICES ASSUME q <= 8388607 PROVE FALSE
    BY SMT, <2>1
  <2> HIDE DEF q, r
  <2>2. q * d <= 8388607 * d
    BY SMT, <2>1, Times
  <2> QED
    BY SMT, <2>0, <2>1, <2>2
<1>3. PICK e \in T : \A i \in T : e <= i
  <2>1. T \in SUBSET Nat
    BY SMT
  <2> HIDE DEF T
  <2> QED
    BY <1>2, <2>1, Least
<1>4. e \in 0 .. 39 /\ 2 * after[e].q >= 16777216
  BY SMT, <1>2, <1>3
<1>5. after[e].q < 16777216
  <2>1. CASE e = 0
    <3>1. after[0].q = n \div d
      BY SMT, <1>0
    <3>2. 2 * (n \div d) <= n
      <4>1. n \div d \in Nat /\ n % d \in Nat /\ n = (n \div d) * d + (n % d)
        BY SMT, DivMod
      <4>2. (n \div d) * 2 <= (n \div d) * d
        BY SMT, <4>1
      <4> QED
        BY SMT, <4>1, <4>2
    <3> HIDE DEF after
    <3> QED
      BY SMT, <2>1, <3>1, <3>2 DEF MantissaEnd
  <2>2. CASE e # 0
    <3>1. e - 1 \in Nat /\ e - 1 \notin T /\ e = (e - 1) + 1
      BY SMT, <1>3, <1>4, <2>2
    <3>2. 2 * after[e - 1].q < 16777216 /\ after[e - 1].q \in Nat /\ after[e - 1].rest \in 0 .. d - 1
      BY SMT, <1>1, <3>1
    <3>3. after[e].q = 2 * after[e - 1].q + (2 * after[e - 1].rest) \div d
      BY SMT, <1>0, <3>1
    <3> DEFINE x == 2 * after[e - 1].rest
    <3>4. x \in Nat /\ x < 2 * d
      BY SMT, <3>2
    <3>5. x \div d \in Nat /\ x = (x \div d) * d + (x % d) /\ x % d \in 0 .. d - 1
      <4>1. \A y \in Nat : y \div d \in Nat /\ y = (y \div d) * d + (y % d) /\ y % d \in 0 .. d - 1
        BY SMT
      <4> HIDE DEF x
      <4> QED
        BY SMT, <3>4, <4>1
    <3>6. x \div d <= 1
      <4> HIDE DEF x
      <4> SUFFICES ASSUME 2 <= x \div d PROVE FALSE
        BY SMT, <3>5
      <4>1. 2 * d <= (x \div d) * d
        BY SMT, <3>5, Times
      <4> QED
        BY SMT, <3>4, <3>5, <4>1
    <3> HIDE DEF x, after
    <3> QED
      BY SMT, <3>2, <3>3, <3>5, <3>6 DEF x
  <2> QED
    BY SMT, <2>1, <2>2
<1> HIDE DEF after
<1> QED
  BY SMT, <1>4, <1>5 DEF FillsMantissa, MantissaEnd, after

\* Rounding is off by half a unit at most.
LEMMA Rounded ==
    ASSUME NEW q \in Nat, NEW unit \in Nat \ {0}, NEW rest \in 0 .. unit - 1
    PROVE  LET m == Nearest(q, rest, unit) IN
           /\ m \in {q, q + 1}
           /\ 2 * (m * unit) <= 2 * (q * unit + rest) + unit
           /\ 2 * (q * unit + rest) <= 2 * (m * unit) + unit
           /\ rest = 0 => m = q
<1>1. (q + 1) * unit = q * unit + unit
  OBVIOUS
<1> QED
  BY <1>1 DEF Nearest

\* What Pow2 stands for: beyond 25 powers of two are only ever larger.
LEMMA TwoGrows == \A e \in Nat : Two[e] \in Nat \ {0} /\ (e >= 25 => Two[25] <= Two[e])
<1> DEFINE N == {e \in Nat : Two[e] \in Nat \ {0} /\ (e >= 25 => Two[25] <= Two[e])}
<1>1. \A e \in Nat : Two[e + 1] = 2 * Two[e] /\ Two[e] \in Nat
  BY TwoEquation
<1>2. 0 \in N
  BY TwoEquation
<1>3. ASSUME NEW e \in N PROVE e + 1 \in N
  <2>1. e \in Nat /\ Two[e] \in Nat \ {0} /\ (e >= 25 => Two[25] <= Two[e])
    OBVIOUS
  <2>2. Two[e + 1] = 2 * Two[e]
    BY <1>1, <2>1
  <2>3. CASE e + 1 = 25
    BY <1>1, <2>1, <2>2, <2>3
  <2>4. CASE e + 1 # 25
    <3>1. /\ Two[e + 1] \in Nat \ {0} /\ e + 1 \in Nat
          /\ e + 1 >= 25 => Two[25] <= Two[e] /\ Two[e] <= Two[e + 1]
      BY SMT, <2>1, <2>2, <2>4
    <3>2. Two[25] \in Nat
      BY TwoEquation
    <3> QED
      BY SMT, <2>1, <3>1, <3>2
  <2> QED
    BY <2>3, <2>4
<1> HIDE DEF N
<1>4. N = Nat
  BY <1>2, <1>3, StepInduction, N \in SUBSET Nat DEF N
<1> QED
  BY <1>4 DEF N

\* A mantissa is cut alike by any of them.
LEMMA Capped ==
    ASSUME NEW m \in Nat, m <= MantissaEnd, NEW e \in Nat
    PROVE  m \div Pow2(e) = m \div Two[e] /\ m % Pow2(e) = m % Two[e]
<1>1. CASE e < 25
  BY SMT, <1>1 DEF Pow2
<1>2. CASE ~(e < 25)
  <2>1. Two[25] = 33554432 /\ Two[e] \in Nat /\ Two[25] <= Two[e]
    BY SMT, <1>2, TwoGrows, TwoValues
  <2>2. m < Two[25] /\ m < Two[e]
    BY SMT, <2>1 DEF MantissaEnd
  <2>3. \A p \in Nat : m < p => m \div p = 0 /\ m % p = m
    BY SMT
  <2>4. Pow2(e) = Two[25]
    BY SMT, <1>2 DEF Pow2
  <2> QED
    BY SMT, <2>1, <2>2, <2>3, <2>4
<1> QED
  BY SMT, <1>1, <1>2

\* A quotient is off by half a unit at most, of which there are 2^23 in it.
LEMMA QuotientNear ==
    ASSUME NEW n \in Nat \ {0}, n <= MantissaEnd, NEW x \in Int,
           NEW d \in Nat \ {0, 1}, d <= Two[16]
    PROVE  \E m, e \in Nat :
              /\ Quotient([m |-> n, e |-> x], d) = [m |-> m, e |-> x + e]
              /\ m <= MantissaEnd
              /\ MantissaEnd * d <= 2 * (n * Two[e])
              /\ 2 * (m * d) <= 2 * (n * Two[e]) + d
              /\ 2 * (n * Two[e]) <= 2 * (m * d) + d
<1> DEFINE after == LongDivision(n, d)
           e == CHOOSE i \in 0 .. 39 : FillsMantissa(after[i].q)
           q == after[e].q
           rest == after[e].rest
           m == Nearest(q, rest, d)
<1>1. e \in 0 .. 39 /\ FillsMantissa(q)
  <2>1. \E i \in 0 .. 39 : FillsMantissa(after[i].q)
    BY MantissaFound, Zenon
  <2> HIDE DEF after
  <2> QED
    BY <2>1, Zenon
<1>2. e \in Nat
  <2> HIDE DEF e, q
  <2> QED
    BY SMT, <1>1
<1>3. Quotient([m |-> n, e |-> x], d) = [m |-> m, e |-> x + e]
  <2> DEFINE f == [m |-> n, e |-> x]
  <2>1. f.m = n /\ f.e = x
    OBVIOUS
  <2> HIDE DEF f
  <2>2. Quotient(f, d) = [m |-> m, e |-> x + e]
    BY <2>1, Zenon DEF Quotient
  <2> QED
    BY <2>2 DEF f
<1>4. q \in Nat /\ rest \in 0 .. d - 1 /\ n * Two[e] = q * d + rest
  <2> HIDE DEF e
  <2> QED
    BY <1>2, DivisionExact
<1> HIDE DEF after, e, q, rest
<1>5. /\ m \in {q, q + 1}
      /\ 2 * (m * d) <= 2 * (q * d + rest) + d
      /\ 2 * (q * d + rest) <= 2 * (m * d) + d
  BY <1>4, Rounded, Zenon
<1> HIDE DEF m
<1>6. m \in Nat /\ m <= MantissaEnd
  BY SMT, <1>1, <1>4, <1>5 DEF FillsMantissa, MantissaEnd
<1>7. MantissaEnd * d <= 2 * (q * d)
  <2>1. MantissaEnd <= 2 * q /\ MantissaEnd \in Nat /\ 2 * q \in Nat
    BY SMT, <1>1, <1>4 DEF FillsMantissa, MantissaEnd
  <2>2. MantissaEnd * d <= (2 * q) * d
    BY <2>1, Times
  <2> QED
    BY <1>4, <2>1, <2>2
<1>8. MantissaEnd * d <= 2 * (n * Two[e])
  BY SMT, <1>4, <1>7 DEF MantissaEnd
<1> QED
  BY <1>2, <1>3, <1>4, <1>5, <1>6, <1>8

\* An integer as a float is off by half a unit.
LEMMA FloatUnit ==
    ASSUME NEW n \in Nat, n < MantissaEnd * Two[8]
    PROVE  \E k \in 0 .. 8, t \in Nat :
              /\ Float(n) = [m |-> t, e |-> -k]
              /\ t <= MantissaEnd
              /\ 2 * (t * Two[k]) <= 2 * n + Two[k] /\ 2 * n <= 2 * (t * Two[k]) + Two[k]
              /\ k = 0 => t = n
              /\ k # 0 => MantissaEnd * Two[k] <= 2 * n
<1> DEFINE Fits(i) == n < MantissaEnd * Two[i] /\ (i = 0 \/ 2 * n >= MantissaEnd * Two[i])
           k == CHOOSE i \in 0 .. 8 : Fits(i)
           t == Nearest(n \div Two[k], n % Two[k], Two[k])
<1>1. \E i \in 0 .. 8 : Fits(i)
  <2>1. Fits(0) \/ Fits(1) \/ Fits(2) \/ Fits(3) \/ Fits(4) \/ Fits(5) \/ Fits(6) \/ Fits(7) \/ Fits(8)
    BY SMT, TwoValues DEF MantissaEnd
  <2> HIDE DEF Fits
  <2> QED
    BY <2>1
<1>2. k \in 0 .. 8 /\ Fits(k)
  <2> HIDE DEF Fits
  <2> QED
    BY <1>1
<1>3. Float(n) = [m |-> t, e |-> -k]
  BY Zenon DEF Float, Unit
<1> HIDE DEF k
<1>4. Two[k] \in Nat \ {0}
  BY <1>2, TwoGrows
<1>5. /\ n \div Two[k] \in Nat /\ n % Two[k] \in 0 .. Two[k] - 1
      /\ n = (n \div Two[k]) * Two[k] + (n % Two[k])
  BY <1>4, DivMod, Zenon
<1> DEFINE q == n \div Two[k]
           rest == n % Two[k]
<1>6. /\ t \in {q, q + 1}
      /\ 2 * (t * Two[k]) <= 2 * (q * Two[k] + rest) + Two[k]
      /\ 2 * (q * Two[k] + rest) <= 2 * (t * Two[k]) + Two[k]
      /\ rest = 0 => t = q
  BY <1>4, <1>5, Rounded, Zenon
<1>7. n = q * Two[k] + rest /\ q \in Nat /\ rest \in 0 .. Two[k] - 1
  BY <1>5, Zenon
<1> HIDE DEF t, q, rest
<1>8. t \in Nat /\ t <= MantissaEnd
  <2>1. q * Two[k] < MantissaEnd * Two[k] /\ MantissaEnd \in Nat
    BY SMT, <1>2, <1>4, <1>7 DEF MantissaEnd
  <2>2. q < MantissaEnd
    <3> SUFFICES ASSUME MantissaEnd <= q PROVE FALSE
      BY <1>7, <2>1
    <3>1. MantissaEnd * Two[k] <= q * Two[k]
      BY <1>4, <1>7, <2>1, Times
    <3> QED
      BY SMT, <1>4, <1>7, <2>1, <3>1 DEF MantissaEnd
  <2> QED
    BY <1>6, <1>7, <2>1, <2>2
<1>9. k = 0 => t = n
  <2> SUFFICES ASSUME k = 0 PROVE t = n
    OBVIOUS
  <2>1. Two[k] = 1
    BY TwoEquation
  <2>2. rest = 0 /\ q = n
    BY <1>4, <1>7, <2>1
  <2> QED
    BY <1>6, <2>2
<1>10. k # 0 => MantissaEnd * Two[k] <= 2 * n
  BY SMT, <1>2, <1>4 DEF MantissaEnd
<1>11. 2 * (t * Two[k]) <= 2 * n + Two[k] /\ 2 * n <= 2 * (t * Two[k]) + Two[k]
  BY <1>6, <1>7
<1> QED
  BY <1>2, <1>3, <1>8, <1>9, <1>10, <1>11

\* The fraction times ten, in units of Two[e]: it is off by half of what was shifted out.
LEMMA TimesTenNear ==
    ASSUME NEW e \in Nat, NEW F \in Nat, F < Two[e], F <= MantissaEnd
    PROVE  \E k \in 0 .. 4, t \in Nat :
              /\ k <= e
              /\ TimesTen([m |-> F, e |-> e]) = [m |-> t, e |-> e + -k]
              /\ t <= MantissaEnd
              /\ 2 * (t * Two[k]) <= 20 * F + Two[k] /\ 20 * F <= 2 * (t * Two[k]) + Two[k]
              /\ k = 0 => t = 10 * F
              /\ k # 0 => MantissaEnd * Two[k] <= 20 * F
<1> DEFINE f == [m |-> F, e |-> e]
           product == 10 * F
<1>1. product \in Nat /\ product < MantissaEnd * Two[8] /\ product < MantissaEnd * 16
  BY SMT, TwoValues DEF MantissaEnd
<1> HIDE DEF product
<1>2. PICK k \in 0 .. 8, t \in Nat :
         /\ Float(product) = [m |-> t, e |-> -k]
         /\ t <= MantissaEnd
         /\ 2 * (t * Two[k]) <= 2 * product + Two[k] /\ 2 * product <= 2 * (t * Two[k]) + Two[k]
         /\ k = 0 => t = product
         /\ k # 0 => MantissaEnd * Two[k] <= 2 * product
  BY <1>1, FloatUnit, Zenon
<1>3. TimesTen(f) = [m |-> t, e |-> e + -k]
  <2> DEFINE g == Float(product)
  <2>1. f.m = F /\ f.e = e /\ g.m = t /\ g.e = -k
    BY <1>2
  <2>2. TimesTen(f) = [m |-> Float(10 * f.m).m, e |-> f.e + Float(10 * f.m).e]
    BY Zenon DEF TimesTen
  <2> HIDE DEF f, g
  <2>3. g = Float(10 * f.m)
    BY <2>1, Zenon DEF g, product
  <2>4. TimesTen(f) = [m |-> t, e |-> e + -k]
    BY <2>1, <2>2, <2>3, Zenon
  <2> QED
    BY <2>4, Zenon DEF f
<1>4. k \in 0 .. 4
  <2>1. k # 0 => Two[k] < 32
    BY SMT, <1>1, <1>2, TwoEquation DEF MantissaEnd
  <2>2. k \in {0, 1, 2, 3, 4, 5, 6, 7, 8}
    BY SMT, <1>2
  <2> QED
    BY SMT, <2>1, <2>2, TwoValues
<1>5. k <= e
  <2>1. CASE k = 0
    BY <1>2, <2>1
  <2>2. CASE k # 0
    <3>1. 20 * F >= MantissaEnd
      BY SMT, <1>2, <2>2, TwoGrows DEF product, MantissaEnd
    <3>2. Two[e] > 8
      BY SMT, <3>1, TwoEquation DEF MantissaEnd
    <3>3. e \notin {0, 1, 2, 3}
      BY SMT, <3>2, TwoValues
    <3> QED
      BY SMT, <1>4, <3>3
  <2> QED
    BY <2>1, <2>2
<1>6. /\ 2 * (t * Two[k]) <= 20 * F + Two[k] /\ 20 * F <= 2 * (t * Two[k]) + Two[k]
      /\ k = 0 => t = 10 * F
      /\ k # 0 => MantissaEnd * Two[k] <= 20 * F
  <2>1. 2 * product = 20 * F
    BY DEF product
  <2> QED
    BY <1>2, <2>1 DEF product
<1> QED
  BY <1>2, <1>3, <1>4, <1>5, <1>6

\* A power of two is a product of two, the smaller up to 16.
LEMMA TwoSplit ==
    ASSUME NEW e \in Nat, NEW k \in 0 .. 4, k <= e
    PROVE  Two[e] = Two[e - k] * Two[k] /\ Two[e - k] \in Nat \ {0} /\ Two[k] \in 1 .. 16
<1>1. \A i \in Nat : Two[i + 1] = 2 * Two[i] /\ Two[i] \in Nat \ {0}
  BY TwoEquation, TwoGrows
<1>2. PICK i \in Nat : e = i + k
  BY e - k \in Nat
<1>3. /\ Two[i + 1] = 2 * Two[i] /\ Two[(i + 1) + 1] = 2 * Two[i + 1]
      /\ Two[(i + 2) + 1] = 2 * Two[i + 2] /\ Two[(i + 3) + 1] = 2 * Two[i + 3]
      /\ Two[i] \in Nat \ {0}
  BY <1>1
<1>4. (i + 1) + 1 = i + 2 /\ (i + 2) + 1 = i + 3 /\ (i + 3) + 1 = i + 4 /\ i + 0 = i
  OBVIOUS
<1>5. /\ Two[i + 0] = Two[i] /\ Two[i + 1] = 2 * Two[i] /\ Two[i + 2] = 4 * Two[i]
      /\ Two[i + 3] = 8 * Two[i] /\ Two[i + 4] = 16 * Two[i]
  BY <1>3, <1>4
<1>6. k \in {0, 1, 2, 3, 4} /\ e - k = i
  BY <1>2
<1>7. /\ Two[0] = 1 /\ Two[1] = 2 /\ Two[2] = 4 /\ Two[3] = 8 /\ Two[4] = 16
  BY SMT, TwoValues
<1> QED
  BY SMT, <1>2, <1>3, <1>5, <1>6, <1>7

\* What is cut off as the decimal, D, of m / 2^e.
LEMMA DecimalNear ==
    ASSUME NEW m \in Nat, m <= MantissaEnd, NEW e \in Nat,
           NEW P, P = Two[e], NEW F, F = m % P
    PROVE  LET D == Decimal([m |-> m, e |-> e]) IN
           \E near \in Nat, K \in 1 .. 16 :
              /\ D \in 0 .. 9 /\ D * P <= near /\ near < (D + 1) * P
              /\ 2 * near <= 20 * F + K /\ 20 * F <= 2 * near + K
              /\ K = 1 => near = 10 * F
              /\ K # 1 => MantissaEnd * K <= 20 * F
<1> DEFINE f == [m |-> m, e |-> e]
<1>1. P \in Nat \ {0} /\ F \in Nat /\ F < P /\ F <= m
  <2>1. P \in Nat \ {0}
    BY TwoGrows
  <2> DEFINE w == m \div P
  <2>2. w \in Nat /\ F \in 0 .. P - 1 /\ m = w * P + F
    BY <2>1, DivMod, Zenon
  <2> HIDE DEF w
  <2>3. w * P \in Nat
    BY <2>1, <2>2
  <2> QED
    BY <2>1, <2>2, <2>3
<1>2. Fraction(f) = [m |-> F, e |-> e]
  <2>1. f.m = m /\ f.e = e /\ ~(e < 0)
    OBVIOUS
  <2> HIDE DEF f
  <2>2. Fraction(f) = [m |-> m % Pow2(e), e |-> e]
    BY <2>1, Zenon DEF Fraction
  <2> QED
    BY <2>2, Capped, Zenon
<1>3. F <= MantissaEnd
  BY SMT, <1>1 DEF MantissaEnd
<1>4. PICK k \in 0 .. 4, t \in Nat :
         /\ k <= e
         /\ TimesTen([m |-> F, e |-> e]) = [m |-> t, e |-> e + -k]
         /\ t <= MantissaEnd
         /\ 2 * (t * Two[k]) <= 20 * F + Two[k] /\ 20 * F <= 2 * (t * Two[k]) + Two[k]
         /\ k = 0 => t = 10 * F
         /\ k # 0 => MantissaEnd * Two[k] <= 20 * F
  BY <1>1, <1>3, TimesTenNear, Zenon
<1> DEFINE Q == Two[e - k]
           K == Two[k]
           D == t \div Q
<1>5. P = Q * K /\ Q \in Nat \ {0} /\ K \in 1 .. 16
  BY <1>4, TwoSplit, Zenon
<1>6. D \in Nat /\ D * Q <= t /\ t < (D + 1) * Q
  <2> HIDE DEF Q
  <2>1. t \div Q \in Nat /\ t % Q \in 0 .. Q - 1 /\ t = (t \div Q) * Q + (t % Q)
    BY <1>5, DivMod, Zenon
  <2> DEFINE r == t % Q
  <2> HIDE DEF D, r
  <2>2. D \in Nat /\ r \in 0 .. Q - 1 /\ t = D * Q + r
    BY <2>1, Zenon DEF D, r
  <2> QED
    BY <1>5, <2>2
<1>7. Decimal(f) = D
  <2>1. e - k \in Nat
    BY <1>4
  <2>2. Decimal(f) = t \div Pow2(e - k)
    <3> DEFINE g == TimesTen(Fraction(f))
    <3>1. g = [m |-> t, e |-> e + -k]
      BY <1>2, <1>4, Zenon
    <3>2. Decimal(f) = IF g.e < 0 THEN g.m * Two[-g.e] ELSE g.m \div Pow2(g.e)
      BY Zenon DEF Decimal, Whole
    <3> HIDE DEF g
    <3>3. g.m = t /\ g.e = e - k /\ ~(g.e < 0)
      BY <1>4, <3>1
    <3> QED
      BY <3>2, <3>3, Zenon
  <2> QED
    BY <1>4, <2>1, <2>2, Capped, Zenon
<1> HIDE DEF D, Q, K
<1> DEFINE near == t * K
<1>8. near \in Nat
  BY <1>5
<1>9. D * P <= near /\ near < (D + 1) * P
  <2>1. (D * Q) * K <= t * K
    BY <1>5, <1>6, Times
  <2>2. (t + 1) * K <= ((D + 1) * Q) * K
    BY <1>5, <1>6, Times
  <2>3. (D * Q) * K = D * P /\ ((D + 1) * Q) * K = (D + 1) * P /\ (t + 1) * K = t * K + K
    BY <1>5, <1>6
  <2>4. D * P \in Nat /\ (D + 1) * P \in Nat /\ t * K \in Nat
    BY <1>1, <1>5, <1>6
  <2> QED
    BY <1>5, <2>1, <2>2, <2>3, <2>4
<1>10. 2 * near <= 20 * F + K /\ 20 * F <= 2 * near + K
  BY <1>4 DEF K
<1>11. K = 1 => near = 10 * F
  <2>1. K = 1 => k = 0
    <3>1. Two[1] = 2 /\ Two[2] = 4 /\ Two[3] = 8 /\ Two[4] = 16
      BY SMT, TwoValues
    <3>2. k \in {0, 1, 2, 3, 4}
      BY <1>4
    <3> QED
      BY <3>1, <3>2 DEF K
  <2> QED
    BY <1>1, <1>4, <2>1
<1>12. K # 1 => MantissaEnd * K <= 20 * F
  <2>1. Two[0] = 1
    BY TwoEquation
  <2> QED
    BY <1>4, <2>1 DEF K
<1>13. D <= 9
  <2> HIDE DEF near
  <2> SUFFICES ASSUME 10 <= D PROVE FALSE
    BY <1>6
  <2>1. 10 * P <= D * P
    BY <1>1, <1>6, Times
  <2>2. D * P \in Nat
    BY <1>1, <1>6
  <2> QED
    BY SMT, <1>1, <1>5, <1>8, <1>9, <1>10, <1>11, <2>1, <2>2
<1>14. D \in 0 .. 9
  BY <1>6, <1>13
<1> HIDE DEF near
<1>15. \E z \in Nat, x \in 1 .. 16 :
          /\ D \in 0 .. 9 /\ D * P <= z /\ z < (D + 1) * P
          /\ 2 * z <= 20 * F + x /\ 20 * F <= 2 * z + x
          /\ x = 1 => z = 10 * F
          /\ x # 1 => MantissaEnd * x <= 20 * F
  BY <1>5, <1>8, <1>9, <1>10, <1>11, <1>12, <1>14, Zenon
<1> QED
  BY <1>7, <1>15, Zenon

\* With the whole w and the decimal D of m / P, which is nearly n / d.
LEMMA TenthsNear ==
    ASSUME NEW n \in Nat, n < 1048576, NEW d \in Nat \ {0}, d <= 65536,
           NEW P \in Nat \ {0}, NEW m \in Nat, NEW w \in Nat, NEW F \in Nat,
           NEW D \in Nat, NEW near \in Nat, NEW K \in 1 .. 16,
           m = w * P + F, F < P,
           8388608 * d <= n * P, 2 * (m * d) <= 2 * (n * P) + d, 2 * (n * P) <= 2 * (m * d) + d,
           D * P <= near, near < (D + 1) * P,
           2 * near <= 20 * F + K, 20 * F <= 2 * near + K,
           K = 1 => near = 10 * F, K # 1 => 8388608 * K <= 10 * F
    PROVE  (10 * w + D) * d <= 10 * n /\ 10 * n <= (10 * w + D + 1) * d
<1> DEFINE s == IF K = 1 THEN 0 ELSE K
<1>1. 8 * d <= P
  <2>1. n * P <= 1048576 * P
    BY SMT, Times
  <2> QED
    BY SMT, <2>1
<1>3. s \in Nat /\ 2 * near <= 20 * F + s /\ 20 * F <= 2 * near + s /\ 8388608 * s <= 10 * P
  BY SMT
<1> HIDE DEF s
<1>4. 10 * d + s * d < 2 * P
  <2>1. (8388608 * s) * d <= (10 * P) * d
    BY SMT, <1>3, Times
  <2>2. d * P <= 65536 * P
    BY SMT, Times
  <2>3. (8388608 * s) * d = 8388608 * (s * d) /\ (10 * P) * d = 10 * (d * P)
    BY SMT, <1>3
  <2>4. s * d \in Nat /\ d * P \in Nat
    BY SMT, <1>3
  <2> QED
    BY SMT, <1>1, <2>1, <2>2, <2>3, <2>4
<1> DEFINE X == (w * d) * P
           Fd == F * d
           nd == near * d
           md == m * d
           nP == n * P
           DPd == (D * P) * d
           Pd == P * d
           sd == s * d
<1>5. /\ X \in Nat /\ Fd \in Nat /\ nd \in Nat /\ md \in Nat /\ nP \in Nat
      /\ DPd \in Nat /\ Pd \in Nat /\ sd \in Nat
  BY SMT, <1>3
<1>6. md = X + Fd
  BY SMT
<1>7. 2 * nd <= 20 * Fd + sd /\ 20 * Fd <= 2 * nd + sd
  <2>1. (2 * near) * d <= (20 * F + s) * d /\ (20 * F) * d <= (2 * near + s) * d
    BY SMT, <1>3, Times
  <2>2. /\ (2 * near) * d = 2 * (near * d) /\ (20 * F + s) * d = 20 * (F * d) + s * d
        /\ (20 * F) * d = 20 * (F * d) /\ (2 * near + s) * d = 2 * (near * d) + s * d
    BY SMT, <1>3
  <2> QED
    BY SMT, <2>1, <2>2
<1>8. DPd <= nd /\ nd <= DPd + Pd
  <2>1. (D * P) * d <= near * d /\ near * d <= ((D + 1) * P) * d
    BY SMT, Times
  <2>2. ((D + 1) * P) * d = (D * P) * d + P * d
    BY SMT
  <2> QED
    BY SMT, <2>1, <2>2
<1>9. 2 * md <= 2 * nP + d /\ 2 * nP <= 2 * md + d /\ 10 * d + sd < 2 * P
  BY SMT, <1>4
<1>10. (10 * w + D) * d <= 10 * n
  <2> SUFFICES ASSUME 10 * n + 1 <= (10 * w + D) * d PROVE FALSE
    BY SMT
  <2>1. (10 * n + 1) * P <= ((10 * w + D) * d) * P
    BY SMT, Times
  <2>2. (10 * n + 1) * P = 10 * nP + P /\ ((10 * w + D) * d) * P = 10 * X + DPd
    BY SMT
  <2> HIDE DEF X, Fd, nd, md, nP, DPd, Pd, sd
  <2>3. 10 * nP + P <= 10 * X + DPd
    BY SMT, <2>1, <2>2
  <2> QED
    BY SMT, <1>5, <1>6, <1>7, <1>8, <1>9, <2>3
<1>11. 10 * n <= (10 * w + D + 1) * d
  <2> SUFFICES ASSUME (10 * w + D + 1) * d + 1 <= 10 * n PROVE FALSE
    BY SMT
  <2>1. ((10 * w + D + 1) * d + 1) * P <= (10 * n) * P
    BY SMT, Times
  <2>2. (10 * n) * P = 10 * nP /\ ((10 * w + D + 1) * d + 1) * P = 10 * X + DPd + Pd + P
    BY SMT
  <2> HIDE DEF X, Fd, nd, md, nP, DPd, Pd, sd
  <2>3. 10 * X + DPd + Pd + P <= 10 * nP
    BY SMT, <2>1, <2>2
  <2> QED
    BY SMT, <1>5, <1>6, <1>7, <1>8, <1>9, <2>3
<1> QED
  BY SMT, <1>10, <1>11

\* What the text says and what was divided.
LEMMA FloatNear ==
    ASSUME NEW n \in Nat, n < Two[20], NEW d \in Nat \ {0, 1}, d <= Two[16]
    PROVE  LET f == Quotient(Float(n), d) IN
           /\ (10 * Whole(f) + Decimal(f)) * d <= 10 * n
           /\ 10 * n <= (10 * Whole(f) + Decimal(f) + 1) * d
<1>0. Float(n) = [m |-> n, e |-> 0] /\ n < MantissaEnd
  <2>1. n < MantissaEnd * Two[8] /\ n < MantissaEnd
    BY SMT, TwoValues DEF MantissaEnd
  <2>2. PICK k \in 0 .. 8, t \in Nat :
           /\ Float(n) = [m |-> t, e |-> -k]
           /\ k = 0 => t = n
           /\ k # 0 => MantissaEnd * Two[k] <= 2 * n
    BY <2>1, FloatUnit, Zenon
  <2>3. k = 0
    <3>1. k # 0 => Two[k] = 1
      BY SMT, <2>1, <2>2, TwoGrows DEF MantissaEnd
    <3>2. k \in {0, 1, 2, 3, 4, 5, 6, 7, 8}
      BY SMT, <2>2
    <3> QED
      BY SMT, <3>1, <3>2, TwoValues
  <2>4. -k = 0
    <3>1. \A x \in Int : -x = 0 - x
      OBVIOUS
    <3>2. -k = 0 - k
      BY <2>2, <3>1
    <3> QED
      BY <2>3, <3>2
  <2> QED
    BY <2>1, <2>2, <2>3, <2>4, Zenon
<1>1. CASE n = 0
  <2> DEFINE f == [m |-> 0, e |-> 0]
             D == Decimal(f)
  <2>1. Quotient(Float(n), d) = f
    <3>1. Float(n) = f /\ f.m = 0
      BY <1>0, <1>1
    <3> HIDE DEF f
    <3> QED
      BY <3>1, Zenon DEF Quotient
  <2>2. Two[0] = 1
    BY TwoEquation
  <2>3. Whole(f) = 0
    BY SMT, <2>2 DEF Whole, Pow2
  <2>4. 0 <= MantissaEnd /\ 0 % 1 = 0
    BY SMT DEF MantissaEnd
  <2>5. D \in 0 .. 9 /\ \E near \in Nat, K \in 1 .. 16 :
           /\ D * 1 <= near
           /\ 2 * near <= 20 * 0 + K
           /\ K = 1 => near = 10 * 0
           /\ K # 1 => MantissaEnd * K <= 20 * 0
    BY SMT, <2>2, <2>4, DecimalNear
  <2> HIDE DEF D
  <2>6. D = 0
    BY SMT, <2>5 DEF MantissaEnd
  <2> QED
    BY SMT, <1>1, <2>1, <2>3, <2>6 DEF D
<1>2. CASE n # 0
  <2>1. n \in Nat \ {0} /\ n <= MantissaEnd
    BY SMT, <1>0, <1>2 DEF MantissaEnd
  <2>2. PICK m, e \in Nat :
           /\ Quotient([m |-> n, e |-> 0], d) = [m |-> m, e |-> 0 + e]
           /\ m <= MantissaEnd
           /\ MantissaEnd * d <= 2 * (n * Two[e])
           /\ 2 * (m * d) <= 2 * (n * Two[e]) + d
           /\ 2 * (n * Two[e]) <= 2 * (m * d) + d
    BY <2>1, 0 \in Int, QuotientNear, Zenon
  <2> DEFINE P == Two[e]
             w == m \div P
             F == m % P
             f == [m |-> m, e |-> e]
             D == Decimal(f)
  <2>3. P \in Nat \ {0}
    BY TwoGrows
  <2>4. \E near \in Nat, K \in 1 .. 16 :
           /\ D \in 0 .. 9 /\ D * P <= near /\ near < (D + 1) * P
           /\ 2 * near <= 20 * F + K /\ 20 * F <= 2 * near + K
           /\ K = 1 => near = 10 * F
           /\ K # 1 => MantissaEnd * K <= 20 * F
    BY SMT, <2>2, DecimalNear
  <2> HIDE DEF D
  <2>5. PICK near \in Nat, K \in 1 .. 16 :
           /\ D \in Nat /\ D * P <= near /\ near < (D + 1) * P
           /\ 2 * near <= 20 * F + K /\ 20 * F <= 2 * near + K
           /\ K = 1 => near = 10 * F
           /\ K # 1 => MantissaEnd * K <= 20 * F
    BY SMT, <2>4
  <2>6. Whole(f) = w
    BY SMT, <2>2, Capped DEF Whole
  <2>7. w \in Nat /\ F \in Nat /\ F < P /\ m = w * P + F
    <3> HIDE DEF P
    <3>1. w \in Nat /\ F \in 0 .. P - 1 /\ m = w * P + F
      BY <2>3, DivMod, Zenon
    <3> HIDE DEF w, F
    <3> QED
      BY SMT, <2>3, <3>1
  <2> HIDE DEF w, F, P
  <2>8. 8388608 * d <= n * P
    BY SMT, <2>2, <2>3 DEF MantissaEnd, P
  <2>9. K # 1 => 8388608 * K <= 10 * F
    BY SMT, <2>5, <2>7 DEF MantissaEnd
  <2>10. 2 * (m * d) <= 2 * (n * P) + d /\ 2 * (n * P) <= 2 * (m * d) + d
    BY SMT, <2>2 DEF P
  <2>11. n < 1048576 /\ d <= 65536
    BY SMT, TwoValues
  <2>12. (10 * w + D) * d <= 10 * n /\ 10 * n <= (10 * w + D + 1) * d
    BY SMT, <2>3, <2>5, <2>7, <2>8, <2>9, <2>10, <2>11, TenthsNear
  <2>13. 0 + e = e
    OBVIOUS
  <2> HIDE DEF f
  <2>14. Quotient(Float(n), d) = f
    BY <1>0, <2>2, <2>13, Zenon DEF f
  <2> QED
    BY <2>6, <2>12, <2>14, Zenon DEF D
<1> QED
  BY SMT, <1>1, <1>2

\* Every quotient of a number of 32 bits has a text.
LEMMA FloatTyped ==
    ASSUME NEW n \in Nat, n < MantissaEnd * Two[8], NEW d \in Nat \ {0, 1}, d <= Two[16]
    PROVE  LET f == Quotient(Float(n), d) IN Whole(f) \in Nat /\ Decimal(f) \in 0 .. 9
<1>1. ASSUME NEW m \in Nat, m <= MantissaEnd, NEW e \in Int
      PROVE  Whole([m |-> m, e |-> e]) \in Nat /\ Decimal([m |-> m, e |-> e]) \in 0 .. 9
  <2> DEFINE f == [m |-> m, e |-> e]
  <2>1. f.m = m /\ f.e = e
    OBVIOUS
  <2>2. CASE e < 0
    <3>1. -e \in Nat /\ Two[-e] \in Nat
      BY <2>2, TwoEquation
    <3> HIDE DEF f
    <3>2. Whole(f) = m * Two[-e]
      BY <2>1, <2>2, Zenon DEF Whole
    <3>3. Fraction(f) = [m |-> 0, e |-> e]
      BY <2>1, <2>2, Zenon DEF Fraction
    <3>4. Float(0) = [m |-> 0, e |-> 0]
      <4>1. 0 < MantissaEnd * Two[8]
        BY SMT, TwoValues DEF MantissaEnd
      <4>2. PICK k \in 0 .. 8, t \in Nat :
               /\ Float(0) = [m |-> t, e |-> -k]
               /\ k = 0 => t = 0
               /\ k # 0 => MantissaEnd * Two[k] <= 2 * 0
        BY <4>1, FloatUnit, Zenon
      <4>3. k = 0
        BY SMT, <4>2, TwoGrows DEF MantissaEnd
      <4>4. -k = 0
        <5>1. \A x \in Int : -x = 0 - x
          OBVIOUS
        <5>2. -k = 0 - k
          BY <4>2, <5>1
        <5> QED
          BY <4>3, <5>2
      <4> QED
        BY <4>2, <4>3, <4>4, Zenon
    <3> DEFINE g == Fraction(f)
               h == TimesTen(g)
    <3>5. g.m = 0 /\ g.e = e /\ 10 * 0 = 0 /\ Float(0).m = 0 /\ Float(0).e = 0
      BY <3>3, <3>4
    <3>6. h = [m |-> 0, e |-> e + 0]
      <4> HIDE DEF g
      <4> QED
        BY <3>5, Zenon DEF TimesTen
    <3>7. h.m = 0 /\ h.e = e
      <4> HIDE DEF h
      <4> QED
        BY <3>6
    <3>8. Decimal(f) = Whole(h)
      BY Zenon DEF Decimal
    <3> HIDE DEF g, h
    <3>9. Whole(h) = 0 * Two[-e]
      BY <2>2, <3>7, Zenon DEF Whole
    <3> QED
      BY <3>1, <3>2, <3>8, <3>9 DEF f
  <2>3. CASE ~(e < 0)
    <3>1. e \in Nat
      BY <2>3
    <3>2. Decimal(f) \in 0 .. 9
      <4>1. \E near \in Nat, K \in 1 .. 16 :
               /\ Decimal(f) \in 0 .. 9 /\ Decimal(f) * Two[e] <= near
               /\ near < (Decimal(f) + 1) * Two[e]
               /\ 2 * near <= 20 * (m % Two[e]) + K /\ 20 * (m % Two[e]) <= 2 * near + K
               /\ K = 1 => near = 10 * (m % Two[e])
               /\ K # 1 => MantissaEnd * K <= 20 * (m % Two[e])
        BY SMT, <1>1, <3>1, DecimalNear
      <4> QED
        BY <4>1, Zenon
    <3> HIDE DEF f
    <3>3. Whole(f) = m \div Two[e]
      BY <1>1, <2>1, <2>3, <3>1, Capped, Zenon DEF Whole
    <3>4. Whole(f) \in Nat
      BY <3>1, <3>3, TwoGrows, DivMod, Zenon
    <3> QED
      BY <3>2, <3>4 DEF f
  <2> QED
    BY <2>2, <2>3
<1>2. PICK k \in 0 .. 8, t \in Nat : Float(n) = [m |-> t, e |-> -k] /\ t <= MantissaEnd
  BY FloatUnit, Zenon
<1>3. -k \in Int
  BY <1>2
<1>4. CASE t = 0
  <2> DEFINE f == Float(n)
  <2>1. f.m = 0
    BY <1>2, <1>4
  <2>2. Quotient(f, d) = f
    <3> HIDE DEF f
    <3> QED
      BY <2>1, Zenon DEF Quotient
  <2> QED
    BY <1>1, <1>2, <1>3, <2>2, Zenon
<1>5. CASE t # 0
  <2>1. t \in Nat \ {0}
    BY <1>5
  <2>2. PICK m, e \in Nat :
           /\ Quotient([m |-> t, e |-> -k], d) = [m |-> m, e |-> -k + e]
           /\ m <= MantissaEnd
           /\ MantissaEnd * d <= 2 * (t * Two[e])
           /\ 2 * (m * d) <= 2 * (t * Two[e]) + d
           /\ 2 * (t * Two[e]) <= 2 * (m * d) + d
    BY <1>2, <1>3, <2>1, QuotientNear, Zenon
  <2>3. -k + e \in Int
    BY <1>3
  <2> QED
    BY <1>1, <1>2, <2>2, <2>3, Zenon
<1> QED
  BY <1>4, <1>5

-----------------------------------------------------------------------------
(* What is read from the text of a number.                                 *)

Shape == Figures \cup {"-", "."}

\* A sign is read as one.
LEMMA SignRead ==
    ASSUME NEW s \in Numeral, s # <<>>
    PROVE  /\ s \in Seq(Shape) /\ <<"-">> \o s \in Seq(Shape)
           /\ Tenths(s) = Unsigned(s) /\ Tenths(<<"-">> \o s) = -Unsigned(s)
<1>1. s \in Seq(Figures \cup {"."}) /\ s \in Seq(Shape) /\ <<"-">> \in Seq(Shape)
  <2>1. Figures \cup {"."} \subseteq Shape /\ "-" \in Shape
    BY DEF Shape
  <2>2. s \in Seq(Shape)
    BY <2>1, SeqMonotonic DEF Numeral
  <2> QED
    BY <2>1, <2>2 DEF Numeral
<1>2. <<"-">> \o s \in Seq(Shape)
  BY <1>1, ConcatProperties
<1>3. Head(s) # "-"
  <2>1. Head(s) \in Figures \cup {"."}
    BY <1>1, HeadTailProperties
  <2> QED
    BY <2>1, Characters
<1>4. Head(<<"-">> \o s) = "-" /\ Tail(<<"-">> \o s) = s
  <2> DEFINE t == <<"-">> \o s
  <2>1. /\ t \in Seq(Shape) /\ Len(t) = 1 + Len(s) /\ t[1] = "-"
        /\ \A i \in 1 .. Len(s) : t[i + 1] = s[i]
    <3>1. /\ t \in Seq(Shape) /\ Len(t) = Len(<<"-">>) + Len(s)
          /\ \A i \in 1 .. Len(<<"-">>) + Len(s) :
                 t[i] = IF i <= Len(<<"-">>) THEN <<"-">>[i] ELSE s[i - Len(<<"-">>)]
      BY <1>1, ConcatProperties
    <3>2. Len(<<"-">>) = 1 /\ <<"-">>[1] = "-" /\ Len(s) \in Nat
      BY <1>1
    <3> HIDE DEF t
    <3> QED
      BY <3>1, <3>2
  <2> HIDE DEF t
  <2>2. t # <<>> /\ Len(s) \in Nat
    BY <1>1, <2>1
  <2>3. Head(t) = t[1]
    BY <2>1, <2>2
  <2>4. /\ Tail(t) \in Seq(Shape) /\ Len(Tail(t)) = Len(s)
        /\ \A i \in 1 .. Len(Tail(t)) : Tail(t)[i] = t[i + 1]
    BY <2>1, <2>2, HeadTailProperties
  <2>5. Tail(t) = s
    BY <1>1, <2>1, <2>4, SeqEqual
  <2> QED
    BY <2>1, <2>3, <2>5 DEF t
<1> QED
  BY <1>1, <1>2, <1>3, <1>4 DEF Tenths

\* A text without a point stands for ten times its number of tenths,
LEMMA WholeRead ==
    ASSUME NEW n \in Nat
    PROVE  Digits[n] \in Numeral /\ Digits[n] # <<>> /\ Unsigned(Digits[n]) = 10 * n
<1>1. Digits[n] \in Seq(Figures) /\ Number[Digits[n]] = n
  BY DigitsReadBack
<1>2. Digits[n] \in Numeral
  BY <1>1, SeqMonotonic, Figures \subseteq Figures \cup {"."} DEF Numeral
<1>3. Digits[n] # <<>>
  <2>1. Digits[n] = <<>> => Number[Digits[n]] = 0 /\ n = 0
    BY <1>1, NumberEquation
  <2>2. Digits[0] = <<Chr(0)>>
    BY DigitsEquation
  <2> QED
    BY <2>1, <2>2
<1>4. \A k \in 1 .. Len(Digits[n]) : Digits[n][k] # "."
  BY <1>1, ElementOfSeq, Characters
<1> QED
  BY <1>1, <1>2, <1>3, <1>4 DEF Unsigned

\* one with a point for the number of its figures.
LEMMA DecimalRead ==
    ASSUME NEW w \in Nat, NEW D \in 0 .. 9
    PROVE  LET s == Digits[w] \o <<".", Chr(D)>> IN
           s \in Numeral /\ s # <<>> /\ Unsigned(s) = 10 * w + D
<1> DEFINE t == Append(Digits[w], ".")
           s == Append(t, Chr(D))
           S == Figures \cup {"."}
<1>1. Digits[w] \in Seq(S) /\ Number[Digits[w]] = w
  BY WholeRead, DigitsReadBack DEF Numeral
<1>2. Chr(D) \in Figures /\ Chr(D) # "." /\ Digit(Chr(D)) = D /\ Chr(D) \in S /\ "." \in S
  BY Characters
<1>3. t \in Seq(S) /\ s \in Seq(S) /\ s # <<>> /\ Len(t) = Len(Digits[w]) + 1 /\ Len(s) = Len(t) + 1
  <2>1. t \in Seq(S) /\ Len(t) = Len(Digits[w]) + 1
    BY <1>1, <1>2, AppendProperties
  <2> HIDE DEF t
  <2> QED
    BY <1>2, <2>1, AppendProperties
<1>4. s[Len(t)] = "."
  <2>1. t[Len(Digits[w]) + 1] = "."
    BY <1>1, <1>2, AppendProperties
  <2>2. Len(t) \in 1 .. Len(t)
    BY <1>1, <1>3
  <2> HIDE DEF t
  <2> QED
    BY <1>2, <1>3, <2>1, <2>2, AppendProperties
<1>5. Number[t] = w
  BY <1>1, <1>2, NumberEquation DEF Numeral
<1> HIDE DEF t
<1>6. Number[s] = 10 * w + D
  BY <1>2, <1>3, <1>5, NumberEquation DEF Numeral
<1> HIDE DEF s
<1>7. Unsigned(s) = 10 * w + D
  <2>1. Len(t) \in 1 .. Len(s)
    BY <1>1, <1>3
  <2> QED
    BY <1>4, <1>6, <2>1 DEF Unsigned
<1>8. s = Digits[w] \o <<".", Chr(D)>>
  <2> DEFINE u == <<".", Chr(D)>>
  <2>1. u \in Seq(S) /\ Len(u) = 2 /\ u[1] = "." /\ u[2] = Chr(D)
    BY <1>2
  <2> HIDE DEF u
  <2>2. /\ Digits[w] \o u \in Seq(S) /\ Len(Digits[w] \o u) = Len(Digits[w]) + 2
        /\ \A i \in 1 .. Len(Digits[w]) + 2 :
               (Digits[w] \o u)[i] = IF i <= Len(Digits[w]) THEN Digits[w][i] ELSE u[i - Len(Digits[w])]
    <3> HIDE DEF S
    <3>1. /\ Digits[w] \o u \in Seq(S) /\ Len(Digits[w] \o u) = Len(Digits[w]) + Len(u)
          /\ \A i \in 1 .. Len(Digits[w]) + Len(u) :
                 (Digits[w] \o u)[i] =
                     IF i <= Len(Digits[w]) THEN Digits[w][i] ELSE u[i - Len(Digits[w])]
      BY <1>1, <2>1, ConcatProperties, Zenon
    <3> QED
      BY <2>1, <3>1, Zenon
  <2>3. /\ \A i \in 1 .. Len(Digits[w]) : s[i] = Digits[w][i]
        /\ s[Len(Digits[w]) + 1] = "." /\ s[Len(Digits[w]) + 2] = Chr(D)
    <3>1. \A i \in 1 .. Len(Digits[w]) : t[i] = Digits[w][i]
      BY <1>1, <1>2, AppendProperties DEF t
    <3>2. \A i \in 1 .. Len(t) : s[i] = t[i]
      BY <1>2, <1>3, AppendProperties DEF s
    <3>3. s[Len(t) + 1] = Chr(D)
      BY <1>2, <1>3, AppendProperties DEF s
    <3>4. Len(Digits[w]) \in Nat
      BY <1>1
    <3> QED
      BY <1>3, <1>4, <3>1, <3>2, <3>3, <3>4
  <2>4. \A i \in 1 .. Len(s) : s[i] = (Digits[w] \o u)[i]
    <3>1. Len(Digits[w]) \in Nat
      BY <1>1
    <3> TAKE i \in 1 .. Len(s)
    <3>2. \/ i \in 1 .. Len(Digits[w])
          \/ i = Len(Digits[w]) + 1
          \/ i = Len(Digits[w]) + 2
      BY <1>3, <3>1
    <3> QED
      BY <2>1, <2>2, <2>3, <3>1, <3>2
  <2>5. Len(s) = Len(Digits[w]) + 2
    BY <1>1, <1>3
  <2> QED
    BY <1>3, <2>2, <2>4, <2>5, SeqEqual DEF u
<1> QED
  BY <1>3, <1>7, <1>8 DEF Numeral

\* What is printed without decimals: the sign and the digits of the 16 bits, -32768 among them.
LEMMA Int16Read ==
    ASSUME NEW raw \in Int
    PROVE  LET v == ToInt16(raw)
               n == Abs(v)
           IN  /\ v \in Int /\ n \in Nat /\ (v < 0 => v = -n) /\ (~(v < 0) => v = n)
               /\ Int16ToStr(v) = IF v < 0 THEN <<"-">> \o Digits[n] ELSE Digits[n]
<1> DEFINE u == ToUint16(raw)
           v == ToInt16(raw)
<1>1. u \in Nat /\ u < 65536
  BY SMT DEF ToUint16
<1>2. v \in Int /\ -32768 <= v /\ v < 32768
  <2>1. v = IF u < 32768 THEN u ELSE u - 65536
    BY SMT DEF ToInt16
  <2> HIDE DEF u, v
  <2> QED
    BY SMT, <1>1, <2>1
<1> HIDE DEF v
<1>3. Abs(v) \in Nat /\ (v < 0 => v = -Abs(v)) /\ (~(v < 0) => v = Abs(v))
  BY SMT, <1>2 DEF Abs
<1>4. v < 0 => ToUint16(-v) = Abs(v)
  BY SMT, <1>2 DEF ToUint16, Abs
<1>5. Int16ToStr(v) = IF v < 0 THEN <<"-">> \o Digits[Abs(v)] ELSE Digits[Abs(v)]
  BY SMT, <1>3, <1>4 DEF Int16ToStr, Uint16ToStr
<1> QED
  BY SMT, <1>2, <1>3, <1>5 DEF v

\* A sign in front of a numeral of t tenths.
LEMMA SignedSays ==
    ASSUME NEW raw \in Int, NEW s \in Numeral, s # <<>>,
           NEW t \in Nat, Unsigned(s) = t, NEW text \in {s, <<"-">> \o s}
    PROVE  /\ text \in Seq(Shape)
           /\ \A d \in Nat \ {0} :
                 /\ text # s => raw < 0
                 /\ t * d <= 10 * Abs(raw) /\ 10 * Abs(raw) <= (t + 1) * d
                 => Says(Tenths(text), raw, d)
<1>1. /\ text \in Seq(Shape) /\ Tenths(text) \in {t, -t}
      /\ text = s => Tenths(text) = t
  BY SignRead
<1>2. Abs(Tenths(text)) = t
  <2> DEFINE u == Tenths(text)
  <2>1. u = t \/ u = -t
    BY <1>1
  <2> HIDE DEF u
  <2>2. Abs(u) = t
    BY <2>1 DEF Abs
  <2> QED
    BY <2>2 DEF u
<1>3. Tenths(text) < 0 => text # s
  BY <1>1
<1> QED
  BY <1>1, <1>2, <1>3 DEF Says

\* What Reading prints of a number of 32 bits and a divisor of 16 is a sign, figures and
\* at most a point.  If the number is Tellable, one that the cast to 16 bits keeps or, where
\* it is divided, one below 2^20, it reads back as the quotient cut off behind the first
\* decimal or a tenth lower.  Of other numbers no more is said than their form: TenthGained
\* is one that reads too high (build_osd_text with Utils_Int16ToStr and Utils_FloatToStr).
THEOREM ReadingSays ==
    ASSUME NEW raw \in Int, Is32Bits(raw), NEW d \in Nat, d <= Two[16]
    PROVE  /\ Reading(raw, d) \in Seq(Shape)
           /\ Tellable(raw, d) => Says(Tenths(Reading(raw, d)), raw, IF d = 0 THEN 1 ELSE d)
<1>1. CASE d <= 1
  <2> DEFINE v == ToInt16(raw)
             n == Abs(v)
             text == Reading(raw, d)
             s == Digits[n]
  <2>1. /\ v \in Int /\ n \in Nat /\ (v < 0 => v = -n) /\ (~(v < 0) => v = n)
        /\ Int16ToStr(v) = IF v < 0 THEN <<"-">> \o s ELSE s
    BY Int16Read, Zenon
  <2>2. text = IF v < 0 THEN <<"-">> \o s ELSE s
    BY <1>1, <2>1, Zenon DEF Reading
  <2>3. s \in Numeral /\ s # <<>> /\ Unsigned(s) = 10 * n /\ 10 * n \in Nat
    <3>1. n \in Nat
      BY <2>1, Zenon
    <3> HIDE DEF n
    <3>2. 10 * n \in Nat
      BY <3>1
    <3> QED
      BY <3>1, <3>2, WholeRead, Zenon
  <2> HIDE DEF text, s
  <2>4. /\ text \in Seq(Shape)
        /\ \A b \in Nat \ {0} :
              /\ text # s => raw < 0
              /\ (10 * n) * b <= 10 * Abs(raw) /\ 10 * Abs(raw) <= (10 * n + 1) * b
              => Says(Tenths(text), raw, b)
    <3> HIDE DEF n, v
    <3>1. text \in {s, <<"-">> \o s}
      BY <2>2, Zenon
    <3> QED
      BY <2>3, <3>1, SignedSays, Zenon
  <2>5. Tellable(raw, d) => v = raw /\ n = Abs(raw)
    <3>1. Tellable(raw, d) => v = raw
      BY SMT, <1>1 DEF Tellable
    <3> QED
      BY <3>1, Zenon
  <2>6. (IF d = 0 THEN 1 ELSE d) = 1
    BY <1>1
  <2> HIDE DEF n, v
  <2>7. Tellable(raw, d) => Says(Tenths(text), raw, 1)
    <3> SUFFICES ASSUME Tellable(raw, d) PROVE Says(Tenths(text), raw, 1)
      OBVIOUS
    <3>1. (10 * n) * 1 <= 10 * Abs(raw) /\ 10 * Abs(raw) <= (10 * n + 1) * 1
      BY <2>1, <2>5
    <3>2. text # s => raw < 0
      BY <2>2, <2>5
    <3> QED
      BY <2>4, <3>1, <3>2, 1 \in Nat \ {0}, Zenon
  <2> QED
    BY <2>4, <2>6, <2>7 DEF text
<1>2. CASE ~(d <= 1)
  <2> DEFINE n == Abs(raw)
             f == Quotient(Float(n), d)
             w == Whole(f)
             D == Decimal(f)
             s == Digits[w] \o <<".", Chr(D)>>
             text == Reading(raw, d)
  <2>1. n \in Nat /\ n < MantissaEnd * Two[8] /\ d \in Nat \ {0, 1}
    BY SMT, <1>2, TwoValues DEF MantissaEnd, Abs, Is32Bits
  <2>2. w \in Nat /\ D \in 0 .. 9
    <3> HIDE DEF n
    <3> QED
      BY <2>1, FloatTyped, Zenon
  <2>3. s \in Numeral /\ s # <<>> /\ Unsigned(s) = 10 * w + D
    <3> HIDE DEF w, D
    <3> QED
      BY <2>2, DecimalRead, Zenon
  <2>4. text = IF raw < 0 THEN <<"-">> \o s ELSE s
    <3>1. text = (IF raw < 0 THEN <<"-">> ELSE <<>>) \o Digits[w] \o <<".", Chr(D)>>
      BY <1>2, Zenon DEF Reading, FloatToStr, Abs
    <3>2. Digits[w] \in Seq(Shape) /\ <<".", Chr(D)>> \in Seq(Shape) /\ <<"-">> \in Seq(Shape)
      <4> HIDE DEF w, D
      <4>1. Digits[w] \in Numeral /\ Digits[w] # <<>>
        BY <2>2, WholeRead
      <4>2. Chr(D) \in Shape /\ "." \in Shape /\ "-" \in Shape
        BY <2>2, Characters DEF Shape
      <4> QED
        BY <4>1, <4>2, SignRead
    <3> HIDE DEF w, D, text
    <3>3. CASE raw < 0
      <4> DEFINE sign == <<"-">>
                 front == Digits[w]
                 back == <<".", Chr(D)>>
      <4>1. sign \in Seq(Shape) /\ front \in Seq(Shape) /\ back \in Seq(Shape)
        BY <3>2, Zenon
      <4> HIDE DEF sign, front, back
      <4>2. (sign \o front) \o back = sign \o (front \o back)
        BY <4>1, ConcatAssociative
      <4>3. (<<"-">> \o Digits[w]) \o <<".", Chr(D)>> = <<"-">> \o s
        BY <4>2, Zenon DEF sign, front, back
      <4> QED
        BY <3>1, <3>3, <4>3, Zenon
    <3>4. CASE ~(raw < 0)
      <4>1. <<>> \o Digits[w] = Digits[w]
        BY <3>2, ConcatEmptySeq, Zenon
      <4> QED
        BY <3>1, <3>4, <4>1, Zenon
    <3> QED
      BY <3>3, <3>4, Zenon
  <2>5. 10 * w + D \in Nat
    <3> HIDE DEF w, D
    <3> QED
      BY <2>2
  <2>6. /\ text \in Seq(Shape)
        /\ \A b \in Nat \ {0} :
              /\ text # s => raw < 0
              /\ (10 * w + D) * b <= 10 * Abs(raw) /\ 10 * Abs(raw) <= (10 * w + D + 1) * b
              => Says(Tenths(text), raw, b)
    <3> HIDE DEF w, D, s, text
    <3>1. text \in {s, <<"-">> \o s}
      BY <2>4, Zenon
    <3> QED
      BY <2>3, <2>5, <3>1, SignedSays, Zenon
  <2>7. Tellable(raw, d) => n < Two[20]
    <3>1. Tellable(raw, d) => n < 1048576
      BY SMT, <1>2 DEF Tellable
    <3> HIDE DEF n
    <3> QED
      BY SMT, <3>1, TwoValues
  <2>8. Tellable(raw, d) =>
           (10 * w + D) * d <= 10 * Abs(raw) /\ 10 * Abs(raw) <= (10 * w + D + 1) * d
    BY <2>1, <2>7, FloatNear, Zenon
  <2>9. (IF d = 0 THEN 1 ELSE d) = d /\ d \in Nat \ {0}
    BY <1>2
  <2>10. text # s => raw < 0
    BY <2>4, Zenon
  <2> HIDE DEF w, D, text, s
  <2> QED
    BY <2>6, <2>8, <2>9, <2>10, Zenon DEF text
<1> QED
  BY <1>1, <1>2

-----------------------------------------------------------------------------
(* The text of a sensor: where its names are, and what is behind each.     *)

Points == 1 .. Len(Name)
Alphabet == Shape \cup Layout \cup {Name[i] : i \in Points}
Printed(v, di) == Reading(v[di], Divisor[di])

\* RequestAssumption in the terms of this section.
LEMMA PointsDiffer ==
    /\ Len(Name) \in Nat
    /\ \A i \in Points : Name[i] \in Alphabet /\ Name[i] \notin Shape \cup Layout
    /\ \A i, j \in Points : Name[i] = Name[j] => i = j
    /\ \A i \in Points : Divisor[i] \in Nat /\ Divisor[i] <= Two[16]
    /\ \A v \in Value : v \in Seq(Int) /\ Len(v) = Len(Name) /\ \A i \in Points : v[i] \in Int /\ Is32Bits(v[i])
<1>1. Len(Name) \in Nat
  BY SMT, RequestAssumption
<1>2. \A i \in Points : Name[i] \in Alphabet /\ Name[i] \notin Shape \cup Layout
  BY SMT, RequestAssumption DEF Points, Alphabet, Shape
<1>3. \A i, j \in Points : Name[i] = Name[j] => i = j
  BY SMT, RequestAssumption DEF Points
<1>4. \A i \in Points : Divisor[i] \in Nat /\ Divisor[i] <= Two[16]
  <2>1. \A i \in Points : Divisor[i] \in Nat /\ Divisor[i] < 65536
    BY SMT, RequestAssumption DEF Points
  <2> QED
    BY SMT, <2>1, TwoValues
<1>5. ASSUME NEW v \in Value
      PROVE  v \in Seq(Int) /\ Len(v) = Len(Name) /\ \A i \in Points : v[i] \in Int /\ Is32Bits(v[i])
  BY SMT, RequestAssumption DEF Points
<1> QED
  BY <1>1, <1>2, <1>3, <1>4, <1>5

\* An entry is a name, which is nowhere else in it, with its number two characters behind.
LEMMA EntryShape ==
    ASSUME NEW v \in Value, NEW di \in Points
    PROVE  LET E == Entry(v, di)
               R == Printed(v, di)
           IN  /\ E \in Seq(Alphabet) /\ R \in Seq(Shape)
               /\ Len(E) = 2 + Len(R) + IF di < Len(Name) THEN 1 ELSE 0
               /\ E[1] = Name[di]
               /\ \A x \in 1 .. Len(R) : E[x + 2] = R[x]
               /\ \A k \in 1 .. Len(E), j \in Points : E[k] = Name[j] <=> k = 1 /\ j = di
<1> DEFINE R == Printed(v, di)
           a == <<Name[di], ":">>
           c == IF di < Len(v) THEN <<",">> ELSE <<>>
           E == Entry(v, di)
<1>1. E = (a \o R) \o c
  BY Zenon DEF Entry, Printed
<1>2. R \in Seq(Shape) /\ R \in Seq(Alphabet)
  <2>1. R \in Seq(Shape)
    BY PointsDiffer, ReadingSays, Zenon DEF Printed
  <2>2. Shape \subseteq Alphabet
    BY DEF Alphabet
  <2> HIDE DEF R
  <2> QED
    BY <2>1, <2>2, SeqMonotonic
<1>3. a \in Seq(Alphabet) /\ Len(a) = 2 /\ a[1] = Name[di] /\ a[2] = ":"
  <2>1. ":" \in Alphabet /\ Name[di] \in Alphabet
    BY PointsDiffer DEF Alphabet, Layout
  <2> QED
    BY <2>1
<1>4. /\ c \in Seq(Alphabet) /\ Len(c) = IF di < Len(Name) THEN 1 ELSE 0
      /\ \A k \in 1 .. Len(c) : c[k] \in Layout
  <2>1. "," \in Alphabet /\ "," \in Layout /\ Len(v) = Len(Name)
    BY PointsDiffer, Zenon DEF Alphabet, Layout
  <2> DEFINE comma == ","
  <2> HIDE DEF comma
  <2>2. comma \in Alphabet /\ comma \in Layout
    BY <2>1, Zenon DEF comma
  <2>3. CASE di < Len(Name)
    <3>1. c = <<comma>>
      BY <2>1, <2>3, Zenon DEF comma
    <3> HIDE DEF c
    <3> QED
      BY <2>2, <2>3, <3>1
  <2>4. CASE ~(di < Len(Name))
    <3>1. c = <<>>
      BY <2>1, <2>4, Zenon
    <3> HIDE DEF c
    <3> QED
      BY <2>4, <3>1
  <2> QED
    BY <2>3, <2>4, Zenon
<1> HIDE DEF R, a, c, E
<1> DEFINE ar == a \o R
<1>5. /\ ar \in Seq(Alphabet) /\ Len(ar) = 2 + Len(R)
      /\ \A k \in 1 .. 2 + Len(R) : ar[k] = IF k <= 2 THEN a[k] ELSE R[k - 2]
  <2>1. /\ ar \in Seq(Alphabet) /\ Len(ar) = Len(a) + Len(R)
        /\ \A k \in 1 .. Len(a) + Len(R) : ar[k] = IF k <= Len(a) THEN a[k] ELSE R[k - Len(a)]
    BY <1>2, <1>3, ConcatProperties, Zenon
  <2> HIDE DEF ar
  <2> QED
    BY <1>3, <2>1
<1> HIDE DEF ar
<1>6. /\ E \in Seq(Alphabet) /\ Len(E) = Len(ar) + Len(c)
      /\ \A k \in 1 .. Len(ar) + Len(c) : E[k] = IF k <= Len(ar) THEN ar[k] ELSE c[k - Len(ar)]
  <2>1. E = ar \o c
    BY <1>1, Zenon DEF ar
  <2>2. ar \in Seq(Alphabet) /\ c \in Seq(Alphabet)
    BY <1>4, <1>5, Zenon
  <2> QED
    BY <2>1, <2>2, ConcatProperties, Zenon
<1>7. Len(R) \in Nat /\ Len(c) \in Nat /\ \A k \in 1 .. Len(R) : R[k] \in Shape
  <2>1. Len(R) \in Nat /\ Len(c) \in Nat
    BY <1>2, <1>4, LenProperties
  <2>2. \A k \in 1 .. Len(R) : R[k] \in Shape
    BY <1>2, ElementOfSeq
  <2> QED
    BY <2>1, <2>2
<1>8. Len(E) = 2 + Len(R) + IF di < Len(Name) THEN 1 ELSE 0
  BY <1>4, <1>5, <1>6
<1>9. E[1] = Name[di] /\ E[2] = ":"
  BY <1>3, <1>5, <1>6, <1>7
<1>10. \A x \in 1 .. Len(R) : E[x + 2] = R[x]
  <2> TAKE x \in 1 .. Len(R)
  <2>1. x + 2 \in 1 .. 2 + Len(R) /\ ~(x + 2 <= 2) /\ (x + 2) - 2 = x
    BY <1>7
  <2>2. ar[x + 2] = R[x]
    BY <1>5, <2>1
  <2>3. E[x + 2] = ar[x + 2]
    BY <1>5, <1>6, <1>7, <2>1
  <2> QED
    BY <2>2, <2>3
<1>11. \A k \in 1 .. Len(E) : k # 1 => E[k] \in Shape \cup Layout
  <2> TAKE k \in 1 .. Len(E)
  <2> HAVE k # 1
  <2>1. k \in Nat /\ (k = 2 \/ k - 2 \in 1 .. Len(R) \/ k - Len(ar) \in 1 .. Len(c))
    BY <1>5, <1>6, <1>7
  <2>2. CASE k = 2
    BY <1>9, <2>2 DEF Layout
  <2>3. CASE k - 2 \in 1 .. Len(R)
    <3>1. E[(k - 2) + 2] = R[k - 2] /\ (k - 2) + 2 = k
      BY <1>10, <2>1, <2>3
    <3> QED
      BY <1>7, <2>3, <3>1
  <2>4. CASE k - Len(ar) \in 1 .. Len(c)
    <3>1. E[k] = c[k - Len(ar)]
      BY <1>5, <1>6, <1>7, <2>1, <2>4
    <3> QED
      BY <1>4, <2>4, <3>1 DEF Layout
  <2> QED
    BY <2>1, <2>2, <2>3, <2>4
<1>12. \A k \in 1 .. Len(E), j \in Points : E[k] = Name[j] <=> k = 1 /\ j = di
  <2> TAKE k \in 1 .. Len(E), j \in Points
  <2>1. CASE k = 1
    BY <1>9, <2>1, PointsDiffer, Zenon
  <2>2. CASE k # 1
    BY <1>11, <2>2, PointsDiffer, Zenon
  <2> QED
    BY <2>1, <2>2
<1> QED
  BY <1>2, <1>6, <1>8, <1>9, <1>10, <1>12, Zenon DEF E, R

\* The loop of build_osd_text appends entry after entry.
LEMMA OsdEquation ==
    ASSUME NEW v \in Value
    PROVE  /\ Osd(v)[0] = <<>>
           /\ \A di \in Points :
                 /\ di - 1 \in 0 .. Len(Name)
                 /\ Osd(v)[di - 1] \in Seq(Alphabet) /\ Osd(v)[di] \in Seq(Alphabet)
                 /\ Osd(v)[di] = Osd(v)[di - 1] \o Entry(v, di)
<1> DEFINE S == Seq(Alphabet)
           N == 0 .. Len(v)
           step == [di \in Nat |->
                       [text \in S |-> IF di \in Points THEN text \o Entry(v, di) ELSE text]]
           Equation(u) == u = [di \in N |-> IF di = 0 THEN <<>> ELSE u[di - 1] \o Entry(v, di)]
<1>1. Len(v) = Len(Name) /\ Len(Name) \in Nat
  BY PointsDiffer, Zenon
<1>2. step \in [Nat -> [S -> S]]
  <2> SUFFICES ASSUME NEW di \in Nat, NEW text \in S
               PROVE  (IF di \in Points THEN text \o Entry(v, di) ELSE text) \in S
    OBVIOUS
  <2>1. CASE di \in Points
    <3>1. Entry(v, di) \in S
      BY <2>1, EntryShape, Zenon
    <3> QED
      BY <2>1, <3>1, ConcatProperties, Zenon
  <2>2. CASE di \notin Points
    BY <2>2, Zenon
  <2> QED
    BY <2>1, <2>2
<1>3. PICK g \in [Nat -> S] : SolvesInTurn(g, <<>>, step)
  <2>1. <<>> \in S
    OBVIOUS
  <2> HIDE DEF S, step
  <2> QED
    BY <1>2, <2>1, NatRecursion
<1> DEFINE u == [di \in N |-> g[di]]
<1>4. ASSUME NEW di \in N PROVE u[di] = IF di = 0 THEN <<>> ELSE u[di - 1] \o Entry(v, di)
  <2>1. di \in Nat /\ u[di] = g[di]
    BY <1>1
  <2>2. g[di] = IF di = 0 THEN <<>> ELSE step[di][g[di - 1]]
    BY <1>3, <2>1, Zenon DEF SolvesInTurn
  <2>3. CASE di = 0
    BY <2>1, <2>2, <2>3, Zenon
  <2>4. CASE di # 0
    <3>1. di - 1 \in N /\ di - 1 \in Nat /\ di \in Points
      BY <1>1, <2>1, <2>4 DEF Points
    <3>2. u[di - 1] = g[di - 1] /\ g[di - 1] \in S
      <4> HIDE DEF S, N
      <4> QED
        BY <1>3, <3>1
    <3>3. step[di][g[di - 1]] = g[di - 1] \o Entry(v, di)
      BY <2>1, <3>1, <3>2, Zenon
    <3> HIDE DEF step, u
    <3> QED
      BY <2>1, <2>2, <2>4, <3>2, <3>3, Zenon
  <2> QED
    BY <2>3, <2>4
<1>5. Equation(u)
  BY <1>4, Zenon
<1>6. Equation(Osd(v))
  <2> HIDE DEF u, step
  <2> QED
    BY <1>5, Zenon DEF Osd
<1>7. \A di \in N : Osd(v)[di] = IF di = 0 THEN <<>> ELSE Osd(v)[di - 1] \o Entry(v, di)
  BY <1>6, Zenon
<1> HIDE DEF step, u, Equation
<1>8. \A di \in Nat : di \in N => Osd(v)[di] \in S
  <2> DEFINE T == {di \in Nat : di \in N => Osd(v)[di] \in S}
  <2>1. 0 \in T
    <3>1. 0 \in N => Osd(v)[0] = <<>>
      BY <1>7, Zenon
    <3>2. <<>> \in S
      OBVIOUS
    <3> HIDE DEF S
    <3> QED
      BY <3>1, <3>2
  <2>2. ASSUME NEW di \in T PROVE di + 1 \in T
    <3> SUFFICES ASSUME di + 1 \in N PROVE Osd(v)[di + 1] \in S
      OBVIOUS
    <3>1. di \in N /\ di + 1 # 0 /\ (di + 1) - 1 = di /\ di + 1 \in Points
      BY <1>1 DEF Points
    <3>2. Osd(v)[di] \in S
      <4> HIDE DEF S, N
      <4> QED
        BY <3>1
    <3>3. Osd(v)[di + 1] = Osd(v)[di] \o Entry(v, di + 1)
      BY <1>7, <3>1, Zenon
    <3>4. Entry(v, di + 1) \in S
      BY <3>1, EntryShape, Zenon
    <3> QED
      BY <3>2, <3>3, <3>4, ConcatProperties, Zenon
  <2> HIDE DEF T
  <2>3. T = Nat
    BY <2>1, <2>2, StepInduction, T \in SUBSET Nat DEF T
  <2> QED
    BY <2>3 DEF T
<1>9. Osd(v)[0] = <<>>
  BY <1>1, <1>7, 0 \in N
<1>10. ASSUME NEW di \in Points
       PROVE  /\ di - 1 \in 0 .. Len(Name)
              /\ Osd(v)[di - 1] \in S /\ Osd(v)[di] \in S
              /\ Osd(v)[di] = Osd(v)[di - 1] \o Entry(v, di)
  <2>1. di \in N /\ di # 0 /\ di - 1 \in N /\ di \in Nat /\ di - 1 \in Nat
    BY <1>1 DEF Points
  <2>2. N = 0 .. Len(Name)
    BY <1>1, Zenon
  <2> HIDE DEF S, N
  <2> QED
    BY <1>7, <1>8, <2>1, <2>2, Zenon
<1> QED
  BY <1>9, <1>10

\* Up to point di of a text: names are where they were put, and nowhere else, with the
\* numbers behind them.
Placed(v, di) ==
    LET text == Osd(v)[di]
        before(j) == Len(Osd(v)[j - 1])
    IN  /\ \A j \in 1 .. di : before(j) + 2 + Len(Printed(v, j)) <= Len(text)
        /\ \A k \in 1 .. Len(text), j \in Points :
               text[k] = Name[j] <=> j <= di /\ k = before(j) + 1
        /\ \A j \in 1 .. di : \A x \in 1 .. Len(Printed(v, j)) :
               text[before(j) + 2 + x] = Printed(v, j)[x]

\* A round of the loop leaves what is there where it is.
LEMMA PlacedNext ==
    ASSUME NEW v \in Value, NEW di \in Points, Placed(v, di - 1)
    PROVE  Placed(v, di)
<1> DEFINE U == Osd(v)
           before(j) == Len(U[j - 1])
           R(j) == Printed(v, j)
           b == before(di)
           text == U[di]
           last == U[di - 1]
           E == Entry(v, di)
<1>1. last \in Seq(Alphabet) /\ text \in Seq(Alphabet) /\ E \in Seq(Alphabet) /\ text = last \o E
  BY OsdEquation, EntryShape, Zenon
<1>2. /\ Len(E) >= 2 + Len(R(di)) /\ Len(R(di)) \in Nat /\ Len(E) \in Nat
      /\ \A x \in 1 .. Len(R(di)) : E[x + 2] = R(di)[x]
      /\ \A k \in 1 .. Len(E), j \in Points : E[k] = Name[j] <=> k = 1 /\ j = di
  <2>1. /\ E \in Seq(Alphabet) /\ R(di) \in Seq(Shape)
        /\ Len(E) = 2 + Len(R(di)) + IF di < Len(Name) THEN 1 ELSE 0
        /\ \A x \in 1 .. Len(R(di)) : E[x + 2] = R(di)[x]
        /\ \A k \in 1 .. Len(E), j \in Points : E[k] = Name[j] <=> k = 1 /\ j = di
    BY EntryShape, ZenonT(60)
  <2>2. Len(R(di)) \in Nat /\ Len(E) \in Nat
    BY <2>1, LenProperties, Zenon
  <2>3. Len(E) >= 2 + Len(R(di))
    <3> HIDE DEF E, R
    <3> QED
      BY <2>1, <2>2
  <2> QED
    BY <2>1, <2>2, <2>3, Zenon
<1>3. b \in Nat /\ b = Len(last)
  BY <1>1, LenProperties, Zenon
<1>4. /\ Len(text) = b + Len(E)
      /\ \A k \in 1 .. b : text[k] = last[k]
      /\ \A k \in 1 .. Len(E) : text[b + k] = E[k]
  <2> HIDE DEF text, last, E, b
  <2>1. /\ Len(text) = Len(last) + Len(E)
        /\ \A k \in 1 .. Len(last) + Len(E) :
               text[k] = IF k <= Len(last) THEN last[k] ELSE E[k - Len(last)]
    BY <1>1, ConcatProperties, Zenon
  <2>2. ASSUME NEW k \in 1 .. b PROVE text[k] = last[k]
    BY <1>2, <1>3, <2>1
  <2>3. ASSUME NEW k \in 1 .. Len(E) PROVE text[b + k] = E[k]
    <3>1. b + k \in 1 .. Len(last) + Len(E) /\ ~(b + k <= Len(last)) /\ (b + k) - Len(last) = k
      BY <1>2, <1>3
    <3> QED
      BY <2>1, <3>1
  <2> QED
    BY <1>3, <2>1, <2>2, <2>3
<1>5. /\ \A j \in 1 .. di - 1 : before(j) + 2 + Len(R(j)) <= b
      /\ \A k \in 1 .. b, j \in Points : last[k] = Name[j] <=> j <= di - 1 /\ k = before(j) + 1
      /\ \A j \in 1 .. di - 1 : \A x \in 1 .. Len(R(j)) : last[before(j) + 2 + x] = R(j)[x]
  BY Zenon DEF Placed
<1>6. di \in Nat \ {0} /\ \A j \in Points : j \in Nat \ {0} /\ before(j) \in Nat /\ Len(R(j)) \in Nat
  <2>1. \A j \in Points : U[j - 1] \in Seq(Alphabet) /\ R(j) \in Seq(Shape)
    BY OsdEquation, EntryShape, Zenon
  <2>2. \A j \in Points : before(j) \in Nat /\ Len(R(j)) \in Nat
    BY <2>1, LenProperties, Zenon
  <2>3. \A j \in Points : j \in Nat \ {0}
    BY PointsDiffer DEF Points
  <2> QED
    BY <2>2, <2>3, Zenon
<1>7. \A j \in 1 .. di - 1 : j \in Points
  BY PointsDiffer DEF Points
<1> HIDE DEF U, R, b, text, last, E, before
<1>8. \A j \in 1 .. di : j = di \/ j \in 1 .. di - 1
  BY <1>6
<1>9. ASSUME NEW j \in 1 .. di PROVE before(j) + 2 + Len(R(j)) <= Len(text)
  <2>1. CASE j = di
    BY <1>2, <1>3, <1>4, <2>1 DEF b
  <2>2. CASE j \in 1 .. di - 1
    <3>1. j \in Points
      BY <1>7, <2>2
    <3>2. before(j) \in Nat /\ Len(R(j)) \in Nat
      BY <1>6, <3>1, Zenon
    <3>3. before(j) + 2 + Len(R(j)) <= b
      BY <1>5, <2>2, Zenon
    <3>4. Len(E) \in Nat /\ b \in Nat /\ Len(text) = b + Len(E)
      BY <1>2, <1>3, <1>4, Zenon
    <3> QED
      BY <3>2, <3>3, <3>4
  <2> QED
    BY <1>8, <2>1, <2>2
<1>10. ASSUME NEW k \in 1 .. Len(text), NEW j \in Points
       PROVE  text[k] = Name[j] <=> j <= di /\ k = before(j) + 1
  <2>1. k \in Nat /\ (k \in 1 .. b \/ k - b \in 1 .. Len(E))
    BY <1>2, <1>3, <1>4
  <2>2. CASE k \in 1 .. b
    <3>1. text[k] = Name[j] <=> j <= di - 1 /\ k = before(j) + 1
      BY <1>4, <1>5, <2>2
    <3>2. j <= di /\ k = before(j) + 1 => j # di
      BY <1>3, <2>2 DEF b
    <3> QED
      BY <1>6, <3>1, <3>2
  <2>3. CASE k - b \in 1 .. Len(E)
    <3>1. text[b + (k - b)] = E[k - b] /\ b + (k - b) = k
      BY <1>3, <1>4, <2>1, <2>3
    <3>2. text[k] = Name[j] <=> k - b = 1 /\ j = di
      BY <1>2, <2>3, <3>1
    <3>3. j <= di /\ k = before(j) + 1 => j = di
      <4> SUFFICES ASSUME j <= di, k = before(j) + 1, j # di PROVE FALSE
        OBVIOUS
      <4>1. j \in 1 .. di - 1
        BY <1>6
      <4>2. before(j) \in Nat /\ Len(R(j)) \in Nat
        BY <1>6, Zenon
      <4>3. before(j) + 2 + Len(R(j)) <= b
        BY <1>5, <4>1, Zenon
      <4>4. k - b \in 1 .. Len(E) /\ Len(E) \in Nat /\ b \in Nat /\ k = before(j) + 1
        BY <1>2, <1>3, <2>3, Zenon
      <4> QED
        BY <4>2, <4>3, <4>4
    <3> QED
      BY <1>3, <1>6, <2>1, <3>2, <3>3 DEF b
  <2> QED
    BY <2>1, <2>2, <2>3
<1>11. ASSUME NEW j \in 1 .. di, NEW x \in 1 .. Len(R(j))
       PROVE  text[before(j) + 2 + x] = R(j)[x]
  <2>1. CASE j = di
    <3>1. x + 2 \in 1 .. Len(E) /\ b + 2 + x = b + (x + 2)
      BY <1>2, <1>3, <2>1
    <3>2. text[b + (x + 2)] = E[x + 2] /\ E[x + 2] = R(j)[x]
      BY <1>2, <1>4, <2>1, <3>1
    <3> QED
      BY <2>1, <3>1, <3>2 DEF b
  <2>2. CASE j \in 1 .. di - 1
    <3>1. before(j) + 2 + x \in 1 .. b
      <4>1. j \in Points
        BY <1>7, <2>2
      <4>2. before(j) \in Nat /\ Len(R(j)) \in Nat
        BY <1>6, <4>1, Zenon
      <4>3. before(j) + 2 + Len(R(j)) <= b
        BY <1>5, <2>2, Zenon
      <4>4. b \in Nat
        BY <1>3
      <4> QED
        BY <4>2, <4>3, <4>4
    <3> QED
      BY <1>4, <1>5, <2>2, <3>1
  <2> QED
    BY <1>8, <2>1, <2>2
<1> QED
  BY <1>9, <1>10, <1>11, Zenon DEF Placed, U, R, text, before

\* So it is in the whole text.
LEMMA AllPlaced == \A v \in Value : Placed(v, Len(Name))
<1> TAKE v \in Value
<1> DEFINE T == {di \in Nat : di <= Len(Name) => Placed(v, di)}
<1>1. 0 \in T
  <2>1. Osd(v)[0] = <<>>
    BY OsdEquation
  <2>2. Placed(v, 0)
    BY <2>1 DEF Placed
  <2> QED
    BY <2>2
<1>2. ASSUME NEW di \in T PROVE di + 1 \in T
  <2> SUFFICES ASSUME di + 1 <= Len(Name) PROVE Placed(v, di + 1)
    OBVIOUS
  <2>1. di + 1 \in Points /\ (di + 1) - 1 = di /\ Placed(v, di)
    BY PointsDiffer DEF Points
  <2> QED
    BY <2>1, PlacedNext, Zenon
<1> HIDE DEF T
<1>3. T = Nat
  BY <1>1, <1>2, StepInduction, T \in SUBSET Nat DEF T
<1>4. Len(Name) \in T /\ Len(Name) <= Len(Name)
  BY <1>3, PointsDiffer
<1> QED
  BY <1>4 DEF T

\* What is behind the name of a point, up to the next one, is the number of the point.
LEMMA ShownIs ==
    ASSUME NEW v \in Value, NEW di \in Points
    PROVE  Shown(OsdText(v), di) = Tenths(Printed(v, di))
<1> DEFINE U == Osd(v)
           n == Len(Name)
           text == U[n]
           before(j) == Len(U[j - 1])
           R(j) == Printed(v, j)
           at(j) == CHOOSE k \in 1 .. Len(text) : text[k] = Name[j]
           from == at(di) + 2
           to == IF di = n THEN Len(text) ELSE at(di + 1) - 2
           part == SubSeq(text, from, to)
<1>1. OsdText(v) = text
  BY PointsDiffer, Zenon DEF OsdText
<1>2. n \in Nat /\ n \in Points /\ di \in 1 .. n /\ (di # n => di + 1 \in Points /\ di < n)
  BY PointsDiffer DEF Points
<1>3. Placed(v, n)
  BY AllPlaced, Zenon
<1>4. /\ \A j \in Points : U[j - 1] \in Seq(Alphabet) /\ U[j] \in Seq(Alphabet)
      /\ \A j \in Points : U[j] = U[j - 1] \o Entry(v, j)
  BY OsdEquation, Zenon
<1>5. \A j \in Points : /\ Entry(v, j) \in Seq(Alphabet) /\ R(j) \in Seq(Shape)
                        /\ Len(Entry(v, j)) = 2 + Len(R(j)) + IF j < n THEN 1 ELSE 0
  BY EntryShape, Zenon
<1>6. text \in Seq(Alphabet) /\ Len(text) \in Nat
  BY <1>2, <1>4, LenProperties, Zenon
<1>7. \A j \in Points : before(j) \in Nat /\ Len(R(j)) \in Nat /\ Len(Entry(v, j)) \in Nat
  BY <1>4, <1>5, LenProperties, Zenon
<1>8. Len(U[di]) = before(di) + Len(Entry(v, di))
  BY <1>4, <1>5, ConcatProperties, Zenon
<1>9. /\ \A j \in 1 .. n : before(j) + 2 + Len(R(j)) <= Len(text)
      /\ \A k \in 1 .. Len(text), j \in Points : text[k] = Name[j] <=> j <= n /\ k = before(j) + 1
      /\ \A j \in 1 .. n : \A x \in 1 .. Len(R(j)) : text[before(j) + 2 + x] = R(j)[x]
  BY <1>3, Zenon DEF Placed
<1> HIDE DEF n, text, before, R
<1>10. ASSUME NEW j \in Points PROVE at(j) = before(j) + 1
  <2>1. j \in 1 .. n /\ before(j) \in Nat /\ Len(R(j)) \in Nat
    BY <1>7 DEF Points, n
  <2>2. before(j) + 2 + Len(R(j)) <= Len(text)
    BY <1>9, <2>1, Zenon
  <2>3. before(j) + 1 \in 1 .. Len(text) /\ j <= n
    BY <1>2, <1>6, <2>1, <2>2
  <2>4. \A k \in 1 .. Len(text) : text[k] = Name[j] <=> k = before(j) + 1
    BY <1>9, <2>3, Zenon
  <2> QED
    BY <2>3, <2>4, Zenon
<1>11. before(di) \in Nat /\ Len(R(di)) \in Nat /\ before(di) + 2 + Len(R(di)) <= Len(text)
  BY <1>2, <1>7, <1>9, Zenon
<1>12. from = before(di) + 3
  <2> HIDE DEF at
  <2> QED
    BY <1>10, <1>11
<1>13. to = before(di) + 2 + Len(R(di))
  <2>1. CASE di = n
    <3>1. Len(Entry(v, di)) = 2 + Len(R(di)) /\ Len(text) = before(di) + Len(Entry(v, di))
      <4>1. ~(di < n)
        BY <1>2, <2>1
      <4>2. (IF di < n THEN 1 ELSE 0) = 0
        BY <4>1, Zenon
      <4>3. Len(Entry(v, di)) = 2 + Len(R(di)) + IF di < n THEN 1 ELSE 0
        BY <1>5, Zenon
      <4>4. Len(text) = before(di) + Len(Entry(v, di))
        BY <1>8, <2>1, Zenon DEF text
      <4> QED
        BY <1>11, <4>2, <4>3, <4>4
    <3> HIDE DEF at
    <3> QED
      BY <1>11, <2>1, <3>1
  <2>2. CASE di # n
    <3>1. di + 1 \in Points /\ di < n /\ (di + 1) - 1 = di
      BY <1>2, <2>2
    <3>2. Len(Entry(v, di)) = 2 + Len(R(di)) + IF di < n THEN 1 ELSE 0
      BY <1>5, Zenon
    <3>3. Len(Entry(v, di)) = 2 + Len(R(di)) + 1
      BY <3>1, <3>2, Zenon
    <3>4. before(di + 1) = before(di) + Len(Entry(v, di))
      BY <1>8, <3>1, Zenon DEF before
    <3>5. to = (before(di) + Len(Entry(v, di)) + 1) - 2
      <4>1. to = at(di + 1) - 2
        BY <2>2, Zenon
      <4> HIDE DEF at, to
      <4>2. at(di + 1) = before(di + 1) + 1
        BY <1>10, <3>1, Zenon
      <4> QED
        BY <3>4, <4>1, <4>2
    <3> HIDE DEF to
    <3> QED
      BY <1>11, <3>3, <3>5
  <2> QED
    BY <2>1, <2>2
<1> HIDE DEF from, to
<1>14. part = R(di)
  <2> DEFINE first == before(di)
             size == Len(R(di))
  <2>0. first \in Nat /\ size \in Nat /\ from = first + 3 /\ to = first + 2 + size
    BY <1>11, <1>12, <1>13, Zenon
  <2> HIDE DEF first, size
  <2>1. /\ from \in Int /\ to \in Int /\ (to - from) + 1 = size
        /\ from <= to => (to - from) + 1 = size
        /\ ~(from <= to) => 0 = size
    BY <2>0
  <2>2. \A i \in from .. to : text[i] \in Alphabet
    <3>1. \A i \in from .. to : i \in 1 .. Len(text)
      BY <1>6, <1>11, <1>12, <1>13
    <3> QED
      BY <1>6, <3>1, ElementOfSeq, Zenon
  <2>3. /\ part \in Seq(Alphabet)
        /\ Len(part) = IF from <= to THEN to - from + 1 ELSE 0
        /\ \A i \in 1 .. to - from + 1 : part[i] = text[from + i - 1]
    BY <2>1, <2>2, SubSeqProperties
  <2> HIDE DEF part
  <2>4. Len(part) = Len(R(di)) /\ Len(R(di)) = size
    BY <2>1, <2>3 DEF size
  <2>5. ASSUME NEW i \in 1 .. Len(R(di)) PROVE part[i] = R(di)[i]
    <3>1. i \in 1 .. to - from + 1
      BY <2>1, <2>4
    <3>2. part[i] = text[from + i - 1]
      BY <2>3, <3>1, Zenon
    <3>3. from + i - 1 = first + 2 + i
      BY <2>0, <2>5
    <3>4. first = before(di)
      BY DEF first
    <3>5. text[before(di) + 2 + i] = R(di)[i]
      BY <1>2, <1>9, Zenon
    <3> QED
      BY <3>2, <3>3, <3>4, <3>5, Zenon
  <2>6. R(di) \in Seq(Alphabet)
    <3>1. R(di) \in Seq(Shape) /\ Shape \subseteq Alphabet
      BY <1>5 DEF Alphabet
    <3> QED
      BY <3>1, SeqMonotonic
  <2> QED
    BY <2>3, <2>4, <2>5, <2>6, SeqEqual
<1>15. Shown(text, di) = Tenths(part)
  BY Zenon DEF Shown, part, from, to, n
<1> QED
  BY <1>1, <1>14, <1>15, Zenon DEF R

\* If no value changes between the check and the request (calm), a camera that takes its
\* updates (reliable) tells its reader every value that was noted, by its name and not
\* more than a tenth too low: in every state, for every number of cameras and points, all
\* names and divisors and every 32-bit reading that can be shown (Tellable).  Without calm
\* the text is of the later value, not the noted one (build_osd_text behind the states of
\* IsapiClient_Process).
THEOREM CamerasTellAlways == Spec => []CamerasTell
<1>1. IInv => CamerasTell
  <2> SUFFICES ASSUME IInv, reliable, calm,
                      NEW c \in Cameras \ Unset, ~(state = "build" /\ curCam = c),
                      NEW di \in Points, Tellable(prev[c][di], Divisor[di])
               PROVE  Says(Shown(OsdText(shown[c]), di), prev[c][di],
                           IF Divisor[di] = 0 THEN 1 ELSE Divisor[di])
    BY Zenon DEF CamerasTell, Points
  <2>1. shown[c] = prev[c] /\ prev[c] \in Value
    BY Zenon DEF IInv, TypeOK, ShowsWhatWasNoted
  <2> DEFINE v == prev[c]
  <2> HIDE DEF v
  <2>2. v \in Value
    BY <2>1, Zenon DEF v
  <2>3. v[di] \in Int /\ Is32Bits(v[di]) /\ Divisor[di] \in Nat /\ Divisor[di] <= Two[16]
    BY <2>2, PointsDiffer, Zenon
  <2>4. Tellable(v[di], Divisor[di])
    BY Zenon DEF v
  <2>5. Says(Tenths(Printed(v, di)), v[di], IF Divisor[di] = 0 THEN 1 ELSE Divisor[di])
    BY <2>3, <2>4, ReadingSays, Zenon DEF Printed
  <2>6. Shown(OsdText(v), di) = Tenths(Printed(v, di))
    BY <2>2, ShownIs, Zenon
  <2> QED
    BY <2>1, <2>5, <2>6, Zenon DEF v
<1> QED
  BY <1>1, AlwaysIInv, PTL

-----------------------------------------------------------------------------
(* Elapsed time.                                                           *)

\* There is one rest.
LEMMA QuotientUnique ==
    ASSUME NEW n \in Int, NEW d \in Nat \ {0}, NEW q \in Int, NEW r \in 0 .. d - 1, n = q * d + r
    PROVE  n % d = r
<1> DEFINE p == n \div d
           s == n % d
<1>1. p \in Int /\ s \in 0 .. d - 1 /\ n = p * d + s
  OBVIOUS
<1> HIDE DEF p, s
<1>2. (q - p) * d = s - r
  <2>1. (q - p) * d = q * d - p * d
    BY <1>1
  <2>2. q * d \in Int /\ p * d \in Int
    BY <1>1
  <2> QED
    BY <1>1, <2>1, <2>2
<1>3. CASE q - p >= 1
  <2>1. 1 * d <= (q - p) * d
    BY <1>1, <1>3, Times, q - p \in Nat
  <2> QED
    BY <1>1, <1>2, <2>1
<1>4. CASE p - q >= 1
  <2>1. 1 * d <= (p - q) * d
    BY <1>1, <1>4, Times, p - q \in Nat
  <2>2. (p - q) * d = r - s
    <3>1. (p - q) * d = p * d - q * d
      BY <1>1
    <3>2. q * d \in Int /\ p * d \in Int
      BY <1>1
    <3> QED
      BY <1>1, <3>1, <3>2
  <2> QED
    BY <1>1, <2>1, <2>2
<1>5. CASE q = p
  <2>1. (q - p) * d = 0
    BY <1>1, <1>5
  <2> QED
    BY <1>1, <1>2, <2>1 DEF s
<1> QED
  BY <1>1, <1>3, <1>4, <1>5

\* Utils_IsElapsed is right across the wrap of the tick counter, whenever the count was
\* started, as long as less than a full turn of the counter has passed since.
THEOREM ElapsedAcrossWrap ==
    \A start, age \in 0 .. Ticks - 1, ms \in Nat :
        IsElapsed((start + age) % Ticks, start, ms) <=> age >= ms
<1> TAKE start, age \in 0 .. Ticks - 1, ms \in Nat
<1>1. Ticks \in Nat \ {0}
  BY TicksAssumption
<1> DEFINE now == (start + age) % Ticks
<1>2. now \in Int /\ (now - start) % Ticks = age
  <2>1. CASE start + age < Ticks
    <3>1. 0 * Ticks + (start + age) = start + age /\ start + age \in 0 .. Ticks - 1 /\ start + age \in Int
      BY <1>1, <2>1
    <3>2. now = start + age
      BY <1>1, <3>1, QuotientUnique
    <3>3. now - start = age /\ 0 * Ticks + age = age
      <4> HIDE DEF now
      <4> QED
        BY <1>1, <3>2
    <3>4. (now - start) % Ticks = age
      <4> HIDE DEF now
      <4> QED
        BY <1>1, <3>3, QuotientUnique
    <3> HIDE DEF now
    <3> QED
      BY <1>1, <3>2, <3>4
  <2>2. CASE ~(start + age < Ticks)
    <3> DEFINE r == start + age - Ticks
    <3>1. 1 * Ticks + r = start + age /\ r \in 0 .. Ticks - 1 /\ start + age \in Int
      BY <1>1, <2>2
    <3>2. now = r
      <4> HIDE DEF r
      <4> QED
        BY <1>1, <3>1, QuotientUnique
    <3>3. now - start = (-1) * Ticks + age /\ now - start \in Int /\ -1 \in Int
      <4> HIDE DEF now
      <4> QED
        BY <1>1, <3>2
    <3>4. (now - start) % Ticks = age
      <4> HIDE DEF now
      <4> QED
        BY <1>1, <3>3, QuotientUnique
    <3> HIDE DEF now
    <3> QED
      BY <1>1, <3>1, <3>2, <3>4
  <2> QED
    BY <2>1, <2>2
<1> HIDE DEF now
<1> QED
  BY <1>2 DEF IsElapsed, now

-----------------------------------------------------------------------------
(* Base64.                                                                 *)

Byte == 0 .. 255
Sextet == 0 .. 63

\* The four characters of three bytes
Sextets(a, b, c) ==
    LET t == 65536 * a + 256 * b + c
    IN  <<t \div 262144, (t \div 4096) % 64, (t \div 64) % 64, t % 64>>

\* ... and the bytes of the characters.
LEMMA Bits ==
    ASSUME NEW a \in Byte, NEW b \in Byte, NEW c \in Byte
    PROVE  LET s == Sextets(a, b, c) IN
           /\ \A m \in 1 .. 4 : s[m] \in Sextet
           /\ 4 * s[1] + s[2] \div 16 = a
           /\ 16 * (s[2] % 16) + s[3] \div 4 = b
           /\ 64 * (s[3] % 4) + s[4] = c
<1> DEFINE t == 65536 * a + 256 * b + c
<1>0. a \in 0 .. 255 /\ b \in 0 .. 255 /\ c \in 0 .. 255
  BY SMT DEF Byte
<1>1. PICK x \in Nat, a0 \in Nat : a = 4 * x + a0 /\ a0 < 4 /\ x < 64
  <2>1. a \div 4 \in Nat /\ a % 4 \in Nat /\ a = 4 * (a \div 4) + (a % 4) /\ a % 4 < 4 /\ a \div 4 < 64
    BY SMT, <1>0
  <2> HIDE DEF t
  <2> QED
    BY <2>1, Zenon
<1>2. PICK y \in Nat, b0 \in Nat : b = 16 * y + b0 /\ b0 < 16 /\ y < 16
  <2>1. b \div 16 \in Nat /\ b % 16 \in Nat /\ b = 16 * (b \div 16) + (b % 16) /\ b % 16 < 16 /\ b \div 16 < 16
    BY SMT, <1>0
  <2> HIDE DEF t
  <2> QED
    BY <2>1, Zenon
<1>3. PICK z \in Nat, c0 \in Nat : c = 64 * z + c0 /\ c0 < 64 /\ z < 4
  <2>1. c \div 64 \in Nat /\ c % 64 \in Nat /\ c = 64 * (c \div 64) + (c % 64) /\ c % 64 < 64 /\ c \div 64 < 4
    BY SMT, <1>0
  <2> HIDE DEF t
  <2> QED
    BY <2>1, Zenon
<1>4. t \div 262144 = x
  BY SMT, <1>0, <1>1, <1>2, <1>3
<1>5. (t \div 4096) % 64 = 16 * a0 + y
  <2>1. t = 4096 * (64 * x + 16 * a0 + y) + (256 * b0 + c) /\ 256 * b0 + c < 4096 /\ 256 * b0 + c >= 0
    BY SMT, <1>0, <1>1, <1>2
  <2>2. t \div 4096 = 64 * x + 16 * a0 + y
    BY SMT, <1>1, <1>2, <1>0, <1>3, <2>1
  <2> QED
    BY SMT, <1>1, <1>2, <1>0, <2>2
<1>6. (t \div 64) % 64 = 4 * b0 + z
  <2>1. t = 64 * (64 * (16 * a + y) + 4 * b0 + z) + c0
    BY SMT, <1>0, <1>2, <1>3
  <2>2. t \div 64 = 64 * (16 * a + y) + 4 * b0 + z
    BY SMT, <1>2, <1>0, <1>3, <2>1
  <2> QED
    BY SMT, <1>2, <1>3, <1>0, <2>2
<1>7. t % 64 = c0
  BY SMT, <1>0, <1>2, <1>3
<1> HIDE DEF t
<1> DEFINE second == 16 * a0 + y
           third == 4 * b0 + z
<1>8. /\ x \in 0 .. 63 /\ second \in 0 .. 63 /\ third \in 0 .. 63 /\ c0 \in 0 .. 63
  BY SMT, <1>0, <1>1, <1>2, <1>3
<1>9. second \div 16 = a0 /\ second % 16 = y /\ third \div 4 = b0 /\ third % 4 = z
  BY SMT, <1>0, <1>1, <1>2, <1>3
<1>10. 4 * x + a0 = a /\ 16 * y + b0 = b /\ 64 * z + c0 = c
  BY SMT, <1>0, <1>1, <1>2, <1>3
<1> HIDE DEF second, third
<1> DEFINE s == Sextets(a, b, c)
<1>11. s[1] = x /\ s[2] = second /\ s[3] = third /\ s[4] = c0
  <2>1. s = <<t \div 262144, (t \div 4096) % 64, (t \div 64) % 64, t % 64>>
    BY SMT DEF Sextets, t
  <2> HIDE DEF s
  <2> QED
    BY SMT, <1>4, <1>5, <1>6, <1>7, <2>1 DEF second, third
<1> HIDE DEF s
<1>12. \A m \in 1 .. 4 : m = 1 \/ m = 2 \/ m = 3 \/ m = 4
  OBVIOUS
<1>13. ASSUME NEW m \in 1 .. 4 PROVE s[m] \in Sextet
  BY <1>8, <1>11, <1>12 DEF Sextet
<1>14. /\ 4 * s[1] + s[2] \div 16 = a
       /\ 16 * (s[2] % 16) + s[3] \div 4 = b
       /\ 64 * (s[3] % 4) + s[4] = c
  BY <1>9, <1>10, <1>11, Zenon
<1> QED
  BY <1>13, <1>14, Zenon DEF s

\* What is made by indexes is a sequence.
LEMMA FunctionIsSeq ==
    ASSUME NEW S, NEW m \in Nat, NEW f \in [1 .. m -> S]
    PROVE  f \in Seq(S) /\ Len(f) = m
  OBVIOUS

\* base64_encode never writes its padding, and so what it makes of credentials decodes to
\* them with a zero byte or two behind, unless their length is a multiple of 3.
THEOREM CredentialsDecoded ==
    \A src \in Seq(Byte) :
        /\ \A j \in 1 .. Len(Base64Encode(src)) : Base64Encode(src)[j] # Pad
        /\ Base64Decode(Base64Encode(src)) = src \o [k \in 1 .. (3 - (Len(src) % 3)) % 3 |-> 0]
<1> TAKE src \in Seq(Byte)
<1> DEFINE n == Len(src)
           G == (n + 2) \div 3
           byte(k) == IF k <= n THEN src[k] ELSE 0
           triple(g) == 65536 * byte(3 * g + 1) + 256 * byte(3 * g + 2) + byte(3 * g + 3)
           i(g) == IF 3 * g + 3 < n THEN 3 * g + 3 ELSE n
           char(g, c) ==
               CASE c = 0 -> triple(g) \div 262144
                 [] c = 1 -> (triple(g) \div 4096) % 64
                 [] c = 2 -> IF i(g) > n + 1 THEN Pad ELSE (triple(g) \div 64) % 64
                 [] c = 3 -> IF i(g) > n THEN Pad ELSE triple(g) % 64
           text == Base64Encode(src)
           used == {k \in 1 .. Len(text) : \A j \in 1 .. k : text[j] # Pad}
           bytes == {k \in 1 .. Len(text) : (4 * k + 2) \div 3 \in used}
           before(k) == text[(4 * k + 2) \div 3 - 1]
           next(k) == text[(4 * k + 2) \div 3]
           decoded == [k \in bytes |->
               CASE k % 3 = 1 -> 4 * before(k) + next(k) \div 16
                 [] k % 3 = 2 -> 16 * (before(k) % 16) + next(k) \div 4
                 [] k % 3 = 0 -> 64 * (before(k) % 4) + next(k)]
           zeros == [k \in 1 .. (3 - (Len(src) % 3)) % 3 |-> 0]
<1>1. text = [j \in 1 .. 4 * G |-> char((j - 1) \div 4, (j - 1) % 4)]
  BY SMT DEF Base64Encode
<1>2. Base64Decode(text) = decoded
  BY Zenon DEF Base64Decode
<1>3. n \in Nat /\ G \in Nat /\ n <= 3 * G
  <2>1. n \in Nat
    BY LenProperties
  <2> HIDE DEF n
  <2> QED
    BY <2>1
<1>4. \A k \in Nat \ {0} : byte(k) \in Byte
  <2> TAKE k \in Nat \ {0}
  <2>1. k <= n => src[k] \in Byte
    <3>1. k <= n => k \in 1 .. n
      BY <1>3
    <3> QED
      BY <3>1, ElementOfSeq, Zenon
  <2>2. 0 \in Byte
    BY DEF Byte
  <2> QED
    BY <2>1, <2>2, Zenon
<1> HIDE DEF byte, n, G
<1>5. ASSUME NEW g \in 0 .. G - 1
      PROVE  LET a == byte(3 * g + 1)
                 b == byte(3 * g + 2)
                 c == byte(3 * g + 3)
                 at(m) == text[4 * g + m]
             IN  /\ \A m \in 1 .. 4 : at(m) \in Sextet
                 /\ 4 * at(1) + at(2) \div 16 = a
                 /\ 16 * (at(2) % 16) + at(3) \div 4 = b
                 /\ 64 * (at(3) % 4) + at(4) = c
  <2> DEFINE a == byte(3 * g + 1)
             b == byte(3 * g + 2)
             c == byte(3 * g + 3)
             s == Sextets(a, b, c)
  <2>1. a \in Byte /\ b \in Byte /\ c \in Byte
    <3>1. 3 * g + 1 \in Nat \ {0} /\ 3 * g + 2 \in Nat \ {0} /\ 3 * g + 3 \in Nat \ {0}
      BY <1>3
    <3> QED
      BY <1>4, <3>1, Zenon
  <2>2. ASSUME NEW m \in 1 .. 4 PROVE text[4 * g + m] = char(g, m - 1)
    <3>1. /\ 4 * g + m \in 1 .. 4 * G
          /\ ((4 * g + m) - 1) \div 4 = g /\ ((4 * g + m) - 1) % 4 = m - 1
      BY <1>3
    <3> HIDE DEF char, text
    <3>2. text[4 * g + m] = char(((4 * g + m) - 1) \div 4, ((4 * g + m) - 1) % 4)
      BY <1>1, <3>1, Zenon
    <3> QED
      BY <3>1, <3>2, Zenon
  <2>3. ~(i(g) > n) /\ ~(i(g) > n + 1)
    BY <1>3
  <2>4. /\ char(g, 1 - 1) = s[1] /\ char(g, 2 - 1) = s[2]
        /\ char(g, 3 - 1) = s[3] /\ char(g, 4 - 1) = s[4]
    <3> HIDE DEF i
    <3> QED
      BY SMT, <2>3 DEF Sextets
  <2> HIDE DEF a, b, c, char, text
  <2>5. /\ \A m \in 1 .. 4 : s[m] \in Sextet
        /\ 4 * s[1] + s[2] \div 16 = a
        /\ 16 * (s[2] % 16) + s[3] \div 4 = b
        /\ 64 * (s[3] % 4) + s[4] = c
    BY <2>1, Bits
  <2> HIDE DEF s
  <2>6. /\ text[4 * g + 1] = s[1] /\ text[4 * g + 2] = s[2]
        /\ text[4 * g + 3] = s[3] /\ text[4 * g + 4] = s[4]
    BY <2>2, <2>4
  <2>7. \A m \in 1 .. 4 : m = 1 \/ m = 2 \/ m = 3 \/ m = 4
    OBVIOUS
  <2> QED
    BY <2>5, <2>6, <2>7, Zenon DEF a, b, c
<1>6. text \in Seq(Sextet) /\ Len(text) = 4 * G
  <2>1. ASSUME NEW j \in 1 .. 4 * G PROVE text[j] \in Sextet
    <3> DEFINE g == (j - 1) \div 4
               m == ((j - 1) % 4) + 1
    <3>1. g \in 0 .. G - 1 /\ m \in 1 .. 4 /\ 4 * g + m = j
      BY <1>3
    <3> HIDE DEF g, m, text
    <3> QED
      BY <1>5, <3>1
  <2> DEFINE f == [j \in 1 .. 4 * G |-> text[j]]
  <2>2. text = f /\ 4 * G \in Nat
    <3>1. 4 * G \in Nat
      BY <1>3
    <3> HIDE DEF char
    <3>2. \A j \in 1 .. 4 * G : text[j] = char((j - 1) \div 4, (j - 1) % 4)
      BY <1>1, Zenon
    <3> HIDE DEF text
    <3> QED
      BY <1>1, <3>1, <3>2, Zenon
  <2>3. f \in [1 .. 4 * G -> Sextet]
    BY <2>1, Zenon
  <2> HIDE DEF text, f
  <2>4. f \in Seq(Sextet) /\ Len(f) = 4 * G
    BY <2>2, <2>3, FunctionIsSeq
  <2> QED
    BY <2>2, <2>4, Zenon
<1> HIDE DEF text, char
<1>7. \A j \in 1 .. 4 * G : text[j] \in Sextet /\ text[j] # Pad
  <2>1. \A j \in 1 .. 4 * G : text[j] \in Sextet
    BY <1>6, ElementOfSeq
  <2>2. \A c \in Sextet : c # Pad
    BY DEF Pad, Sextet
  <2> QED
    BY <2>1, <2>2, Zenon
<1>8. bytes = 1 .. 3 * G
  <2>1. used = 1 .. 4 * G
    <3>1. \A k \in 1 .. 4 * G : \A j \in 1 .. k : j \in 1 .. 4 * G
      BY <1>3
    <3> QED
      BY <1>6, <1>7, <3>1, Zenon
  <2>2. \A k \in 1 .. 4 * G : (4 * k + 2) \div 3 \in 1 .. 4 * G <=> k <= 3 * G
    BY <1>3
  <2>3. bytes = {k \in 1 .. 4 * G : (4 * k + 2) \div 3 \in 1 .. 4 * G}
    <3> HIDE DEF used
    <3> QED
      BY <1>6, <2>1, Zenon
  <2> HIDE DEF bytes
  <2> QED
    BY <1>3, <2>2, <2>3
<1>9. ASSUME NEW k \in 1 .. 3 * G PROVE decoded[k] = byte(k)
  <2> DEFINE g == (k - 1) \div 3
  <2>1. /\ g \in 0 .. G - 1
        /\ \/ k = 3 * g + 1 /\ k % 3 = 1 /\ (4 * k + 2) \div 3 = 4 * g + 2
           \/ k = 3 * g + 2 /\ k % 3 = 2 /\ (4 * k + 2) \div 3 = 4 * g + 3
           \/ k = 3 * g + 3 /\ k % 3 = 0 /\ (4 * k + 2) \div 3 = 4 * g + 4
    BY <1>3
  <2>2. /\ (4 * g + 2) - 1 = 4 * g + 1 /\ (4 * g + 3) - 1 = 4 * g + 2
        /\ (4 * g + 4) - 1 = 4 * g + 3
    BY <1>3
  <2> DEFINE value == CASE k % 3 = 1 -> 4 * before(k) + next(k) \div 16
                        [] k % 3 = 2 -> 16 * (before(k) % 16) + next(k) \div 4
                        [] k % 3 = 0 -> 64 * (before(k) % 4) + next(k)
  <2>3. decoded[k] = value
    BY <1>8, Zenon
  <2> HIDE DEF g, decoded
  <2>4. /\ 4 * text[4 * g + 1] + text[4 * g + 2] \div 16 = byte(3 * g + 1)
        /\ 16 * (text[4 * g + 2] % 16) + text[4 * g + 3] \div 4 = byte(3 * g + 2)
        /\ 64 * (text[4 * g + 3] % 4) + text[4 * g + 4] = byte(3 * g + 3)
    BY <1>5, <2>1, Zenon
  <2>5. value = byte(k)
    <3>1. CASE k = 3 * g + 1 /\ k % 3 = 1 /\ (4 * k + 2) \div 3 = 4 * g + 2
      BY <2>2, <2>4, <3>1
    <3>2. CASE k = 3 * g + 2 /\ k % 3 = 2 /\ (4 * k + 2) \div 3 = 4 * g + 3
      BY <2>2, <2>4, <3>2
    <3>3. CASE k = 3 * g + 3 /\ k % 3 = 0 /\ (4 * k + 2) \div 3 = 4 * g + 4
      BY <2>2, <2>4, <3>3
    <3> QED
      BY <2>1, <3>1, <3>2, <3>3
  <2> QED
    BY <2>3, <2>5, Zenon
<1>10. zeros \in Seq(Byte) /\ Len(zeros) = 3 * G - n /\ \A k \in 1 .. 3 * G - n : zeros[k] = 0
  <2>1. (3 - (n % 3)) % 3 = 3 * G - n /\ 3 * G - n \in Nat
    BY <1>3 DEF G
  <2>2. zeros = [k \in 1 .. 3 * G - n |-> 0]
    BY <2>1, Zenon DEF n
  <2>3. zeros \in [1 .. 3 * G - n -> Byte]
    <3>1. 0 \in Byte
      BY DEF Byte
    <3> HIDE DEF zeros
    <3> QED
      BY <2>2, <3>1, Zenon
  <2> HIDE DEF zeros
  <2>4. zeros \in Seq(Byte) /\ Len(zeros) = 3 * G - n
    BY <2>1, <2>3, FunctionIsSeq
  <2>5. \A k \in 1 .. 3 * G - n : zeros[k] = 0
    BY <2>2, Zenon
  <2> QED
    BY <2>4, <2>5
<1> HIDE DEF zeros
<1>11. decoded = src \o zeros
  <2> DEFINE whole == src \o zeros
  <2>1. /\ whole \in Seq(Byte) /\ Len(whole) = n + Len(zeros)
        /\ \A k \in 1 .. n + Len(zeros) :
               whole[k] = IF k <= n THEN src[k] ELSE zeros[k - n]
    BY <1>10, ConcatProperties, Zenon DEF n
  <2> HIDE DEF whole
  <2>2. Len(whole) = 3 * G
    BY <1>3, <1>10, <2>1
  <2>3. ASSUME NEW k \in 1 .. 3 * G PROVE whole[k] = byte(k)
    <3>1. k \in 1 .. n + Len(zeros) /\ (~(k <= n) => k - n \in 1 .. 3 * G - n)
      BY <1>3, <1>10
    <3>2. whole[k] = IF k <= n THEN src[k] ELSE zeros[k - n]
      BY <2>1, <3>1, Zenon
    <3> QED
      BY <1>10, <3>1, <3>2, Zenon DEF byte
  <2>4. \A k \in 1 .. 3 * G : byte(k) \in Byte
    <3>1. \A k \in 1 .. 3 * G : k \in Nat \ {0}
      BY <1>3
    <3> QED
      BY <1>4, <3>1, Zenon
  <2>5. decoded \in Seq(Byte) /\ Len(decoded) = 3 * G
    <3> DEFINE f == [k \in 1 .. 3 * G |-> decoded[k]]
    <3>1. decoded = f
      <4> DEFINE value(k) == CASE k % 3 = 1 -> 4 * before(k) + next(k) \div 16
                               [] k % 3 = 2 -> 16 * (before(k) % 16) + next(k) \div 4
                               [] k % 3 = 0 -> 64 * (before(k) % 4) + next(k)
      <4>1. decoded = [k \in bytes |-> value(k)]
        BY Zenon
      <4> HIDE DEF bytes, value
      <4>2. decoded = [k \in 1 .. 3 * G |-> value(k)]
        BY <1>8, <4>1, Zenon
      <4> HIDE DEF decoded
      <4> QED
        BY <4>2
    <3>2. f \in [1 .. 3 * G -> Byte] /\ 3 * G \in Nat
      <4>1. 3 * G \in Nat
        BY <1>3
      <4> HIDE DEF decoded
      <4> QED
        BY <1>9, <2>4, <4>1, Zenon
    <3> HIDE DEF f, decoded
    <3>3. f \in Seq(Byte) /\ Len(f) = 3 * G
      BY <3>2, FunctionIsSeq
    <3> QED
      BY <3>1, <3>3, Zenon
  <2> HIDE DEF decoded
  <2>6. decoded = whole
    BY <1>9, <2>1, <2>2, <2>3, <2>5, SeqEqual
  <2> QED
    BY <2>6 DEF whole
<1> QED
  BY <1>2, <1>6, <1>7, <1>11, Zenon DEF text, zeros
=============================================================================
