----------------------------- MODULE PointStore -----------------------------
(***************************************************************************)
(* What the data pool promises its clients (Modbus master, RTU slave, TCP  *)
(* server): one value of two 16-bit words per data point, kept once.  The  *)
(* configured points appear in configuration order in a register space     *)
(* without holes, low word first.  A register read returns the word as     *)
(* last written, be it by SetValue or through a register.                  *)
(***************************************************************************)
EXTENDS Naturals, FiniteSets

CONSTANTS
    Points,     \* all pairs <<sensor, data point>>
    Word,       \* the values of a 16-bit word
    Zero,       \* the word the memory starts with
    Addrs       \* the register addresses clients ask for

VARIABLES
    active,     \* the configured points
    store,      \* the value of each point
    reply       \* address and word of the latest register read

vars == <<active, store, reply>>

Half == {"lo", "hi"}
Value == [Half -> Word]

Precedes(p, q) == p[1] < q[1] \/ (p[1] = q[1] /\ p[2] < q[2])

\* The register holding one half of a configured point.
Address(p, h) ==
    2 * Cardinality({q \in active : Precedes(q, p)})
        + (IF h = "lo" THEN 0 ELSE 1)

Holds(a, p, h) == p \in active /\ h \in Half /\ Address(p, h) = a

Init ==
    /\ active \subseteq Points
    /\ store = [p \in Points |-> [h \in Half |-> Zero]]
    /\ reply = <<0, Zero>>

SetValue(p, v) ==
    /\ store' = [store EXCEPT ![p] = v]
    /\ UNCHANGED <<active, reply>>

WriteReg(a, w) ==
    /\ \E p \in Points, h \in Half :
           /\ Holds(a, p, h)
           /\ store' = [store EXCEPT ![p][h] = w]
    /\ UNCHANGED <<active, reply>>

ReadReg(a) ==
    /\ \/ \E p \in Points, h \in Half :
              /\ Holds(a, p, h)
              /\ reply' = <<a, store[p][h]>>
       \/ /\ a >= 2 * Cardinality(active)
          /\ reply' = <<a, Zero>>
    /\ UNCHANGED <<active, store>>

Next ==
    \/ \E p \in Points, v \in Value : SetValue(p, v)
    \/ \E a \in Addrs, w \in Word : WriteReg(a, w)
    \/ \E a \in Addrs : ReadReg(a)

Spec == Init /\ [][Next]_vars
=============================================================================
