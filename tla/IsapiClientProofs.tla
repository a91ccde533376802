------------------------- MODULE IsapiClientProofs -------------------------
(***************************************************************************)
(* Proofs about IsapiClient for any number of cameras, any intervals and   *)
(* any set of values.                                                      *)
(***************************************************************************)
EXTENDS IsapiClient, TLAPS

\* Outside an update every camera's own interval is at least as far on as the
\* common one, which the check has seen elapse.
AgesOrdered ==
    /\ state \in {"idle", "check", "build"} =>
           \A c \in Cameras : camAge[c] >= lastAge
    /\ state = "check" => lastAge = MinInterval

\* What is about to be sent is what was noted.
NotedIsCurrent == state = "build" /\ calm => values[curCam] = prev[curCam]

\* The inductive invariant.
IInv == TypeOK /\ AgesOrdered /\ NotedIsCurrent /\ ShowsWhatWasNoted

-----------------------------------------------------------------------------
LEMMA InitIInv == Init => IInv
  BY IsapiAssumption
     DEF Init, IInv, TypeOK, AgesOrdered, NotedIsCurrent, ShowsWhatWasNoted, ages, world,
         Cameras

LEMMA TypeStep == TypeOK /\ [Next]_vars => TypeOK'
<1> SUFFICES ASSUME TypeOK, [Next]_vars PROVE TypeOK'
  OBVIOUS
<1> USE IsapiAssumption DEF TypeOK, ages, world, Cameras
<1>1. CASE Wake
  BY <1>1 DEF Wake
<1>2. CASE Check
  BY <1>2 DEF Check
<1>3. CASE Skip
  BY <1>3 DEF Skip
<1>4. CASE Push
  BY <1>4 DEF Push
<1>5. CASE Response
  BY <1>5 DEF Response
<1>6. CASE TimedOut
  BY <1>6 DEF TimedOut
<1>7. CASE Done
  BY <1>7 DEF Done
<1>8. ASSUME NEW c \in Cameras, NEW v \in Value, Change(c, v) PROVE TypeOK'
  BY <1>8 DEF Change
<1>9. CASE Tick
  BY <1>9 DEF Tick
<1>10. CASE UNCHANGED vars
  BY <1>10 DEF vars
<1>11. QED
  BY <1>1, <1>2, <1>3, <1>4, <1>5, <1>6, <1>7, <1>8, <1>9, <1>10 DEF Next, Process

LEMMA AgesStep == TypeOK /\ AgesOrdered /\ [Next]_vars => AgesOrdered'
<1> SUFFICES ASSUME TypeOK, AgesOrdered, [Next]_vars PROVE AgesOrdered'
  OBVIOUS
<1> USE IsapiAssumption DEF TypeOK, AgesOrdered, ages, world
<1>1. CASE Wake
  BY <1>1 DEF Wake
<1>2. CASE Check
  BY <1>2 DEF Check
<1>3. CASE Skip
  BY <1>3 DEF Skip
<1>4. CASE Push
  BY <1>4 DEF Push
<1>5. CASE Response
  BY <1>5 DEF Response
<1>6. CASE TimedOut
  BY <1>6 DEF TimedOut
<1>7. CASE Done
  BY <1>7 DEF Done
<1>8. ASSUME NEW c \in Cameras, NEW v \in Value, Change(c, v) PROVE AgesOrdered'
  BY <1>8 DEF Change
<1>9. CASE Tick
  BY <1>9 DEF Tick
<1>10. CASE UNCHANGED vars
  BY <1>10 DEF vars
<1>11. QED
  BY <1>1, <1>2, <1>3, <1>4, <1>5, <1>6, <1>7, <1>8, <1>9, <1>10 DEF Next, Process

\* While all intervals are over, a sensor before the camera found, or any when
\* none is found, has not changed.
LEMMA NotDueUnchanged ==
  ASSUME IInv, state = "check", NEW d \in Cameras, ~Due(d)
  PROVE  values[d] = prev[d]
  BY IsapiAssumption DEF IInv, TypeOK, AgesOrdered, Due

LEMMA CheckNoted ==
  ASSUME IInv, Check
  PROVE  NotedIsCurrent' /\ ShowsWhatWasNoted'
<1>1. CASE \E c \in Cameras :
              /\ Due(c) /\ \A d \in Cameras : Due(d) => c <= d
              /\ curCam' = c
              /\ prev' = [d \in Cameras |-> IF d <= c THEN values[d] ELSE prev[d]]
              /\ state' = "build"
  <2>1. PICK c \in Cameras :
              /\ Due(c) /\ \A d \in Cameras : Due(d) => c <= d
              /\ curCam' = c
              /\ prev' = [d \in Cameras |-> IF d <= c THEN values[d] ELSE prev[d]]
              /\ state' = "build"
    BY <1>1
  <2>2. \A d \in Cameras : d # c /\ d <= c => values[d] = prev[d]
    <3>1. \A d \in Cameras : d # c /\ d <= c => ~Due(d)
      BY <2>1 DEF Cameras
    <3>2. QED
      BY <3>1, NotDueUnchanged DEF Check
  <2>3. \A d \in Cameras : d # c => prev'[d] = prev[d]
    BY <2>1, <2>2
  <2>4. NotedIsCurrent'
    BY <2>1 DEF Check, NotedIsCurrent, Cameras
  <2>5. ShowsWhatWasNoted'
    BY <2>1, <2>3 DEF Check, IInv, ShowsWhatWasNoted, world
  <2>6. QED
    BY <2>4, <2>5
<1>2. CASE /\ \A c \in Cameras : ~Due(c)
           /\ curCam' = CameraCount
           /\ prev' = values
           /\ state' = "idle"
  <2>1. \A d \in Cameras : values[d] = prev[d]
    BY <1>2, NotDueUnchanged DEF Check
  <2>2. QED
    BY <1>2, <2>1 DEF Check, IInv, NotedIsCurrent, ShowsWhatWasNoted, world
<1>3. QED
  BY <1>1, <1>2 DEF Check

LEMMA NotedStep ==
  IInv /\ [Next]_vars => NotedIsCurrent' /\ ShowsWhatWasNoted'
<1> SUFFICES ASSUME IInv, [Next]_vars PROVE NotedIsCurrent' /\ ShowsWhatWasNoted'
  OBVIOUS
<1> USE DEF IInv, TypeOK, NotedIsCurrent, ShowsWhatWasNoted, ages, world
<1>1. CASE Wake
  BY <1>1 DEF Wake
<1>2. CASE Check
  BY <1>2, CheckNoted
<1>3. CASE Skip
  BY <1>3 DEF Skip
<1>4. CASE Push
  BY <1>4 DEF Push
<1>5. CASE Response
  BY <1>5 DEF Response
<1>6. CASE TimedOut
  BY <1>6 DEF TimedOut
<1>7. CASE Done
  BY <1>7 DEF Done
<1>8. ASSUME NEW c \in Cameras, NEW v \in Value, Change(c, v)
      PROVE  NotedIsCurrent' /\ ShowsWhatWasNoted'
  BY <1>8 DEF Change
<1>9. CASE Tick
  BY <1>9 DEF Tick
<1>10. CASE UNCHANGED vars
  BY <1>10 DEF vars
<1>11. QED
  BY <1>1, <1>2, <1>3, <1>4, <1>5, <1>6, <1>7, <1>8, <1>9, <1>10 DEF Next, Process

LEMMA Inductive == IInv /\ [Next]_vars => IInv'
  BY TypeStep, AgesStep, NotedStep DEF IInv

LEMMA AlwaysIInv == Spec => []IInv
  BY InitIInv, Inductive, PTL DEF Spec
-----------------------------------------------------------------------------
(* The index s_cur_cam is that of a camera whenever it is used, and the    *)
(* rest of the state of the client stays well formed.                      *)
THEOREM ClientTypeCorrect == Spec => []TypeOK
<1>1. IInv => TypeOK
  BY DEF IInv
<1>2. QED
  BY <1>1, AlwaysIInv, PTL

(* The check of ISTATE_CHECK_UPDATE notes a change before it asks whether  *)
(* the camera may be updated; it never drops one for that.                 *)
THEOREM RateNeverDropsAChange == Spec => []RateNeverBinds
<1>1. IInv => RateNeverBinds
  BY IsapiAssumption DEF IInv, TypeOK, AgesOrdered, RateNeverBinds
<1>2. QED
  BY <1>1, AlwaysIInv, PTL

(* A camera that takes its updates shows what s_prev_values says, if no    *)
(* value changes between the check and the building of the request.        *)
THEOREM CamerasShowWhatWasNoted == Spec => []ShowsWhatWasNoted
<1>1. IInv => ShowsWhatWasNoted
  BY DEF IInv
<1>2. QED
  BY <1>1, AlwaysIInv, PTL
=============================================================================
