---------------------------- MODULE IsapiClient ----------------------------
(***************************************************************************)
(* isapi_client.c: the client that pushes a sensor's readings to the       *)
(* camera of the same index when they have changed since it last looked.   *)
(*                                                                         *)
(* All readings of a sensor are one value, since the comparison with       *)
(* s_prev_values and the text take them together.  CH395_TcpConnect always *)
(* returns 0 here, and CH395_TcpRecv reads the chip with HAL_UART_Receive  *)
(* while Rs485_Init keeps that UART receiving by interrupt: what it returns*)
(* may be anything.  Times stop at the interval they are compared with.    *)
(***************************************************************************)
EXTENDS Naturals

CONSTANTS
    CameraCount,    \* sensor_count, or CFG_MAX_CAMERAS if that is less
    Unset,          \* the cameras without an address in the configuration
    Value, Zero,    \* a sensor's readings, and those at the start
    MinInterval,    \* CFG_OSD_UPDATE_MIN_MS
    HttpTimeout     \* ISAPI_HTTP_TIMEOUT

Cameras == 0 .. CameraCount - 1

ASSUME IsapiAssumption ==
    /\ CameraCount \in Nat
    /\ Unset \subseteq Cameras
    /\ Zero \in Value
    /\ MinInterval \in Nat
    /\ HttpTimeout \in Nat /\ MinInterval <= HttpTimeout

VARIABLES
    state,          \* s_state
    curCam,         \* s_cur_cam, CameraCount standing for 0xFF
    prev,           \* s_prev_values
    lastAge,        \* the time since s_last_update_tick, up to MinInterval
    camAge,         \* the time since s_cam_update_tick, up to HttpTimeout
    values,         \* what the data pool holds
    shown,          \* what each camera shows
    reliable,       \* cameras take every update sent to them
    calm            \* no value changes between the check and the request

ages == <<lastAge, camAge>>
world == <<reliable, calm>>
vars == <<state, curCam, prev, ages, values, shown, world>>

Init ==
    /\ state = "idle"
    /\ curCam = 0
    /\ prev = [c \in Cameras |-> Zero]
    /\ lastAge = 0
    /\ camAge = [c \in Cameras |-> 0]
    /\ values = [c \in Cameras |-> Zero]
    /\ shown = [c \in Cameras |-> Zero]
    /\ reliable \in BOOLEAN
    /\ calm \in BOOLEAN
-----------------------------------------------------------------------------
(* IsapiClient_Process, a case of its switch each.                         *)

\* ISTATE_IDLE
Wake ==
    /\ state = "idle"
    /\ lastAge >= MinInterval
    /\ state' = "check"
    /\ UNCHANGED <<curCam, prev, ages, values, shown, world>>

Due(c) == values[c] # prev[c] /\ camAge[c] >= MinInterval

\* Faulty variant of Check: the loop goes on behind the camera found.
CheckAll ==
    /\ state = "check"
    /\ prev' = values
    /\ \/ \E c \in Cameras :
              /\ Due(c) /\ \A d \in Cameras : Due(d) => c <= d
              /\ curCam' = c
              /\ state' = "build"
       \/ /\ \A c \in Cameras : ~Due(c)
          /\ curCam' = CameraCount
          /\ state' = "idle"
    /\ UNCHANGED <<ages, values, shown, world>>

\* Faulty variant of Check: the values found are not noted.
CheckUnnoted ==
    /\ state = "check"
    /\ \/ \E c \in Cameras :
              /\ Due(c) /\ \A d \in Cameras : Due(d) => c <= d
              /\ curCam' = c
              /\ state' = "build"
       \/ /\ \A c \in Cameras : ~Due(c)
          /\ curCam' = CameraCount
          /\ state' = "idle"
    /\ UNCHANGED <<prev, ages, values, shown, world>>

\* Faulty variant of Check: one camera too far.
CheckPastLast ==
    /\ state = "check"
    /\ prev' = values
    /\ curCam' = CameraCount
    /\ state' = IF \E c \in Cameras : Due(c) THEN "build" ELSE "idle"
    /\ UNCHANGED <<ages, values, shown, world>>

\* ISTATE_CHECK_UPDATE: the first camera that is due; the values of all the
\* sensors looked at are noted, and those behind it are not looked at.
Check ==
    /\ state = "check"
    /\ \/ \E c \in Cameras :
              /\ Due(c) /\ \A d \in Cameras : Due(d) => c <= d
              /\ curCam' = c
              /\ prev' = [d \in Cameras |-> IF d <= c THEN values[d] ELSE prev[d]]
              /\ state' = "build"
       \/ /\ \A c \in Cameras : ~Due(c)
          /\ curCam' = CameraCount
          /\ prev' = values
          /\ state' = "idle"
    /\ UNCHANGED <<ages, values, shown, world>>

\* ISTATE_BUILD_REQUEST of a camera without an address
Skip ==
    /\ state = "build"
    /\ curCam \in Unset
    /\ state' = "done"
    /\ UNCHANGED <<curCam, prev, ages, values, shown, world>>

\* ISTATE_BUILD_REQUEST: the text is made of the values as they are now.
Push ==
    /\ state = "build"
    /\ curCam \notin Unset
    /\ \/ shown' = [shown EXCEPT ![curCam] = values[curCam]]
       \/ ~reliable /\ shown' = shown
    /\ camAge' = [camAge EXCEPT ![curCam] = 0]
    /\ state' = "wait"
    /\ UNCHANGED <<curCam, prev, lastAge, values, world>>

\* ISTATE_WAIT_RESPONSE: any bytes will do, a camera's error too.
Response ==
    /\ state = "wait"
    /\ state' = "done"
    /\ UNCHANGED <<curCam, prev, ages, values, shown, world>>

\* ISTATE_WAIT_RESPONSE without any.
TimedOut ==
    /\ state = "wait"
    /\ camAge[curCam] >= HttpTimeout
    /\ state' = "done"
    /\ UNCHANGED <<curCam, prev, ages, values, shown, world>>

\* Faulty variant of Done: s_last_update_tick keeps its value.
DoneNoTick ==
    /\ state = "done"
    /\ state' = "idle"
    /\ UNCHANGED <<curCam, prev, ages, values, shown, world>>

\* ISTATE_DONE
Done ==
    /\ state = "done"
    /\ lastAge' = 0
    /\ state' = "idle"
    /\ UNCHANGED <<curCam, prev, camAge, values, shown, world>>

Process == Wake \/ Check \/ Skip \/ Push \/ TimedOut \/ Done
-----------------------------------------------------------------------------
\* The Modbus master or a Modbus client stores another value.
Change(c, v) ==
    /\ v # values[c]
    /\ calm => state # "build"
    /\ values' = [values EXCEPT ![c] = v]
    /\ UNCHANGED <<state, curCam, prev, ages, shown, world>>

Tick ==
    /\ \/ lastAge < MinInterval
       \/ \E c \in Cameras : camAge[c] < HttpTimeout
    /\ lastAge' = IF lastAge < MinInterval THEN lastAge + 1 ELSE lastAge
    /\ camAge' = [c \in Cameras |->
                     IF camAge[c] < HttpTimeout THEN camAge[c] + 1 ELSE camAge[c]]
    /\ UNCHANGED <<state, curCam, prev, values, shown, world>>

Next ==
    \/ Process
    \/ Response
    \/ \E c \in Cameras, v \in Value : Change(c, v)
    \/ Tick

Spec == Init /\ [][Next]_vars

\* User_Loop calls IsapiClient_Process forever and SysTick counts on; nothing
\* makes a camera answer, or a value change.
FairSpec == Spec /\ WF_vars(Process) /\ WF_vars(Tick)
-----------------------------------------------------------------------------
TypeOK ==
    /\ state \in {"idle", "check", "build", "wait", "done"}
    /\ curCam \in 0 .. CameraCount
    /\ state \in {"build", "wait"} => curCam \in Cameras
    /\ prev \in [Cameras -> Value]
    /\ lastAge \in 0 .. MinInterval
    /\ camAge \in [Cameras -> 0 .. HttpTimeout]
    /\ values \in [Cameras -> Value]
    /\ shown \in [Cameras -> Value]
    /\ reliable \in BOOLEAN
    /\ calm \in BOOLEAN

\* A change is never dropped for coming too early: when the check notes it, the
\* camera's own interval is over, because the common one is.
RateNeverBinds ==
    state = "check" => \A c \in Cameras : camAge[c] >= MinInterval

\* Cameras that take their updates show what the client believes they show, as
\* long as no value changes between the check and the request.
ShowsWhatWasNoted ==
    reliable /\ calm =>
        \A c \in Cameras \ Unset :
            shown[c] = prev[c] \/ (state = "build" /\ curCam = c)

\* When the values come to rest, every change has been noticed: no camera waits
\* behind another one forever.
ChangesNoticed ==
    <>[][values' = values]_vars => \A c \in Cameras : <>[](prev[c] = values[c])

\* When the values come to rest, every camera shows them in the end.
LastValueShown ==
    <>[][values' = values]_vars =>
        \A c \in Cameras \ Unset : <>[](shown[c] = values[c])
=============================================================================
