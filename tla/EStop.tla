------------------------------- MODULE EStop -------------------------------
(***************************************************************************)
(* The joystick e-stop node (bring_up/e_stop.py): a latch that the stop    *)
(* button sets, the reset button clears and a silent joystick sets, and    *)
(* its publication on /e_stop.  A component of MotorChain.                 *)
(***************************************************************************)
EXTENDS Naturals

CONSTANT JoyTimeout     \* joy_timeout, in units of time

VARIABLES
    latch,      \* EStopLogic.stopped
    joyAge,     \* time since _last_joy, saturated; also "never"
    tickDue,    \* the heartbeat timer has expired and _tick has not run yet
    eStopMsg    \* the topic /e_stop: what it still has to deliver (depth 1)

eStopVars == <<latch, joyAge, tickDue, eStopMsg>>

Never == JoyTimeout + 1

\* __init__: stopped, and a first _tick that says so
\* mutant: the first state is published by the heartbeat only
StartedSilently ==
    /\ latch' = TRUE /\ joyAge' = Never /\ tickDue' = FALSE
    /\ UNCHANGED eStopMsg
Started ==
    /\ latch' = TRUE /\ joyAge' = Never /\ tickDue' = FALSE
    /\ eStopMsg' = <<TRUE>>

EStopInit ==
    /\ latch = TRUE /\ joyAge = Never /\ tickDue = FALSE
    /\ eStopMsg = <<TRUE>>

\* EStopLogic.on_joy
Pressed(stop, reset) == IF stop THEN TRUE ELSE latch /\ ~reset

\* EStopLogic.update
\* mutant: the silence of the joystick is not looked at
SilentNever == FALSE
JoySilent == joyAge > JoyTimeout

\* _joy_cb: on_joy stamps the message first, so its _tick finds a fresh joystick
JoyCb(stop, reset) ==
    /\ latch' = Pressed(stop, reset)
    /\ joyAge' = 0
    /\ eStopMsg' = <<latch'>>
    /\ UNCHANGED tickDue

\* _tick, the heartbeat
Tick ==
    /\ tickDue
    /\ tickDue' = FALSE
    /\ latch' = (latch \/ JoySilent)
    /\ eStopMsg' = <<latch'>>
    /\ UNCHANGED joyAge
=============================================================================
