----------------------------- MODULE MotorChain -----------------------------
(***************************************************************************)
(* From the operator, the obstacle sensors and Nav2 to the motors: joy_node, *)
(* e_stop, ps4_teleop, ultrasonic_estop, twist_mux and                     *)
(* diff_drive_controller as bringup.launch.py connects them.               *)
(*                                                                         *)
(*   joy_node --/joy--> e_stop ------------------/e_stop--> diff_drive     *)
(*        \---/joy--> ps4_teleop --/cmd_vel_joy--> twist_mux --> diff_drive *)
(*   Nav2 ----------------/cmd_vel---------------> twist_mux               *)
(*   ultrasonic_estop ----/cmd_vel_estop---------> twist_mux               *)
(*                                                                         *)
(* A topic is a mailbox: the message that its reader still has to handle.  *)
(* The unit of time is the 0.1 s period of the watchdog and of             *)
(* ultrasonic_estop.  Within it every node handles what it has received    *)
(* and runs its timer once, in any order.                                  *)
(* Its diff_drive_controller is that of DiffDrive.                         *)
(***************************************************************************)
EXTENDS DiffDrive

CONSTANTS
    JoyTimeout,     \* of e_stop
    MuxTimeout,     \* of each twist_mux input, in units of time
    EStopMayDie     \* whether e_stop may die and be started again

Inputs == {"navigation", "joystick", "estop"}
Priority == [navigation |-> 10, joystick |-> 100, estop |-> 200]

ASSUME JoyTimeoutAssumption == JoyTimeout \in Nat
ASSUME MuxTimeoutAssumption == MuxTimeout \in [Inputs -> Nat \ {0}]
ASSUME EStopMayDieAssumption == EStopMayDie \in BOOLEAN

VARIABLES
    latch, joyAge, tickDue, eStopMsg,           \* e_stop and its topic
    eStopUp,        \* the e_stop process is there
    grip,           \* the operator holds the dead-man switch and drives
    joyForEStop,    \* /joy: what e_stop has not handled yet
    joyForTeleop,   \* /joy: what ps4_teleop has not handled yet
    joyGap,         \* history: time since joy_node published, saturated
    blocked,        \* UltrasonicLogic.unsafe: a sensor sees an obstacle
    blockedFor,     \* history: for how long it has, saturated
    checkDue,       \* ultrasonic_estop's timer has expired
    muxAge,         \* twist_mux: time since the last command of each input
    cmdMsg          \* /cmd_vel_mux: what diff_drive has not handled yet

Flag == INSTANCE EStop

eStopVars == <<latch, joyAge, tickDue, eStopMsg>>
joyVars   == <<grip, joyForEStop, joyForTeleop, joyGap>>
wallVars  == <<blocked, blockedFor, checkDue>>
muxVars   == <<muxAge, cmdMsg>>
vars == <<eStopVars, driveVars, eStopUp, joyVars, wallVars, muxVars>>

\* How long the motors may outlive the last sign of the operator: the
\* joystick's timeout, then that of an e_stop that died just before it.
Grace == JoyTimeout + EStopTimeout + 2

Init ==
    /\ Flag!EStopInit /\ DriveInit
    /\ eStopUp = TRUE
    /\ grip = FALSE /\ joyForEStop = <<>> /\ joyForTeleop = <<>> /\ joyGap = Grace
    /\ blocked = FALSE /\ blockedFor = 0 /\ checkDue = FALSE
    /\ muxAge = [i \in Inputs |-> MuxTimeout[i] + 1]
    /\ cmdMsg = <<>>
-----------------------------------------------------------------------------
(* The operator and joy_node *)

Grip ==
    /\ grip' = ~grip
    /\ UNCHANGED <<eStopVars, driveVars, eStopUp, joyForEStop, joyForTeleop, joyGap,
                   wallVars, muxVars>>

\* joy_node publishes the state of the controller.  Bound: its last message
\* has been handled.
JoyPublish(stop, reset) ==
    /\ joyForEStop = <<>> /\ joyForTeleop = <<>>
    /\ joyForEStop' = IF eStopUp THEN <<[stop |-> stop, reset |-> reset]>> ELSE <<>>
    /\ joyForTeleop' = <<grip>>
    /\ joyGap' = 0
    /\ UNCHANGED <<eStopVars, driveVars, eStopUp, grip, wallVars, muxVars>>
-----------------------------------------------------------------------------
(* e_stop *)

EStopJoy ==
    /\ joyForEStop # <<>>
    /\ Flag!JoyCb(joyForEStop[1].stop, joyForEStop[1].reset)
    /\ joyForEStop' = <<>>
    /\ UNCHANGED <<driveVars, eStopUp, grip, joyForTeleop, joyGap, wallVars, muxVars>>

EStopTick ==
    /\ Flag!Tick
    /\ UNCHANGED <<driveVars, eStopUp, joyVars, wallVars, muxVars>>

\* The node dies and what it knew is gone.  On an exception its main still
\* publishes a stop; on Ctrl+C the context is down already, and it does not.
EStopDies ==
    /\ EStopMayDie /\ eStopUp
    /\ eStopUp' = FALSE
    /\ eStopMsg' \in {eStopMsg, <<TRUE>>}
    /\ latch' = TRUE /\ joyAge' = Flag!Never /\ tickDue' = FALSE
    /\ joyForEStop' = <<>>
    /\ UNCHANGED <<driveVars, grip, joyForTeleop, joyGap, wallVars, muxVars>>

EStopRestarts ==
    /\ ~eStopUp
    /\ eStopUp' = TRUE
    /\ Flag!Started
    /\ UNCHANGED <<driveVars, joyVars, wallVars, muxVars>>
-----------------------------------------------------------------------------
(* twist_mux: a command passes if no live input has a higher priority *)

\* mutant: the input that came last wins
MasksNothing(input) == FALSE
Masked(input) ==
    \E i \in Inputs : Priority[i] > Priority[input] /\ muxAge[i] <= MuxTimeout[i]

\* Bound: diff_drive has handled the command before.
MuxInput(input, twist) ==
    /\ cmdMsg = <<>>
    /\ muxAge' = [muxAge EXCEPT ![input] = 0]
    /\ cmdMsg' = IF Masked(input) THEN cmdMsg ELSE <<[twist |-> twist, from |-> input]>>

\* ps4_teleop's _joy_cb: one Twist for every Joy, zero without the dead-man
TeleopTwist == IF joyForTeleop[1] THEN "drive" ELSE "zero"

Teleop ==
    /\ joyForTeleop # <<>>
    /\ joyForTeleop' = <<>>
    /\ MuxInput("joystick", TeleopTwist)
    /\ UNCHANGED <<eStopVars, driveVars, eStopUp, grip, joyForEStop, joyGap, wallVars>>

\* Nav2's velocity_smoother
Navigate(twist) ==
    /\ MuxInput("navigation", twist)
    /\ UNCHANGED <<eStopVars, driveVars, eStopUp, joyVars, wallVars>>

\* ultrasonic_estop's _check_and_publish
\* mutant: it always publishes
StopsAlways == TRUE
Stops == blocked

UltrasonicCheck ==
    /\ checkDue
    /\ checkDue' = FALSE
    /\ IF Stops THEN MuxInput("estop", "zero") ELSE UNCHANGED muxVars
    /\ UNCHANGED <<eStopVars, driveVars, eStopUp, joyVars, blocked, blockedFor>>

\* An obstacle comes or goes (UltrasonicLogic debounces it).
Obstacle ==
    /\ blocked' = ~blocked
    /\ blockedFor' = 0
    /\ UNCHANGED <<eStopVars, driveVars, eStopUp, joyVars, checkDue, muxVars>>
-----------------------------------------------------------------------------
(* diff_drive_controller *)

DriveEStop ==
    /\ eStopMsg # <<>>
    /\ eStopMsg' = <<>>
    /\ EStopCb(eStopMsg[1])
    /\ UNCHANGED <<latch, joyAge, tickDue, eStopUp, joyVars, wallVars, muxVars>>

DriveCmd ==
    /\ cmdMsg # <<>>
    /\ cmdMsg' = <<>>
    /\ CmdVelCb(cmdMsg[1].twist)
    /\ UNCHANGED <<eStopVars, eStopUp, joyVars, wallVars, muxAge>>

DriveWatchdog ==
    /\ Watchdog
    /\ UNCHANGED <<eStopVars, eStopUp, joyVars, wallVars, muxVars>>
-----------------------------------------------------------------------------
\* One unit of time passes: everything received has been handled by then.
Quiet ==
    /\ ~tickDue /\ ~watchdogDue /\ ~checkDue
    /\ eStopMsg = <<>> /\ joyForEStop = <<>> /\ joyForTeleop = <<>> /\ cmdMsg = <<>>

TimePasses ==
    /\ Quiet
    /\ DriveTimePasses
    /\ tickDue' = eStopUp
    /\ checkDue' = TRUE
    /\ joyAge' = Older(joyAge, JoyTimeout)
    /\ joyGap' = IF joyGap < Grace THEN joyGap + 1 ELSE joyGap
    /\ blockedFor' = IF blocked /\ blockedFor < 1 THEN blockedFor + 1 ELSE blockedFor
    /\ muxAge' = [i \in Inputs |-> Older(muxAge[i], MuxTimeout[i])]
    /\ UNCHANGED <<latch, eStopMsg, eStopUp, grip, joyForEStop, joyForTeleop, blocked,
                   cmdMsg>>

Next ==
    \/ Grip
    \/ \E stop, reset \in BOOLEAN : JoyPublish(stop, reset)
    \/ EStopJoy \/ EStopTick \/ EStopDies \/ EStopRestarts
    \/ Teleop
    \/ \E twist \in {"zero", "drive"} : Navigate(twist)
    \/ UltrasonicCheck \/ Obstacle
    \/ DriveEStop \/ DriveCmd \/ DriveWatchdog
    \/ TimePasses

Spec == Init /\ [][Next]_vars

\* Time does not stop, and it passes only when the executors have run what is
\* due; Nav2 keeps sending its command.  What the operator does and what the
\* sensors see is up to them.
Fairness == []<><<TimePasses>>_vars /\ SF_vars(Navigate("drive"))

FairSpec == Spec /\ Fairness
-----------------------------------------------------------------------------
TypeOK ==
    /\ DriveTypeOK
    /\ latch \in BOOLEAN /\ joyAge \in 0 .. Flag!Never /\ tickDue \in BOOLEAN
    /\ eStopUp \in BOOLEAN /\ grip \in BOOLEAN /\ blocked \in BOOLEAN /\ checkDue \in BOOLEAN
    /\ joyGap \in 0 .. Grace /\ blockedFor \in 0 .. 1
    /\ \A i \in Inputs : muxAge[i] \in 0 .. MuxTimeout[i] + 1

(* Between messages the motors are enabled only if e_stop's latch is open:  *)
(* a stop that was published is never overtaken by the reset before it, and *)
(* a restarted e_stop stops the motors that its former life had armed.      *)
ArmedOnlyUnlatched == eStopUp /\ ~stopped /\ eStopMsg = <<>> => ~latch

(* "losing the joystick for 0.5 s stops": with no /joy for the two timeouts *)
(* and two periods the motors are idle, whatever becomes of e_stop.         *)
OperatorGoneIdles == joyGap = Grace => AllIdle

(* While e_stop lives, a silent joystick idles the motors by the next       *)
(* heartbeat already.                                                       *)
JoystickLossIdles ==
    eStopUp /\ joyGap > JoyTimeout /\ ~tickDue /\ joyForEStop = <<>> /\ eStopMsg = <<>>
        => AllIdle

(* An obstacle that is in view for a whole period stands the robot by the   *)
(* next check, whatever Nav2 and the operator command (ultrasonic_estop's "last-resort  *)
(* backstop").                                                              *)
ObstacleStands == blockedFor = 1 /\ ~checkDue /\ cmdMsg = <<>> => Standing

(* A lasting stop of the joystick or of Nav2 (cmd_vel) is WatchdogStops of  *)
(* DiffDrive, here with the commands that twist_mux lets through.           *)

(* "stops publishing once every sensor is clear again so lower-priority     *)
(* commands (...) resume": the armed motors of a robot with a clear view    *)
(* get the commands of an operator who drives it again and again.           *)
Passes(input) == cmdMsg = <<[twist |-> "drive", from |-> input]>>
JoystickResumes == <>[](~stopped /\ ~blocked /\ grip) => []<>Passes("joystick")

(* The same for Nav2, when the operator has let go of the dead-man switch.  *)
NavigationResumes == <>[](~stopped /\ ~blocked /\ ~grip) => []<>Passes("navigation")
=============================================================================
