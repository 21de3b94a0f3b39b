----------------------------- MODULE DiffDrive -----------------------------
(***************************************************************************)
(* The motor controller (bring_up/diff_drive_controller.py) and the axes   *)
(* of its four ODrives.                                                    *)
(*                                                                         *)
(* Callbacks run one at a time on a single threaded executor.  A callback  *)
(* that writes to a board whose USB connection is lost raises; nothing     *)
(* catches it, so main's finally runs destroy_node, which goes over the    *)
(* boards again, and the process is gone.  The axes are not: a board keeps *)
(* its last state and velocity without its controller.                     *)
(*                                                                         *)
(* The unit of time is one period of the 0.1 s watchdog timer.             *)
(***************************************************************************)
EXTENDS Naturals

CONSTANTS
    EStopTimeout,   \* E_STOP_TIMEOUT, in watchdog periods
    CmdVelTimeout   \* CMD_VEL_TIMEOUT, in watchdog periods

ASSUME DriveTimeoutAssumption == EStopTimeout \in Nat /\ CmdVelTimeout \in Nat

VARIABLES
    proc,           \* the process: "up", "exited" through destroy_node, "killed"
    stopped,        \* DiffDriveController.stopped
    moving,         \* _moving
    eStopAge,       \* time since _last_e_stop, saturated; also "never"
    cmdVelAge,      \* time since _last_cmd_vel, saturated; also "never"
    watchdogDue,    \* the 0.1 s timer has expired and _watchdog has not run yet
    axis,           \* the axis of each wheel: in closed loop?  turning?
    lost,           \* the wheels whose board no longer answers this process
    restarted       \* history: this is not the process's first life

driveVars == <<proc, stopped, moving, eStopAge, cmdVelAge, watchdogDue, axis, lost, restarted>>

Wheels == {"FR", "FL", "RR", "RL"}
Idle   == [on |-> FALSE, turning |-> FALSE]     \* AxisState.IDLE, input_vel 0
Held   == [on |-> TRUE, turning |-> FALSE]      \* CLOSED_LOOP_CONTROL, input_vel 0

\* The order in which the code goes over the boards: SERIAL_NUMBERS, _cmd_vel_cb
DriveOrder == <<"FR", "FL", "RR", "RL">>
CmdOrder   == <<"FL", "RL", "FR", "RR">>

\* A velocity command, as far as standing still is concerned: "pivot" turns
\* about the left wheels, whose v - w * WHEEL_SEPARATION / 2 is zero then.
Twists == {"zero", "drive", "pivot"}
Turns(twist, wheel) == twist = "drive" \/ (twist = "pivot" /\ wheel \in {"FR", "RR"})

\* The boards a loop over `order` reaches before the first lost one raises.
Reached(order) == {order[i] : i \in {j \in 1 .. 4 : \A k \in 1 .. j : order[k] \notin lost}}

DriveInit ==
    /\ proc = "up" /\ stopped = TRUE /\ moving = FALSE
    /\ eStopAge = EStopTimeout + 1 /\ cmdVelAge = CmdVelTimeout + 1
    /\ watchdogDue = FALSE
    /\ axis = [w \in Wheels |-> Idle]
    /\ lost = {}
    /\ restarted = FALSE
-----------------------------------------------------------------------------
\* _stop_motors: what it makes of the axes `ax`
StopMotors(ax) == [w \in Wheels |-> IF w \in Reached(DriveOrder) THEN Idle ELSE ax[w]]

\* _set_stopped(False): what it makes of the axes
\* mutant: the old input_vel is left in place
EnableAsIs == [w \in Wheels |-> IF w \in Reached(DriveOrder)
                                  THEN [axis[w] EXCEPT !.on = TRUE] ELSE axis[w]]
Enable == [w \in Wheels |-> IF w \in Reached(DriveOrder) THEN Held ELSE axis[w]]

\* _set_velocity over `order`: input_vel follows the twist
SetVelocity(order, twist) ==
    [w \in Wheels |-> IF w \in Reached(order)
                        THEN [axis[w] EXCEPT !.turning = Turns(twist, w)] ELSE axis[w]]

\* A callback has left the axes as `ax`.  If it met a lost board it raised,
\* and main's finally stops what it reaches before the process is gone (and
\* what it had in `moving` with it).
Return(ax) ==
    IF lost = {} THEN axis' = ax /\ proc' = "up"
                 ELSE axis' = StopMotors(ax) /\ proc' = "exited"

\* _set_stopped
\* mutant: a stop is not carried out
SetStoppedOnlyFlag(stop) ==
    /\ stopped' = stop
    /\ moving' = (moving /\ ~stop)
    /\ IF stop = stopped \/ stop THEN UNCHANGED <<axis, proc>> ELSE Return(Enable)

SetStopped(stop) ==
    /\ stopped' = stop
    /\ IF stop = stopped THEN UNCHANGED <<moving, axis, proc>>
       ELSE /\ moving' = (moving /\ ~stop)
            /\ Return(IF stop THEN StopMotors(axis) ELSE Enable)

\* _e_stop_cb
EStopCb(stop) ==
    /\ proc = "up"
    /\ eStopAge' = 0
    /\ SetStopped(stop)
    /\ UNCHANGED <<cmdVelAge, watchdogDue, lost, restarted>>

\* _cmd_vel_cb
Obeys == ~stopped

CmdVelCb(twist) ==
    /\ proc = "up"
    /\ IF Obeys
         THEN /\ cmdVelAge' = 0
              /\ moving' = (twist # "zero")
              /\ Return(SetVelocity(CmdOrder, twist))
         ELSE UNCHANGED <<cmdVelAge, moving, axis, proc>>
    /\ UNCHANGED <<stopped, eStopAge, watchdogDue, lost, restarted>>

\* _watchdog
\* mutants: a silent e_stop, an outdated command is not noticed
NeverSilent == FALSE
Silent == eStopAge > EStopTimeout
OutdatedNever == FALSE
Outdated == moving /\ cmdVelAge > CmdVelTimeout

Watchdog ==
    /\ proc = "up" /\ watchdogDue
    /\ watchdogDue' = FALSE
    /\ IF Silent THEN SetStopped(TRUE)
       ELSE IF Outdated
         THEN /\ Return(SetVelocity(DriveOrder, "zero"))
              /\ moving' = FALSE
              /\ UNCHANGED stopped
         ELSE UNCHANGED <<stopped, moving, axis, proc>>
    /\ UNCHANGED <<eStopAge, cmdVelAge, lost, restarted>>

\* Ctrl+C or SIGTERM: main's finally, destroy_node, _stop_motors
Interrupt ==
    /\ proc = "up"
    /\ proc' = "exited"
    /\ moving' = FALSE
    /\ axis' = StopMotors(axis)
    /\ UNCHANGED <<stopped, eStopAge, cmdVelAge, watchdogDue, lost, restarted>>

\* SIGKILL, or a crash that Python does not survive: no finally
Kill ==
    /\ proc = "up"
    /\ proc' = "killed"
    /\ UNCHANGED <<stopped, moving, eStopAge, cmdVelAge, watchdogDue, axis, lost, restarted>>

\* __init__ of a new process; _connect waits for all four boards and leaves
\* their axes as they are.
Restart ==
    /\ proc # "up"
    /\ proc' = "up" /\ stopped' = TRUE /\ moving' = FALSE
    /\ eStopAge' = EStopTimeout + 1 /\ cmdVelAge' = CmdVelTimeout + 1
    /\ watchdogDue' = FALSE
    /\ lost' = {}
    /\ restarted' = TRUE
    /\ UNCHANGED axis

\* The USB connection of a board is lost; its motor supply is not.
LoseBoard(w) ==
    /\ proc = "up" /\ w \notin lost
    /\ lost' = lost \cup {w}
    /\ UNCHANGED <<proc, stopped, moving, eStopAge, cmdVelAge, watchdogDue, axis, restarted>>

\* One watchdog period passes: the executor has run the last expiry by then.
Older(age, limit) == IF age > limit THEN age ELSE age + 1
DriveTimePasses ==
    /\ proc = "up" => ~watchdogDue
    /\ watchdogDue' = (proc = "up")
    /\ eStopAge' = Older(eStopAge, EStopTimeout)
    /\ cmdVelAge' = Older(cmdVelAge, CmdVelTimeout)
    /\ UNCHANGED <<proc, stopped, moving, axis, lost, restarted>>

DriveNext ==
    \/ \E stop \in BOOLEAN : EStopCb(stop)
    \/ \E twist \in Twists : CmdVelCb(twist)
    \/ Watchdog
    \/ Interrupt
    \/ Kill
    \/ Restart
    \/ \E w \in Wheels : LoseBoard(w)
    \/ DriveTimePasses

DriveSpec == DriveInit /\ [][DriveNext]_driveVars
-----------------------------------------------------------------------------
Standing == \A w \in Wheels : ~axis[w].turning
AllIdle  == \A w \in Wheels : axis[w] = Idle

DriveTypeOK ==
    /\ proc \in {"up", "exited", "killed"}
    /\ stopped \in BOOLEAN /\ moving \in BOOLEAN
    /\ eStopAge \in 0 .. EStopTimeout + 1 /\ cmdVelAge \in 0 .. CmdVelTimeout + 1
    /\ watchdogDue \in BOOLEAN /\ restarted \in BOOLEAN
    /\ axis \in [Wheels -> [on : BOOLEAN, turning : BOOLEAN]]
    /\ lost \in SUBSET Wheels

(* "Axes stay idle until the e-stop is released": a controller that is up   *)
(* and stopped has all four motors idle.                                    *)
StoppedMeansIdle == proc = "up" /\ stopped => AllIdle

(* The same of the first process since the boards were powered, through any *)
(* order of e-stop messages, commands, watchdog stops and lost boards.      *)
FirstLifeStopsIdle == ~restarted => StoppedMeansIdle

(* An armed controller, also one that found the motors running when it was  *)
(* started, has all axes in closed loop, both wheels of a side agreeing,    *)
(* and standing unless _moving, so that the watchdog looks after them.      *)
ArmedMeansConsistent ==
    proc = "up" /\ ~stopped =>
        /\ \A w \in Wheels : axis[w].on
        /\ axis["FR"] = axis["RR"] /\ axis["FL"] = axis["RL"]
        /\ ~moving => Standing

(* No /e_stop for E_STOP_TIMEOUT: stopped by the next watchdog period.      *)
SilenceStops == proc = "up" /\ eStopAge > EStopTimeout /\ ~watchdogDue => stopped

(* No /cmd_vel for CMD_VEL_TIMEOUT: standing by the next watchdog period    *)
(* (R-7: "loss of a valid motion command results in zero commanded          *)
(* velocity").                                                              *)
LossStands ==
    proc = "up" /\ ~stopped /\ cmdVelAge > CmdVelTimeout /\ ~watchdogDue => Standing
WatchdogStops == SilenceStops /\ LossStands

(* destroy_node leaves every motor idle when all boards answer.             *)
ExitIdles == proc = "exited" /\ lost = {} => AllIdle

(* "Shutting down -- stopping and idling motors": a process that ended      *)
(* through destroy_node has idled every motor whose board still answers.    *)
ExitIdlesReachable == proc = "exited" => \A w \in Wheels \ lost : axis[w] = Idle
=============================================================================
