------------------------- MODULE MotorChain_proofs -------------------------
(***************************************************************************)
(* The safety of the motor controller, through lost boards, exits, kills   *)
(* and restarts (DriveSpec), and that of the chain from the operator and   *)
(* the obstacle sensors to the motors, whether e_stop may die or not       *)
(* (Spec): for all timeouts.                                               *)
(***************************************************************************)
EXTENDS MotorChain, TLAPS

(***************************************************************************)
(* The motor controller by itself.                                         *)
(***************************************************************************)
(* A loop over the boards reaches all of them when none is lost.            *)
LEMMA ReachedAll ==
    ASSUME lost = {}
    PROVE  Reached(DriveOrder) = Wheels /\ Reached(CmdOrder) = Wheels
<1>1. {j \in 1 .. 4 : TRUE} = {1, 2, 3, 4}
  OBVIOUS
<1>2. ASSUME NEW order PROVE Reached(order) = {order[1], order[2], order[3], order[4]}
  BY <1>1 DEF Reached
<1>3. /\ DriveOrder[1] = "FR" /\ DriveOrder[2] = "FL" /\ DriveOrder[3] = "RR"
      /\ DriveOrder[4] = "RL"
      /\ CmdOrder[1] = "FL" /\ CmdOrder[2] = "RL" /\ CmdOrder[3] = "FR" /\ CmdOrder[4] = "RR"
  BY DEF DriveOrder, CmdOrder
<1> QED
  BY <1>2, <1>3 DEF Wheels

(* What the four loops make of the axes stays a configuration of the axes;  *)
(* when no board is lost, it is the one that the code asks for.             *)
LEMMA LoopsTyped ==
    ASSUME DriveTypeOK
    PROVE  /\ \A ax \in [Wheels -> [on : BOOLEAN, turning : BOOLEAN]] :
                StopMotors(ax) \in [Wheels -> [on : BOOLEAN, turning : BOOLEAN]]
           /\ Enable \in [Wheels -> [on : BOOLEAN, turning : BOOLEAN]]
           /\ \A order, twist : 
                SetVelocity(order, twist) \in [Wheels -> [on : BOOLEAN, turning : BOOLEAN]]
<1>1. Idle \in [on : BOOLEAN, turning : BOOLEAN] /\ Held \in [on : BOOLEAN, turning : BOOLEAN]
  BY DEF Idle, Held
<1>2. \A twist, w : Turns(twist, w) \in BOOLEAN
  BY DEF Turns
<1> QED
  BY <1>1, <1>2 DEF DriveTypeOK, StopMotors, Enable, SetVelocity

LEMMA LoopsComplete ==
    ASSUME DriveTypeOK, lost = {}
    PROVE  \A w \in Wheels :
             /\ \A ax : StopMotors(ax)[w] = Idle
             /\ Enable[w] = Held
             /\ \A twist : \A order \in {DriveOrder, CmdOrder} :
                  SetVelocity(order, twist)[w] = [axis[w] EXCEPT !.turning = Turns(twist, w)]
BY ReachedAll DEF StopMotors, Enable, SetVelocity

(* The type invariant: flags, ages and axes stay in range.                  *)
THEOREM DriveTypeCorrect == DriveSpec => []DriveTypeOK
<1> DEFINE Axes == [Wheels -> [on : BOOLEAN, turning : BOOLEAN]]
<1>0. /\ 0 \in 0 .. EStopTimeout + 1 /\ EStopTimeout + 1 \in 0 .. EStopTimeout + 1
      /\ 0 \in 0 .. CmdVelTimeout + 1 /\ CmdVelTimeout + 1 \in 0 .. CmdVelTimeout + 1
  BY DriveTimeoutAssumption
<1>1. DriveInit => DriveTypeOK
  <2>1. DriveInit => axis \in Axes
    BY DEF DriveInit, Idle
  <2>2. DriveInit => proc \in {"up", "exited", "killed"} /\ lost \in SUBSET Wheels
    BY DEF DriveInit
  <2> QED
    BY <1>0, <2>1, <2>2, Zenon DEF DriveInit, DriveTypeOK
<1>2. DriveTypeOK /\ [DriveNext]_driveVars => DriveTypeOK'
  <2> SUFFICES ASSUME DriveTypeOK, [DriveNext]_driveVars PROVE DriveTypeOK'
    OBVIOUS
  <2>1. ASSUME NEW ax \in Axes, Return(ax)
        PROVE  axis' \in Axes /\ proc' \in {"up", "exited", "killed"}
    BY <2>1, LoopsTyped DEF Return
  <2>2. ASSUME NEW stop \in BOOLEAN, SetStopped(stop)
        PROVE  /\ axis' \in Axes /\ proc' \in {"up", "exited", "killed"}
               /\ stopped' \in BOOLEAN /\ moving' \in BOOLEAN
    <3>1. axis' \in Axes /\ proc' \in {"up", "exited", "killed"}
      BY <2>1, <2>2, LoopsTyped DEF SetStopped, DriveTypeOK
    <3> QED
      BY <2>2, <3>1 DEF SetStopped, DriveTypeOK
  <2>3. ASSUME NEW stop \in BOOLEAN, EStopCb(stop) PROVE DriveTypeOK'
    BY <2>2, <2>3, DriveTimeoutAssumption DEF EStopCb, DriveTypeOK
  <2>4. ASSUME NEW twist \in Twists, CmdVelCb(twist) PROVE DriveTypeOK'
    <3>1. axis' \in Axes /\ proc' \in {"up", "exited", "killed"}
      BY <2>1, <2>4, LoopsTyped DEF CmdVelCb, DriveTypeOK
    <3> QED
      BY <2>4, <3>1, <1>0, Zenon DEF CmdVelCb, DriveTypeOK
  <2>5. CASE Watchdog
    <3>1. /\ axis' \in Axes /\ proc' \in {"up", "exited", "killed"}
          /\ stopped' \in BOOLEAN /\ moving' \in BOOLEAN
      <4>1. CASE Silent
        BY <2>2, <2>5, <4>1 DEF Watchdog
      <4>2. CASE ~Silent /\ Outdated
        BY <2>1, <2>5, <4>2, LoopsTyped DEF Watchdog, DriveTypeOK
      <4>3. CASE ~Silent /\ ~Outdated
        BY <2>5, <4>3 DEF Watchdog, DriveTypeOK
      <4> QED
        BY <4>1, <4>2, <4>3
    <3> QED
      BY <2>5, <3>1 DEF Watchdog, DriveTypeOK
  <2>6. CASE Interrupt
    BY <2>6, LoopsTyped DEF Interrupt, DriveTypeOK
  <2>7. CASE Kill
    BY <2>7 DEF Kill, DriveTypeOK
  <2>8. CASE Restart
    BY <2>8, <1>0, Zenon DEF Restart, DriveTypeOK
  <2>9. ASSUME NEW w \in Wheels, LoseBoard(w) PROVE DriveTypeOK'
    BY <2>9 DEF LoseBoard, DriveTypeOK
  <2>10. CASE DriveTimePasses
    BY <2>10, DriveTimeoutAssumption DEF DriveTimePasses, Older, DriveTypeOK
  <2>11. CASE UNCHANGED driveVars
    BY <2>11 DEF driveVars, DriveTypeOK
  <2> QED
    BY <2>3, <2>4, <2>5, <2>6, <2>7, <2>8, <2>9, <2>10, <2>11 DEF DriveNext
<1> QED
  BY <1>1, <1>2, PTL DEF DriveSpec

(* A callback that returns has done all it meant to, and one that meets a   *)
(* lost board ends the process: on this the five properties rest.           *)
LEMMA DriveInvariance ==
    DriveSpec => [](/\ FirstLifeStopsIdle /\ ArmedMeansConsistent
               /\ SilenceStops /\ LossStands /\ ExitIdles)
<1> DEFINE StoppedNotMoving == proc = "up" /\ stopped => ~moving
           Parts == /\ FirstLifeStopsIdle /\ ArmedMeansConsistent
                    /\ SilenceStops /\ LossStands /\ ExitIdles /\ StoppedNotMoving
<1> USE DEF FirstLifeStopsIdle, StoppedMeansIdle, ArmedMeansConsistent, SilenceStops,
        LossStands, ExitIdles, AllIdle, Standing
<1>1. DriveInit => Parts
  BY DEF DriveInit
<1>2. DriveTypeOK /\ DriveTypeOK' /\ Parts /\ [DriveNext]_driveVars => Parts'
  <2> SUFFICES ASSUME DriveTypeOK, DriveTypeOK', Parts, [DriveNext]_driveVars PROVE Parts'
    OBVIOUS
  \* A callback that returned met no lost board, and did what it meant to.
  <2>1. ASSUME NEW ax, Return(ax)
        PROVE  \/ proc' = "up" /\ lost = {} /\ axis' = ax
               \/ proc' = "exited" /\ lost # {}
    BY <2>1 DEF Return
  <2>2. ASSUME NEW stop \in BOOLEAN, proc = "up", SetStopped(stop),
               UNCHANGED <<lost, restarted>>
        PROVE  \/ proc' = "exited" /\ lost' # {}
               \/ proc' = "up" /\ stop = stopped /\ UNCHANGED <<stopped, moving, axis>>
               \/ /\ proc' = "up" /\ stop # stopped /\ stopped' = stop /\ ~moving'
                  /\ \A w \in Wheels : axis'[w] = IF stop THEN Idle ELSE Held
    BY <2>1, <2>2, LoopsComplete DEF SetStopped, DriveTypeOK
  <2>3. ASSUME NEW stop \in BOOLEAN, EStopCb(stop) PROVE Parts'
    <3>1. UNCHANGED <<cmdVelAge, watchdogDue, lost, restarted>> /\ eStopAge' = 0 /\ proc = "up"
      BY <2>3 DEF EStopCb
    <3>2. CASE proc' = "exited" /\ lost' # {}
      BY <3>2
    <3>3. CASE proc' = "up" /\ stop = stopped /\ UNCHANGED <<stopped, moving, axis>>
      BY <3>1, <3>3, DriveTimeoutAssumption
    <3>4. CASE /\ proc' = "up" /\ stop # stopped /\ stopped' = stop /\ ~moving'
               /\ \A w \in Wheels : axis'[w] = IF stop THEN Idle ELSE Held
      BY <3>1, <3>4, DriveTimeoutAssumption DEF Held, Wheels
    <3> QED
      BY <2>2, <2>3, <3>1, <3>2, <3>3, <3>4 DEF EStopCb
  <2>4. ASSUME NEW twist \in Twists, CmdVelCb(twist) PROVE Parts'
    <3>1. CASE ~Obeys
      BY <2>4, <3>1 DEF CmdVelCb
    <3>2. CASE Obeys
      <4>1. /\ UNCHANGED <<stopped, eStopAge, watchdogDue, lost, restarted>>
            /\ cmdVelAge' = 0 /\ proc = "up" /\ ~stopped /\ moving' = (twist # "zero")
            /\ Return(SetVelocity(CmdOrder, twist))
        BY <2>4, <3>2 DEF CmdVelCb, Obeys
      <4>2. CASE proc' = "exited" /\ lost # {}
        BY <4>1, <4>2
      <4>3. CASE proc' = "up" /\ lost = {} /\ axis' = SetVelocity(CmdOrder, twist)
        <5>1. \A w \in Wheels : axis'[w] = [axis[w] EXCEPT !.turning = Turns(twist, w)]
          BY <4>3, LoopsComplete
        <5>2. \A w \in Wheels : axis'[w].on = axis[w].on /\ axis'[w].turning = Turns(twist, w)
          BY <5>1 DEF DriveTypeOK
        <5>3. ArmedMeansConsistent'
          <6>1. \A w \in Wheels : axis[w].on
            BY <4>1
          <6>2. Turns(twist, "FR") = Turns(twist, "RR") /\ Turns(twist, "FL") = Turns(twist, "RL")
            BY DEF Turns
          <6>3. axis'["FR"] = axis'["RR"] /\ axis'["FL"] = axis'["RL"]
            BY <4>1, <5>1, <6>2 DEF Wheels
          <6>4. ~moving' => \A w \in Wheels : ~axis'[w].turning
            BY <4>1, <5>2 DEF Turns
          <6> QED
            BY <5>2, <6>1, <6>3, <6>4
        <5> QED
          BY <4>1, <4>3, <5>3, DriveTimeoutAssumption
      <4> QED
        BY <2>1, <4>1, <4>2, <4>3
    <3> QED
      BY <3>1, <3>2
  <2>5. CASE Watchdog
    <3>1. UNCHANGED <<eStopAge, cmdVelAge, lost, restarted>> /\ proc = "up" /\ ~watchdogDue'
      BY <2>5 DEF Watchdog
    <3>2. CASE Silent
      <4>1. SetStopped(TRUE)
        BY <2>5, <3>2 DEF Watchdog
      <4>2. CASE proc' = "exited" /\ lost' # {}
        BY <4>2
      <4>3. CASE proc' = "up" /\ stopped /\ UNCHANGED <<stopped, moving, axis>>
        BY <3>1, <4>3
      <4>4. CASE proc' = "up" /\ stopped' /\ ~moving' /\ \A w \in Wheels : axis'[w] = Idle
        BY <3>1, <4>4
      <4> QED
        BY <2>2, <3>1, <4>1, <4>2, <4>3, <4>4 DEF DriveTypeOK
    <3>3. CASE ~Silent /\ Outdated
      <4>1. UNCHANGED stopped /\ ~moving' /\ Return(SetVelocity(DriveOrder, "zero")) /\ ~stopped
        BY <2>5, <3>3 DEF Watchdog, Outdated
      <4>2. CASE proc' = "exited" /\ lost # {}
        BY <3>1, <4>2
      <4>3. CASE proc' = "up" /\ lost = {} /\ axis' = SetVelocity(DriveOrder, "zero")
        <5>1. \A w \in Wheels : axis'[w] = [axis[w] EXCEPT !.turning = Turns("zero", w)]
          BY <4>3, LoopsComplete
        <5>2. \A w \in Wheels : axis'[w].on = axis[w].on /\ ~axis'[w].turning
          BY <5>1 DEF DriveTypeOK, Turns
        <5> QED
          BY <3>1, <3>3, <4>1, <4>3, <5>1, <5>2 DEF Turns, Silent, Wheels
      <4> QED
        BY <2>1, <4>1, <4>2, <4>3
    <3>4. CASE ~Silent /\ ~Outdated
      BY <2>5, <3>1, <3>4, DriveTimeoutAssumption DEF Watchdog, Silent, Outdated, DriveTypeOK
    <3> QED
      BY <3>2, <3>3, <3>4
  <2>6. CASE Interrupt
    BY <2>6, LoopsComplete DEF Interrupt
  <2>7. CASE Kill
    BY <2>7 DEF Kill
  <2>8. CASE Restart
    BY <2>8 DEF Restart
  <2>9. ASSUME NEW w \in Wheels, LoseBoard(w) PROVE Parts'
    BY <2>9 DEF LoseBoard
  <2>10. CASE DriveTimePasses
    BY <2>10 DEF DriveTimePasses
  <2>11. CASE UNCHANGED driveVars
    BY <2>11 DEF driveVars
  <2> QED
    BY <2>3, <2>4, <2>5, <2>6, <2>7, <2>8, <2>9, <2>10, <2>11 DEF DriveNext
<1> QED
  BY <1>1, <1>2, DriveTypeCorrect, PTL DEF DriveSpec

(* In the first life since the boards were powered a stopped controller has *)
(* all four motors idle, after any order of messages, losses and kills.     *)
THEOREM FirstLifeCorrect == DriveSpec => []FirstLifeStopsIdle
BY DriveInvariance, PTL

(* An armed controller has all axes in closed loop, the wheels of a side    *)
(* agree, and they stand unless _moving makes the watchdog look after them. *)
THEOREM ConsistentCorrect == DriveSpec => []ArmedMeansConsistent
BY DriveInvariance, PTL

(* Silence on /e_stop stops the robot by the next period of the watchdog,   *)
(* and silence on /cmd_vel has it standing by then.                         *)
THEOREM WatchdogCorrect == DriveSpec => []WatchdogStops
<1>1. SilenceStops /\ LossStands => WatchdogStops
  BY DEF WatchdogStops
<1> QED BY <1>1, DriveInvariance, PTL

(* An exit with all boards there has idled every motor.                     *)
THEOREM ExitCorrect == DriveSpec => []ExitIdles
BY DriveInvariance, PTL

(***************************************************************************)
(* The chain.                                                              *)
(***************************************************************************)
Axes == [Wheels -> [on : BOOLEAN, turning : BOOLEAN]]

(***************************************************************************)
(* The parts of the inductive invariant.                                   *)
(***************************************************************************)
\* What the topics hold.
TopicsInv ==
    /\ grip \in BOOLEAN
    /\ eStopMsg \in {<<>>, <<TRUE>>, <<FALSE>>}
    /\ joyForEStop = <<>>
         \/ \E stop, reset \in BOOLEAN : joyForEStop = <<[stop |-> stop, reset |-> reset]>>
    /\ joyForTeleop \in {<<>>, <<TRUE>>, <<FALSE>>}
    /\ cmdMsg = <<>>
         \/ \E twist \in {"zero", "drive"}, input \in Inputs :
              cmdMsg = <<[twist |-> twist, from |-> input]>>

\* The controller: no board is lost and nothing ends the process.
DriveInv ==
    /\ proc = "up" /\ lost = {}
    /\ stopped \in BOOLEAN /\ watchdogDue \in BOOLEAN /\ axis \in Axes
    /\ eStopAge \in Nat /\ eStopAge <= EStopTimeout + 1
    /\ stopped => AllIdle /\ ~moving
    /\ eStopAge > EStopTimeout /\ ~watchdogDue => stopped

\* e_stop: its topic has its latch, or has delivered it; a dead one does nothing; a
\* joystick silent for too long has set the latch by the next heartbeat.
LatchInv ==
    /\ latch \in BOOLEAN /\ eStopUp \in BOOLEAN /\ tickDue \in BOOLEAN
    /\ joyAge \in Nat
    /\ eStopUp /\ eStopMsg # <<>> => eStopMsg = <<latch>>
    /\ eStopUp /\ eStopMsg = <<>> /\ ~stopped => ~latch
    /\ ~eStopUp => ~tickDue /\ joyForEStop = <<>>
    /\ eStopUp /\ ~tickDue /\ joyAge > JoyTimeout => latch

\* How old the last sign of the operator may be: no older than e_stop believes, and
\* no older than the message that keeps the motors armed allows.
SignInv ==
    /\ joyGap \in Nat
    /\ joyForEStop # <<>> => joyGap = 0
    /\ joyForEStop = <<>> => joyAge >= joyGap \/ joyAge > JoyTimeout
    /\ eStopMsg = <<FALSE>> => joyGap <= JoyTimeout
    /\ ~stopped => joyGap <= JoyTimeout + eStopAge

\* An obstacle in view for a period, after the check of this period: twist_mux lets
\* nothing pass but the stop.
WallInv ==
    /\ blockedFor \in {0, 1} /\ (blockedFor = 1 => blocked)
    /\ muxAge \in [Inputs -> Nat]
    /\ blockedFor = 1 /\ ~checkDue =>
         /\ muxAge["estop"] = 0
         /\ cmdMsg = <<>> => Standing
         /\ cmdMsg # <<>> => cmdMsg[1].twist = "zero"

IInv == TopicsInv /\ DriveInv /\ LatchInv /\ SignInv /\ WallInv

(***************************************************************************)
(* What the callbacks of the controller do when all boards answer.         *)
(***************************************************************************)
\* A stop idles every axis, an enable holds every one, none of them turns.
LEMMA StopObeyed ==
    ASSUME DriveInv, NEW stop \in BOOLEAN, SetStopped(stop), lost' = lost
    PROVE  /\ proc' = "up" /\ stopped' = stop /\ axis' \in Axes
           /\ stop => AllIdle' /\ ~moving'
           /\ Standing => Standing'
<1> USE DEF DriveInv
<1>1. CASE stop = stopped
  <2>1. UNCHANGED <<axis, proc, stopped, moving>>
    BY <1>1 DEF SetStopped
  <2> QED BY <1>1, <2>1 DEF AllIdle, Standing
<1>2. CASE stop # stopped
  <2>1. proc' = "up" /\ axis' = IF stop THEN StopMotors(axis) ELSE Enable
    BY <1>2 DEF SetStopped, Return
  <2>2. axis' = [w \in Wheels |-> IF stop THEN Idle ELSE Held]
    BY <2>1, ReachedAll DEF StopMotors, Enable
  <2>3. stopped' = stop
    BY DEF SetStopped
  <2>4. \A w \in Wheels : ~axis'[w].turning
    BY <2>2 DEF Idle, Held
  <2>5. axis' \in Axes
    BY <2>2 DEF Axes, Idle, Held
  <2>6. stop => ~moving' /\ \A w \in Wheels : axis'[w] = Idle
    BY <1>2, <2>2 DEF SetStopped
  <2> QED BY <2>1, <2>3, <2>4, <2>5, <2>6 DEF AllIdle, Standing
<1> QED BY <1>1, <1>2

\* The velocities of a command reach every wheel.
LEMMA VelocitySet ==
    ASSUME DriveInv, NEW twist, NEW order \in {DriveOrder, CmdOrder},
           Return(SetVelocity(order, twist))
    PROVE  /\ proc' = "up" /\ axis' \in Axes
           /\ twist = "zero" => Standing'
<1>1. proc' = "up" /\ axis' = SetVelocity(order, twist)
  BY DEF DriveInv, Return
<1>2. axis' = [w \in Wheels |-> [axis[w] EXCEPT !.turning = Turns(twist, w)]]
  BY <1>1, ReachedAll DEF DriveInv, SetVelocity
<1>3. \A w \in Wheels : axis[w] \in [on : BOOLEAN, turning : BOOLEAN]
  BY DEF DriveInv, Axes
<1>4. \A w \in Wheels : Turns(twist, w) \in BOOLEAN
  BY DEF Turns
<1>5. \A w \in Wheels :
         axis'[w] = [on |-> axis[w].on, turning |-> Turns(twist, w)]
  BY <1>2, <1>3
<1>6. axis' \in Axes
  BY <1>2, <1>3, <1>4, <1>5 DEF Axes
<1>7. twist = "zero" => \A w \in Wheels : ~axis'[w].turning
  <2>1. twist = "zero" => \A w \in Wheels : ~Turns(twist, w)
    BY DEF Turns
  <2>2. \A w \in Wheels : axis'[w].turning = Turns(twist, w)
    <3> TAKE w \in Wheels
    <3>1. axis'[w] = [on |-> axis[w].on, turning |-> Turns(twist, w)]
      BY <1>5
    <3> QED BY <3>1
  <2> QED BY <2>1, <2>2, Zenon
<1> QED BY <1>1, <1>6, <1>7 DEF Standing

\* An idle axis stands.
LEMMA IdleStands == AllIdle => Standing
  BY DEF AllIdle, Standing, Idle

(***************************************************************************)
(* Each part is preserved by every step.                                   *)
(***************************************************************************)
LEMMA InitEstablishes == Init => IInv
<1> SUFFICES ASSUME Init PROVE IInv
  OBVIOUS
<1> USE DEF Init, DriveInit, Flag!EStopInit
<1>1. TopicsInv
  BY DEF TopicsInv
<1>2. DriveInv
  <2>1. axis \in Axes /\ AllIdle
    BY DEF Axes, Idle, AllIdle
  <2>2. EStopTimeout + 1 \in Nat /\ EStopTimeout + 1 <= EStopTimeout + 1
    BY DriveTimeoutAssumption, JoyTimeoutAssumption
  <2> QED BY <2>1, <2>2, Zenon DEF DriveInv
<1>3. LatchInv
  <2>1. JoyTimeout + 1 \in Nat
    BY DriveTimeoutAssumption, JoyTimeoutAssumption
  <2> QED BY <2>1, Zenon DEF LatchInv, Flag!Never
<1>4. SignInv
  BY DriveTimeoutAssumption, JoyTimeoutAssumption DEF SignInv, Grace, Flag!Never
<1>5. WallInv
  BY MuxTimeoutAssumption DEF WallInv
<1> QED BY <1>1, <1>2, <1>3, <1>4, <1>5 DEF IInv

\* An input of twist_mux leaves what is in the topic and on the inputs in range, and
\* does not get through behind a fresh stop.
LEMMA MuxInputs ==
    ASSUME TopicsInv, WallInv, NEW input \in Inputs, NEW twist \in {"zero", "drive"},
           MuxInput(input, twist)
    PROVE  /\ cmdMsg = <<>>
           /\ cmdMsg' = <<>>
                \/ \E t \in {"zero", "drive"}, i \in Inputs :
                     cmdMsg' = <<[twist |-> t, from |-> i]>>
           /\ muxAge' \in [Inputs -> Nat]
           /\ input # "estop" /\ muxAge["estop"] = 0 => cmdMsg' = <<>> /\ muxAge'["estop"] = 0
           /\ input = "estop" => cmdMsg' = <<[twist |-> twist, from |-> input]>>
                                   /\ muxAge'["estop"] = 0
<1> USE DEF MuxInput, WallInv
<1>1. cmdMsg = <<>> /\ muxAge' \in [Inputs -> Nat]
  OBVIOUS
<1>2. muxAge'[input] = 0 /\ \A i \in Inputs : i # input => muxAge'[i] = muxAge[i]
  OBVIOUS
<1>3. cmdMsg' = <<>> \/ cmdMsg' = <<[twist |-> twist, from |-> input]>>
  BY <1>1
<1>4. ASSUME input # "estop", muxAge["estop"] = 0 PROVE Masked(input)
  <2>1. Priority["estop"] > Priority[input]
    BY <1>4 DEF Priority, Inputs
  <2>2. muxAge["estop"] <= MuxTimeout["estop"]
    BY <1>4, MuxTimeoutAssumption DEF Inputs
  <2> QED BY <2>1, <2>2 DEF Masked, Inputs
<1>5. ASSUME input = "estop" PROVE ~Masked(input)
  <2>1. \A i \in Inputs : ~(Priority[i] > Priority["estop"])
    BY DEF Priority, Inputs
  <2> QED BY <1>5, <2>1 DEF Masked
<1>6. "estop" \in Inputs
  BY DEF Inputs
<1>7. input # "estop" /\ muxAge["estop"] = 0 => cmdMsg' = <<>> /\ muxAge'["estop"] = 0
  BY <1>1, <1>2, <1>4, <1>6
<1>8. input = "estop" => cmdMsg' = <<[twist |-> twist, from |-> input]>>
                           /\ muxAge'["estop"] = 0
  BY <1>2, <1>5
<1> QED BY <1>1, <1>3, <1>7, <1>8

(***************************************************************************)
(* What the parts do not mention may change.                               *)
(***************************************************************************)
LEMMA DriveKept ==
    ASSUME DriveInv, UNCHANGED driveVars
    PROVE  DriveInv' /\ (Standing => Standing')
  BY DEF DriveInv, driveVars, AllIdle, Standing

LEMMA WallKept ==
    ASSUME WallInv, UNCHANGED <<wallVars, muxVars>>, Standing => Standing'
    PROVE  WallInv'
  BY DEF WallInv, wallVars, muxVars

\* A sign of the operator in this very period is recent enough for everything.
LEMMA FreshSign ==
    ASSUME joyGap' = 0, joyAge' \in Nat, eStopAge' \in Nat
    PROVE  SignInv'
<1>1. \A n \in Nat : n >= 0 /\ 0 <= JoyTimeout + n
  BY DriveTimeoutAssumption, JoyTimeoutAssumption
<1> QED BY <1>1, DriveTimeoutAssumption, JoyTimeoutAssumption DEF SignInv

(***************************************************************************)
(* The operator and the obstacles.                                         *)
(***************************************************************************)
LEMMA GripPreserves == IInv /\ Grip => IInv'
<1> SUFFICES ASSUME IInv, Grip PROVE IInv'
  OBVIOUS
<1> USE DEF IInv, Grip
<1>1. TopicsInv'
  BY DEF TopicsInv, eStopVars, muxVars
<1>2. DriveInv' /\ WallInv'
  BY DriveKept, WallKept
<1>3. LatchInv' /\ SignInv'
  BY DEF LatchInv, SignInv, eStopVars, driveVars
<1> QED BY <1>1, <1>2, <1>3

LEMMA JoyPreserves ==
    ASSUME IInv, NEW stop \in BOOLEAN, NEW reset \in BOOLEAN, JoyPublish(stop, reset)
    PROVE  IInv'
<1> USE DEF IInv, JoyPublish
<1>1. TopicsInv'
  BY DEF TopicsInv, eStopVars, muxVars
<1>2. DriveInv' /\ WallInv'
  BY DriveKept, WallKept
<1>3. LatchInv'
  BY DEF LatchInv, eStopVars, driveVars
<1>4. SignInv'
  BY FreshSign DEF DriveInv, LatchInv, eStopVars, driveVars
<1> QED BY <1>1, <1>2, <1>3, <1>4

LEMMA ObstaclePreserves == IInv /\ Obstacle => IInv'
<1> SUFFICES ASSUME IInv, Obstacle PROVE IInv'
  OBVIOUS
<1> USE DEF IInv, Obstacle
<1>1. TopicsInv'
  BY DEF TopicsInv, eStopVars, joyVars, muxVars
<1>2. DriveInv' /\ WallInv'
  BY DriveKept DEF WallInv, muxVars
<1>3. LatchInv' /\ SignInv'
  BY DEF LatchInv, SignInv, eStopVars, driveVars, joyVars
<1> QED BY <1>1, <1>2, <1>3

(***************************************************************************)
(* e_stop.                                                                 *)
(***************************************************************************)
\* A message published by e_stop has its latch.
LEMMA EStopPublishes ==
    ASSUME latch' \in BOOLEAN, eStopMsg' = <<latch'>>
    PROVE  eStopMsg' \in {<<>>, <<TRUE>>, <<FALSE>>} /\ (eStopMsg' = <<FALSE>> => ~latch')
  OBVIOUS

LEMMA EStopJoyPreserves == IInv /\ EStopJoy => IInv'
<1> SUFFICES ASSUME IInv, EStopJoy PROVE IInv'
  OBVIOUS
<1> USE DEF IInv, EStopJoy, Flag!JoyCb
<1>1. latch' \in BOOLEAN
  <2>1. PICK stop, reset \in BOOLEAN : joyForEStop = <<[stop |-> stop, reset |-> reset]>>
    BY DEF TopicsInv
  <2>2. latch' = Flag!Pressed(stop, reset)
    BY <2>1
  <2> QED BY <2>2 DEF Flag!Pressed, LatchInv
<1>2. TopicsInv'
  BY <1>1, EStopPublishes DEF TopicsInv, joyVars, muxVars
<1>3. DriveInv' /\ WallInv'
  BY DriveKept, WallKept
<1>4. LatchInv'
  BY <1>1, DriveTimeoutAssumption, JoyTimeoutAssumption DEF LatchInv, driveVars
<1>5. SignInv'
  BY FreshSign DEF SignInv, DriveInv, driveVars
<1> QED BY <1>2, <1>3, <1>4, <1>5

LEMMA EStopTickPreserves == IInv /\ EStopTick => IInv'
<1> SUFFICES ASSUME IInv, EStopTick PROVE IInv'
  OBVIOUS
<1> USE DEF IInv, EStopTick, Flag!Tick, Flag!JoySilent
<1>1. latch' \in BOOLEAN /\ (joyAge > JoyTimeout => latch')
  BY DEF LatchInv
<1>2. TopicsInv'
  BY <1>1, EStopPublishes DEF TopicsInv, joyVars, muxVars
<1>3. DriveInv' /\ WallInv'
  BY DriveKept, WallKept
<1>4. LatchInv'
  BY <1>1, DriveTimeoutAssumption, JoyTimeoutAssumption DEF LatchInv, driveVars, joyVars
<1>5. eStopMsg' = <<FALSE>> => joyGap <= JoyTimeout
  <2>1. eStopMsg' = <<FALSE>> => joyAge <= JoyTimeout
    <3>1. ~latch' => ~(joyAge > JoyTimeout)
      BY <1>1
    <3>2. ~(joyAge > JoyTimeout) => joyAge <= JoyTimeout
      BY DriveTimeoutAssumption, JoyTimeoutAssumption DEF LatchInv
    <3> QED BY <1>1, <3>1, <3>2, EStopPublishes
  <2>2. joyAge <= JoyTimeout => joyGap <= JoyTimeout
    BY DriveTimeoutAssumption, JoyTimeoutAssumption DEF LatchInv, SignInv
  <2> QED BY <2>1, <2>2
<1>6. SignInv'
  BY <1>5 DEF SignInv, driveVars, joyVars
<1> QED BY <1>2, <1>3, <1>4, <1>6

LEMMA EStopDiesPreserves == IInv /\ EStopDies => IInv'
<1> SUFFICES ASSUME IInv, EStopDies PROVE IInv'
  OBVIOUS
<1> USE DEF IInv, EStopDies, Flag!Never
<1>1. TopicsInv'
  BY DEF TopicsInv, muxVars
<1>2. DriveInv' /\ WallInv'
  BY DriveKept, WallKept
<1>3. JoyTimeout + 1 \in Nat /\ JoyTimeout + 1 > JoyTimeout
  BY DriveTimeoutAssumption, JoyTimeoutAssumption
<1>4. LatchInv'
  BY <1>3 DEF LatchInv
<1>5. SignInv'
  <2>1. eStopMsg' = <<FALSE>> => eStopMsg = <<FALSE>>
    <3>1. <<TRUE>> # <<FALSE>>
      OBVIOUS
    <3>2. eStopMsg' = eStopMsg \/ eStopMsg' = <<TRUE>>
      OBVIOUS
    <3> QED BY <3>1, <3>2
  <2> QED BY <1>3, <2>1 DEF SignInv, driveVars
<1> QED BY <1>1, <1>2, <1>4, <1>5

LEMMA EStopRestartsPreserves == IInv /\ EStopRestarts => IInv'
<1> SUFFICES ASSUME IInv, EStopRestarts PROVE IInv'
  OBVIOUS
<1> USE DEF IInv, EStopRestarts, Flag!Started, Flag!Never
<1>1. TopicsInv'
  BY DEF TopicsInv, joyVars, muxVars
<1>2. DriveInv' /\ WallInv'
  BY DriveKept, WallKept
<1>3. JoyTimeout + 1 \in Nat /\ JoyTimeout + 1 > JoyTimeout
  BY DriveTimeoutAssumption, JoyTimeoutAssumption
<1>4. LatchInv'
  BY <1>3 DEF LatchInv
<1>5. SignInv'
  BY <1>3 DEF SignInv, driveVars, joyVars
<1> QED BY <1>1, <1>2, <1>4, <1>5

(***************************************************************************)
(* twist_mux and its inputs.                                               *)
(***************************************************************************)
\* What a command does not touch.
LEMMA CommandPreserves ==
    ASSUME IInv, UNCHANGED <<eStopVars, driveVars, eStopUp, grip, joyForEStop, joyGap>>,
           joyForTeleop' \in {<<>>, <<TRUE>>, <<FALSE>>},
           cmdMsg' = <<>>
             \/ \E twist \in {"zero", "drive"}, input \in Inputs :
                  cmdMsg' = <<[twist |-> twist, from |-> input]>>,
           WallInv'
    PROVE  IInv'
<1> USE DEF IInv
<1>1. TopicsInv'
  BY DEF TopicsInv, eStopVars
<1>2. DriveInv'
  BY DriveKept
<1>3. LatchInv' /\ SignInv'
  BY DEF LatchInv, SignInv, eStopVars, driveVars
<1> QED BY <1>1, <1>2, <1>3

\* Behind a fresh stop nothing of a lower priority passes.
LEMMA LowerInput ==
    ASSUME IInv, NEW input \in {"navigation", "joystick"}, NEW twist \in {"zero", "drive"},
           MuxInput(input, twist), UNCHANGED <<wallVars, driveVars>>
    PROVE  WallInv'
<1> USE DEF IInv
<1>1. input \in Inputs /\ input # "estop"
  BY DEF Inputs
<1>2. /\ cmdMsg = <<>> /\ muxAge' \in [Inputs -> Nat]
      /\ muxAge["estop"] = 0 => cmdMsg' = <<>> /\ muxAge'["estop"] = 0
  BY <1>1, MuxInputs
<1>3. Standing => Standing'
  BY DriveKept
<1> QED BY <1>2, <1>3 DEF WallInv, wallVars

LEMMA TeleopPreserves == IInv /\ Teleop => IInv'
<1> SUFFICES ASSUME IInv, Teleop PROVE IInv'
  OBVIOUS
<1>1. PICK twist \in {"zero", "drive"} : MuxInput("joystick", twist)
  BY DEF Teleop, TeleopTwist
<1>2. WallInv'
  BY <1>1, LowerInput DEF Teleop
<1>3. cmdMsg' = <<>> \/ \E t \in {"zero", "drive"}, i \in Inputs :
                           cmdMsg' = <<[twist |-> t, from |-> i]>>
  <2>1. "joystick" \in Inputs
    BY DEF Inputs
  <2> QED BY <1>1, <2>1, MuxInputs DEF IInv
<1> QED BY <1>2, <1>3, CommandPreserves DEF Teleop

LEMMA NavigatePreserves ==
    ASSUME IInv, NEW twist \in {"zero", "drive"}, Navigate(twist)
    PROVE  IInv'
<1>1. MuxInput("navigation", twist) /\ UNCHANGED <<wallVars, driveVars>>
  BY DEF Navigate
<1>2. WallInv'
  BY <1>1, LowerInput
<1>3. cmdMsg' = <<>> \/ \E t \in {"zero", "drive"}, i \in Inputs :
                           cmdMsg' = <<[twist |-> t, from |-> i]>>
  <2>1. "navigation" \in Inputs
    BY DEF Inputs
  <2> QED BY <1>1, <2>1, MuxInputs DEF IInv
<1>4. joyForTeleop' \in {<<>>, <<TRUE>>, <<FALSE>>}
  BY DEF Navigate, joyVars, IInv, TopicsInv
<1> QED BY <1>2, <1>3, <1>4, CommandPreserves DEF Navigate, joyVars

LEMMA CheckPreserves == IInv /\ UltrasonicCheck => IInv'
<1> SUFFICES ASSUME IInv, UltrasonicCheck PROVE IInv'
  OBVIOUS
<1>1. UNCHANGED <<eStopVars, driveVars, eStopUp, joyVars, blocked, blockedFor>>
  BY DEF UltrasonicCheck
<1>2. joyForTeleop' \in {<<>>, <<TRUE>>, <<FALSE>>}
  BY <1>1 DEF joyVars, IInv, TopicsInv
<1>3. CASE Stops
  <2>1. MuxInput("estop", "zero") /\ "estop" \in Inputs
    BY <1>3 DEF UltrasonicCheck, Inputs
  <2>2. cmdMsg' = <<[twist |-> "zero", from |-> "estop"]>> /\ muxAge'["estop"] = 0
        /\ muxAge' \in [Inputs -> Nat]
    BY <2>1, MuxInputs DEF IInv
  <2>3. cmdMsg' # <<>> /\ cmdMsg'[1].twist = "zero"
    BY <2>2
  <2>4. WallInv'
    BY <1>1, <2>2, <2>3 DEF IInv, WallInv
  <2> QED BY <1>1, <1>2, <2>1, <2>2, <2>4, CommandPreserves DEF joyVars
<1>4. CASE ~Stops
  <2>1. UNCHANGED muxVars /\ blockedFor # 1
    BY <1>4 DEF UltrasonicCheck, Stops, IInv, WallInv
  <2>2. WallInv'
    BY <1>1, <2>1 DEF IInv, WallInv, muxVars
  <2>3. cmdMsg' = <<>> \/ \E t \in {"zero", "drive"}, i \in Inputs :
                             cmdMsg' = <<[twist |-> t, from |-> i]>>
    BY <2>1 DEF IInv, TopicsInv, muxVars
  <2> QED BY <1>1, <1>2, <2>2, <2>3, CommandPreserves DEF joyVars
<1> QED BY <1>3, <1>4

(***************************************************************************)
(* The controller.                                                         *)
(***************************************************************************)
LEMMA DriveEStopPreserves == IInv /\ DriveEStop => IInv'
<1> SUFFICES ASSUME IInv, DriveEStop PROVE IInv'
  OBVIOUS
<1> USE DEF IInv
<1>1. PICK stop \in BOOLEAN : eStopMsg = <<stop>>
  BY DEF DriveEStop, TopicsInv
<1>2. /\ SetStopped(stop) /\ eStopMsg' = <<>> /\ eStopAge' = 0
      /\ UNCHANGED <<latch, joyAge, tickDue, eStopUp, joyVars, wallVars, muxVars,
                     watchdogDue, lost>>
  BY <1>1 DEF DriveEStop, EStopCb
<1>3. /\ proc' = "up" /\ stopped' = stop /\ axis' \in Axes
      /\ stop => AllIdle' /\ ~moving'
      /\ Standing => Standing'
  BY <1>2, StopObeyed
<1>4. TopicsInv'
  BY <1>2 DEF TopicsInv, joyVars, muxVars
<1>5. DriveInv'
  <2>1. ~(eStopAge' > EStopTimeout) /\ eStopAge' \in Nat /\ eStopAge' <= EStopTimeout + 1
    BY <1>2, DriveTimeoutAssumption, JoyTimeoutAssumption
  <2> QED BY <1>2, <1>3, <2>1 DEF DriveInv
<1>6. WallInv'
  BY <1>2, <1>3, WallKept
\* the latch was sent in the message
<1>7. LatchInv'
  <2>1. eStopUp => (stop <=> latch)
    BY <1>1 DEF LatchInv
  <2> QED BY <1>2, <1>3, <2>1 DEF LatchInv, joyVars
\* and so was that the joystick was heard
<1>8. SignInv'
  <2>1. ~stopped' => joyGap <= JoyTimeout
    BY <1>1, <1>3 DEF SignInv
  <2>2. joyGap <= JoyTimeout => joyGap <= JoyTimeout + eStopAge'
    BY <1>2, DriveTimeoutAssumption, JoyTimeoutAssumption DEF SignInv
  <2> QED BY <1>2, <2>1, <2>2 DEF SignInv, joyVars
<1> QED BY <1>4, <1>5, <1>6, <1>7, <1>8

LEMMA DriveCmdPreserves == IInv /\ DriveCmd => IInv'
<1> SUFFICES ASSUME IInv, DriveCmd PROVE IInv'
  OBVIOUS
<1> USE DEF IInv
<1>1. PICK twist \in {"zero", "drive"} : cmdMsg[1].twist = twist /\ cmdMsg # <<>>
  BY DEF DriveCmd, TopicsInv
<1>2. /\ CmdVelCb(twist) /\ cmdMsg' = <<>>
      /\ UNCHANGED <<eStopVars, eStopUp, joyVars, wallVars, muxAge>>
  BY <1>1 DEF DriveCmd
<1>3. UNCHANGED <<stopped, eStopAge, watchdogDue, lost>>
  BY <1>2 DEF CmdVelCb
\* a stopped controller does not obey, but stands
<1>4. /\ proc' = "up" /\ axis' \in Axes
      /\ stopped => AllIdle' /\ ~moving'
      /\ twist = "zero" => Standing'
  <2>1. CASE stopped
    <3>1. UNCHANGED <<axis, proc, moving>>
      BY <1>2, <2>1 DEF CmdVelCb, Obeys
    <3> QED BY <2>1, <3>1, IdleStands DEF DriveInv, AllIdle, Standing
  <2>2. CASE ~stopped
    <3>1. Return(SetVelocity(CmdOrder, twist))
      BY <1>2, <2>2 DEF CmdVelCb, Obeys
    <3> QED BY <2>2, <3>1, VelocitySet
  <2> QED BY <2>1, <2>2
<1>5. TopicsInv'
  BY <1>2 DEF TopicsInv, eStopVars, joyVars
<1>6. DriveInv'
  BY <1>3, <1>4 DEF DriveInv
<1>7. LatchInv' /\ SignInv'
  BY <1>2, <1>3 DEF LatchInv, SignInv, eStopVars, joyVars
<1>8. WallInv'
  BY <1>1, <1>2, <1>4 DEF WallInv, wallVars
<1> QED BY <1>5, <1>6, <1>7, <1>8

LEMMA WatchdogPreserves == IInv /\ DriveWatchdog => IInv'
<1> SUFFICES ASSUME IInv, DriveWatchdog PROVE IInv'
  OBVIOUS
<1> USE DEF IInv
<1>1. /\ Watchdog /\ watchdogDue' = FALSE /\ UNCHANGED <<eStopAge, lost>>
      /\ UNCHANGED <<eStopVars, eStopUp, joyVars, wallVars, muxVars>>
  BY DEF DriveWatchdog, Watchdog
<1>2. /\ proc' = "up" /\ axis' \in Axes /\ stopped' \in BOOLEAN
      /\ stopped' => AllIdle' /\ ~moving'
      /\ Standing => Standing'
      /\ stopped => stopped'
      /\ eStopAge > EStopTimeout => stopped'
  <2>1. CASE Silent
    <3>1. SetStopped(TRUE)
      BY <1>1, <2>1 DEF Watchdog
    <3> QED BY <1>1, <3>1, StopObeyed
  <2>2. CASE ~Silent /\ Outdated
    <3>1. Return(SetVelocity(DriveOrder, "zero")) /\ UNCHANGED stopped
      BY <1>1, <2>2 DEF Watchdog
    <3>2. /\ proc' = "up" /\ axis' \in Axes /\ Standing'
      BY <3>1, VelocitySet
    <3>3. ~stopped
      BY <2>2 DEF Outdated, DriveInv
    <3> QED BY <2>2, <3>1, <3>2, <3>3 DEF Silent, DriveInv
  <2>3. CASE ~Silent /\ ~Outdated
    <3>1. UNCHANGED <<stopped, axis, proc, moving>>
      BY <1>1, <2>3 DEF Watchdog
    <3> QED BY <2>3, <3>1 DEF DriveInv, Silent, AllIdle, Standing
  <2> QED BY <2>1, <2>2, <2>3
<1>3. TopicsInv'
  BY <1>1 DEF TopicsInv, eStopVars, joyVars, muxVars
<1>4. DriveInv'
  BY <1>1, <1>2 DEF DriveInv
<1>5. LatchInv' /\ SignInv'
  BY <1>1, <1>2 DEF LatchInv, SignInv, eStopVars, joyVars
<1>6. WallInv'
  BY <1>1, <1>2, WallKept
<1> QED BY <1>3, <1>4, <1>5, <1>6

(***************************************************************************)
(* Time, which passes when everything has been handled.                    *)
(***************************************************************************)
LEMMA AgesGrow ==
    ASSUME NEW limit \in Nat, NEW age \in Nat
    PROVE  /\ Older(age, limit) \in Nat
           /\ Older(age, limit) >= age
           /\ age <= limit + 1 => Older(age, limit) <= limit + 1
           /\ age <= limit => Older(age, limit) = age + 1
           /\ Older(age, limit) >= age + 1 \/ Older(age, limit) > limit
  BY DEF Older

LEMMA TimePreserves == IInv /\ TimePasses => IInv'
<1> SUFFICES ASSUME IInv, TimePasses PROVE IInv'
  OBVIOUS
<1> USE DEF IInv
<1>1. /\ Quiet
      /\ UNCHANGED <<proc, stopped, moving, axis, lost>>
      /\ watchdogDue' = TRUE /\ tickDue' = eStopUp /\ checkDue' = TRUE
      /\ eStopAge' = Older(eStopAge, EStopTimeout)
      /\ joyAge' = Older(joyAge, JoyTimeout)
      /\ joyGap' = IF joyGap < Grace THEN joyGap + 1 ELSE joyGap
      /\ muxAge' = [i \in Inputs |-> Older(muxAge[i], MuxTimeout[i])]
      /\ blockedFor' = IF blocked /\ blockedFor < 1 THEN blockedFor + 1 ELSE blockedFor
      /\ UNCHANGED <<latch, eStopMsg, eStopUp, grip, joyForEStop, joyForTeleop, blocked,
                     cmdMsg>>
  BY DEF TimePasses, DriveTimePasses, DriveInv
<1>2. TopicsInv'
  BY <1>1 DEF TopicsInv
<1>3. eStopAge' \in Nat /\ joyAge' \in Nat /\ eStopAge' <= EStopTimeout + 1
  BY <1>1, AgesGrow, DriveTimeoutAssumption, JoyTimeoutAssumption DEF DriveInv, LatchInv
<1>4. DriveInv'
  BY <1>1, <1>3 DEF DriveInv, AllIdle
<1>5. LatchInv'
  BY <1>1, <1>3 DEF LatchInv, Quiet
<1>6. SignInv'
  <2>1. joyGap' \in Nat /\ joyGap' <= joyGap + 1
    BY <1>1 DEF SignInv
  <2>2. joyAge' >= joyGap' \/ joyAge' > JoyTimeout
    <3>1. joyAge >= joyGap \/ joyAge > JoyTimeout
      BY <1>1 DEF Quiet, SignInv
    <3>2. joyAge' >= joyAge + 1 \/ joyAge' > JoyTimeout
      BY <1>1, AgesGrow, DriveTimeoutAssumption, JoyTimeoutAssumption DEF LatchInv
    <3>3. joyAge' >= joyAge
      BY <1>1, AgesGrow, DriveTimeoutAssumption, JoyTimeoutAssumption DEF LatchInv
    <3> QED
      BY <1>3, <2>1, <3>1, <3>2, <3>3, DriveTimeoutAssumption, JoyTimeoutAssumption
         DEF LatchInv, SignInv
  \* the armed controller has heard from e_stop in time, so its age is not saturated
  <2>3. ~stopped => joyGap' <= JoyTimeout + eStopAge'
    <3>1. ~stopped => eStopAge <= EStopTimeout
      BY <1>1, DriveTimeoutAssumption, JoyTimeoutAssumption DEF Quiet, DriveInv
    <3>2. ~stopped => eStopAge' = eStopAge + 1
      BY <1>1, <3>1, AgesGrow, DriveTimeoutAssumption, JoyTimeoutAssumption DEF DriveInv
    <3>3. ~stopped => joyGap <= JoyTimeout + eStopAge
      BY DEF SignInv
    <3> QED BY <2>1, <3>2, <3>3, DriveTimeoutAssumption, JoyTimeoutAssumption DEF DriveInv, SignInv
  <2> QED BY <1>1, <2>1, <2>2, <2>3 DEF SignInv, Quiet
<1>7. WallInv'
  <2>1. muxAge' \in [Inputs -> Nat]
    <3>1. \A i \in Inputs : Older(muxAge[i], MuxTimeout[i]) \in Nat
      BY AgesGrow, MuxTimeoutAssumption DEF WallInv
    <3> QED BY <1>1, <3>1
  <2>2. blockedFor' \in {0, 1} /\ (blockedFor' = 1 => blocked)
    BY <1>1 DEF WallInv
  <2> QED BY <1>1, <2>1, <2>2 DEF WallInv
<1> QED BY <1>2, <1>4, <1>5, <1>6, <1>7

LEMMA Invariance == Spec => []IInv
<1>1. IInv /\ UNCHANGED vars => IInv'
  <2> SUFFICES ASSUME IInv, UNCHANGED vars PROVE IInv'
    OBVIOUS
  <2> USE DEF IInv, vars
  <2>1. TopicsInv'
    BY DEF TopicsInv, eStopVars, joyVars, muxVars
  <2>2. DriveInv' /\ WallInv'
    BY DriveKept, WallKept
  <2>3. LatchInv' /\ SignInv'
    BY DEF LatchInv, SignInv, eStopVars, driveVars, joyVars
  <2> QED BY <2>1, <2>2, <2>3
<1>2. IInv /\ [Next]_vars => IInv'
  BY <1>1, GripPreserves, JoyPreserves, ObstaclePreserves, EStopJoyPreserves,
     EStopTickPreserves, EStopDiesPreserves, EStopRestartsPreserves, TeleopPreserves,
     NavigatePreserves, CheckPreserves, DriveEStopPreserves, DriveCmdPreserves,
     WatchdogPreserves, TimePreserves DEF Next
<1> QED BY InitEstablishes, <1>2, PTL DEF Spec

(***************************************************************************)
(* The theorems.                                                           *)
(***************************************************************************)
\* The motors are armed only while e_stop's latch is open, through every order of the
\* buttons, the heartbeats, the deaths of e_stop and the handling of its topic.
THEOREM ArmedCorrect == Spec => []ArmedOnlyUnlatched
<1>1. IInv => ArmedOnlyUnlatched
  BY DEF IInv, LatchInv, ArmedOnlyUnlatched
<1> QED BY <1>1, Invariance, PTL

\* A living e_stop idles the motors with its next heartbeat when the joystick has been
\* silent for joy_timeout (EStopLogic.update, _tick, _e_stop_cb).
THEOREM JoystickLossCorrect == Spec => []JoystickLossIdles
<1>1. IInv => JoystickLossIdles
  <2> SUFFICES ASSUME IInv, eStopUp, joyGap > JoyTimeout, ~tickDue, joyForEStop = <<>>,
                      eStopMsg = <<>>
               PROVE  AllIdle
    BY DEF JoystickLossIdles
  <2>1. joyAge > JoyTimeout
    BY DriveTimeoutAssumption, JoyTimeoutAssumption DEF IInv, SignInv, LatchInv
  <2>2. stopped
    BY <2>1 DEF IInv, LatchInv
  <2> QED BY <2>2 DEF IInv, DriveInv
<1> QED BY <1>1, Invariance, PTL

\* Without a sign of the operator for joy_timeout, E_STOP_TIMEOUT and two periods the
\* motors are idle, whether e_stop lives or not (EStopLogic.update, _watchdog).
THEOREM OperatorGoneCorrect == Spec => []OperatorGoneIdles
<1>1. IInv => OperatorGoneIdles
  <2> SUFFICES ASSUME IInv, joyGap = Grace, ~stopped PROVE FALSE
    BY DEF OperatorGoneIdles, IInv, DriveInv
  \* e_stop was heard at most a period longer ago than its timeout
  <2>1. joyGap <= JoyTimeout + eStopAge
    BY DEF IInv, SignInv
  <2> QED BY <2>1, DriveTimeoutAssumption, JoyTimeoutAssumption DEF Grace, IInv, DriveInv
<1> QED BY <1>1, Invariance, PTL

\* An obstacle that stays in view for a period stands the robot with the next check,
\* whatever Nav2 and the operator command (_check_and_publish and the priorities of
\* twist_mux), and however long the timeouts of the inputs are.
THEOREM ObstacleCorrect == Spec => []ObstacleStands
<1>1. IInv => ObstacleStands
  BY DEF IInv, WallInv, ObstacleStands
<1> QED BY <1>1, Invariance, PTL
=============================================================================
