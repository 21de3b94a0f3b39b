----------------------------- MODULE LidarNode -----------------------------
(***************************************************************************)
(* RPlidarNode (rplidar_node.cpp): the loop that connects to the LIDAR,    *)
(* starts it, grabs its scans and publishes them on /scan, and between two *)
(* grabs serves start_motor and stop_motor.  The driver below it is seen   *)
(* through its interface: a call succeeds or fails, and a scan that is     *)
(* complete stays available until it is grabbed or another scan is         *)
(* started (LidarDriver has the details).                                  *)
(***************************************************************************)
EXTENDS ScanData

CONSTANTS
    Configs,    \* the parameters [compensate, inverted, flip, standby] in use
    Scans,      \* the sequences of nodes that a revolution may yield
    MaxClock,   \* bound: revolutions
    MaxDisturbances \* bound: service calls, and times that commands to the LIDAR get lost

ASSUME ConfigsAssumption ==
    Configs \subseteq [compensate : BOOLEAN, inverted : BOOLEAN, flip : BOOLEAN, standby : BOOLEAN]
ASSUME ScansAssumption == \A nodes \in Scans : nodes \in Seq(Nodes)

VARIABLES
    config,     \* the parameters
    pc,         \* where work_loop is
    is_scanning,\* is_scanning
    tuning,     \* scan_frequency_tunning_after_scan
    since,      \* start_scan_time
    lidar,      \* the LIDAR: its motor turns, it scans; the driver unpacks what it sends;
                \* history: how often commands to it got lost
    ready,      \* the scan that the driver has available, if any
    clock,      \* the time, in revolutions
    place,      \* where the robot is
    out,        \* the scan published in this step, if any
    after,      \* history: scans published since the node stopped the LIDAR
    calls

loop == <<config, pc, is_scanning, tuning, since>>
world == <<clock, place, calls>>
nodeVars == <<loop, world, lidar, ready, out, after>>

Off == [motor |-> FALSE, scan |-> FALSE, unpacks |-> FALSE, lost |-> 0]
NodeInit ==
    /\ config \in Configs
    /\ pc = "connect"
    /\ is_scanning = FALSE /\ tuning = FALSE /\ since = 0
    /\ lidar = Off /\ ready = <<>>
    /\ clock = 0 /\ place = 0
    /\ out = <<>> /\ after = 0
    /\ calls = 0

(***************************************************************************)
(* start and stop.  A start that fails may have reset the holder of scans. *)
(* The commands to the LIDAR have no answer, and the results of            *)
(* setMotorSpeed and of the driver's stop are not looked at: what was sent *)
(* may not arrive, and the LIDAR then goes on as it was.  The driver       *)
(* unpacks nothing after a stop even so (_disableDataGrabbing).            *)
(***************************************************************************)
Disturbances == calls + lidar.lost
Commanded(motor, scan, unpacks) ==
    \/ lidar' = [motor |-> motor, scan |-> scan, unpacks |-> unpacks, lost |-> lidar.lost]
    \/ /\ Disturbances < MaxDisturbances
       /\ lidar' \in [motor : {lidar.motor, motor}, scan : {lidar.scan, scan},
                      unpacks : {unpacks}, lost : {lidar.lost + 1}]
Starts ==
    /\ Commanded(TRUE, TRUE, TRUE)
    /\ ready' = <<>>
    /\ is_scanning' = TRUE
    /\ after' = 0
Stops ==
    /\ Commanded(FALSE, FALSE, FALSE)
    /\ is_scanning' = FALSE
    /\ after' = 0
    /\ UNCHANGED ready
StartFails ==
    /\ Commanded(FALSE, FALSE, FALSE)
    /\ is_scanning' = FALSE
    /\ after' = 0
    /\ ready' \in {ready, <<>>}
Standing == UNCHANGED <<lidar, ready, is_scanning, after>>

(***************************************************************************)
(* work_loop, up to the loop.  What fails first ends it; the answer of the *)
(* second getDeviceInfo is not looked at, so tuning is anything if it is   *)
(* lost.  A LIDAR of the A series is set to 600 by PWM before it starts.   *)
(***************************************************************************)
Goto(place1) == pc' = place1 /\ out' = <<>> /\ UNCHANGED <<config, world>>

\* what must succeed before the LIDAR is started: work_loop returns otherwise
Passes(place1, place2) ==
    /\ pc = place1
    /\ Goto(place2) \/ Goto("failed")
    /\ Standing
    /\ UNCHANGED <<tuning, since>>
Connect == Passes("connect", "info")
GetDeviceInfo == Passes("info", "health")
CheckHealth == Passes("health", "model")
Check == Connect \/ GetDeviceInfo \/ CheckHealth
Model ==
    /\ pc = "model"
    /\ tuning' \in BOOLEAN
    /\ IF tuning' THEN UNCHANGED lidar ELSE Commanded(TRUE, lidar.scan, lidar.unpacks)
    /\ Goto(IF config.standby THEN "loop" ELSE "start")
    /\ UNCHANGED <<ready, is_scanning, after, since>>
Start ==
    /\ pc = "start"
    /\ \/ Starts /\ Goto("loop")
       \/ StartFails /\ Goto("failed")
    /\ UNCHANGED <<tuning, since>>

(***************************************************************************)
(* The loop: the standby, the grab with what follows it, and spin_some.    *)
(* Subscribers come and go, and the interrupt comes, at any time: they are *)
(* whatever they are when the loop looks.                                  *)
(***************************************************************************)
Continue(subscribed) ==
    /\ pc = "loop"
    /\ IF ~config.standby \/ subscribed = is_scanning THEN Standing
       ELSE IF subscribed THEN Starts \/ StartFails ELSE Stops
    /\ since' = clock
    /\ Goto("grab")
    /\ UNCHANGED tuning
\* a LIDAR of the S series is set to its frequency when the first scan arrives
Tune ==
    /\ pc = "grab" /\ ready # <<>> /\ tuning
    /\ ready' = <<>> /\ tuning' = FALSE
    /\ Commanded(TRUE, lidar.scan, lidar.unpacks)
    /\ Goto("loop")
    /\ UNCHANGED <<is_scanning, after, since>>
\* the scan is put in order, compensated or trimmed, and published
Message(nodes) ==
    [stamp |-> since, at |-> ready[1], nodes |-> nodes, scan |-> Published(nodes, config)]
\* mutant: the grab leaves the scan available
PublishAgain(nodes) ==
    /\ pc = "grab" /\ ready # <<>> /\ ~tuning
    /\ pc' = "spin"
    /\ out' = <<Message(nodes)>>
    /\ after' = IF is_scanning THEN 0 ELSE after + 1
    /\ UNCHANGED <<config, world, lidar, ready, is_scanning, tuning, since>>
Publish(nodes) ==
    /\ pc = "grab" /\ ready # <<>> /\ ~tuning
    /\ ready' = <<>>
    /\ pc' = "spin"
    /\ out' = <<Message(nodes)>>
    /\ after' = IF is_scanning THEN 0 ELSE after + 1
    /\ UNCHANGED <<config, world, lidar, is_scanning, tuning, since>>
\* no scan within the timeout of grabScanDataHq
GrabTimesOut ==
    /\ pc = "grab" /\ ready = <<>>
    /\ Goto("spin")
    /\ Standing
    /\ UNCHANGED <<tuning, since>>
\* a service call, ignored in standby
Serve ==
    /\ pc = "spin" /\ ~config.standby
    /\ Disturbances < MaxDisturbances /\ calls' = calls + 1
    /\ Starts \/ StartFails \/ Stops
    /\ out' = <<>>
    /\ UNCHANGED <<config, pc, tuning, since, clock, place>>
Spun ==
    /\ pc = "spin"
    /\ Goto("loop")
    /\ Standing
    /\ UNCHANGED <<tuning, since>>
\* the end, when need_exit is set or rclcpp shut down: setMotorSpeed(0), stop
Leave ==
    /\ pc = "loop"
    /\ Commanded(FALSE, FALSE, FALSE)
    /\ Goto("done")
    /\ UNCHANGED <<ready, is_scanning, after, tuning, since>>

(***************************************************************************)
(* The world: the LIDAR completes a revolution while the robot moves,      *)
(* a different distance each time.  What was available is replaced.        *)
(***************************************************************************)
Revolution ==
    /\ clock < MaxClock /\ clock' = clock + 1
    /\ place' = place + clock'
    /\ ready' = IF lidar.motor /\ lidar.scan /\ lidar.unpacks THEN <<place'>> ELSE ready
    /\ out' = <<>>
    /\ UNCHANGED <<loop, lidar, after, calls>>
NodeNext ==
    \/ Check \/ Model \/ Start
    \/ \E subscribed \in BOOLEAN : Continue(subscribed)
    \/ Tune \/ GrabTimesOut \/ Serve \/ Spun \/ Leave
    \/ \E nodes \in Scans : Publish(nodes)
    \/ Revolution

(***************************************************************************)
(* The properties.                                                         *)
(***************************************************************************)
\* After the node has stopped the LIDAR at most one more scan is published: the one
\* that was complete before (the signal of the driver survives a stop, and the loop
\* grabs whether it scans or not, rplidar_node.cpp), even if the LIDAR has not heard
\* that it should stop.
OneScanAfterStop == after <= 1

\* A published range is one of the revolution's measurements, none of which gets
\* another angle or distance on the way; without compensation none is left out,
\* unless an odd number of ranges is flipped, of which two get the same place
\* (ascendScanData_, publish_scan).
Shown(m) == {m.scan.ranges[k] : k \in DOMAIN m.scan.ranges}
ScanShowsMeasurements ==
    \A i \in DOMAIN out :
        /\ {node \in Shown(out[i]) : node.dist # 0} \subseteq Measured(out[i].nodes)
        /\ \/ config.compensate \/ (config.flip /\ Size(out[i].scan) % 2 # 0)
           \/ Measured(out[i].nodes) \subseteq Shown(out[i])

\* With the compensation, a measurement is published at its own bearing, up to the
\* degree that the increment of the message is off (publish_scan: the angles go from
\* 0 to 359 degrees, mirrored unless the LIDAR hangs upside down, where they are off
\* by another degree, as they are when flipped).
Tolerance == (Full \div Bins) * (IF config.inverted \/ config.flip THEN 2 ELSE 1)
Bearing(angle) ==
    (IF config.inverted THEN angle - Full \div 2 ELSE Full \div 2 - angle)
        + (IF config.flip THEN Full \div 2 ELSE 0)
Apart(a, b, turn) ==
    LET d == (a - b) % turn IN IF d <= turn - d THEN d ELSE turn - d
RangesAtTheirBearing ==
    \A i \in DOMAIN out :
        LET scan == out[i].scan
            times == Size(scan) - 1
        IN  config.compensate =>
                \A k \in DOMAIN scan.ranges : scan.ranges[k].dist # 0 =>
                    Apart(BearingTimes(scan, k), Bearing(scan.ranges[k].angle) * times,
                          Full * times) <= Tolerance * times
=============================================================================
