--------------------------- MODULE LidarOdometry ---------------------------
(***************************************************************************)
(* The LIDAR node and the laser odometry, connected by the topic /scan.    *)
(* The subscription is best effort and keeps the last message.             *)
(***************************************************************************)
EXTENDS LidarNode, LaserOdometry

vars == <<nodeVars, odomVars>>

Heard(m) == [at |-> m.at, stamp |-> m.stamp, size |-> Size(m.scan),
             valid |-> Measured(m.nodes) # {}]

Init == NodeInit /\ OdomInit

\* a message replaces the one that waits, or gets lost
Node ==
    /\ NodeNext
    /\ inbox' \in {inbox} \cup {<<Heard(out'[i])>> : i \in DOMAIN out'}
    /\ odom' = <<>>
    /\ UNCHANGED <<last_scan, new_scan_available, first_laser_scan, width, last_odom_time,
                   pyramid, pose, speed, anchor, missed, failed>>
Odometry ==
    /\ OdomNext
    /\ out' = <<>>
    /\ UNCHANGED <<loop, world, lidar, ready, after>>

Next == Node \/ Odometry
Spec == Init /\ [][Next]_vars
=============================================================================
