--------------------------- MODULE LaserOdometry ---------------------------
(***************************************************************************)
(* The laser odometry (rf2o_laser_odometry): CLaserOdometry2DNode keeps    *)
(* the last scan and processes it at its own rate; CLaserOdometry2D        *)
(* estimates the motion between the last two scans that it processed and   *)
(* publishes the pose and the speed that the EKF uses.                     *)
(*                                                                         *)
(* The robot moves on a line.  A scan is where it was measured (at), its   *)
(* stamp, its size, and whether anything in it is valid.  The levels of    *)
(* the image pyramid are two here: what all the coarser ones found         *)
(* together, which may be nothing or off by a little, and the finest,      *)
(* which finds the rest.  The range flow, its weights and its filters over *)
(* 2D points are abstracted to what a level is after: the displacement     *)
(* that the warped scan still has.                                         *)
(***************************************************************************)
EXTENDS Integers, Sequences

VARIABLES
    inbox,              \* the subscription of /scan: the last message at most
    last_scan, new_scan_available,
    first_laser_scan,   \* TRUE until init is called
    width,              \* the size of the scan that init was called with
    last_odom_time,
    pyramid,            \* the scans in range_old and range
    pose,               \* robot_pose_
    speed,              \* lin_speed: a displacement over a time
    odom,               \* what is published in this step, if anything
    anchor,             \* history: where the first scan in the pyramid was measured
    missed,             \* history: the displacement of a pair was not estimated
    failed              \* history: the last calculation had no solution

odomVars == <<inbox, last_scan, new_scan_available, first_laser_scan, width, last_odom_time,
              pyramid, pose, speed, odom, anchor, missed, failed>>

\* range and range_old are all zeros: no valid points
NoScan == [at |-> 0, stamp |-> 0, size |-> 0, valid |-> FALSE]

OdomInit ==
    /\ inbox = <<>>
    /\ last_scan = NoScan /\ new_scan_available = FALSE
    /\ first_laser_scan = TRUE /\ width = 0
    /\ last_odom_time = 0
    /\ pyramid = [old |-> NoScan, new |-> NoScan]
    /\ pose = 0 /\ speed = [by |-> 0, in |-> 0]
    /\ odom = <<>>
    /\ anchor = 0 /\ missed = FALSE /\ failed = FALSE

\* LaserCallBack with init: the first scan configures the module and is not kept
\* in the pyramid.
Configure(scan) ==
    /\ first_laser_scan' = FALSE
    /\ width' = scan.size
    /\ last_odom_time' = scan.stamp
    /\ UNCHANGED new_scan_available
\* mutant: the callback notes the time of the scan
TakeTimed(scan) ==
    /\ new_scan_available' = TRUE
    /\ last_odom_time' = scan.stamp
    /\ UNCHANGED <<first_laser_scan, width>>
\* LaserCallBack of the others
Take(scan) ==
    /\ new_scan_available' = TRUE
    /\ UNCHANGED <<first_laser_scan, width, last_odom_time>>
LaserCallBack ==
    /\ inbox # <<>>
    /\ inbox' = <<>>
    /\ last_scan' = inbox[1]
    /\ IF first_laser_scan THEN Configure(inbox[1]) ELSE Take(inbox[1])
    /\ odom' = <<>>
    /\ UNCHANGED <<pyramid, pose, speed, anchor, missed, failed>>

(***************************************************************************)
(* process: odometryCalculation, and publish whatever it returned.         *)
(***************************************************************************)
\* range_wf: as many ranges are read as the first scan had, whatever this one has
Copied == [last_scan EXCEPT !.size = width]
\* createImagePyramid
\* mutant: the frames are pushed back after the new scan has been read
PushedLate == [old |-> Copied, new |-> Copied]
Pushed == [old |-> pyramid.new, new |-> Copied]
\* how far the robot moved between the two scans, and what the coarser levels found of
\* it: nothing, or a little too much
Displacement == pyramid'.new.at - pyramid'.old.at
Coarse == {0, Displacement + 1}

\* performWarping: the new scan is moved back by what was found
Warped(found) == [pyramid'.new EXCEPT !.at = @ - found]
\* calculateCoord: only points that are in both scans are compared
Comparable == pyramid'.old.valid /\ pyramid'.new.valid
\* solveSystemNonLinear: the motion between the old scan and the warped one
Solution(found) == Warped(found).at - pyramid'.old.at
\* PoseUpdate composes the transformations of the levels
Refined(found) == found + Solution(found)

\* PoseUpdate with the displacement that was found
PoseUpdate(found) ==
    /\ pose' = pose + found
    /\ speed' = [by |-> found, in |-> last_scan.stamp - last_odom_time]
    /\ last_odom_time' = last_scan.stamp
    /\ failed' = FALSE
Solved ==
    /\ Comparable
    /\ \E found \in Coarse : PoseUpdate(Refined(found))
    /\ UNCHANGED missed
\* Three valid points or less at the finest level (num_valid_range): its
\* transformation stays the identity.  At every level, if there are none at all.
TooFew ==
    /\ \E found \in IF Comparable THEN Coarse ELSE {0} : PoseUpdate(found)
    /\ missed' = (missed \/ pyramid.new # NoScan)
\* filterLevelSolution where the scans do not tell the motion along an axis, in a
\* corridor for instance: the speed is filtered towards that of the update before, less
\* what the coarser levels found already (kai_loc_old_)
Assumed(found) == speed.by - found
Degenerate ==
    /\ Comparable
    /\ \E found \in Coarse : PoseUpdate(found + Assumed(found))
    /\ missed' = TRUE
\* filterLevelSolution returns false, and with it odometryCalculation
Unsolved ==
    /\ Comparable
    /\ missed' = TRUE /\ failed' = TRUE
    /\ UNCHANGED <<pose, speed, last_odom_time>>

\* publish, whatever odometryCalculation returned
PublishOdometry ==
    odom' = <<[pose |-> pose', speed |-> speed', stamp |-> last_odom_time',
               pair |-> pyramid', after |-> failed]>>

Process ==
    /\ ~first_laser_scan /\ new_scan_available
    /\ new_scan_available' = FALSE
    /\ pyramid' = Pushed
    /\ anchor' = IF pyramid.new = NoScan THEN last_scan.at ELSE anchor
    /\ Solved \/ TooFew \/ Degenerate \/ Unsolved
    /\ PublishOdometry
    /\ UNCHANGED <<inbox, last_scan, first_laser_scan, width>>

OdomNext == LaserCallBack \/ Process

(***************************************************************************)
(* The properties.                                                         *)
(***************************************************************************)
\* As long as the motion between each two scans was estimated, the pose is that of
\* the last scan processed, seen from the first: a scan that is replaced before it
\* is processed loses no motion, and none is counted twice ("avoids the possibility
\* to run twice on the same laser scan", process).
PoseFollowsScans == ~missed /\ pyramid.new # NoScan => pose = pyramid.new.at - anchor

\* The speed published is the displacement of a pair of scans over the time between
\* these two, unless the calculation before failed: last_odom_time is the time of the
\* older scan of the pair (PoseUpdate; the EKF fuses the speed).
SpeedIsOfThePair ==
    \A i \in DOMAIN odom :
        LET pair == odom[i].pair
        IN  ~failed /\ ~odom[i].after /\ pair.old # NoScan
                => odom[i].speed.in = pair.new.stamp - pair.old.stamp

\* "width = scan.ranges.size();    // Num of samples (size) of the scan laser"
\* (CLaserOdometry2D.cpp, init): every scan is read up to the width of the first.
WidthIsScanSize == ~first_laser_scan => last_scan.size = width
=============================================================================
