------------------------ MODULE LidarOdometry_proofs ------------------------
(***************************************************************************)
(* What the LIDAR node and the laser odometry publish, for every length of *)
(* the run, every set of configurations and every set of scans.            *)
(***************************************************************************)
EXTENDS LidarOdometry, FiniteSetTheorems, SequenceTheorems, WellFoundedInduction, TLAPS

IsScan(s) == s = [at |-> s.at, stamp |-> s.stamp, size |-> s.size, valid |-> s.valid]
Placed(s) == IsScan(s) /\ s.at \in Int /\ s.stamp \in Int

\* The places and the times are numbers, wherever they are kept.
NumbersInv ==
    /\ clock \in Int /\ place \in Int /\ since \in Int
    /\ ready = <<>> \/ ready[1] \in Int
    /\ inbox = <<>> \/ Placed(inbox[1])
    /\ Placed(last_scan) /\ Placed(pyramid.new) /\ Placed(pyramid.old)
    /\ pyramid = [old |-> pyramid.old, new |-> pyramid.new]
    /\ pose \in Int /\ speed.by \in Int /\ anchor \in Int /\ last_odom_time \in Int

\* Before the second scan has been processed nothing has been counted; the time kept
\* is the time of the scan that is the older one of the next pair.
PairInv ==
    /\ first_laser_scan => pyramid.new = NoScan
    /\ ~missed /\ pyramid.new = NoScan => pose = 0
    /\ ~failed /\ pyramid.new # NoScan => last_odom_time = pyramid.new.stamp

IInv == NumbersInv /\ PairInv /\ PoseFollowsScans /\ SpeedIsOfThePair

\* Nothing has been scanned or counted at the start.
LEMMA InitEstablishes == Init => IInv
<1> SUFFICES ASSUME Init PROVE IInv
  OBVIOUS
<1>1. NumbersInv
  <2>1. Placed(NoScan)
    BY DEF NoScan, Placed, IsScan
  <2> QED BY <2>1 DEF Init, NodeInit, OdomInit, NumbersInv
<1>2. PairInv /\ PoseFollowsScans
  BY DEF Init, OdomInit, PairInv, PoseFollowsScans
<1>3. SpeedIsOfThePair
  <2>1. odom = <<>>
    BY DEF Init, OdomInit
  <2> QED BY <2>1 DEF SpeedIsOfThePair
<1> QED BY <1>1, <1>2, <1>3 DEF IInv

\* What the node changes of the numbers.
LEMMA NodeKeepsNumbers ==
    ASSUME NumbersInv, Node
    PROVE  /\ clock' \in Int /\ place' \in Int /\ since' \in Int
           /\ ready' = <<>> \/ ready'[1] \in Int
           /\ inbox' = <<>> \/ Placed(inbox'[1])
<1> USE DEF NumbersInv
<1> /\ clock \in Int /\ place \in Int /\ since \in Int
    /\ ready = <<>> \/ ready[1] \in Int
    /\ inbox = <<>> \/ Placed(inbox[1])
    OBVIOUS
<1>1. NodeNext /\ inbox' \in {inbox} \cup {<<Heard(out'[i])>> : i \in DOMAIN out'}
  BY DEF Node
<1>2. CASE /\ out' = <<>>
           /\ clock' \in Int /\ place' \in Int /\ since' \in Int
           /\ ready' = <<>> \/ ready'[1] \in Int
  <2>1. inbox' = inbox
    BY <1>1, <1>2
  <2> QED BY <1>2, <2>1
<1>3. CASE \E nodes \in Scans : Publish(nodes)
  <2>1. PICK nodes \in Scans : Publish(nodes)
    BY <1>3
  <2>2. /\ UNCHANGED <<clock, place, since>> /\ ready' = <<>> /\ ready # <<>>
        /\ out' = <<Message(nodes)>>
    BY <2>1 DEF Publish, world
  <2>3. \A i \in DOMAIN out' : out'[i] = Message(nodes)
    BY <2>2
  <2>4. Heard(Message(nodes)).at = ready[1] /\ Heard(Message(nodes)).stamp = since
    BY DEF Heard, Message
  <2>5. Placed(Heard(Message(nodes)))
    BY <2>2, <2>4 DEF Placed, IsScan, Heard
  <2>6. inbox' = inbox \/ inbox' = <<Heard(Message(nodes))>>
    BY <1>1, <2>3
  <2> QED BY <2>2, <2>5, <2>6
<1>4. CASE Revolution
  <2>1. clock' \in Int /\ place' \in Int /\ since' = since /\ out' = <<>>
    BY <1>4 DEF Revolution, loop
  <2>2. ready' = <<place'>> \/ ready' = ready
    BY <1>4 DEF Revolution
  <2> QED BY <1>2, <2>1, <2>2
<1>5. CASE Serve
  <2>1. clock' = clock /\ place' = place /\ since' = since /\ out' = <<>>
    BY <1>5 DEF Serve
  <2>2. ready' = <<>> \/ ready' = ready
    BY <1>5 DEF Serve, Starts, StartFails, Stops
  <2> QED BY <1>2, <2>1, <2>2
<1>6. CASE \E subscribed \in BOOLEAN : Continue(subscribed)
  <2>1. clock' = clock /\ place' = place /\ since' = clock /\ out' = <<>>
    BY <1>6 DEF Continue, Goto, world
  <2>2. ready' = <<>> \/ ready' = ready
    BY <1>6 DEF Continue, Standing, Starts, StartFails, Stops
  <2> QED BY <1>2, <2>1, <2>2
<1>7. CASE Check \/ Model \/ Start \/ Tune \/ GrabTimesOut \/ Spun \/ Leave
  <2>1. clock' = clock /\ place' = place /\ since' = since /\ out' = <<>>
    BY <1>7 DEF Check, Connect, GetDeviceInfo, CheckHealth, Passes,
            Model, Start, Tune, GrabTimesOut, Spun, Leave, Goto, world
  <2>2. ready' = <<>> \/ ready' = ready
    BY <1>7 DEF Check, Connect, GetDeviceInfo, CheckHealth, Passes,
            Model, Start, Tune, GrabTimesOut, Spun, Leave, Standing, Starts, StartFails
  <2> QED BY <1>2, <2>1, <2>2
<1> QED BY <1>1, <1>3, <1>4, <1>5, <1>6, <1>7 DEF NodeNext

\* The steps of the node: the odometry keeps what it had.
LEMMA NodePreserves == IInv /\ Node => IInv'
<1> SUFFICES ASSUME IInv, Node PROVE IInv'
  OBVIOUS
<1>1. UNCHANGED <<last_scan, new_scan_available, first_laser_scan, width, last_odom_time,
                  pyramid, pose, speed, anchor, missed, failed>> /\ odom' = <<>>
  BY DEF Node
<1>2. NumbersInv'
  BY <1>1, NodeKeepsNumbers DEF IInv, NumbersInv, Placed, IsScan
<1>3. PairInv' /\ PoseFollowsScans'
  BY <1>1 DEF IInv, PairInv, PoseFollowsScans, NoScan
<1>4. SpeedIsOfThePair'
  BY <1>1 DEF SpeedIsOfThePair
<1> QED BY <1>2, <1>3, <1>4 DEF IInv

\* The odometry hears a scan (LaserCallBack).
LEMMA CallBackPreserves ==
    ASSUME IInv, LaserCallBack, UNCHANGED <<clock, place, since, ready>>
    PROVE  IInv'
<1>1. /\ inbox # <<>> /\ inbox' = <<>> /\ last_scan' = inbox[1] /\ odom' = <<>>
      /\ UNCHANGED <<pyramid, pose, speed, anchor, missed, failed>>
  BY DEF LaserCallBack
<1>2. \/ first_laser_scan /\ first_laser_scan' = FALSE /\ last_odom_time' = inbox[1].stamp
      \/ UNCHANGED <<first_laser_scan, last_odom_time>>
  BY DEF LaserCallBack, Configure, Take
<1>3. NumbersInv'
  BY <1>1, <1>2 DEF IInv, NumbersInv, Placed, IsScan
<1>4. PairInv'
  BY <1>1, <1>2 DEF IInv, PairInv, NoScan
<1>5. PoseFollowsScans' /\ SpeedIsOfThePair'
  BY <1>1 DEF IInv, PoseFollowsScans, SpeedIsOfThePair, NoScan
<1> QED BY <1>3, <1>4, <1>5 DEF IInv

\* The finest level makes up for what the coarser ones missed or found too much
\* (performWarping, solveSystemNonLinear): the scan it compares was moved back by that.
LEMMA Refines ==
    ASSUME NEW found \in Int, NEW new, NEW old, IsScan(new), pyramid' = [old |-> old, new |-> new],
           new.at \in Int, old.at \in Int
    PROVE  Refined(found) = new.at - old.at
<1>1. pyramid'.new = new /\ pyramid'.old = old
  OBVIOUS
<1>2. "at" \in DOMAIN new
  BY DEF IsScan
<1>3. Warped(found).at = new.at - found
  BY <1>1, <1>2 DEF Warped
<1>4. Solution(found) = new.at - found - old.at
  BY <1>1, <1>3 DEF Solution
<1> QED BY <1>4 DEF Refined

\* The copy into the pyramid changes the size at most (odometryCalculation).
LEMMA CopiedIs ==
    ASSUME Placed(last_scan)
    PROVE  Placed(Copied) /\ Copied.at = last_scan.at /\ Copied.stamp = last_scan.stamp
<1>1. Copied = [at |-> last_scan.at, stamp |-> last_scan.stamp, size |-> width, valid |-> last_scan.valid]
  BY DEF Copied, Placed, IsScan
<1> QED BY <1>1 DEF Placed, IsScan

\* The pair is compared, or the calculation is given up on one of its ways (process).
LEMMA ProcessPreserves ==
    ASSUME IInv, Process, UNCHANGED <<clock, place, since, ready>>
    PROVE  IInv'
<1> DEFINE s == Copied
<1>0. Placed(s) /\ s.at = last_scan.at /\ s.stamp = last_scan.stamp
  BY CopiedIs DEF IInv, NumbersInv
<1> HIDE DEF s
<1>1. /\ ~first_laser_scan /\ UNCHANGED <<inbox, last_scan, first_laser_scan>>
      /\ pyramid' = [old |-> pyramid.new, new |-> s]
      /\ anchor' = IF pyramid.new = NoScan THEN s.at ELSE anchor
  BY <1>0 DEF Process, Pushed, s
<1>2. pyramid'.old = pyramid.new /\ pyramid'.new = s
  BY <1>1
<1>3. NoScan.valid = FALSE
  BY DEF NoScan
<1>4. \A i \in DOMAIN odom' :
        odom'[i].speed = speed' /\ odom'[i].pair = pyramid' /\ odom'[i].after = failed
  <2>1. odom' = <<[pose |-> pose', speed |-> speed', stamp |-> last_odom_time',
                   pair |-> pyramid', after |-> failed]>>
    BY DEF Process, PublishOdometry
  <2> QED BY <2>1
<1> DEFINE Found(found) == /\ pose' = pose + found
                           /\ speed' = [by |-> found, in |-> s.stamp - last_odom_time]
                           /\ last_odom_time' = s.stamp
                           /\ failed' = FALSE
\* a solution needs valid points in both scans
<1>5. CASE Solved
  <2>1. pyramid.new # NoScan /\ s # NoScan
    BY <1>2, <1>3, <1>5 DEF Solved, Comparable
  <2>a. PICK found \in Coarse : PoseUpdate(Refined(found))
    BY <1>5 DEF Solved
  <2>b. found \in Int
    BY <1>0, <1>1, <1>2, <2>a DEF Coarse, Displacement, IInv, NumbersInv, Placed, IsScan
  <2>c. Refined(found) = s.at - pyramid.new.at
    BY <1>0, <1>1, <2>b, Refines DEF IInv, NumbersInv, Placed
  <2>2. Found(s.at - pyramid.new.at) /\ missed' = missed
    BY <1>0, <1>5, <2>a, <2>c DEF Solved, PoseUpdate
  <2>3. NumbersInv'
    BY <1>0, <1>1, <1>2, <2>2 DEF IInv, NumbersInv, Placed, IsScan
  <2>4. PairInv'
    BY <1>0, <1>1, <1>2, <2>1, <2>2 DEF PairInv, NoScan
  <2>5. PoseFollowsScans'
    BY <1>0, <1>1, <1>2, <2>1, <2>2 DEF IInv, NumbersInv, Placed, PoseFollowsScans, NoScan
  <2>6. SpeedIsOfThePair'
    BY <1>2, <1>4, <2>2 DEF IInv, PairInv, SpeedIsOfThePair, NoScan
  <2> QED BY <2>3, <2>4, <2>5, <2>6 DEF IInv
\* too few points are no loss only for the first scan that is processed
<1>6. CASE TooFew
  <2>a. PICK found \in IF Comparable THEN Coarse ELSE {0} : PoseUpdate(found)
    BY <1>6 DEF TooFew
  <2>b. found \in Int
    BY <1>0, <1>1, <1>2, <2>a DEF Coarse, Displacement, IInv, NumbersInv, Placed, IsScan
  <2>c. pyramid.new = NoScan => found = 0
    BY <1>2, <1>3, <2>a DEF Comparable
  <2>1. Found(found) /\ (~missed' => ~missed /\ pyramid.new = NoScan /\ found = 0)
    BY <1>0, <1>6, <2>a, <2>c DEF TooFew, PoseUpdate
  <2>2. NumbersInv'
    BY <1>0, <1>1, <1>2, <2>b, <2>1 DEF IInv, NumbersInv, Placed, IsScan
  <2>3. ~missed' => pose' = 0 /\ anchor' = s.at
    BY <1>1, <2>1 DEF IInv, NumbersInv, PairInv
  <2>4. PairInv'
    BY <1>0, <1>1, <1>2, <2>1, <2>3 DEF PairInv, NoScan
  <2>5. PoseFollowsScans'
    BY <1>0, <1>2, <2>3 DEF Placed, PoseFollowsScans, NoScan
  <2>6. SpeedIsOfThePair'
    BY <1>2, <1>4, <2>1 DEF IInv, PairInv, SpeedIsOfThePair, NoScan
  <2> QED BY <2>2, <2>4, <2>5, <2>6 DEF IInv
\* the last motion is taken to be this one: the pair counts as missed
<1>8. CASE Degenerate
  <2>a. PICK found \in Coarse : PoseUpdate(found + Assumed(found))
    BY <1>8 DEF Degenerate
  <2>b. found \in Int
    BY <1>0, <1>1, <1>2, <2>a DEF Coarse, Displacement, IInv, NumbersInv, Placed, IsScan
  <2>c. found + Assumed(found) = speed.by /\ speed.by \in Int
    BY <2>b DEF Assumed, IInv, NumbersInv
  <2>1. Found(speed.by) /\ missed' = TRUE
    BY <1>0, <1>8, <2>a, <2>c DEF Degenerate, PoseUpdate
  <2>2. NumbersInv'
    BY <1>0, <1>1, <1>2, <2>c, <2>1 DEF IInv, NumbersInv, Placed, IsScan
  <2>3. PairInv' /\ PoseFollowsScans'
    BY <1>0, <1>1, <1>2, <2>1 DEF PairInv, PoseFollowsScans, NoScan
  <2>4. SpeedIsOfThePair'
    BY <1>2, <1>4, <2>1 DEF IInv, PairInv, SpeedIsOfThePair, NoScan
  <2> QED BY <2>2, <2>3, <2>4 DEF IInv
<1>7. CASE Unsolved
  <2>1. missed' = TRUE /\ failed' = TRUE /\ UNCHANGED <<pose, speed, last_odom_time>>
    BY <1>7 DEF Unsolved
  <2>2. NumbersInv'
    BY <1>0, <1>1, <1>2, <2>1 DEF IInv, NumbersInv, Placed, IsScan
  <2>3. PairInv' /\ PoseFollowsScans' /\ SpeedIsOfThePair'
    BY <1>0, <1>1, <1>2, <2>1 DEF PairInv, PoseFollowsScans, SpeedIsOfThePair
  <2> QED BY <2>2, <2>3 DEF IInv
<1> QED BY <1>5, <1>6, <1>7, <1>8 DEF Process

\* A step that changes nothing.
LEMMA StutterPreserves == IInv /\ UNCHANGED vars => IInv'
  BY DEF vars, nodeVars, odomVars, loop, world, IInv, NumbersInv, PairInv, Placed, IsScan,
         NoScan, PoseFollowsScans, SpeedIsOfThePair

\* IInv is inductive.
LEMMA Invariance == Spec => []IInv
<1>1. IInv /\ Odometry => IInv'
  BY CallBackPreserves, ProcessPreserves DEF Odometry, OdomNext, loop, world
<1>2. IInv /\ [Next]_vars => IInv'
  BY <1>1, NodePreserves, StutterPreserves DEF Next
<1> QED BY InitEstablishes, <1>2, PTL DEF Spec

\* As long as every displacement was estimated, the pose is that of the last scan
\* processed: none is lost or counted twice (LaserCallBack, process, PoseUpdate).
THEOREM PoseCorrect == Spec => []PoseFollowsScans
  BY Invariance, PTL DEF IInv

\* The time by which the displacement of a pair is divided is the time between its
\* two scans, unless the calculation before found no solution (PoseUpdate).
THEOREM SpeedCorrect == Spec => []SpeedIsOfThePair
  BY Invariance, PTL DEF IInv

(***************************************************************************)
(* The scan after the stop: whatever the LIDAR does after the node has     *)
(* stopped it, the driver unpacks no revolution, so that the one scan left *)
(* is published once or never.                                             *)
(***************************************************************************)
StopInv ==
    /\ after \in {0, 1}
    /\ after = 1 => ready = <<>> /\ ~is_scanning
    /\ ~is_scanning => ~lidar.unpacks

\* A command that may get lost decides nothing but what the driver unpacks.
LEMMA CommandedIs ==
    ASSUME NEW motor, NEW scan, NEW unpacks, Commanded(motor, scan, unpacks)
    PROVE  lidar'.unpacks = unpacks
BY DEF Commanded

\* The steps of the node keep StopInv.
LEMMA NodeKeepsStopInv == StopInv /\ Node => StopInv'
<1> SUFFICES ASSUME StopInv, NodeNext PROVE StopInv'
  BY DEF Node
<1> USE DEF StopInv
\* a start, a stop and a failed start begin the count again
<1>1. ASSUME Starts \/ StartFails \/ Stops PROVE StopInv'
  <2>1. after' = 0 /\ (is_scanning' \/ lidar'.unpacks = FALSE)
    BY <1>1, CommandedIs DEF Starts, StartFails, Stops
  <2> QED BY <2>1
<1>2. ASSUME Standing PROVE StopInv'
  BY <1>2 DEF Standing
<1>3. CASE Check \/ Start \/ GrabTimesOut \/ Serve \/ Spun
             \/ \E subscribed \in BOOLEAN : Continue(subscribed)
  BY <1>1, <1>2, <1>3 DEF Check, Connect, GetDeviceInfo, CheckHealth, Passes,
            Start, GrabTimesOut, Serve, Spun, Continue
<1>4. CASE Model \/ Leave
  <2>1. lidar'.unpacks = lidar.unpacks \/ lidar'.unpacks = FALSE
    BY <1>4, CommandedIs DEF Model, Leave
  <2>2. UNCHANGED <<after, ready, is_scanning>>
    BY <1>4 DEF Model, Leave
  <2> QED BY <2>1, <2>2
<1>5. CASE Tune
  <2>1. lidar'.unpacks = lidar.unpacks
    BY <1>5, CommandedIs DEF Tune
  <2> QED BY <1>5, <2>1 DEF Tune
\* what is published was available, so that none had been published since the stop
<1>6. CASE \E nodes \in Scans : Publish(nodes)
  <2>1. after = 0 /\ ready' = <<>> /\ UNCHANGED <<lidar, is_scanning>>
    BY <1>6 DEF Publish
  <2>2. after' = IF is_scanning THEN 0 ELSE 1
    BY <1>6, <2>1 DEF Publish
  <2> QED BY <2>1, <2>2
\* only a revolution that is unpacked becomes available
<1>7. CASE Revolution
  <2>1. UNCHANGED <<after, is_scanning, lidar>> /\ (~lidar.unpacks => ready' = ready)
    BY <1>7 DEF Revolution, loop
  <2> QED BY <2>1
<1> QED BY <1>3, <1>4, <1>5, <1>6, <1>7 DEF NodeNext

\* After the node has stopped the LIDAR at most one more scan is published, however
\* its calls, its grabs, the subscribers and the revolutions are interleaved
\* (work_loop, start, stop, grabScanDataHq).
THEOREM StopCorrect == Spec => []OneScanAfterStop
<1>1. Init => StopInv
  BY DEF Init, NodeInit, Off, StopInv
<1>2. StopInv /\ [Next]_vars => StopInv'
  <2>1. StopInv /\ UNCHANGED <<after, ready, is_scanning, lidar>> => StopInv'
    BY DEF StopInv
  <2>2. Odometry \/ UNCHANGED vars => UNCHANGED <<after, ready, is_scanning, lidar>>
    BY DEF Odometry, vars, nodeVars, loop
  <2> QED BY <2>1, <2>2, NodeKeepsStopInv DEF Next
<1>3. StopInv => OneScanAfterStop
  BY DEF StopInv, OneScanAfterStop
<1> QED BY <1>1, <1>2, <1>3, PTL DEF Spec

(***************************************************************************)
(* From the nodes to the message. The sort of the driver first: a place    *)
(* for every node.                                                         *)
(***************************************************************************)
\* The first and the last of some places, as publish_scan looks for them.
LEMMA FirstIs ==
    ASSUME NEW S \in SUBSET Nat, S # {}
    PROVE  First(S) \in S /\ \A k \in S : First(S) <= k
<1> DEFINE R == {ss \in Nat \X Nat : ss[1] < ss[2]}
<1>1. IsWellFoundedOn(R, Nat)
  BY NatLessThanWellFounded DEF OpToRel
<1> HIDE DEF R
<1>2. \E x \in S : \A y \in S : ~ (<<y, x>> \in R)
  BY <1>1, WFMin
<1>3. PICK x \in S : \A y \in S : ~ (<<y, x>> \in R)
  BY <1>2
<1>4. ASSUME NEW y \in S PROVE x <= y
  <2>1. <<y, x>> \notin R /\ x \in Nat /\ y \in Nat
    BY <1>3
  <2>2. ~(y < x)
    BY <2>1 DEF R
  <2> QED
    BY <2>1, <2>2
<1> QED
  BY <1>4 DEF First

\* The last one is the first from behind.
LEMMA FinalIs ==
    ASSUME NEW n \in Nat, NEW S \in SUBSET (0 .. n), S # {}
    PROVE  Final(S) \in S /\ \A k \in S : k <= Final(S)
<1> DEFINE T == {n - i : i \in S}
<1>1. T \in SUBSET Nat /\ T # {}
  <2>1. \A i \in 0 .. n : n - i \in Nat
    OBVIOUS
  <2>2. \A i \in S : n - i \in Nat
    BY <2>1
  <2> QED
    BY <2>2
<1>2. First(T) \in T /\ \A k \in T : First(T) <= k
  BY <1>1, FirstIs, Zenon
<1>3. PICK m \in S : First(T) = n - m
  BY <1>2
<1>4. ASSUME NEW k \in S PROVE k <= m
  <2>1. n - m <= n - k /\ n - k \in T
    BY <1>2, <1>3
  <2> QED
    BY <2>1
<1> QED
  BY <1>4 DEF Final

\* A node that precedes another one has a lower place.
LEMMA PlacesDiffer ==
    ASSUME NEW n \in Nat, NEW s, DOMAIN s = 1 .. n, \A i \in 1 .. n : s[i].angle \in Int,
           NEW i \in 1 .. n, NEW j \in 1 .. n, Precedes(s, i, j)
    PROVE  PlaceOf(s, i) < PlaceOf(s, j)
<1> DEFINE U == {k \in DOMAIN s : Precedes(s, k, i)}
           W == {k \in DOMAIN s : Precedes(s, k, j)}
<1>1. \A k \in 1 .. n : Precedes(s, k, i) => Precedes(s, k, j)
  <2> SUFFICES ASSUME NEW k \in 1 .. n, Precedes(s, k, i) PROVE Precedes(s, k, j)
    OBVIOUS
  <2> DEFINE x == s[k].angle
             y == s[i].angle
             z == s[j].angle
  <2>1. x \in Int /\ y \in Int /\ z \in Int /\ i \in Int /\ j \in Int /\ k \in Int
    OBVIOUS
  <2>2. (x < y \/ (x = y /\ k < i)) /\ (y < z \/ (y = z /\ i < j))
    BY DEF Precedes
  <2>3. x < z \/ (x = z /\ k < j)
    <3> HIDE DEF x, y, z
    <3> QED
      BY <2>1, <2>2
  <2> QED
    BY <2>3 DEF Precedes
<1>2. ~Precedes(s, i, i)
  BY DEF Precedes
<1>3. U \subseteq W /\ i \in W /\ i \notin U
  BY <1>1, <1>2
<1>4. IsFiniteSet(W) /\ Cardinality(W) \in Nat
  <2>1. IsFiniteSet(1 .. n)
    BY FS_Interval
  <2>2. W \in SUBSET (1 .. n)
    OBVIOUS
  <2> QED
    BY <2>1, <2>2, FS_Subset, FS_CardinalityType, Zenon
<1>5. IsFiniteSet(U) /\ Cardinality(U) <= Cardinality(W) /\ (Cardinality(W) = Cardinality(U) => W = U)
  BY <1>3, <1>4, FS_Subset, Zenon
<1>6. Cardinality(U) \in Nat
  BY <1>5, FS_CardinalityType
<1>7. Cardinality(U) < Cardinality(W)
  BY <1>3, <1>4, <1>5, <1>6
<1> HIDE DEF U, W
<1> QED
  BY <1>4, <1>6, <1>7 DEF PlaceOf, U, W

\* what Sorted needs to know
Permutes(s, n) ==
    /\ \A k \in 1 .. n : \E i \in 1 .. n : PlaceOf(s, i) = k
    /\ \A i \in 1 .. n : PlaceOf(s, i) \in 1 .. n
    /\ \A i, j \in 1 .. n : i # j => PlaceOf(s, i) # PlaceOf(s, j)

\* A sort by the angles gives every place to one node: Precedes is a strict order, and
\* what precedes a node is less than all of them.
LEMMA PlacesPermute ==
    ASSUME NEW n \in Nat, NEW s, DOMAIN s = 1 .. n, \A i \in 1 .. n : s[i].angle \in Int
    PROVE  Permutes(s, n)
<1> DEFINE f == [i \in 1 .. n |-> PlaceOf(s, i)]
<1>1. ASSUME NEW i \in 1 .. n PROVE PlaceOf(s, i) \in 1 .. n
  <2> DEFINE U == {k \in DOMAIN s : Precedes(s, k, i)}
  <2>1. U \in SUBSET ((1 .. n) \ {i})
    BY DEF Precedes
  <2>2. IsFiniteSet(1 .. n) /\ Cardinality(1 .. n) = n
    <3>1. IsFiniteSet(1 .. n) /\ Cardinality(1 .. n) = IF 1 > n THEN 0 ELSE n - 1 + 1
      BY FS_Interval
    <3> QED
      BY <3>1
  <2>3. IsFiniteSet((1 .. n) \ {i}) /\ Cardinality((1 .. n) \ {i}) = n - 1
    BY <2>2, FS_RemoveElement
  <2>4. IsFiniteSet(U) /\ Cardinality(U) <= n - 1
    BY <2>1, <2>3, FS_Subset
  <2>5. Cardinality(U) \in Nat
    BY <2>4, FS_CardinalityType
  <2> HIDE DEF U
  <2>6. 1 + Cardinality(U) \in 1 .. n
    BY <2>4, <2>5
  <2> QED
    BY <2>6 DEF PlaceOf, U
<1>2. \A i, j \in 1 .. n : i # j => PlaceOf(s, i) # PlaceOf(s, j)
  <2> SUFFICES ASSUME NEW i \in 1 .. n, NEW j \in 1 .. n, i # j PROVE PlaceOf(s, i) # PlaceOf(s, j)
    OBVIOUS
  <2>1. PlaceOf(s, i) \in Int /\ PlaceOf(s, j) \in Int
    BY <1>1
  <2>2. Precedes(s, i, j) \/ Precedes(s, j, i)
    <3>1. \A x, y \in Int : x < y \/ y < x \/ x = y
      OBVIOUS
    <3>2. s[i].angle \in Int /\ s[j].angle \in Int /\ i \in Int /\ j \in Int
      OBVIOUS
    <3> QED
      BY <3>1, <3>2 DEF Precedes
  <2>3. CASE Precedes(s, i, j)
    BY <2>1, <2>3, PlacesDiffer
  <2>4. CASE Precedes(s, j, i)
    BY <2>1, <2>4, PlacesDiffer
  <2> QED
    BY <2>2, <2>3, <2>4
<1>3. f \in Injection(1 .. n, 1 .. n)
  BY <1>1, <1>2 DEF Injection, IsInjective
<1>4. IsFiniteSet(1 .. n)
  BY FS_Interval
<1>5. f \in Surjection(1 .. n, 1 .. n)
  <2> HIDE DEF f
  <2> QED
    BY <1>3, <1>4, FS_Injection
<1>6. \A k \in 1 .. n : \E i \in 1 .. n : f[i] = k
  <2> HIDE DEF f
  <2> QED
    BY <1>5 DEF Surjection
<1> QED
  BY <1>1, <1>2, <1>6 DEF Permutes

\* a sequence with the same elements as another one
Mixed(s, t, n) ==
    /\ DOMAIN t = 1 .. n
    /\ \A k \in 1 .. n : \E i \in 1 .. n : t[k] = s[i]
    /\ \A i \in 1 .. n : \E k \in 1 .. n : t[k] = s[i]

\* What is sorted are the nodes that were there (std::sort in ascendScanData_).
LEMMA SortedIs ==
    ASSUME NEW n \in Nat, NEW s, DOMAIN s = 1 .. n, \A i \in 1 .. n : s[i].angle \in Int
    PROVE  Mixed(s, Sorted(s), n)
<1>1. Permutes(s, n)
  BY PlacesPermute
<1> DEFINE c(k) == CHOOSE i \in DOMAIN s : PlaceOf(s, i) = k
<1>2. Sorted(s) = [k \in 1 .. n |-> s[c(k)]]
  BY DEF Sorted
<1>3. \A k \in 1 .. n : c(k) \in 1 .. n /\ PlaceOf(s, c(k)) = k
  BY <1>1 DEF Permutes
<1>4. \A i \in 1 .. n : PlaceOf(s, i) \in 1 .. n /\ c(PlaceOf(s, i)) = i
  BY <1>1, <1>3 DEF Permutes
<1> HIDE DEF c
<1> QED
  BY <1>2, <1>3, <1>4 DEF Mixed

(***************************************************************************)
(* From the nodes to the message: nothing new is measured.                 *)
(***************************************************************************)
\* What a sequence of nodes consists of.
LEMMA NodesAre ==
    ASSUME NEW nodes \in Seq(Nodes)
    PROVE  /\ Len(nodes) \in Nat /\ DOMAIN nodes = 1 .. Len(nodes)
           /\ \A i \in 1 .. Len(nodes) :
                 /\ nodes[i] \in Nodes /\ nodes[i].angle \in 0 .. Full - 1 /\ nodes[i].dist \in Nat
                 /\ nodes[i].angle \in Int
           /\ Valid(nodes) \in SUBSET (1 .. Len(nodes)) /\ Valid(nodes) \in SUBSET Nat
<1>1. Len(nodes) \in Nat /\ DOMAIN nodes = 1 .. Len(nodes)
        /\ \A i \in 1 .. Len(nodes) : nodes[i] \in Nodes
  BY LenProperties, ElementOfSeq
<1>2. \A node \in Nodes : node.angle \in 0 .. Full - 1 /\ node.dist \in Nat /\ node.angle \in Int
  BY ScanDataAssumption DEF Nodes
<1>3. Valid(nodes) \in SUBSET (1 .. Len(nodes)) /\ Valid(nodes) \in SUBSET Nat
  BY <1>1 DEF Valid
<1> QED
  BY <1>1, <1>2, <1>3

\* s differs from the nodes in angles that were guessed
FillsIn(nodes, s) ==
    /\ s \in Seq(Nodes) /\ Len(s) = Len(nodes)
    /\ \A i \in 1 .. Len(nodes) : s[i].dist = nodes[i].dist /\ (nodes[i].dist # 0 => s[i] = nodes[i])

\* The guessed angles are angles, and what was measured stays as it was.
LEMMA FilledIs ==
    ASSUME NEW nodes \in Seq(Nodes), Ascends(nodes)
    PROVE  FillsIn(nodes, Filled(nodes))
<1> DEFINE n == Len(nodes)
           f == First(Valid(nodes))
           w == Step(nodes)
           front == FrontAngle(nodes)
<1>1. n \in Nat /\ DOMAIN nodes = 1 .. n /\ \A i \in 1 .. n : nodes[i] \in Nodes /\ nodes[i].angle \in Int
  BY NodesAre
<1>2. f \in 1 .. n
  BY NodesAre, FirstIs DEF Ascends
<1>3. n # 0 /\ w \in Int
  <2>1. n # 0
    BY <1>1, <1>2
  <2>2. \A a \in Int, b \in Nat \ {0} : a \div b \in Int
    OBVIOUS
  <2> QED
    BY <1>1, <2>1, <2>2, ScanDataAssumption DEF Step
<1>4. front \in Int
  <2> HIDE DEF w
  <2>1. \A a, b, c \in Int : (IF a - (b - 1) * c < 0 THEN 0 ELSE a - (b - 1) * c) \in Int
    OBVIOUS
  <2>2. nodes[f].angle \in Int /\ f \in Int
    BY <1>1, <1>2
  <2> HIDE DEF f
  <2> QED
    BY <1>3, <2>1, <2>2 DEF FrontAngle, f, w
<1>5. \A i \in 1 .. n : (front + (i - 1) * w) % Full \in 0 .. Full - 1
  <2> HIDE DEF front, w
  <2>1. \A a \in Int, b \in Nat \ {0} : a % b \in 0 .. b - 1
    OBVIOUS
  <2>2. \A i \in 1 .. n : front + (i - 1) * w \in Int
    BY <1>1, <1>3, <1>4
  <2> QED
    BY <2>1, <2>2, ScanDataAssumption
<1>6. Filled(nodes) = [i \in 1 .. n |-> IF nodes[i].dist # 0 THEN nodes[i]
                         ELSE [nodes[i] EXCEPT !.angle = (front + (i - 1) * w) % Full]]
  BY <1>1 DEF Filled
<1>7. \A i \in 1 .. n : /\ Filled(nodes)[i] \in Nodes /\ Filled(nodes)[i].dist = nodes[i].dist
                        /\ nodes[i].dist # 0 => Filled(nodes)[i] = nodes[i]
  <2> SUFFICES ASSUME NEW i \in 1 .. n
               PROVE  /\ Filled(nodes)[i] \in Nodes /\ Filled(nodes)[i].dist = nodes[i].dist
                      /\ nodes[i].dist # 0 => Filled(nodes)[i] = nodes[i]
    OBVIOUS
  <2> DEFINE g == (front + (i - 1) * w) % Full
  <2>1. g \in 0 .. Full - 1 /\ nodes[i] \in Nodes
    BY <1>1, <1>5
  <2>2. Filled(nodes)[i] = IF nodes[i].dist # 0 THEN nodes[i] ELSE [nodes[i] EXCEPT !.angle = g]
    BY <1>6
  <2> HIDE DEF g
  <2>3. [nodes[i] EXCEPT !.angle = g] \in Nodes /\ [nodes[i] EXCEPT !.angle = g].dist = nodes[i].dist
    BY <2>1 DEF Nodes
  <2> QED
    BY <2>1, <2>2, <2>3
<1> HIDE DEF n
<1>8. Filled(nodes) \in Seq(Nodes) /\ Len(Filled(nodes)) = n
  <2>1. DOMAIN Filled(nodes) = 1 .. n
    BY <1>6
  <2>2. Filled(nodes) = [i \in 1 .. n |-> Filled(nodes)[i]]
    BY <1>6
  <2>3. Filled(nodes) \in [1 .. n -> Nodes]
    BY <1>7, <2>2
  <2> QED
    BY <1>1, <2>3, SeqDef, LenProperties DEF n
<1> QED
  BY <1>7, <1>8 DEF n, FillsIn

\* a sequence of nodes in which the same was measured
SameMeasured(nodes, t) == t \in Seq(Nodes) /\ Measured(t) = Measured(nodes)

\* ascendScanData_ keeps what was measured, and adds nothing.
LEMMA AscendedIs ==
    ASSUME NEW nodes \in Seq(Nodes), Ascends(nodes)
    PROVE  SameMeasured(nodes, Ascended(nodes))
<1> DEFINE n == Len(nodes)
           s == Filled(nodes)
           t == Ascended(nodes)
<1>1. /\ s \in Seq(Nodes) /\ Len(s) = n
      /\ \A i \in 1 .. n : s[i].dist = nodes[i].dist /\ (nodes[i].dist # 0 => s[i] = nodes[i])
  BY FilledIs DEF FillsIn
<1>2. n \in Nat /\ DOMAIN nodes = 1 .. n
  BY NodesAre
<1>3. DOMAIN s = 1 .. n /\ \A i \in 1 .. n : s[i].angle \in Int /\ s[i] \in Nodes
  <2> HIDE DEF s
  <2> QED
    BY <1>1, NodesAre
<1>4. Mixed(s, t, n)
  <2> HIDE DEF s, n
  <2> QED
    BY <1>2, <1>3, SortedIs DEF Ascended, s
<1> HIDE DEF n, s, t
<1>5. DOMAIN t = 1 .. n /\ \A k \in 1 .. n : t[k] \in Nodes
  BY <1>3, <1>4 DEF Mixed
<1>6. t = [k \in 1 .. n |-> t[k]]
  BY DEF t, Ascended, Sorted, s, Filled, n
<1>7. t \in Seq(Nodes)
  <2>1. t \in [1 .. n -> Nodes]
    BY <1>5, <1>6
  <2> QED
    BY <1>2, <2>1, SeqDef
<1>8. Measured(t) \subseteq Measured(nodes)
  <2> SUFFICES ASSUME NEW k \in 1 .. n, t[k].dist # 0 PROVE t[k] \in Measured(nodes)
    BY <1>5 DEF Measured, Valid
  <2>1. PICK i \in 1 .. n : t[k] = s[i]
    BY <1>4 DEF Mixed
  <2>2. nodes[i].dist # 0 /\ t[k] = nodes[i]
    BY <1>1, <2>1
  <2> QED
    BY <1>2, <2>2 DEF Measured, Valid
<1>9. Measured(nodes) \subseteq Measured(t)
  <2> SUFFICES ASSUME NEW i \in 1 .. n, nodes[i].dist # 0 PROVE nodes[i] \in Measured(t)
    BY <1>2 DEF Measured, Valid
  <2>1. PICK k \in 1 .. n : t[k] = s[i]
    BY <1>4 DEF Mixed
  <2>2. t[k] = nodes[i] /\ t[k].dist # 0
    BY <1>1, <2>1
  <2> QED
    BY <1>5, <2>2 DEF Measured, Valid
<1> QED
  BY <1>7, <1>8, <1>9 DEF SameMeasured, t

\* A revolution with a measurement still has one after that.
LEMMA SomeValid ==
    ASSUME NEW nodes, NEW t, Ascends(nodes), Measured(t) = Measured(nodes)
    PROVE  Valid(t) # {}
BY DEF Ascends, Measured

\* What is cut off at the ends was not measured.
LEMMA TrimmedIs ==
    ASSUME NEW a \in Seq(Nodes), Valid(a) # {}
    PROVE  SameMeasured(a, Trimmed(a)) /\ Len(Trimmed(a)) # 0
<1> DEFINE n == Len(a)
           f == First(Valid(a))
           l == Final(Valid(a))
           t == Trimmed(a)
<1>1. n \in Nat /\ DOMAIN a = 1 .. n /\ \A i \in 1 .. n : a[i] \in Nodes
  BY NodesAre
<1>2. Valid(a) \in SUBSET (1 .. n) /\ Valid(a) \in SUBSET (0 .. n) /\ Valid(a) \in SUBSET Nat
  <2>1. Valid(a) \in SUBSET (1 .. n) /\ Valid(a) \in SUBSET Nat
    BY NodesAre
  <2>2. 1 .. n \subseteq 0 .. n
    BY <1>1
  <2> QED
    BY <2>1, <2>2
<1>3. f \in Valid(a) /\ l \in Valid(a) /\ \A i \in Valid(a) : f <= i /\ i <= l
  <2>1. First(Valid(a)) \in Valid(a) /\ \A i \in Valid(a) : First(Valid(a)) <= i
    BY <1>2, FirstIs, Zenon
  <2>2. Final(Valid(a)) \in Valid(a) /\ \A i \in Valid(a) : i <= Final(Valid(a))
    BY <1>1, <1>2, FinalIs, Zenon
  <2> QED
    BY <2>1, <2>2, Zenon
<1> HIDE DEF n, f, l
<1>4. f \in 1 .. n /\ l \in 1 .. n /\ f <= l
  BY <1>2, <1>3
<1>5. DOMAIN t = 1 .. 1 + l - f /\ \A i \in 1 .. 1 + l - f : t[i] = a[i + f - 1]
  <2>1. t = SubSeq(a, f, l)
    BY DEF Trimmed, f, l
  <2>2. f \in Int /\ l \in Int /\ l - f + 1 = 1 + l - f /\ 1 + l - f \in Nat
          /\ \A i \in Int : f + i - 1 = i + f - 1
    BY <1>4
  <2>3. \A i \in f .. l : a[i] \in Nodes
    BY <1>1, <1>4
  <2>4. Len(t) = l - f + 1 /\ \A i \in 1 .. l - f + 1 : t[i] = a[f + i - 1]
    BY <1>4, <2>1, <2>2, <2>3, SubSeqProperties
  <2>5. t \in Seq(Nodes)
    BY <1>4, <2>1, <2>2, <2>3, SubSeqProperties
  <2> HIDE DEF t
  <2> QED
    BY <2>2, <2>4, <2>5, LenProperties
<1>6. \A i \in 1 .. 1 + l - f : i + f - 1 \in 1 .. n
  BY <1>1, <1>4
<1>7. 1 + l - f \in Nat /\ 1 + l - f # 0
  BY <1>1, <1>4
<1>8. t \in Seq(Nodes) /\ Len(t) = 1 + l - f
  <2>1. \A i \in f .. l : a[i] \in Nodes
    BY <1>1, <1>4
  <2>2. SubSeq(a, f, l) \in Seq(Nodes)
    BY <1>4, <2>1, SubSeqProperties
  <2>3. t \in Seq(Nodes)
    BY <2>2 DEF Trimmed, f, l
  <2> HIDE DEF t
  <2> QED
    BY <1>5, <1>7, <2>3, LenProperties
<1>9. Measured(t) \subseteq Measured(a)
  <2> SUFFICES ASSUME NEW i \in 1 .. 1 + l - f, t[i].dist # 0 PROVE t[i] \in Measured(a)
    BY <1>5 DEF Measured, Valid
  <2>1. t[i] = a[i + f - 1] /\ i + f - 1 \in 1 .. n
    BY <1>5, <1>6
  <2> QED
    BY <1>1, <2>1 DEF Measured, Valid
<1>10. Measured(a) \subseteq Measured(t)
  <2> SUFFICES ASSUME NEW i \in Valid(a) PROVE a[i] \in Measured(t)
    BY DEF Measured
  <2>1. i \in 1 .. n /\ f <= i /\ i <= l
    BY <1>2, <1>3
  <2>2. i - f + 1 \in 1 .. 1 + l - f /\ i - f + 1 + f - 1 = i
    BY <1>1, <1>4, <2>1
  <2>3. t[i - f + 1] = a[i] /\ a[i].dist # 0
    BY <1>5, <2>2 DEF Valid
  <2>4. DOMAIN t = 1 .. 1 + l - f
    BY <1>5
  <2> HIDE DEF t
  <2> QED
    BY <2>2, <2>3, <2>4 DEF Measured, Valid
<1> QED
  BY <1>7, <1>8, <1>9, <1>10 DEF SameMeasured

\* There are bins.
LEMMA BinCountIs == BinCount \in Nat \ {0}
<1>1. \A x, y \in Nat \ {0} : x * y \in Nat \ {0}
  OBVIOUS
<1> QED
  BY <1>1, ScanDataAssumption DEF BinCount

\* what a bin shows: nothing, or a node that falls into it
Falls(a, b, node) ==
    \/ node = Nothing
    \/ \E i \in Valid(a) : node = a[i] /\ b - 1 \in BinsOf(a[i])

\* A bin shows nothing, or a node that falls into it.
LEMMA CompensatedIs ==
    ASSUME NEW a \in Seq(Nodes)
    PROVE  /\ Compensated(a) \in Seq(Nodes) /\ Len(Compensated(a)) = BinCount
           /\ \A b \in 1 .. BinCount : Falls(a, b, Compensated(a)[b])
           /\ Measured(Compensated(a)) \subseteq Measured(a)
<1> DEFINE c == Compensated(a)
           n == Len(a)
           hits(b) == {i \in Valid(a) : b - 1 \in BinsOf(a[i])}
<1>1. n \in Nat /\ DOMAIN a = 1 .. n /\ \A i \in 1 .. n : a[i] \in Nodes
  BY NodesAre
<1>2. Valid(a) \in SUBSET (0 .. n) /\ Valid(a) \subseteq 1 .. n
  <2>1. Valid(a) \in SUBSET (1 .. n)
    BY NodesAre
  <2>2. 1 .. n \subseteq 0 .. n
    BY <1>1
  <2> QED
    BY <2>1, <2>2
<1>3. c = [b \in 1 .. BinCount |-> IF hits(b) = {} THEN Nothing ELSE a[Final(hits(b))]]
  BY DEF Compensated
<1> HIDE DEF n
<1>4. ASSUME NEW b \in 1 .. BinCount PROVE Falls(a, b, c[b])
  <2>1. c[b] = IF hits(b) = {} THEN Nothing ELSE a[Final(hits(b))]
    BY <1>3
  <2>2. CASE hits(b) = {}
    BY <2>1, <2>2 DEF Falls
  <2>3. CASE hits(b) # {}
    <3>1. hits(b) \in SUBSET (0 .. n)
      BY <1>2
    <3>2. Final(hits(b)) \in hits(b)
      <4> HIDE DEF hits
      <4> QED
        BY <1>1, <2>3, <3>1, FinalIs, Zenon
    <3>3. Final(hits(b)) \in Valid(a) /\ b - 1 \in BinsOf(a[Final(hits(b))])
      BY <3>2
    <3> HIDE DEF hits
    <3> QED
      BY <2>1, <2>3, <3>3 DEF Falls
  <2> QED
    BY <2>2, <2>3
<1> HIDE DEF hits, c
<1>5. Nothing \in Nodes
  BY ScanDataAssumption DEF Nothing, Nodes
<1>6. \A b \in 1 .. BinCount : c[b] \in Nodes
  BY <1>1, <1>2, <1>4, <1>5 DEF Falls
<1>7. DOMAIN c = 1 .. BinCount
  BY <1>3
<1>8. c \in Seq(Nodes) /\ Len(c) = BinCount
  <2>1. c \in [1 .. BinCount -> Nodes]
    BY <1>3, <1>6
  <2> QED
    BY <2>1, BinCountIs, SeqDef, LenProperties
<1>9. Measured(c) \subseteq Measured(a)
  <2> SUFFICES ASSUME NEW b \in 1 .. BinCount, c[b].dist # 0 PROVE c[b] \in Measured(a)
    BY <1>7 DEF Measured, Valid
  <2>1. c[b] # Nothing
    BY DEF Nothing
  <2> QED
    BY <1>4, <2>1 DEF Falls, Measured
<1> QED
  BY <1>4, <1>8, <1>9 DEF c

\* n nodes each get a range of their own
Distinct(n, flip) == flip => n % 2 = 0

\* The index that a node gets is a range, and its own: mirrored, exchanged with the
\* other half of an even number, or both.
LEMMA AppliedIs ==
    ASSUME NEW n \in Nat, NEW inverted \in BOOLEAN, NEW reversed \in BOOLEAN, NEW flip \in BOOLEAN,
           Distinct(n, flip), NEW i \in 0 .. n - 1
    PROVE  /\ Applied(i, n, inverted, reversed, flip) \in 0 .. n - 1
           /\ \A x \in 0 .. n - 1 :
                 Applied(x, n, inverted, reversed, flip) = Applied(i, n, inverted, reversed, flip) => x = i
<1> DEFINE a(x) == IF inverted # reversed THEN n - 1 - x ELSE x
           h == n \div 2
<1>1. \A x \in 0 .. n - 1 : a(x) \in 0 .. n - 1 /\ (a(x) = a(i) => x = i)
  <2>1. CASE inverted # reversed
    BY <2>1
  <2>2. CASE inverted = reversed
    BY <2>2
  <2> QED BY <2>1, <2>2
<1>2. \A x : Applied(x, n, inverted, reversed, flip)
               = IF ~flip THEN a(x) ELSE IF a(x) >= h THEN a(x) - h ELSE a(x) + h
  BY DEF Applied
<1>3. flip => h \in Nat /\ h + h = n
  BY DEF Distinct
<1> HIDE DEF a, h
<1>4. CASE ~flip
  BY <1>1, <1>2, <1>4
<1>5. CASE flip
  <2>1. \A x \in 0 .. n - 1 : Applied(x, n, inverted, reversed, flip)
                                = IF a(x) >= h THEN a(x) - h ELSE a(x) + h
    BY <1>2, <1>5
  <2>2. h \in Nat /\ h + h = n
    BY <1>3, <1>5
  <2>3. \A u, v \in 0 .. n - 1 :
          /\ (IF u >= h THEN u - h ELSE u + h) \in 0 .. n - 1
          /\ (IF u >= h THEN u - h ELSE u + h) = (IF v >= h THEN v - h ELSE v + h) => u = v
    BY <2>2
  <2>4. a(i) \in 0 .. n - 1
    BY <1>1
  <2> QED BY <1>1, <2>1, <2>3, <2>4
<1> QED BY <1>4, <1>5

\* r is what publish_scan makes of the nodes
Ranges(nodes, r, inverted, reversed, flip) ==
    LET n == Len(nodes)
    IN  /\ DOMAIN r = 0 .. n - 1
        /\ \A k \in 0 .. n - 1 :
              \/ r[k] = Nothing
              \/ \E i \in 0 .. n - 1 : Applied(i, n, inverted, reversed, flip) = k /\ r[k] = nodes[i + 1]
        /\ Distinct(n, flip) => \A i \in 0 .. n - 1 : \E k \in 0 .. n - 1 : r[k] = nodes[i + 1]

\* A range is empty, or shows a node that publish_scan applies to it; every node has
\* its own range unless an odd number is flipped.
LEMMA RangesAre ==
    ASSUME NEW nodes \in Seq(Nodes), NEW inverted \in BOOLEAN, NEW flip \in BOOLEAN,
           NEW angleMin, NEW angleMax
    PROVE  Ranges(nodes, LaserScan(nodes, inverted, flip, angleMin, angleMax).ranges,
                  inverted, angleMax > angleMin, flip)
<1> DEFINE n == Len(nodes)
           reversed == angleMax > angleMin
           source(k) == {i \in 0 .. n - 1 : Applied(i, n, inverted, reversed, flip) = k}
           r == LaserScan(nodes, inverted, flip, angleMin, angleMax).ranges
<1>1. n \in Nat
  BY NodesAre
<1>2. r = [k \in 0 .. n - 1 |-> IF source(k) = {} THEN Nothing ELSE nodes[Final(source(k)) + 1]]
  BY DEF LaserScan
<1> HIDE DEF n, r, reversed
<1>3. ASSUME NEW k \in 0 .. n - 1, source(k) # {}
      PROVE  Final(source(k)) \in source(k)
  <2>1. n # 0 /\ n - 1 \in Nat
    BY <1>1
  <2>2. source(k) \in SUBSET (0 .. n - 1)
    OBVIOUS
  <2> HIDE DEF source
  <2> QED
    BY <1>3, <2>1, <2>2, FinalIs, Zenon
<1>4. ASSUME NEW k \in 0 .. n - 1
      PROVE  \/ r[k] = Nothing
             \/ \E i \in 0 .. n - 1 : Applied(i, n, inverted, reversed, flip) = k /\ r[k] = nodes[i + 1]
  <2>1. r[k] = IF source(k) = {} THEN Nothing ELSE nodes[Final(source(k)) + 1]
    BY <1>2
  <2>2. CASE source(k) = {}
    BY <2>1, <2>2
  <2>3. CASE source(k) # {}
    <3>1. Final(source(k)) \in 0 .. n - 1 /\ Applied(Final(source(k)), n, inverted, reversed, flip) = k
      BY <1>3, <2>3
    <3> HIDE DEF source
    <3> QED
      BY <2>1, <2>3, <3>1
  <2> QED
    BY <2>2, <2>3
<1>5. ASSUME Distinct(n, flip), NEW i \in 0 .. n - 1 PROVE \E k \in 0 .. n - 1 : r[k] = nodes[i + 1]
  <2> DEFINE k == Applied(i, n, inverted, reversed, flip)
  <2>1. reversed \in BOOLEAN
    BY DEF reversed
  <2>2. k \in 0 .. n - 1
    BY <1>1, <1>5, <2>1, AppliedIs
  <2>3. \A x \in 0 .. n - 1 : Applied(x, n, inverted, reversed, flip) = k => x = i
    BY <1>1, <1>5, <2>1, AppliedIs
  <2>4. r[k] = IF source(k) = {} THEN Nothing ELSE nodes[Final(source(k)) + 1]
    BY <1>2, <2>2
  <2>5. i \in source(k)
    OBVIOUS
  <2>6. Final(source(k)) = i
    <3>1. Final(source(k)) \in 0 .. n - 1 /\ Applied(Final(source(k)), n, inverted, reversed, flip) = k
      BY <1>3, <2>2, <2>5
    <3> QED
      BY <2>3, <3>1, Zenon
  <2> HIDE DEF k
  <2>7. r[k] = nodes[i + 1]
    <3>1. source(k) # {}
      BY <2>5
    <3> HIDE DEF source
    <3> QED
      BY <2>4, <2>6, <3>1
  <2> QED
    BY <2>2, <2>7
<1>6. DOMAIN r = 0 .. n - 1
  BY <1>2
<1> HIDE DEF source
<1> QED
  BY <1>4, <1>5, <1>6 DEF Ranges, n, r, reversed

RangesShown(scan) == {scan.ranges[k] : k \in DOMAIN scan.ranges}
\* what the message shows was measured, and whatever was is shown unless an odd number
\* is flipped
ShowsAll(nodes, scan, flip) ==
    /\ {node \in RangesShown(scan) : node.dist # 0} \subseteq Measured(nodes)
    /\ Distinct(Size(scan), flip) => Measured(nodes) \subseteq RangesShown(scan)

\* The ranges of a message show what was measured, and all of it unless an odd number
\* is flipped.
LEMMA LaserScanShows ==
    ASSUME NEW nodes \in Seq(Nodes), NEW inverted \in BOOLEAN, NEW flip \in BOOLEAN,
           NEW angleMin, NEW angleMax
    PROVE  ShowsAll(nodes, LaserScan(nodes, inverted, flip, angleMin, angleMax), flip)
<1> DEFINE n == Len(nodes)
           scan == LaserScan(nodes, inverted, flip, angleMin, angleMax)
           r == scan.ranges
<1>1. Ranges(nodes, r, inverted, angleMax > angleMin, flip)
  BY RangesAre
<1>2. n \in Nat /\ DOMAIN nodes = 1 .. n
  BY NodesAre
<1> HIDE DEF n, scan
<1>3. /\ DOMAIN r = 0 .. n - 1
      /\ \A k \in 0 .. n - 1 : r[k] = Nothing \/ \E i \in 0 .. n - 1 : r[k] = nodes[i + 1]
      /\ Distinct(n, flip) => \A i \in 0 .. n - 1 : \E k \in 0 .. n - 1 : r[k] = nodes[i + 1]
  BY <1>1 DEF Ranges, n
<1>4. Size(scan) = n
  <2>1. Cardinality(0 .. n - 1) = IF 0 > n - 1 THEN 0 ELSE n - 1 - 0 + 1
    BY <1>2, FS_Interval
  <2> QED BY <1>2, <1>3, <2>1 DEF Size
<1>5. \A i \in 0 .. n - 1 : i + 1 \in 1 .. n
  BY <1>2
<1>6. ASSUME NEW k \in 0 .. n - 1, r[k].dist # 0 PROVE r[k] \in Measured(nodes)
  <2>1. r[k] # Nothing
    BY <1>6 DEF Nothing
  <2>2. PICK i \in 0 .. n - 1 : r[k] = nodes[i + 1]
    BY <1>3, <2>1
  <2>3. i + 1 \in DOMAIN nodes
    BY <1>2, <1>5
  <2> QED
    BY <1>6, <2>2, <2>3 DEF Measured, Valid
<1>7. ASSUME Distinct(n, flip), NEW m \in 1 .. n PROVE nodes[m] \in RangesShown(scan)
  <2>1. m - 1 \in 0 .. n - 1 /\ m - 1 + 1 = m
    BY <1>2
  <2>2. PICK k \in 0 .. n - 1 : r[k] = nodes[m - 1 + 1]
    BY <1>3, <1>7, <2>1
  <2> QED
    BY <1>3, <2>1, <2>2 DEF RangesShown
<1>8. {node \in RangesShown(scan) : node.dist # 0} \subseteq Measured(nodes)
  BY <1>3, <1>6 DEF RangesShown
<1>9. Distinct(n, flip) => Measured(nodes) \subseteq RangesShown(scan)
  BY <1>2, <1>7 DEF Measured, Valid
<1> HIDE DEF r
<1> QED
  BY <1>4, <1>8, <1>9 DEF ShowsAll, scan

\* the message shows the measurements of the nodes
ShowsNodes(nodes, c) ==
    /\ {node \in RangesShown(Published(nodes, c)) : node.dist # 0} \subseteq Measured(nodes)
    /\ \/ c.compensate \/ ~Distinct(Size(Published(nodes, c)), c.flip)
       \/ Measured(nodes) \subseteq RangesShown(Published(nodes, c))

\* The same on the whole way from the driver to the topic, by each of its branches.
LEMMA PublishedShows ==
    ASSUME NEW nodes \in Seq(Nodes), NEW c \in Configs
    PROVE  ShowsNodes(nodes, c)
<1> DEFINE a == Ascended(nodes)
           t == Trimmed(a)
           p == Published(nodes, c)
<1>1. c.compensate \in BOOLEAN /\ c.inverted \in BOOLEAN /\ c.flip \in BOOLEAN
  BY ConfigsAssumption
<1>2. CASE ~Ascends(nodes)
  <2>1. p = LaserScan(nodes, c.inverted, c.flip, 0, FullScan)
    BY <1>2 DEF Published
  <2> HIDE DEF p
  <2>2. ShowsAll(nodes, p, c.flip)
    BY <1>1, <2>1, LaserScanShows
  <2> QED
    BY <1>1, <2>2 DEF ShowsAll, ShowsNodes, p
<1>3. ASSUME Ascends(nodes)
      PROVE  a \in Seq(Nodes) /\ Measured(a) = Measured(nodes) /\ Valid(a) # {}
  <2>1. SameMeasured(nodes, a)
    BY <1>3, AscendedIs
  <2> HIDE DEF a
  <2> QED
    BY <1>3, <2>1, SomeValid DEF SameMeasured
<1>4. CASE Ascends(nodes) /\ c.compensate
  <2>1. p = LaserScan(Compensated(a), c.inverted, c.flip, 0, FullScan)
    BY <1>4 DEF Published
  <2> HIDE DEF p, a
  <2>2. Compensated(a) \in Seq(Nodes) /\ Measured(Compensated(a)) \subseteq Measured(nodes)
    BY <1>3, <1>4, CompensatedIs
  <2>3. ShowsAll(Compensated(a), p, c.flip)
    BY <1>1, <2>1, <2>2, LaserScanShows
  <2> QED
    BY <1>1, <1>4, <2>2, <2>3 DEF ShowsAll, ShowsNodes, p
<1>5. CASE Ascends(nodes) /\ ~c.compensate
  <2>1. p = LaserScan(t, c.inverted, c.flip, t[1].angle, t[Len(t)].angle)
    BY <1>5 DEF Published
  <2> HIDE DEF p, a
  <2>2. t \in Seq(Nodes) /\ Measured(t) = Measured(nodes)
    BY <1>3, <1>5, TrimmedIs DEF SameMeasured
  <2> HIDE DEF t
  <2>3. ShowsAll(t, p, c.flip)
    BY <1>1, <2>1, <2>2, LaserScanShows
  <2> QED
    BY <1>1, <2>2, <2>3 DEF ShowsAll, ShowsNodes, p
<1> QED
  BY <1>1, <1>2, <1>4, <1>5

(***************************************************************************)
(* What is published is made of the nodes of a revolution.                 *)
(***************************************************************************)
OutInv ==
    /\ config \in Configs
    /\ \A i \in DOMAIN out : out[i].nodes \in Scans /\ out[i].scan = Published(out[i].nodes, config)

\* Nothing is out at the start.
LEMMA InitOut == Init => OutInv
BY DEF Init, NodeInit, OutInv

\* Only Publish puts a message out, and no step changes the parameters.
LEMMA NextOut == OutInv /\ [Next]_vars => OutInv'
<1> SUFFICES ASSUME OutInv, [Next]_vars PROVE OutInv'
  OBVIOUS
<1>1. CASE config' = config /\ out' = <<>>
  BY <1>1 DEF OutInv
<1>2. CASE config' = config /\ out' = out
  BY <1>2 DEF OutInv
<1>3. ASSUME NEW nodes \in Scans, Publish(nodes) PROVE OutInv'
  <2>1. config' = config /\ out' = <<Message(nodes)>>
    BY <1>3 DEF Publish
  <2>2. Message(nodes).nodes = nodes /\ Message(nodes).scan = Published(nodes, config)
    BY DEF Message
  <2>3. \A i \in DOMAIN out' : out'[i] = Message(nodes)
    BY <2>1
  <2> QED
    BY <2>1, <2>2, <2>3 DEF OutInv
<1>4. ASSUME NodeNext PROVE OutInv'
  <2>1. ASSUME NEW p, Goto(p) PROVE OutInv'
    BY <1>1, <2>1 DEF Goto
  <2>2. (Check \/ Model \/ Start \/ Tune \/ GrabTimesOut \/ Spun \/ Leave
           \/ \E subscribed \in BOOLEAN : Continue(subscribed))
          => config' = config /\ out' = <<>>
    BY DEF Check, Connect, GetDeviceInfo, CheckHealth, Passes,
            Model, Start, Tune, GrabTimesOut, Spun, Leave, Continue, Goto
  <2>3. Serve \/ Revolution => config' = config /\ out' = <<>>
    BY DEF Serve, Revolution, loop
  <2> QED
    BY <1>1, <1>3, <1>4, <2>2, <2>3 DEF NodeNext
<1>5. CASE Node
  BY <1>4, <1>5 DEF Node
<1>6. CASE Odometry
  BY <1>1, <1>6 DEF Odometry, loop
<1>7. CASE UNCHANGED vars
  BY <1>2, <1>7 DEF vars, nodeVars, loop
<1> QED
  BY <1>5, <1>6, <1>7 DEF Next

\* A published range is one of the revolution's measurements, and without the
\* compensation none is left out unless an odd number is flipped, whatever the
\* revolution, the parameters and the number of bins (ascendScanData_, publish_scan).
THEOREM ShowsCorrect == Spec => []ScanShowsMeasurements
<1>1. OutInv => ScanShowsMeasurements
  <2> SUFFICES ASSUME OutInv, NEW i \in DOMAIN out
               PROVE  /\ {node \in Shown(out[i]) : node.dist # 0} \subseteq Measured(out[i].nodes)
                      /\ \/ config.compensate \/ (config.flip /\ Size(out[i].scan) % 2 # 0)
                         \/ Measured(out[i].nodes) \subseteq Shown(out[i])
    BY DEF ScanShowsMeasurements
  <2>1. out[i].nodes \in Seq(Nodes) /\ out[i].scan = Published(out[i].nodes, config) /\ config \in Configs
    BY ScansAssumption DEF OutInv
  <2>2. Shown(out[i]) = RangesShown(out[i].scan)
    BY DEF Shown, RangesShown
  <2> QED
    BY <2>1, <2>2, PublishedShows DEF ShowsNodes, Distinct
<1> QED
  BY <1>1, InitOut, NextOut, PTL DEF Spec

(***************************************************************************)
(* The arithmetic of the bearings. Everything is taken times t, the number *)
(* of the intervals of the message, and m, the bins of a degree; h is half *)
(* the number of degrees, w the angle of one of them.                      *)
(***************************************************************************)
\* Lemmas of arithmetic, apart from the rest so that the prover sees nothing else.
LEMMA Cancel == ASSUME NEW m \in Nat \ {0}, NEW x \in Int, NEW y \in Int, m * x <= m * y PROVE x <= y
OBVIOUS

\* The same without equality.
LEMMA CancelStrict == ASSUME NEW m \in Nat \ {0}, NEW x \in Int, NEW y \in Int, m * x < m * y PROVE x < y
OBVIOUS

\* A product grows with its factor.
LEMMA Grows == ASSUME NEW v \in Nat, NEW x \in Int, NEW y \in Int, x <= y PROVE v * x <= v * y
OBVIOUS

\* Two bearings that differ by little, or by little and whole turns.
LEMMA NearIs ==
    ASSUME NEW a \in Int, NEW b \in Int, NEW m \in Int, NEW turn \in Nat \ {0}, NEW tol \in Int,
           0 - tol <= a - b + m * turn, a - b + m * turn <= tol
    PROVE  Apart(a, b, turn) <= tol
<1> DEFINE x == a - b
           d == x % turn
           q == x \div turn
           y == x + m * turn
<1>1. x \in Int /\ y \in Int
  OBVIOUS
<1>2. q \in Int /\ d \in 0 .. turn - 1 /\ x = (q * turn) + d
  <2>1. \A u \in Int, v \in Nat \ {0} :
          u \div v \in Int /\ u % v \in 0 .. v - 1 /\ u = ((u \div v) * v) + (u % v)
    OBVIOUS
  <2> HIDE DEF x
  <2> QED
    BY <1>1, <2>1
<1>3. y = (q + m) * turn + d
  <2>1. \A c, u, v \in Int : c * v + u * v = (c + u) * v
    OBVIOUS
  <2>2. q * turn + m * turn = (q + m) * turn
    <3> HIDE DEF q
    <3> QED
      BY <1>2, <2>1
  <2>3. q * turn \in Int /\ m * turn \in Int /\ d \in Int
    <3> HIDE DEF q, d
    <3> QED
      BY <1>2
  <2>4. y = x + m * turn
    OBVIOUS
  <2> HIDE DEF x, y, q, d
  <2> QED
    BY <1>2, <2>2, <2>3, <2>4
<1> HIDE DEF x, d, q, y
<1>4. 0 - tol <= y /\ y <= tol
  BY DEF y, x
<1>5. d <= tol \/ turn - d <= tol
  <2>1. CASE q + m >= 0
    <3>1. (q + m) * turn >= 0
      <4>1. \A u, v \in Nat : u * v >= 0
        OBVIOUS
      <4> QED
        BY <1>2, <2>1, <4>1
    <3> QED
      BY <1>1, <1>2, <1>3, <1>4, <3>1
  <2>2. CASE q + m < 0
    <3>1. (q + m) * turn <= 0 - turn
      <4>1. \A u \in Int, v \in Nat : u < 0 => u * v <= 0 - v
        OBVIOUS
      <4> QED
        BY <1>2, <2>2, <4>1
    <3> DEFINE z == (q + m) * turn
    <3>2. z \in Int /\ z <= 0 - turn /\ y = z + d
      BY <1>2, <1>3, <3>1
    <3> HIDE DEF z
    <3> QED
      BY <1>1, <1>2, <1>4, <3>2
  <2> QED
    BY <1>2, <2>1, <2>2
<1>6. Apart(a, b, turn) = IF d <= turn - d THEN d ELSE turn - d
  BY DEF Apart, d, x
<1> QED
  BY <1>2, <1>5, <1>6

\* The bin of a node at g is the one whose angles g is among.
LEMMA BinOfAngle ==
    ASSUME NEW h \in Nat \ {0}, NEW w \in Nat \ {0}, NEW M \in Nat \ {0}, NEW g \in Nat, NEW q \in Int,
           q = (g * (2 * h * M)) \div (2 * h * w)
    PROVE  w * q <= M * g /\ M * g < w * q + w
<1> DEFINE F == 2 * h * w
           x == g * (2 * h * M)
<1>1. F \in Nat \ {0} /\ x \in Nat
  <2>1. \A u, v \in Nat \ {0} : u * v \in Nat \ {0}
    OBVIOUS
  <2>2. 2 * h \in Nat \ {0} /\ 2 * h * M \in Nat \ {0} /\ 2 * h * w \in Nat \ {0}
    BY <2>1
  <2>3. \A u, v \in Nat : u * v \in Nat
    OBVIOUS
  <2> QED
    BY <2>2, <2>3
<1>2. q * F <= x /\ x < q * F + F
  <2>1. \A u \in Nat, v \in Nat \ {0} : (u \div v) * v <= u /\ u < (u \div v) * v + v
    OBVIOUS
  <2>2. q = x \div F
    OBVIOUS
  <2> HIDE DEF x, F
  <2> QED
    BY <1>1, <2>1, <2>2
<1>3. q * F = 2 * h * (w * q) /\ x = 2 * h * (M * g) /\ q * F + F = 2 * h * (w * q + w)
  <2>1. \A b, c, d \in Int : d * (b * c) = b * (c * d) /\ b * (c * d + c) = d * (b * c) + b * c
    OBVIOUS
  <2>2. 2 * h \in Int /\ q \in Int /\ w \in Int /\ M \in Int /\ g \in Int
    OBVIOUS
  <2> QED
    BY <2>1, <2>2
<1>4. 2 * h \in Nat \ {0} /\ w * q \in Int /\ M * g \in Int /\ w * q + w \in Int
  OBVIOUS
<1>5. 2 * h * (w * q) <= 2 * h * (M * g) /\ 2 * h * (M * g) < 2 * h * (w * q + w)
  BY <1>2, <1>3
<1> HIDE DEF F, x
<1> QED
  BY <1>4, <1>5, Cancel, CancelStrict

\* A product is a number.
LEMMA Product == \A a, b \in Int : a * b \in Int
OBVIOUS
\* The least that bin i is off, times m, with the bins up to m - 1 behind that of the node.
LEMMA Identity1 ==
    \A i, m, t, w \in Int : (w * (i - m + 1)) * t - (w * (t + 1 - m)) * i
                             = (w * (m - 1)) * i - (w * (m - 1)) * t
OBVIOUS
\* The most that bin i is off, times m.
LEMMA Identity2 ==
    \A i, m, t, w \in Int : (w * (i + 1)) * t - (w * (t + 1 - m)) * i = (w * (m - 1)) * i + w * t
OBVIOUS
\* The deviation times m, in the terms of the two above.
LEMMA Identity3 ==
    \A g, h, i, m, t, w \in Int : t + 1 = 2 * h * m =>
        m * (g * t - (2 * h * w - w) * i) = (m * g) * t - (w * (t + 1 - m)) * i
OBVIOUS
\* The tolerance times m.
LEMMA Identity4 ==
    \A m, t, w \in Int : m * (w * t) = (w * (m - 1)) * t + w * t
OBVIOUS
\* Half of the bins: h times m, one less than half of t.
LEMMA Identity5 ==
    \A h, m, v \in Int : m * (h * v) = v * (h * m) /\ v * (2 * h * m - 1) = v * (h * m) + v * (h * m) - v
OBVIOUS
\* How far off bin i shows g, times t; p is the tolerance, e what half the bins are off
Deviation(h, w, g, i, t) == g * t - (2 * h * w - w) * i
Small(p, e, d, low) ==
    /\ p \in Nat /\ e \in Nat /\ d \in Int
    /\ 0 - p <= d /\ d <= p
    /\ IF low THEN d + e <= p ELSE 0 - p <= d - e

\* Node g is in bins q to q + m - 1: each of them shows it less than a degree off, and
\* on the lower half by less than what the flip adds, on the upper half by less than it takes.
LEMMA DeviationIsSmall ==
    ASSUME NEW h \in Nat \ {0}, NEW w \in Nat \ {0}, NEW m \in Nat \ {0}, NEW g \in Nat,
           NEW q \in Int, NEW i \in Nat, NEW t \in Nat, t + 1 = 2 * h * m, i <= t,
           w * q <= m * g, m * g < w * q + w, q <= i, i <= q + m - 1
    PROVE  Small(w * t, h * (w * (m - 1)), Deviation(h, w, g, i, t), i < h * m)
<1> DEFINE v == w * (m - 1)
           p == w * t
           e == h * v
           d == Deviation(h, w, g, i, t)
           x == m * g
           hm == h * m
<1>1. v \in Nat /\ p \in Nat /\ e \in Nat /\ hm \in Nat
  <2>1. \A a, b \in Nat : a * b \in Nat
    OBVIOUS
  <2>2. m - 1 \in Nat
    OBVIOUS
  <2>3. v \in Nat
    BY <2>1, <2>2
  <2> HIDE DEF v
  <2> QED
    BY <2>1, <2>3
<1>2. d \in Int /\ x \in Int
  <2>1. 2 * h \in Int
    OBVIOUS
  <2>2. 2 * h * w \in Int
    BY <2>1, Product
  <2>3. (2 * h * w - w) * i \in Int /\ g * t \in Int
    BY <2>2, Product
  <2> QED
    BY <2>3, Product DEF Deviation
<1>3. w * (i - m + 1) <= x /\ x <= w * (i + 1)
  <2>1. w * (i - m + 1) <= w * q /\ w * q <= w * i
    BY Grows
  <2>2. w * (i + 1) = w * i + w /\ w * q \in Int /\ w * i \in Int /\ w * (i - m + 1) \in Int
    BY Product
  <2>3. w * q <= x /\ x < w * q + w
    OBVIOUS
  <2> HIDE DEF x
  <2> QED
    BY <1>2, <2>1, <2>2, <2>3
<1>4. (w * (i - m + 1)) * t <= x * t /\ x * t <= (w * (i + 1)) * t
  <2>1. \A a, b \in Int : a <= b => a * t <= b * t
    OBVIOUS
  <2>2. w * (i - m + 1) \in Int /\ w * (i + 1) \in Int
    BY Product
  <2> HIDE DEF x
  <2> QED
    BY <1>2, <1>3, <2>1, <2>2
<1>5. m * d = x * t - (w * (t + 1 - m)) * i
  BY Identity3 DEF Deviation
<1>6. v * i - v * t <= m * d /\ m * d <= v * i + p
  <2>1. (w * (i - m + 1)) * t - (w * (t + 1 - m)) * i = v * i - v * t
    BY Identity1
  <2>2. (w * (i + 1)) * t - (w * (t + 1 - m)) * i = v * i + p
    BY Identity2
  <2> DEFINE a == (w * (i - m + 1)) * t
             b == (w * (i + 1)) * t
             c == (w * (t + 1 - m)) * i
             y == x * t
  <2>3. a \in Int /\ b \in Int /\ c \in Int /\ y \in Int
    <3>1. w * (i - m + 1) \in Int /\ w * (i + 1) \in Int /\ w * (t + 1 - m) \in Int
      BY Product
    <3> HIDE DEF x
    <3> QED
      BY <1>2, <3>1, Product
  <2>4. a - c = v * i - v * t /\ b - c = v * i + p /\ m * d = y - c /\ a <= y /\ y <= b
    BY <1>4, <1>5, <2>1, <2>2
  <2>5. a - c <= y - c /\ y - c <= b - c
    <3> HIDE DEF a, b, c, y
    <3> QED
      BY <2>3, <2>4
  <2> HIDE DEF a, b, c, y, v, p, d
  <2> QED
    BY <2>4, <2>5
<1>7. m * p = v * t + p /\ m * e = v * hm /\ v * t = v * hm + v * hm - v
  <2>1. m * p = v * t + p
    BY Identity4
  <2>2. m * (h * v) = v * (h * m) /\ v * (2 * h * m - 1) = v * (h * m) + v * (h * m) - v
    <3> HIDE DEF v
    <3> QED
      BY <1>1, Identity5
  <2>3. t = 2 * h * m - 1
    <3>1. 2 * h * m \in Int
      BY Product
    <3> QED
      BY <3>1
  <2> QED
    BY <2>1, <2>2, <2>3
<1> HIDE DEF v, p, e, d, x, hm
<1>8. v * i \in Int /\ v * t \in Int /\ v * hm \in Int /\ m * p \in Int /\ m * e \in Int /\ m * d \in Int
        /\ 0 <= v * i /\ v * i <= v * t /\ 0 <= m * e
  <2>1. \A a, b \in Nat : a * b \in Nat
    OBVIOUS
  <2>2. v * i \in Nat /\ v * t \in Nat /\ v * hm \in Nat /\ m * p \in Nat /\ m * e \in Nat
    BY <1>1, <2>1
  <2>3. m * d \in Int
    BY <1>2, Product
  <2>4. v * i <= v * t
    BY <1>1, Grows
  <2> QED
    BY <2>2, <2>3, <2>4
<1>9. m * (0 - p) = 0 - m * p /\ m * (d + e) = m * d + m * e /\ m * (d - e) = m * d - m * e
  <2>1. \A a, b, c \in Int :
          a * (0 - b) = 0 - a * b /\ a * (c + b) = a * c + a * b /\ a * (c - b) = a * c - a * b
    OBVIOUS
  <2> QED
    BY <1>1, <1>2, <2>1
<1>10. 0 - p <= d /\ d <= p
  <2>1. m * (0 - p) <= m * d /\ m * d <= m * p
    BY <1>1, <1>6, <1>7, <1>8, <1>9
  <2> QED
    BY <1>1, <1>2, <2>1, Cancel
<1>11. CASE i < hm
  <2>1. v * i <= v * hm - v
    <3>1. v * i <= v * (hm - 1)
      BY <1>1, <1>11, Grows
    <3>2. \A a, b \in Int : a * (b - 1) = a * b - a
      OBVIOUS
    <3> QED
      BY <1>1, <3>1, <3>2
  <2>2. m * (d + e) <= m * p
    BY <1>1, <1>6, <1>7, <1>8, <1>9, <2>1
  <2>3. d + e <= p
    BY <1>1, <1>2, <2>2, Cancel
  <2> QED
    BY <1>1, <1>2, <1>10, <1>11, <2>3 DEF Small, p, e, d, v, hm
<1>12. CASE ~(i < hm)
  <2>1. v * hm <= v * i
    BY <1>1, <1>12, Grows
  <2>2. m * (0 - p) <= m * (d - e)
    BY <1>1, <1>6, <1>7, <1>8, <1>9, <2>1
  <2>3. 0 - p <= d - e
    BY <1>1, <1>2, <2>2, Cancel
  <2> QED
    BY <1>1, <1>2, <1>10, <1>12, <2>3 DEF Small, p, e, d, v, hm
<1> QED
  BY <1>11, <1>12
\* A mirrored range i is off by the deviation.
LEMMA Identity6 ==
    \A u, v, g, i, t \in Int : (u - v) * t + (t - i) * v - (u - g) * t = g * t - v * i
OBVIOUS
\* A range of a LIDAR that is upside down is off by a degree less the deviation.
LEMMA Identity7 ==
    \A u, w, g, i, t \in Int :
        (u - (2 * u - w)) * t + i * (2 * u - w) - (g - u) * t = w * t - (g * t - (2 * u - w) * i)
OBVIOUS
\* What half of the bins are apart, less than half a revolution.
LEMMA Identity8 ==
    \A h, m, w, t \in Int : t + 1 = 2 * h * m =>
        (h * m) * (2 * (h * w) - w) = (h * w) * t - h * (w * (m - 1))
OBVIOUS
\* What a flip adds or takes.
LEMMA Identity9 ==
    \A a, c, g, p, q, t, u \in Int :
        /\ c + (a - p) * g - (q + u) * t = c + a * g - q * t - p * g - u * t
        /\ c + (a + p) * g - (q + u) * t = c + a * g - q * t + p * g - u * t
OBVIOUS
\* Two factors of 2.
LEMMA Identity10 ==
    \A u, w, t \in Int : (2 * u) * t = 2 * (u * t) /\ (w * 2) * t = 2 * (w * t) /\ (w * 1) * t = w * t
OBVIOUS

\* The bearing of range k, and that of the node it shows, both times t
RangeTurns(h, w, k, t) == (h * w - (2 * (h * w) - w)) * t + k * (2 * (h * w) - w)
NodeTurns(h, w, g, t, inverted, flip) ==
    ((IF inverted THEN g - h * w ELSE h * w - g) + (IF flip THEN h * w ELSE 0)) * t

\* Mirrored or not, flipped or not: what is off is the deviation, or the deviation from
\* a whole degree, and half a revolution when flipped, which the half of the bins covers
\* but for the part e that the last bins are off.
LEMMA BearingIsNear ==
    ASSUME NEW h \in Nat \ {0}, NEW w \in Nat \ {0}, NEW m \in Nat \ {0}, NEW g \in Nat,
           NEW i \in Nat, NEW t \in Nat \ {0}, t + 1 = 2 * h * m, i <= t,
           NEW inverted \in BOOLEAN, NEW flip \in BOOLEAN,
           Small(w * t, h * (w * (m - 1)), Deviation(h, w, g, i, t), i < h * m)
    PROVE  Apart(RangeTurns(h, w, Applied(i, t + 1, inverted, TRUE, flip), t),
                 NodeTurns(h, w, g, t, inverted, flip), (2 * (h * w)) * t)
             <= (w * (IF inverted \/ flip THEN 2 ELSE 1)) * t
<1> DEFINE u == h * w
           v == 2 * u - w
           e == h * (w * (m - 1))
           p == w * t
           d == Deviation(h, w, g, i, t)
           hm == h * m
           a == IF inverted THEN i ELSE t - i
           c == (u - v) * t
           q == IF inverted THEN g - u ELSE u - g
           k == Applied(i, t + 1, inverted, TRUE, flip)
           B == RangeTurns(h, w, k, t)
           C == NodeTurns(h, w, g, t, inverted, flip)
           x == c + a * v - q * t
           T == (2 * u) * t
           tol == (w * (IF inverted \/ flip THEN 2 ELSE 1)) * t
<1>1. /\ u \in Nat \ {0} /\ hm \in Nat /\ p \in Nat /\ T \in Nat \ {0} /\ T = 2 * (u * t) /\ u * t \in Int
      /\ tol = IF inverted \/ flip THEN 2 * p ELSE p
  <2>1. \A y, z \in Nat \ {0} : y * z \in Nat \ {0}
    OBVIOUS
  <2>2. u \in Nat \ {0} /\ hm \in Nat \ {0} /\ p \in Nat \ {0}
    BY <2>1
  <2>3. T = 2 * (u * t) /\ (w * 2) * t = 2 * (w * t) /\ (w * 1) * t = w * t
    <3> HIDE DEF u
    <3> QED
      BY <2>2, Identity10
  <2>4. u * t \in Nat \ {0} /\ 2 * u \in Nat \ {0}
    <3> HIDE DEF u
    <3> QED
      BY <2>1, <2>2
  <2>5. T \in Nat \ {0}
    <3> HIDE DEF u
    <3> QED
      BY <2>1, <2>4
  <2> QED
    BY <2>2, <2>3, <2>4, <2>5
<1>2. Small(p, e, d, i < hm) /\ 2 * hm = t + 1
  <2>1. 2 * h * m = 2 * (h * m)
    OBVIOUS
  <2> QED
    BY <2>1
<1>3. d = g * t - v * i
  <2>1. 2 * h * w = 2 * (h * w)
    OBVIOUS
  <2> QED
    BY <2>1 DEF Deviation
<1>4. hm * v = u * t - e /\ e \in Nat /\ d \in Int
  BY <1>2, Identity8 DEF Small
<1>5. v \in Int /\ a \in Nat /\ q \in Int /\ a = (IF inverted THEN i ELSE t - i)
  <2> HIDE DEF u
  <2> QED
    BY <1>1
<1>6. c \in Int /\ a * v \in Int /\ q * t \in Int /\ x \in Int
  <2>1. u - v \in Int /\ u \in Int
    <3> HIDE DEF u, v
    <3> QED
      BY <1>1, <1>5
  <2>2. c \in Int /\ a * v \in Int /\ q * t \in Int
    <3> HIDE DEF u, v, a, q
    <3> QED
      BY <1>5, <2>1, Product
  <2> HIDE DEF u, v, a, q, c
  <2> QED
    BY <2>2
<1>7. x = IF inverted THEN p - d ELSE d
  <2>1. CASE inverted
    <3>1. x = (u - v) * t + i * v - (g - u) * t
      BY <2>1
    <3>2. (u - v) * t + i * v - (g - u) * t = w * t - (g * t - v * i)
      <4> HIDE DEF u
      <4> QED
        BY <1>1, Identity7
    <3> QED
      BY <1>3, <2>1, <3>1, <3>2, Zenon
  <2>2. CASE ~inverted
    <3>1. x = (u - v) * t + (t - i) * v - (u - g) * t
      BY <2>2
    <3>2. (u - v) * t + (t - i) * v - (u - g) * t = g * t - v * i
      <4> HIDE DEF u, v
      <4> QED
        BY <1>1, <1>5, Identity6
    <3> QED
      BY <1>3, <2>2, <3>1, <3>2, Zenon
  <2> QED
    BY <2>1, <2>2
<1>8. k = IF ~flip THEN a ELSE IF a >= hm THEN a - hm ELSE a + hm
  <2>1. (t + 1) \div 2 = hm /\ t + 1 - 1 - i = t - i
    <3> HIDE DEF hm
    <3> QED
      BY <1>1, <1>2
  <2>2. a = IF inverted THEN i ELSE t + 1 - 1 - i
    BY <2>1
  <2>3. k = IF ~flip THEN a ELSE IF a >= (t + 1) \div 2 THEN a - (t + 1) \div 2 ELSE a + (t + 1) \div 2
    <3>1. k = Applied(i, t + 1, inverted, TRUE, flip) /\ t + 1 \in Int
      OBVIOUS
    <3> DEFINE n == t + 1
    <3>2. a = IF inverted THEN i ELSE n - 1 - i
      BY <2>2
    <3>3. k = Applied(i, n, inverted, TRUE, flip)
      BY <3>1
    <3> HIDE DEF hm, a, k, n
    <3>4. k = IF ~flip THEN a ELSE IF a >= n \div 2 THEN a - n \div 2 ELSE a + n \div 2
      <4>1. CASE inverted
        BY <3>2, <3>3, <4>1 DEF Applied
      <4>2. CASE ~inverted
        BY <3>2, <3>3, <4>2 DEF Applied
      <4> QED
        BY <4>1, <4>2
    <3> QED
      BY <3>4 DEF n
  <2> QED
    BY <2>1, <2>3
<1>9. a >= hm <=> (IF inverted THEN ~(i < hm) ELSE i < hm)
  <2> HIDE DEF hm
  <2> QED
    BY <1>1, <1>2
<1>10. B = c + k * v /\ C = (q + (IF flip THEN u ELSE 0)) * t
  BY DEF RangeTurns, NodeTurns
<1> HIDE DEF u, v, e, p, d, hm, a, q, k, B, C, T, tol
<1>11. (B - C = x /\ B \in Int /\ C \in Int) \/ flip
  <2>1. CASE ~flip
    <3>1. B = c + a * v /\ C = q * t
      <4>1. q + 0 = q /\ k = a
        BY <1>5, <1>8, <2>1
      <4> QED
        BY <1>10, <2>1, <4>1
    <3> HIDE DEF c
    <3> QED
      BY <1>6, <3>1
  <2> QED
    BY <2>1
<1>12. ASSUME flip PROVE B \in Int /\ C \in Int /\ B - C = IF a >= hm THEN x + e - T ELSE x - e
  <2>1. C = (q + u) * t /\ q + u \in Int /\ C \in Int
    <3>1. C = (q + u) * t /\ q + u \in Int
      BY <1>1, <1>5, <1>10, <1>12
    <3> QED
      BY <3>1, Product
  <2>2. CASE a >= hm
    <3>1. B = c + (a - hm) * v /\ a - hm \in Int
      BY <1>1, <1>5, <1>8, <1>10, <1>12, <2>2
    <3>2. (a - hm) * v \in Int
      BY <1>5, <3>1, Product
    <3>3. B - C = x - hm * v - u * t
      <4> HIDE DEF c
      <4> QED
        BY <1>1, <1>5, <1>6, <2>1, <3>1, Identity9
    <3> HIDE DEF x, c
    <3> QED
      BY <1>1, <1>4, <1>6, <2>1, <2>2, <3>1, <3>2, <3>3
  <2>3. CASE ~(a >= hm)
    <3>1. B = c + (a + hm) * v /\ a + hm \in Int
      BY <1>1, <1>5, <1>8, <1>10, <1>12, <2>3
    <3>2. (a + hm) * v \in Int
      BY <1>5, <3>1, Product
    <3>3. B - C = x + hm * v - u * t
      <4> HIDE DEF c
      <4> QED
        BY <1>1, <1>5, <1>6, <2>1, <3>1, Identity9
    <3> HIDE DEF x, c
    <3> QED
      BY <1>1, <1>4, <1>6, <2>1, <2>3, <3>1, <3>2, <3>3
  <2> QED
    BY <2>2, <2>3
<1> HIDE DEF x, c
<1>13. /\ B \in Int /\ C \in Int
       /\ \E z \in {0, 1} : 0 - tol <= B - C + z * T /\ B - C + z * T <= tol
  <2>1. B \in Int /\ C \in Int
    BY <1>11, <1>12
  <2>2. CASE flip /\ a >= hm
    <3>1. 0 - tol <= B - C + 1 * T /\ B - C + 1 * T <= tol
      BY <1>1, <1>2, <1>4, <1>6, <1>7, <1>9, <1>12, <2>2 DEF Small
    <3> QED
      BY <2>1, <3>1
  <2>3. CASE ~(flip /\ a >= hm)
    <3>1. 0 - tol <= B - C + 0 * T /\ B - C + 0 * T <= tol
      BY <1>1, <1>2, <1>4, <1>6, <1>7, <1>9, <1>11, <1>12, <2>3 DEF Small
    <3> QED
      BY <2>1, <3>1
  <2> QED
    BY <2>2, <2>3
<1>14. Apart(B, C, T) <= tol
  <2>1. tol \in Int
    BY <1>1
  <2>2. PICK z \in {0, 1} : 0 - tol <= B - C + z * T /\ B - C + z * T <= tol
    BY <1>13
  <2>3. z \in Int
    OBVIOUS
  <2> QED
    BY <1>1, <1>13, <2>1, <2>2, <2>3, NearIs, Zenon
<1> QED
  BY <1>14 DEF B, C, T, tol, k, u

(***************************************************************************)
(* The measurements are at their bearings.                                 *)
(***************************************************************************)
\* half the bins of a revolution, and how wide a bin of a degree is
Units(h, w) ==
    /\ h \in Nat \ {0} /\ w \in Nat \ {0}
    /\ Full = 2 * h * w /\ Full = 2 * (h * w) /\ BinCount = 2 * h * Multiple
    /\ Full \div Bins = w /\ Full \div 2 = h * w

\* A degree has its own bins, and there is an even number of degrees.
LEMMA UnitsExist == \E h, w \in Nat \ {0} : Units(h, w)
<1> DEFINE h == Bins \div 2
           w == Full \div Bins
<1>1. h \in Nat \ {0} /\ Bins = 2 * h
  <2>1. \A x \in Nat \ {0} : x % 2 = 0 => x \div 2 \in Nat \ {0} /\ x = 2 * (x \div 2)
    OBVIOUS
  <2> QED
    BY <2>1, ScanDataAssumption
<1>2. w \in Nat \ {0} /\ Full = Bins * w
  <2>1. \A x, y \in Nat \ {0} : x % y = 0 => x \div y \in Nat /\ x = y * (x \div y)
    OBVIOUS
  <2>2. w \in Nat /\ Full = Bins * w
    BY <2>1, ScanDataAssumption
  <2>3. \A x \in Nat : x * 0 = 0
    OBVIOUS
  <2> HIDE DEF w
  <2> QED
    BY <2>2, <2>3, ScanDataAssumption
<1> HIDE DEF h
<1>3. Full = 2 * h * w /\ BinCount = 2 * h * Multiple
  <2> HIDE DEF w
  <2> QED
    BY <1>1, <1>2 DEF BinCount
<1>4. Full = 2 * (h * w)
  <2>1. \A x, y \in Int : 2 * x * y = 2 * (x * y)
    OBVIOUS
  <2> HIDE DEF w
  <2> QED
    BY <1>1, <1>2, <1>3, <2>1
<1>5. Full \div 2 = h * w
  <2>1. \A x \in Int : (2 * x) \div 2 = x
    OBVIOUS
  <2>2. \A x, y \in Nat : x * y \in Int
    OBVIOUS
  <2> HIDE DEF w
  <2>3. h * w \in Int
    BY <1>1, <1>2, <2>2
  <2> QED
    BY <1>4, <2>1, <2>3
<1>6. Full \div Bins = w
  OBVIOUS
<1> HIDE DEF w
<1> QED
  BY <1>1, <1>2, <1>3, <1>4, <1>5, <1>6 DEF Units

\* A node is off by little in every bin that it fills, the last ones included, where
\* BinsOf ends (the bins of angle_compensate_multiple in work_loop).
LEMMA BinsNear ==
    ASSUME NEW h, NEW w, Units(h, w), NEW node \in Nodes, NEW b \in BinsOf(node),
           NEW t, t = BinCount - 1
    PROVE  /\ t \in Nat \ {0} /\ b \in Nat /\ b <= t
           /\ Small(w * t, h * (w * (Multiple - 1)), Deviation(h, w, node.angle, b, t), b < h * Multiple)
<1> DEFINE g == node.angle
           q == Bin(node)
           m == Multiple
<1>1. h \in Nat \ {0} /\ w \in Nat \ {0} /\ m \in Nat \ {0} /\ g \in Nat /\ g < Full /\ BinCount \in Nat \ {0}
  BY ScanDataAssumption, BinCountIs DEF Units, Nodes
<1>2. BinCount = 2 * h * m /\ Full = 2 * h * w
  BY DEF Units
<1>3. t \in Nat \ {0} /\ t + 1 = 2 * h * m
  <2>1. \A x, y \in Nat \ {0} : 2 * x * y - 1 \in Nat \ {0}
    <3>1. \A x, y \in Nat \ {0} : x * y \in Nat \ {0} /\ 2 * x * y = 2 * (x * y)
      OBVIOUS
    <3> QED
      BY <3>1
  <2>2. 2 * h * m - 1 \in Nat \ {0}
    BY <1>1, <2>1
  <2> QED
    BY <1>1, <1>2, <2>2
<1>4. q = (g * (2 * h * m)) \div (2 * h * w) /\ q \in Int
  <2>1. q = (g * BinCount) \div Full
    BY DEF Bin
  <2>2. \A x, y \in Nat, z \in Nat \ {0} : (x * y) \div z \in Int
    OBVIOUS
  <2>3. q \in Int
    BY <1>1, <2>1, <2>2, ScanDataAssumption
  <2> QED
    BY <1>2, <2>1, <2>3
<1> HIDE DEF q, m, g
<1>5. w * q <= m * g /\ m * g < w * q + w
  BY <1>1, <1>4, BinOfAngle
<1>6. q < t + 1
  <2>1. m * g < w * (t + 1)
    <3>1. \A x, y \in Nat, z \in Nat \ {0} : x < y => z * x < z * y
      OBVIOUS
    <3>2. m * g < m * (2 * h * w)
      BY <1>1, <1>2, <3>1, ScanDataAssumption
    <3>3. \A x, y, z \in Int : x * (2 * y * z) = z * (2 * y * x)
      OBVIOUS
    <3>4. m * (2 * h * w) = w * (2 * h * m)
      BY <1>1, <3>3
    <3> QED
      BY <1>3, <3>2, <3>4
  <2>2. w * q \in Int /\ w * (t + 1) \in Int /\ m * g \in Int
    BY <1>1, <1>3, <1>4, Product
  <2>3. w * q < w * (t + 1)
    BY <1>5, <2>1, <2>2
  <2> QED
    BY <1>1, <1>3, <1>4, <2>3, CancelStrict
<1>7. q >= 0
  <2>1. \A x \in Int, y \in Nat \ {0} : y * 0 = 0 /\ y * x + y = y * (x + 1)
    OBVIOUS
  <2>2. \A x, y \in Nat : x * y >= 0 /\ x * y \in Int
    OBVIOUS
  <2>3. w * 0 < w * (q + 1)
    <3>1. w * 0 = 0 /\ w * q + w = w * (q + 1) /\ m * g >= 0 /\ m * g \in Int
      BY <1>1, <1>4, <2>1, <2>2
    <3>2. w * (q + 1) \in Int
      BY <1>1, <1>4, Product
    <3> QED
      BY <1>5, <3>1, <3>2
  <2>4. 0 < q + 1
    BY <1>1, <1>4, <2>3, CancelStrict
  <2> QED
    BY <1>4, <2>4
<1>8. b \in Nat /\ b <= t /\ q <= b /\ b <= q + m - 1
  <2>1. PICK j \in 0 .. m - 1 : b = IF q + j < BinCount THEN q + j ELSE BinCount - 1
    BY DEF BinsOf, q, m
  <2> QED
    BY <1>1, <1>3, <1>4, <1>6, <1>7, <2>1
<1>9. Small(w * t, h * (w * (m - 1)), Deviation(h, w, g, b, t), b < h * m)
  BY <1>1, <1>3, <1>4, <1>5, <1>8, DeviationIsSmall, Zenon
<1> QED
  BY <1>3, <1>8, <1>9 DEF m, g

\* range k of the message is where its node is, up to the tolerance
AtBearing(scan, k, inverted, flip) ==
    LET times == Size(scan) - 1
        bearing == (IF inverted THEN scan.ranges[k].angle - Full \div 2
                    ELSE Full \div 2 - scan.ranges[k].angle) + (IF flip THEN Full \div 2 ELSE 0)
    IN  Apart(BearingTimes(scan, k), bearing * times, Full * times)
          <= ((Full \div Bins) * (IF inverted \/ flip THEN 2 ELSE 1)) * times

\* A message made of the bins shows each node at its bearing.
LEMMA CompensatedAtBearing ==
    ASSUME NEW a \in Seq(Nodes), NEW inverted \in BOOLEAN, NEW flip \in BOOLEAN,
           NEW scan, scan = LaserScan(Compensated(a), inverted, flip, 0, FullScan),
           NEW k \in DOMAIN scan.ranges, scan.ranges[k].dist # 0
    PROVE  AtBearing(scan, k, inverted, flip)
<1> DEFINE c == Compensated(a)
           n == BinCount
           r == scan.ranges
           t == n - 1
           m == Multiple
<1>1. PICK h \in Nat \ {0}, w \in Nat \ {0} : Units(h, w)
  BY UnitsExist
<1>2. /\ c \in Seq(Nodes) /\ Len(c) = n
      /\ \A b \in 1 .. n : Falls(a, b, c[b])
  BY CompensatedIs
<1>3. n \in Nat \ {0} /\ Full = 2 * h * w /\ Full = 2 * (h * w) /\ n = 2 * h * m
        /\ Full \div Bins = w /\ Full \div 2 = h * w
  BY <1>1, BinCountIs DEF Units
<1>4. FullScan = 2 * (h * w) - w /\ FullScan > 0 /\ h * w \in Int
  <2>1. \A x, y \in Nat \ {0} : 2 * (x * y) - y > 0 /\ x * y \in Int
    <3>1. \A x, y \in Nat \ {0} : x * y >= y /\ x * y \in Int
      OBVIOUS
    <3> QED
      BY <3>1
  <2>2. FullScan = 2 * (h * w) - w
    BY <1>3 DEF FullScan
  <2> QED
    BY <1>1, <2>1, <2>2
<1> HIDE DEF c, n
<1>5. Ranges(c, r, inverted, TRUE, flip)
  <2>1. Ranges(c, r, inverted, FullScan > 0, flip)
    BY <1>2, RangesAre DEF c
  <2> QED
    BY <1>4, <2>1
<1>6. r[k] # Nothing /\ k \in 0 .. n - 1
  BY <1>2, <1>5 DEF Ranges, Nothing
<1>7. PICK i \in 0 .. n - 1 : Applied(i, n, inverted, TRUE, flip) = k /\ r[k] = c[i + 1]
  BY <1>2, <1>5, <1>6 DEF Ranges
<1>8. Falls(a, i + 1, c[i + 1]) /\ i + 1 - 1 = i
  BY <1>2, <1>3
<1>9. PICK v \in Valid(a) : r[k] = a[v] /\ i \in BinsOf(a[v])
  BY <1>6, <1>7, <1>8 DEF Falls
<1>10. a[v] \in Nodes
  BY NodesAre DEF Valid
<1> DEFINE g == r[k].angle
<1>11. /\ t \in Nat \ {0} /\ i \in Nat /\ i <= t /\ g \in Nat
       /\ Small(w * t, h * (w * (m - 1)), Deviation(h, w, g, i, t), i < h * m)
  <2>1. /\ t \in Nat \ {0} /\ i \in Nat /\ i <= t
        /\ Small(w * t, h * (w * (m - 1)), Deviation(h, w, a[v].angle, i, t), i < h * m)
    BY <1>1, <1>9, <1>10, BinsNear DEF n
  <2>2. g \in Nat /\ g = a[v].angle
    BY <1>9, <1>10 DEF Nodes
  <2> HIDE DEF g
  <2> QED
    BY <2>1, <2>2
<1>12. t + 1 = n /\ t + 1 = 2 * h * m /\ m \in Nat \ {0}
  BY <1>3, ScanDataAssumption
<1> HIDE DEF g, t, m, r
<1>13. Apart(RangeTurns(h, w, k, t), NodeTurns(h, w, g, t, inverted, flip), (2 * (h * w)) * t)
         <= (w * (IF inverted \/ flip THEN 2 ELSE 1)) * t
  <2>1. k = Applied(i, t + 1, inverted, TRUE, flip)
    BY <1>7, <1>12
  <2> QED
    BY <1>1, <1>11, <1>12, <2>1, BearingIsNear, Zenon
<1>14. Size(scan) - 1 = t
  <2>1. DOMAIN scan.ranges = 0 .. n - 1
    BY <1>2, <1>5 DEF Ranges, r
  <2>2. Cardinality(0 .. n - 1) = n - 1 - 0 + 1
    <3>1. 0 \in Int /\ n - 1 \in Int /\ ~(0 > n - 1)
      BY <1>3
    <3>2. Cardinality(0 .. n - 1) = IF 0 > n - 1 THEN 0 ELSE n - 1 - 0 + 1
      BY <3>1, FS_Interval, Zenon
    <3> QED
      BY <3>1, <3>2
  <2> QED
    BY <1>3, <2>1, <2>2 DEF Size, t
<1>15. scan.min = h * w - (2 * (h * w) - w) /\ scan.max - scan.min = 2 * (h * w) - w
  <2>1. scan.min = h * w - FullScan /\ scan.max = h * w - 0
    BY <1>3, <1>4 DEF LaserScan
  <2> QED
    BY <1>1, <1>4, <2>1
<1>16. BearingTimes(scan, k) = RangeTurns(h, w, k, t)
  BY <1>14, <1>15 DEF BearingTimes, RangeTurns
<1> QED
  BY <1>3, <1>13, <1>14, <1>16 DEF AtBearing, NodeTurns, g, r

\* whatever the message shows is at its bearing
AllAtBearing(nodes, c) ==
    \A k \in DOMAIN Published(nodes, c).ranges :
        Published(nodes, c).ranges[k].dist # 0 => AtBearing(Published(nodes, c), k, c.inverted, c.flip)

\* If nothing was measured nothing is shown; otherwise the message is made of the bins.
LEMMA PublishedAtBearing ==
    ASSUME NEW nodes \in Seq(Nodes), NEW c \in Configs, c.compensate
    PROVE  AllAtBearing(nodes, c)
<1> DEFINE a == Ascended(nodes)
           p == Published(nodes, c)
<1> SUFFICES ASSUME NEW k \in DOMAIN p.ranges, p.ranges[k].dist # 0
             PROVE  AtBearing(p, k, c.inverted, c.flip)
  BY DEF AllAtBearing
<1>1. c.inverted \in BOOLEAN /\ c.flip \in BOOLEAN
  BY ConfigsAssumption
<1>2. CASE ~Ascends(nodes)
  <2>1. p.ranges[k] \in Measured(nodes)
    BY PublishedShows DEF ShowsNodes, RangesShown
  <2>2. Measured(nodes) = {}
    BY <1>2 DEF Measured, Ascends
  <2> QED
    BY <2>1, <2>2
<1>3. CASE Ascends(nodes)
  <2>1. p = LaserScan(Compensated(a), c.inverted, c.flip, 0, FullScan)
    BY <1>3 DEF Published
  <2>2. a \in Seq(Nodes)
    BY <1>3, AscendedIs DEF SameMeasured
  <2> HIDE DEF a, p
  <2> QED
    BY <1>1, <2>1, <2>2, CompensatedAtBearing
<1> QED
  BY <1>2, <1>3

\* With the compensation every measurement is published within the tolerance of its own
\* bearing, for every resolution of the bins and for each way the LIDAR is mounted
\* (work_loop, publish_scan).
THEOREM BearingCorrect == Spec => []RangesAtTheirBearing
<1>1. OutInv => RangesAtTheirBearing
  <2> SUFFICES ASSUME OutInv, config.compensate, NEW i \in DOMAIN out,
                      NEW k \in DOMAIN out[i].scan.ranges, out[i].scan.ranges[k].dist # 0
               PROVE  Apart(BearingTimes(out[i].scan, k),
                            Bearing(out[i].scan.ranges[k].angle) * (Size(out[i].scan) - 1),
                            Full * (Size(out[i].scan) - 1))
                        <= Tolerance * (Size(out[i].scan) - 1)
    BY DEF RangesAtTheirBearing
  <2>1. out[i].nodes \in Seq(Nodes) /\ out[i].scan = Published(out[i].nodes, config) /\ config \in Configs
    BY ScansAssumption DEF OutInv
  <2>2. AllAtBearing(out[i].nodes, config)
    BY <2>1, PublishedAtBearing
  <2>3. AtBearing(out[i].scan, k, config.inverted, config.flip)
    BY <2>1, <2>2 DEF AllAtBearing
  <2> QED
    BY <2>3 DEF AtBearing, Bearing, Tolerance
<1> QED
  BY <1>1, InitOut, NextOut, PTL DEF Spec
=============================================================================
