------------------------------ MODULE ScanData ------------------------------
(***************************************************************************)
(* What happens to a scan between the driver and the topic /scan:          *)
(* ascendScanData_ (sl_lidar_driver.cpp) puts the nodes in the order of    *)
(* their angles, RPlidarNode (rplidar_node.cpp) spreads them over bins of  *)
(* equal width, or cuts off the invalid ends, and turns them into the      *)
(* ranges of a LaserScan.                                                  *)
(*                                                                         *)
(* A node is [angle, dist]; dist 0 means that nothing was measured.  Angles*)
(* are in units of which Full make a revolution, Full a multiple of every  *)
(* number of nodes, so that the floats of the code are integers.  A        *)
(* sequence of nodes is indexed from 1, a LaserScan from 0.                *)
(***************************************************************************)
EXTENDS Integers, SequencesExt

CONSTANTS
    Full,       \* units of angle in a revolution
    Bins,       \* bins of a revolution (360)
    Multiple    \* angle_compensate_multiple

ASSUME ScanDataAssumption ==
    /\ Full \in Nat \ {0} /\ Bins \in Nat \ {0} /\ Multiple \in Nat \ {0}
    /\ Full % Bins = 0 /\ Bins % 2 = 0

\* angle_z_q14 has 16 bits for a revolution
Nodes == [angle : 0 .. Full - 1, dist : Nat]

Valid(nodes) == {i \in DOMAIN nodes : nodes[i].dist # 0}
Measured(nodes) == {nodes[i] : i \in Valid(nodes)}
First(S) == CHOOSE i \in S : \A j \in S : i <= j
Final(S) == CHOOSE i \in S : \A j \in S : j <= i

(***************************************************************************)
(* ascendScanData_.  It fails if nothing is valid, and leaves the nodes as *)
(* they are then.  The angles that it guesses for the invalid nodes behind *)
(* the first are guessed again from the first.                             *)
(***************************************************************************)
Ascends(nodes) == Valid(nodes) # {}
Step(nodes) == Full \div Len(nodes)
FrontAngle(nodes) ==
    LET f == First(Valid(nodes))
        expected == nodes[f].angle - (f - 1) * Step(nodes)
    IN  IF expected < 0 THEN 0 ELSE expected
\* mutant: the guess starts at the node that was found valid
FilledFromFirst(nodes) ==
    [i \in DOMAIN nodes |->
        IF nodes[i].dist # 0 /\ i # First(Valid(nodes)) THEN nodes[i]
        ELSE [nodes[i] EXCEPT !.angle = (FrontAngle(nodes) + i * Step(nodes)) % Full]]
Filled(nodes) ==
    [i \in DOMAIN nodes |->
        IF nodes[i].dist # 0 THEN nodes[i]
        ELSE [nodes[i] EXCEPT !.angle = (FrontAngle(nodes) + (i - 1) * Step(nodes)) % Full]]
\* std::sort by the angle; it leaves open the order of nodes of the same angle, which
\* stay in theirs here
Precedes(s, i, j) == s[i].angle < s[j].angle \/ (s[i].angle = s[j].angle /\ i < j)
PlaceOf(s, i) == 1 + Cardinality({j \in DOMAIN s : Precedes(s, j, i)})
Sorted(s) == [k \in DOMAIN s |-> s[CHOOSE i \in DOMAIN s : PlaceOf(s, i) = k]]
Ascended(nodes) == Sorted(Filled(nodes))

(***************************************************************************)
(* The node: the bins of the angle compensation, the last node that falls  *)
(* into a bin counts; or the nodes from the first valid to the last.       *)
(***************************************************************************)
Nothing == [angle |-> 0, dist |-> 0]
BinCount == Bins * Multiple
Bin(node) == (node.angle * BinCount) \div Full
\* mutant: a node fills the bin of the next degree too
BinsWide(node) == {IF Bin(node) + j < BinCount THEN Bin(node) + j ELSE BinCount - 1 :
                      j \in 0 .. 2 * Multiple}
BinsOf(node) == {IF Bin(node) + j < BinCount THEN Bin(node) + j ELSE BinCount - 1 :
                    j \in 0 .. Multiple - 1}
Compensated(nodes) ==
    [b \in 1 .. BinCount |->
        LET hits == {i \in Valid(nodes) : b - 1 \in BinsOf(nodes[i])}
        IN  IF hits = {} THEN Nothing ELSE nodes[Final(hits)]]
Trimmed(nodes) == SubSeq(nodes, First(Valid(nodes)), Final(Valid(nodes)))

(***************************************************************************)
(* publish_scan: the angles of the LIDAR run clockwise from the back, those*)
(* of a LaserScan counterclockwise.  A range of 0 in the nodes is infinity *)
(* in the message.                                                         *)
(***************************************************************************)
Applied(i, n, inverted, reversed, flip) ==
    LET a == IF inverted # reversed THEN n - 1 - i ELSE i
    IN  IF ~flip THEN a ELSE IF a >= n \div 2 THEN a - n \div 2 ELSE a + n \div 2
\* ranges: the node behind each range; an index that no node is applied to keeps 0.0.
\* The intensities are left out (no node of this repository reads them); they are not
\* turned as the ranges are, but taken from the node at the index of the range.
LaserScan(nodes, inverted, flip, angleMin, angleMax) ==
    LET n == Len(nodes)
        reversed == angleMax > angleMin
        source(k) == {i \in 0 .. n - 1 : Applied(i, n, inverted, reversed, flip) = k}
    IN  [min |-> Full \div 2 - (IF reversed THEN angleMax ELSE angleMin),
         max |-> Full \div 2 - (IF reversed THEN angleMin ELSE angleMax),
         ranges |-> [k \in 0 .. n - 1 |->
             IF source(k) = {} THEN Nothing ELSE nodes[Final(source(k)) + 1]]]
Size(scan) == Cardinality(DOMAIN scan.ranges)
\* where a user of the message sees range k, times the number of intervals
BearingTimes(scan, k) == scan.min * (Size(scan) - 1) + k * (scan.max - scan.min)

FullScan == Full - Full \div Bins       \* 359 degrees
Published(nodes, config) ==
    LET a == Ascended(nodes)
        t == Trimmed(a)
    IN  CASE ~Ascends(nodes) ->
               LaserScan(nodes, config.inverted, config.flip, 0, FullScan)
          [] Ascends(nodes) /\ config.compensate ->
               LaserScan(Compensated(a), config.inverted, config.flip, 0, FullScan)
          [] OTHER ->
               LaserScan(t, config.inverted, config.flip, t[1].angle, t[Len(t)].angle)
=============================================================================
