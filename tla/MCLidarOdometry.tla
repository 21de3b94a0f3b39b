-------------------------- MODULE MCLidarOdometry --------------------------
EXTENDS LidarOdometry

Config(c, i, f, s) == [compensate |-> c, inverted |-> i, flip |-> f, standby |-> s]
\* that of rplidar.yaml, and the others of which each branch needs one
MCConfigs == {Config(TRUE, FALSE, FALSE, FALSE), Config(TRUE, TRUE, TRUE, TRUE),
              Config(FALSE, FALSE, TRUE, FALSE)}
\* three nodes, all of them invalid or at most one
Places == <<11, 0, 8>>
Distances == {<<0, 0, 0>>, <<1, 1, 1>>, <<0, 1, 1>>, <<1, 0, 1>>, <<1, 1, 0>>}
MCScans == {[i \in DOMAIN Places |-> [angle |-> Places[i], dist |-> d[i]]] : d \in Distances}
=============================================================================
