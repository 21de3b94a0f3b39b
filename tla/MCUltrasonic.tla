---------------------------- MODULE MCUltrasonic ----------------------------
EXTENDS Ultrasonic

\* a free way, without an echo on the right; an obstacle on the left; in both the
\* centre is out of range and looks like START or STOP
MCEchoes == {<<100, 202, 0>>, <<10, 203, 100>>}
=============================================================================
