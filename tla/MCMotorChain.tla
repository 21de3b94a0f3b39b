---------------------------- MODULE MCMotorChain ----------------------------
EXTENDS MotorChain

\* The e-stop input of twist_mux has the shorter timeout (twist_mux.yaml).
CONSTANTS CommandTimeout, StopTimeout
MCMuxTimeout == [i \in Inputs |-> IF i = "estop" THEN StopTimeout ELSE CommandTimeout]
=============================================================================
