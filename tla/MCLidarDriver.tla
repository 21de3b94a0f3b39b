--------------------------- MODULE MCLidarDriver ---------------------------
EXTENDS LidarDriver

\* An A2 with old firmware on an accessory board that drives the motor, and an S series
\* LIDAR.
Kind(conf, rate, board, support, std, ethernet) ==
    [conf |-> conf, rate |-> rate, board |-> board, support |-> support, std |-> std,
     ethernet |-> ethernet]
MCDevices == {
    Kind(FALSE, TRUE, TRUE, "pwm", FALSE, FALSE),
    Kind(TRUE, TRUE, TRUE, "rpm", FALSE, TRUE)}
=============================================================================
