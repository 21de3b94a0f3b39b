# Verification of the RoboFlock workspace

TLA+ models of the software of the FleetBot: what the robot drives to and how
a GPS position becomes a target (`src/src/bring_up`, `src/src/beacon_pkg`), who
may move the motors, how an obstacle that the ultrasonic sensors see stops them
(`src/src/ultrasonic_pkg`), how the LIDAR's bytes become scans and the
odometry of the robot (`src/src/rplidar_ros`, `src/src/rf2o_laser_odometry`),
and what the bridge to the mesh radio keeps up while it loses its connection.
TLC checks the models on small instances, TLAPS proves most of their safety
properties for every value of the constants.

## Inventory

The project's own nodes are single processes with one single threaded executor,
so a callback is atomic; concurrency lies between nodes (topics, services,
actions), in the asynchronous calls whose answers come back as callbacks, in
timers, in processes that die, and in USB devices that go away. The LIDAR
driver is the exception: its SDK runs a receiving and a decoding thread beside
the thread of the node, with four locks and two events between them. So is
`meshtastic_bridge`, whose library calls it on a thread of its own.

| Component | State | Operations | Talks to |
|---|---|---|---|
| `mission_manager` | mode, goal phase, mode of the goal, last target times, retry time, goal handle | target, command, enable service, 0.2 s tick, goal response, goal result | targets from the goal poses; `NavigateToPose` and `/goal_update` of Nav2; commands from the mesh bridge |
| Nav2 (external) | goals executing | accept, reject, cancel, end, die, start | `/cmd_vel` to `twist_mux` |
| `beacon_goalpose` (also run as `home_goalpose`) | newest fix, generations, pending request, GPS odometry | fix, odometry, 50 ms tick, response | `/fromLL` of navsat_transform; targets to `mission_manager` |
| `e_stop` | latch, time of last `/joy` | joy, 50 ms heartbeat | `/e_stop` to the motor controller |
| `ps4_teleop` | speeds | joy | `/cmd_vel_joy` |
| `ultrasonic_estop` | close counts, reading times | range, 10 Hz check | `/cmd_vel_estop` |
| `twist_mux` (external, configured here) | last command time of each input | command | `/cmd_vel_mux` |
| `diff_drive_controller` | stopped, moving, times of last messages; the ODrives' axes | e_stop, cmd_vel, 0.1 s watchdog, exit | four ODrives over USB |
| `ultrasonic_publisher`, `ultrasonic_usb` | timer, parameters, serial port, last data | timer: request, read, publish; parameter batches | Arduino; `/range/...` to `ultrasonic_estop` |
| RPLIDAR SDK: driver | connection, motor support, waiting type, last answer, holder of scans | connect, disconnect, start, stop, requests, grab; messages decoded | link below, unpacker, `rplidar_node` |
| RPLIDAR SDK: link | channel, two threads, queue, codec | open, close, negotiate; receive, decode, listen | serial port or socket; driver and unpacker |
| RPLIDAR SDK: unpacker | active handler; buffer, cached capsule and sync bit of each handler | enable, disable, data of an answer type | measurement nodes to the driver's holder |
| `rplidar_node` | scanning, tuning, parameters | the loop: standby, grab, publish, services | driver; `/scan` |
| `rf2o_laser_odometry` | last scan, pyramid of two scans, pose, speed, times | scan callback, process at its rate | `/scan`; `/odom_rf2o` to the EKF |
| `meshtastic_bridge` | interface, home position, last status | receive and lost events (another thread), 1 Hz republish, 5 s reconnect, status | mesh radio; `/home/fix`, `/station/command` |
| `gps_monitor`, `bno085_imu` | health; device | checks, polls | logs; `/imu/data` |
| simulation, launch files, test and configuration scripts | | | |
| `ros2_mpu9250_driver`, `rplidar_client` | | | `/imu/data` |

What is hard, and therefore modelled first: the life of a Nav2 goal against
mode changes, lost targets and deaths of either side; conversions whose answers
come late, never, or after a newer fix; a stop that must win over everything in
whatever order messages come, through a dying `e_stop`, a dying controller and
boards that drop out in the middle of a loop. In the sensor chain: answers that
come late or in pieces, across two threads; a stream that loses bytes and whose
frames are only worth something in pairs; scans that are grabbed while another
scan starts; index arithmetic on angles; losses of a connection that are reported
on another thread, too early or too late. `PROJECT.json` lists these
hazards one by one at their lines, including those no model covers yet.

What makes the components correct:

- **mission_manager**: at most one goal of this process is on its way, and the
  phase is that of the goal; a cancel is really sent; the goal is moved only by
  its own mode's target; obsolete and stale goals end; what is wanted is pursued.
- **goal poses**: one conversion at a time; only the newest fix is published; no
  silence of navsat blocks later fixes; no newest fix is forgotten.
- **e_stop and motors**: enabled only while the latch is open; idle in time when
  the operator, the joystick or `e_stop` is gone; standing in time without
  commands or in front of an obstacle; idle after an exit.
- **ultrasonic chain**: what is published was measured, for that sensor, by the
  last request that was answered, and one wrong echo stops nothing, both as long as
  at most one answer came late; an obstacle stops the robot in time; the readings go
  on after every loss but that of a whole request or answer, after which they do not.
- **LIDAR link**: the messages heard are the messages sent; closing returns.
- **LIDAR driver**: a grabbed scan is one revolution of the scan started last, as
  long as the delays of the driver are long enough for the line to settle; an answer is not that of an earlier request, and is not missed; no deadlock.
- **unpacker**: no interpolation over a frame that came damaged or in part (one that
  is lost whole goes unnoticed) or into an earlier scan; one sync bit per revolution.
- **LIDAR node and odometry**: a range stands at the bearing where it was
  measured; the pose follows the scans whatever is lost between them.
- **mesh bridge**: an interface that is lost is dropped and replaced; the home
  position on `/home/fix` is recent and keeps coming; statuses are spaced.

## Modules

| Module | Models | Notes |
|---|---|---|
| `Pursuit` | what mission manager and Nav2 promise together | abstract specification: commit, drive, halt, release |
| `MissionManager` | `mission_manager.py`; Nav2 and discovery as its client sees them | implements `Pursuit` |
| `MissionManager_proofs` | theorems | |
| `MCMissionManager` | constants for TLC | |
| `GoalPose` | `beacon_goalpose.cpp`; navsat_transform | |
| `GoalPose_proofs` | theorems | |
| `DiffDrive` | `diff_drive_controller.py`, the axes and USB connections of its boards | |
| `EStop` | `e_stop.py` | a component of `MotorChain` |
| `MotorChain` | joy_node, `e_stop`, `ps4_teleop`, the timer of `ultrasonic_estop`, `twist_mux`, `diff_drive_controller`, wired as in `bringup.launch.py` | EXTENDS `DiffDrive`, composes `EStop` with INSTANCE |
| `MCNodes` | `GoalPose` and `DiffDrive`, which share nothing, each while the other rests | one run for two components |
| `MotorChain_proofs` | theorems about `DiffDrive` and `MotorChain` | |
| `MCMotorChain` | constants for TLC | |
| `MeshBridge` | `meshtastic_bridge.py`; the radio and its library as the bridge sees them | model-checked directly |
| `MeshBridge_proofs` | theorems | |
| `Ultrasonic`, `MCUltrasonic` | the Arduino and its serial line, `ultrasonic_usb.cpp`, `ultrasonic_publisher.cpp`, `ultrasonic_estop.py` | |
| `ScanHolder` | `ScanDataHolder` of the SDK | operators on one record |
| `LidarDriver`, `MCLidarDriver` | `sl_lidar_driver.cpp`, its callers, the decoder thread and the device | EXTENDS `ScanHolder` |
| `LidarDriver_proofs` | theorems | |
| `ByteStream` | a pipe of bytes: what goes in comes out in order, or its end is lost | abstract specification |
| `LidarLink`, `MCLidarLink` | channels (serial, TCP, UDP), transceiver and codec of the SDK | implements `ByteStream` |
| `LidarLink_proofs` | theorems | |
| `Unpacker`, `MCUnpacker` | `dataunpacker.cpp` and its handlers | |
| `Unpacker_proofs` | theorems | |
| `ScanData` | `ascendScanData_`, compensation, trimming, `publish_scan` | pure operators |
| `LidarNode` | `rplidar_node.cpp` above the driver's interface | EXTENDS `ScanData` |
| `LaserOdometry` | `CLaserOdometry2DNode.cpp`, `CLaserOdometry2D.cpp` | |
| `LidarOdometry`, `MCLidarOdometry` | node and odometry, connected by `/scan` | EXTENDS both |
| `LidarOdometry_proofs` | theorems | |

**Time.** Every node stamps what it hears and compares ages with timeouts in a
periodic timer. The models keep ages, in periods of that timer, saturated one
above the timeout they are compared with, so the state space is finite without
a bound on time. `TimePasses` makes the timer due and cannot happen again
before the timer's callback has run: the executor runs each expiry before the
next one. Its variable is `tickDue`, `watchdogDue` or `checkDue`.

**MissionManager.** `mode, goal, goalMode, age, retryWait, handle` are the
fields of `MissionLogic` and the node. `srv` has one record for each goal on
its way: where Nav2 has it (`status`), what this client knows of it (`client`),
whether a cancel was sent, and which target it drives to (`dest`: moved by
`/goal_update`, which does not name a goal). `Target`, `SetMode`, `TickSend`,
`TickCancel`, `TickNothing`, `GoalRejected`, `GoalAccepted` and `GoalDone` are
the callbacks; the three `Tick` actions are the outcomes of `_tick`.
`ManagerRestart` is death and restart of the process, whose goal goes on;
`Nav2Dies` loses requests and goals but may let answers through that were
already on their way (an `orphan` acceptance whose result nobody will send).

**GoalPose.** The generation numbers are only compared with the newest one, so
the model keeps the outcome of the comparison (`sent`, and `current` of a
conversion). `conv` has a record for each request whose callback the client
still has. A missing, invalid or too old fix behaves like one of age
`MaxAge + 1`. navsat is `prompt`, `slow` or `gone`; `target`, `published`,
`disturbed` and `waits` are history. The tolerance of 0.2 s for stamps from the
future and the 20 m clamp are abstracted.

**DiffDrive.** An axis is in closed loop or not and is told to turn or not
(`Twists` distinguishes a pivot, whose left wheels stand still). A loop over
the boards reaches those before the first lost one (`Reached`), then raises;
`Return` is the rest of that story: main's `finally`, and the end of the
process. `Kill` skips it; `Restart` finds the axes as they were.

**MotorChain.** A topic is the message its reader still has to handle. A unit
of time is one period of 0.1 s; in it every node handles what it received and
runs its timer, in any order. `Masked` is `twist_mux`'s rule: a live input of
higher priority masks. `joyGap` and `blockedFor` are history. An obstacle is a
choice of the environment here, already debounced; `Ultrasonic` has the debouncing.

**MeshBridge.** The unit of time is the period of the 1 Hz timer. `step` is where
the executor is: between callbacks, in the constructor of the interface
(`opening`, which lasts as long as it likes, so that time passes meanwhile),
between its return and the assignment to `iface`, before the subscriptions, or in
`sendText`. `OnLost` and `OnReceive` come on the other thread, between any two of
these. Of the library the model assumes what its use in the node relies on: the
port is opened exclusively, so there is one connected interface at most, also
one that the bridge has dropped; a connection that ends is reported once, some
time later; a constructor that raises may leave interfaces whose loss is reported
too; packets come while an interface is connected. `missed`, `silence`, `fixAge`
and `sentAge` are history.

**Ultrasonic.** The unit of time is the publisher's period of 50 ms. The serial
line is a sequence of bytes with the age of the last one, which is all that VMIN
and VTIME depend on: a read returns with eight bytes, or with fewer after a gap,
and never before the first byte. A request may get lost, of an answer a byte or all
that is left of it, the Arduino may stall within an answer, the cable may be pulled:
`MaxDisturbances` bounds all of them together. `Stuck` is a read to which no byte
comes any more. Bytes keep their values because an identifier or a delimiter is also
a possible distance. `log` is history; it counts the stalls because two of them may
bring the whole answer to one request to the read of the next (`InStep`).

**LidarDriver.** A call is a program, a sequence of steps (`lock`, `exitLoop`,
`arm`, `send`, `await`, ...), because the decoder thread runs between any two of
them. `Ask`, `Tell`, `StartScan` and the others build these sequences as the
functions call each other, with the differences between kinds of LIDAR
(`dev.kind`). `phase` is where the decoder thread holds which lock. A message is
reduced to its kind and key; a sample knows whether it is of the scan started
last (history), its revolution and its place in it. What goes wrong is bounded by
`MaxFaults`: a send that fails (`SendFails`, `TellFails`, with what the callers make
of it), a request that gets lost or is answered late, a wait that ends without the
event or at its deadline although it has just been set (`Wakes`, `AwaitTimeout`:
`hal::Event` looks at nothing again after either), and a delay at whose end the line
has not settled, which the code has no way to know; `timely` says that there was none.

**LidarLink.** Bytes again, because the codec finds messages by looking for two
of them. The size field has `SizeLen` bytes of which one carries a value.
`port`, `rx` and `dec` are the channel and the two threads; `closing` is the
caller inside `unbindAndClose`. A serial port reports its loss as an error; a
socket is silent or has nothing to read, may lose datagrams, and is disposed of
when it is closed (`ConnectDisposed` is what a second open does). A select or a read may
also fail at any time, for instance when a signal interrupts it; either ends the
receiving thread. A listener whose message is freed under it hears
something arbitrary (`Torn`).

**Unpacker.** A frame is three bytes: its first, its second, and the rest with
the checksum, which is what the handlers tell apart. `Mistake` is a byte that
passes for another. The four capsule handlers are copies of one text with
differences; a definition of the module stands for its part in all of them, and
`map` names its lines in one or, where the text differs, spread over several.
Angles keep the arithmetic of the code: a start angle in units, interpolated in
`Scale`-ths, rounded where the code rounds.

**ScanData, LidarNode.** Nodes are `[angle, dist]` with integer angles, `Full` of
them a revolution and a multiple of every number of nodes in use, so that the
divisions of the code are exact. `out` is the message that a step publishes,
with the nodes it was made from. The driver is seen through its interface: a
complete scan stays available until it is grabbed or the holder is reset, which
`LidarDriver` models in full. Commands have no answer, and the node does not look at
what its calls to stop return, so that a command may get lost (`Commanded`): the LIDAR
goes on as it was, only the driver unpacks no more after a stop.

**LaserOdometry.** The robot moves on a line, a different distance in each
revolution, so that a displacement tells which two scans it belongs to. A scan
is copied with the width of the first (`Copied`). Of the five levels of the pyramid there
are two: the coarser ones together, which may find nothing of the displacement or a little
too much (`Coarse`), and the finest, which compares the old scan with the new one moved
back by that (`Warped`, `Solution`) and whose transformation is composed with theirs
(`Refined`). Of the range flow within a level only the outcomes are kept (`Solved`,
`TooFew`, `Degenerate`, `Unsolved`), each with what it does to pose, speed and times; a
level that is degenerate, as in a corridor, takes over what is left of the last speed.

Each module carries a few operators marked as mutants, defined just before the
operator they vary: plausible bugs, each of which TLC finds with one of the
properties (`mutants` in `PROJECT.json`). No specification uses them.

## Runs

| Run | Question | Result | States |
|---|---|---|---|
| `mission` | one goal, real cancels, own target, `Pursuit`, unwanted goals end and the wanted target is pursued, with both sides dying | holds | 147,120 |
| `mission_nav2_restart` | is it pursued after every restart of Nav2? | **violated** | |
| `chain` | enabled only unlatched; operator, joystick and obstacle stops in time; the joystick resumes after an obstacle | holds | 901,576 |
| `chain_navigation` | does Nav2? | **violated** | |
| `nodes` | goal poses: one conversion, newest fix only, no fix lost; motors: idle when stopped, consistent when armed, both watchdogs | holds | 226,462 |
| `mesh` | lost interfaces are noticed, home positions recent and regular, the bridge reconnects | holds | 49,346 |
| `lidar_driver` | scans grabbed are whole and of one start if the delays suffice; answers are own, noticed and not lost; no deadlock | holds | 4,022,571 |
| `lidar_link` | messages heard are messages sent; `ByteStream`; closing returns | holds | 824,247 |
| `lidar_data` | no interpolation over a damaged or partly received frame or into an old scan, one sync bit per turn, distances without gaps | holds | 2,767,868 |
| `lidar_scans` | one scan after a stop at most; ranges at their bearing; pose and speed follow the scans | holds | 3,798,265 |
| `ultrasonic` | with one late answer at most only measured distances, and one glitch stops nothing; an obstacle stops in time; readings go on, except after a request or an answer lost whole | holds | 433,096 |
| `ultrasonic_timeout` | does every read end? | **violated** | |

The violated properties state what a comment, docstring, test or header of the
repository says. The first three are runs, quoted in `findings`; the others can be
repeated with the configuration named, `tlc -config X.cfg M`:

1. After bt_navigator dies with a goal under way, `mission_manager` waits for
   ever for an answer, in `sending`, `active` or `canceling`.
2. `ps4_teleop` sends a zero command for every `/joy` message. An armed robot
   needs `/joy`, so the joystick input of `twist_mux` masks Nav2 for ever.
3. With VMIN = 8 and VTIME = 5 the timer of a read of `ultrasonic_usb` starts with the
   first byte. A request that is lost, or an answer of which no byte comes, blocks the
   read for ever ("0.5s timeout", "If nothing received, set data to invalid"), and with
   it the only thread of the publisher.
4. `MeshBlocked.cfg` (`MeshBridge`, `HomeAtOneHertz`): the bridge opens the
   radio's port in a timer of the executor that also publishes the home position
   ("at 1 Hz"), which therefore stops while the constructor waits, however young
   the position is.
5. `MissionRetry.cfg` (`MCMissionManager`, `NewModeDoesNotWait`): a goal that
   fails after the mode was changed imposes its retry delay on the new mode; the
   test (`test_mission_manager.py:61`) tries the other order.
6. `DriveStoppedMeansIdle.cfg` (`DiffDrive`, `StoppedMeansIdle`): a killed
   controller leaves its axes enabled; the next process believes it is stopped
   ("Axes stay idle until the e-stop is released") and does not idle them.
7. `DriveExitIdlesReachable.cfg` (`DiffDrive`, `ExitIdlesReachable`): a lost
   board ends the loop that idles the motors: those after it are not.
8. `LidarConnect.cfg` (`MCLidarLink`, `ConnectedMeansOpen`): an inner variable
   hides the result of `openChannelAndBind`, so that a channel that does not open
   is a success, and `isConnected` says yes; and the receiving thread ends on an
   error of the port without telling.
9. `LidarScanSize.cfg` (`MCLidarOdometry`, `WidthIsScanSize`): without angle
   compensation scans have different sizes, and the odometry reads each up to the
   width of the first.

**Bounds.** Timeouts are 1 or 2 periods (5 for the age of a fix, which must
exceed the request timeout by enough for a fix to wait for it). Only the order
of events relative to a timeout matters: below, at and above each limit are
reached, and the ages saturate. In the code the stale, retry and watchdog
limits are 15, 10 and 5 periods; the proofs cover every value. Two slots for
goals or conversions let a second one appear, which is what `OneGoal` and
`OneConversion` exclude. `ManagerRestart` is bounded to one abandoned
generation of goals at a time; a new `/joy` message or command is published
only after the previous one was handled (queues of depth one).
`MissionManager`'s `StaleAfter` may differ per mode; the runs use one value.
In `MotorChain` the timeout of the e-stop input is shorter than the others, as
in `twist_mux.yaml`.

| Module | Bounds of its run |
|---|---|
| `Ultrasonic` | VTIME is 1 period and the age limit 3 (10 and 20 in the code), checks every 2 periods; 2 disturbances of any kind (lost bytes, requests and answers, stalls, an unplugged cable, batches of parameters), 1 for `ultrasonic_timeout`. With two stalls an answer may be one request late and well formed, for nothing in a packet says which request it answers: `PublishedIsMeasured` and `OneGlitchDoesNotStop` say so themselves (`InStep`), so that the bound does not hide it. |
| `MeshBridge` | limits of 2 periods (1800, 30 and 5 in the code), 2 interface objects, any number of losses and restarts |
| `LidarDriver` | revolutions of 3 samples in buffers of 2, so that they overflow; 1 message on each way beyond the one that is handled; 1 fault (a failed send, a lost request, a late answer, a wait that ends early, a delay that is too short), `getLidarIpConf` standing for the requests that only read; two kinds of LIDAR: old firmware with an accessory board, and the S series. The proofs cover every kind, also those that start in the standard mode. |
| `LidarLink` | a size field of 2 bytes, 3 bytes between device and codec, the channel opened twice, 1 reset of the codec; payloads that look like headers |
| `Unpacker` | a session of 2 frames, then one of 8, in any two of the six types; a revolution is 6 units, capsules of 2 or 3 nodes (for 32, 64, 96 and 40, so that the angle divides evenly or not); 1 lost or damaged byte or frame in each session |
| `LidarOdometry` | 4 revolutions, 2 service calls or lost commands; scans of 3 nodes with none, one or all of them invalid, 6 bins with a multiple of 2; three of the parameter sets, between them each branch |

**Deadlock** is checked except in `lidar_link`, `lidar_data` and `lidar_scans`: there a
script or a bounded number of frames or revolutions ends, and the system may stop. In `lidar_driver` the caller can
always call again, so the deadlock check is the check of the order of the locks.

**Fairness.** `MissionManager`: weak fairness for the callbacks of the
executor, the clock and discovery; for Nav2 only that it answers requests and
honours cancels while it is up, never that a drive ends. Targets, commands and
deaths are not fair. `PursuedUnlessStranded` excepts the one state in which the
manager waits for what died with Nav2, `WantedIsPursued` does not. `MotorChain`: time does not stop
(`[]<><<TimePasses>>_vars`), which implies that whatever was received is handled
because `TimePasses` waits for it, and Nav2 keeps sending its command; the
operator, the joystick and the obstacles are not fair, and `e_stop` may die.
Armed motors themselves show that `/joy` keeps coming. `LidarLink`: both threads
run, and a call that waits for them goes on when they have ended; the device is
not fair, and no select is assumed to fail. `MeshBridge`: the executor gets round to each of its callbacks (strong
fairness, because they disable one another), its steps end, the library reports,
and a port that can be opened again and again is opened once; packets, losses and
restarts are not fair, and `Reconnects` asks only for runs in which the radio
stays from some time on. `Ultrasonic`: the executors run, bytes on the wire arrive and time
passes. Nothing says that a stall ends or that a request arrives: `KeepsReading` speaks of
runs in which from some time on the port is open and nothing is held up, and excepts the
read to which no byte comes (`Stuck`), which `ReadsTimeOut` does not.

## Proofs

| Module | Theorem | Says that this is an invariant |
|---|---|---|
| `MissionManager_proofs` | `OneGoalCorrect`, `PhaseCorrect`, `CancelCorrect`, `OwnTargetCorrect`, `TypeCorrect` | `OneGoal`, `PhaseMatchesGoal`, `CancelIsSent`, `DrivesToItsOwnTarget`, `TypeOK` |
| | `Implements` | (`Spec` implies `Pursuit` under the refinement mapping) |
| `MotorChain_proofs` | `FirstLifeCorrect`, `ConsistentCorrect`, `WatchdogCorrect`, `ExitCorrect`, `DriveTypeCorrect` (of `DiffDrive`) | `FirstLifeStopsIdle`, `ArmedMeansConsistent`, `WatchdogStops`, `ExitIdles`, `DriveTypeOK` |
| | `ArmedCorrect`, `JoystickLossCorrect`, `OperatorGoneCorrect`, `ObstacleCorrect` | `ArmedOnlyUnlatched`, `JoystickLossIdles`, `OperatorGoneIdles`, `ObstacleStands` |
| `GoalPose_proofs` | `OneConversionCorrect`, `BlockedCorrect`, `NewestCorrect`, `FixCorrect`, `TypeCorrect` | `OneConversion`, `BlockedBriefly`, `TargetIsNewest`, `FixIsUsed`, `TypeOK` |
| `MeshBridge_proofs` | `DeadCorrect`, `HomeCorrect`, `StatusCorrect`, `TypeCorrect` | `DeadIsNoticed`, `HomeFollowsReports`, `StatusSpaced`, `TypeOK` |
| `LidarDriver_proofs` | `GrabbedCorrect`, `HolderCorrect`, `OwnCorrect`, `WakesCorrect`, `HeardCorrect`, `TypeCorrect` | `GrabbedIsOneScan`, `HolderBegins`, `AnswerIsOwn`, `AnswerWakes`, `AnswerHeard`, `TypeOK` |
| `LidarLink_proofs` | `HeardCorrect` | `HeardIsSent` |
| | `LinkIsByteStream` | (`Spec` implies `ByteStream` under the refinement mapping) |
| `Unpacker_proofs` | `SkipCorrect`, `ForgottenCorrect`, `SyncsCorrect`, `DistancesCorrect`, `TypeCorrect` | `NoFrameSkipped`, `EarlierScanIsForgotten`, `OneSyncPerTurn`, `DistancesJoin`, `TypeInv` |
| `LidarOdometry_proofs` | `PoseCorrect`, `SpeedCorrect`, `StopCorrect` | `PoseFollowsScans`, `SpeedIsOfThePair`, `OneScanAfterStop` |
| | `ShowsCorrect`, `BearingCorrect` | `ScanShowsMeasurements`, `RangesAtTheirBearing` |

They assume only what the modules assume of their constants: timeouts are
natural numbers, slots and interfaces are sets without `None` (not even finite), a
buffer of the scan holder has room for two nodes (8192 in the code), a capsule
turns the LIDAR by less than a revolution, the fixed point of the angles has an
even scale of at least four (256 in the code), the bins of a revolution are an even
number (360) that divides its units, a scan is a sequence of nodes whose angles lie
within a revolution, the parameters of `rplidar_node` are booleans, a size field has
at least one byte, and the packets of the device carry what their headers say: one
message, or after the last header, which has the loop flag, one message after the
other. Nothing is assumed of the bytes of the messages. The bounds that keep the runs small
(faults, the length of the line, frames, sessions) may be any number.

- *MissionManager.* The four safety invariants are nearly inductive. Two facts
  close the gap: a handle exists only for a goal that was accepted, and an
  answer is only on its way to a client that waits for it (`HandleMatches`,
  `AnswersMatch`). Without the second, a late rejection could end a goal that
  is active. For the refinement, `driven` is the target of the executing owned
  goal; `OneGoal` makes it unique and `DrivesToItsOwnTarget` makes a step of
  `/goal_update` a stutter.
- *DiffDrive* (in `MotorChain_proofs`). The invariants are inductive together. The lemmas say that a loop
  over the boards reaches all of them when none is lost and keeps the type of
  the axes otherwise.
- *MotorChain.* What `/e_stop` carries is the latch, so between messages armed
  motors mean an open latch, also across a death of `e_stop`, because the latch
  of its next life is closed and published (`LatchInv`). `SignInv` measures the
  last sign of the operator against what has happened since: a message that
  opens the latch is no older than the joystick's timeout, and motors that are
  armed heard one no longer ago than `eStopAge`; the watchdog bounds that. For
  the obstacle, `WallInv`: from the first check on the command that `twist_mux`
  let through last is a stop, and nothing else passes it.
- *GoalPose.* `CurrentMatches` ties a current conversion to the newest fix.
  `FixInHand` is what makes `FixIsUsed` inductive: an undisturbed newest fix is
  either being converted in this very period or has waited no longer than the
  request before it, which `BlockedBriefly` bounds.
- *MeshBridge.* `DeadIsNoticed` needs the same of the interface that the
  constructor returned and that is not yet assigned (`MadeIsNoticed`). The others
  follow from `AgesAreReal`: the bridge's own age of the home position is the
  time since the station reported, and a status that went out reset the bridge's
  count, never the other way round.
- *LidarDriver.* `ShapeInv` says what is left of the running call: each program
  takes and gives back its locks in order, and a request is armed, sent and
  awaited. `AnswerInv` has the argument about answers: arming resets the event
  under the lock under which answers are stored, the codec left the loop mode
  before, and a scan command is on its way only during the delay after it. What is said of
  samples and of the codec's mode needs `timely`, the rest holds without it.
  `StreamInv` is the one about samples: what the holder has, what the decoder
  has taken, what is on the line and what the device sends next are one run of
  the scan started last, from the reset of the holder on; the decoder
  cannot bring in an older sample, because by then the codec is out of the loop
  mode and has handed over what it had.
- *LidarLink.* `LinkInv` says where bytes can be: a thread that waits or has ended
  holds none, and where the driver does not work both threads have ended. With it,
  each step appends a byte to the pipe, takes its first one, discards the last ones
  or moves bytes within it (`StepsOK`), which are the steps of `ByteStream`; and
  a step that cuts nothing leaves the bytes not yet decoded, on their way or still
  in the script, in line (`InLine`). `HeardInv` says for `HeardIsSent` that without a
  cut these bytes are the script from some byte on, that the codec is where this byte
  lies (`Place`: before a packet, or so far into its sync bytes, size, type or
  payload), and that what was heard, with the message the listener is being told,
  is what lies before it. Where packets and messages lie is a matter of
  `FlattenSeq`, a fold: what it computes for sequences of any length is proved from
  the least counterexample (`LeastExists`), because the induction theorems of the
  library take an operator as a parameter.
- *Unpacker.* `BufferInv` carries `NoFrameSkipped`: all frames that were seen
  after the cached capsule are in the handler's buffer, byte by byte, because each
  way of giving up a frame forgets the capsule; a buffer whose checksum is right
  holds one frame only, so nothing lies between. `SelectedInv` says that
  handlers that are not in use are reset. For `EarlierScanIsForgotten`, `InStep`:
  without faults the position of the handler is that of the LIDAR, thus the
  first frame arrives whole, and it makes an old capsule worthless. `OneSyncPerTurn`
  compares the syncs that went out with the turn made since the first sample. Rounding
  makes that inexact: the step from capsule to capsule is divided by the number of
  samples and rounded down, and a sync bit is set where a sample's own angle has
  just passed zero. `Counting` is the account after the second frame of a scan: how
  far the sync bits are behind the zero crossings is told by the phase of
  the cached capsule (`Phase`), that is, by whether its first sample crosses a
  zero nobody has marked (`Owed`), or whether the remainder of the division makes
  the last one fall short of it (`Short`). For each step width the lemmas show how
  many of a capsule's samples lie in the window behind zero, and that this
  leads from phase to phase.
  `DistancesJoin` says that the
  segments of each of the two encodings meet: the value at which a level begins
  is the value at which the one below ends, to one unit (`Levels`,
  `LevelsJoin`).
- *LidarOdometry.* `NumbersInv` says that places and times are numbers wherever
  a scan is kept; `PairInv` that `last_odom_time` is the time of the newer scan of
  the pyramid unless the last calculation failed, and that nothing was counted
  before the second scan. `StopInv` says that of a LIDAR which the node stopped
  the driver unpacks no revolution, whether or not it heard the command, and that nothing is left after the one scan that may
  still have been available.
  The two theorems about what a scan shows need no more of the state than that
  every message was made of the nodes of a revolution (`OutInv`); the rest are
  lemmas about the operators, one for each stage. The sort gives a node the place
  that is one more than the number of nodes which precede it; that every place is
  taken once follows by counting (`PlacesPermute`). A bin or a range shows nothing or
  a node that was put there (`CompensatedIs`, `RangesAre`). For the bearings,
  everything is multiplied by the number of intervals of the message and by the
  bins of a degree, which leaves integers: `DeviationIsSmall` bounds what bin `i` is
  off by the angles of its node, and, half a revolution from there, by what the flip
  adds to it; `BearingIsNear` takes this through the mirror and the flip, up to a whole
  turn (`NearIs`).

Inductive invariants were checked by TLC before they were proved. Only
model-checked, and why:

- liveness (`UnwantedGoalEnds`, `PursuedUnlessStranded`,
  `JoystickResumes`, `Reconnects`, `CloseReturns`, `KeepsReading`): fairness and
  `ENABLED` are out of the prover's reach;
- `PublishedIsMeasured`, `OneGlitchDoesNotStop` and `StopsInTime` of `Ultrasonic`, within
  the bound on disturbances; the first two state the limit that the protocol has
  (`InStep`). The lemma they need is planned.

## Not modelled

- `ros2_mpu9250_driver`, `bno085_imu`, `gps_monitor`: polls and conversions whose
  messages do not depend on earlier ones; their only protocol is the
  timer of `bno085_imu` that opens a lost sensor again.
- `rplidar_client`, simulation, launch mechanics, diagnostic and configuration
  scripts, robot description: no protocol of this project lives there.
- Of `meshtastic_bridge`: what a text message becomes on `/station/command` (no
  state of the node), the parsing of packets beyond whether it succeeds.
- Of the SDK: the holder of raw samples (only `grabScanDataHqWithInterval`, which
  nothing here calls, reads it), sending (one step of `LidarDriver`), the ports to
  macOS and Windows, values and timestamps of nodes, the
  reset that the first capsule of a scan asks of the holder (`rewindCurrentScanData`:
  the holder has nothing of that scan yet).
- Of the odometry: the range flow and its numerics (out of TLC's reach; each of
  its outcomes is modelled), the weights of the speed filter (a direction
  is taken from the scans or from the last speed), the position of the laser on
  the robot (`setLaserPoseFromTf`), an initial pose from a topic.
- Geometry, ramp rates, gains, parsing and log messages are abstracted. Clock
  jumps, the reordering of messages within one DDS topic or of datagrams, and
  priorities between ready callbacks are not modelled. Discovery in `GoalPose` is
  immediate. In `MotorChain` the controller stays alive; its deaths and restarts
  are in `DiffDrive`, with any message on `/e_stop`.

## Plan

Done: all the modules above, with their proofs. Next, most important first:

1. `FollowChain`: `GoalPose` and `MissionManager` composed, with the measurement
   age of targets: how old a position may be that the robot pursues, and whether
   the preserved stamp protects against it.
2. Proofs: what of `PublishedIsMeasured` holds for any number of stalls (that a
   window of eight bytes across two packets of the Arduino is not well formed);
   safety of `FollowChain`.
3. Controller restarts and the transient local `/e_stop` in `MotorChain`; the
   speed adjustment of `ps4_teleop`.
