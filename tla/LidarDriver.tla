---------------------------- MODULE LidarDriver ----------------------------
(***************************************************************************)
(* SlamtecLidarDriver (rplidar_ros/sdk/src/sl_lidar_driver.cpp): requests  *)
(* and answers, the motor, the start and the end of a scan, and the scans  *)
(* that are grabbed, between the thread that calls the driver, the decoder *)
(* thread of the transceiver and the device.                               *)
(*                                                                         *)
(* A call is a program: the sequence "todo" of the steps that the caller's *)
(* thread still has to do.  The link carries messages (its bytes are the   *)
(* subject of LidarLink); what a message says is reduced to its kind.      *)
(* Every state has a successor exactly if the two threads never wait for   *)
(* each other's locks: the deadlock check is the check of the lock order.  *)
(***************************************************************************)
EXTENDS ScanHolder, SequencesExt

CONSTANTS
    Devices,    \* the kinds of LIDAR: records [conf, rate, board, support, std, ethernet]
    Queries,    \* the requests that callers make by themselves
    RevLen,     \* samples of a revolution
    MaxLine,    \* bound: messages, and commands, that are under way
    MaxFaults   \* bound: commands that are lost or fail, waits that end too early, and
                \* delays that are too short

ASSUME SizeAssumption == RevLen \in Nat \ {0} /\ MaxLine \in Nat \ {0} /\ MaxFaults \in Nat
ASSUME QueryAssumption ==
    Queries \subseteq {"devinfo", "health", "modes", "typical", "motor", "ip", "setip", "mac",
                         "alias"}

VARIABLES
    dev,        \* the device: its kind, whether it scans, and its next sample
    todo,       \* what the running call still has to do
    connected,  \* _isConnected
    motor,      \* _isSupportingMotorCtrl
    unpacking,  \* the data unpacker is enabled
    loop,       \* the codec is in loop mode
    dataLocked, \* the caller holds _data_locker
    waiting,    \* _waiting_packet_type
    answered,   \* the event _response_waiter
    answer,     \* _lastAnsPkt
    hold,       \* _scanHolder
    got,        \* what the last grab copied: nodes, and the node of its timestamp
    cmds,       \* commands on their way to the device
    line,       \* messages on their way to the decoder
    phase,      \* the decoder: "idle", "decoding", "listening" or "storing"
    taken,      \* the message that it has decoded
    clean,      \* history: no earlier request or answer was under way when the last began
    timely,     \* history: every delay has let the line settle, and none was left out
    faults      \* history: how many of the faults there were so far

caller == <<todo, connected, motor, dataLocked, got>>
shared == <<unpacking, loop, waiting, answered, answer, hold>>
decoder == <<phase, taken>>
history == <<clean, timely, faults>>
vars == <<caller, shared, cmds, line, decoder, dev, history>>

\* What the driver may send: requests, which are answered, and commands.
Requests == {"devinfo", "health", "conf", "setconf", "rate", "acc"}
Tellings == {"scan", "express", "stop", "reset", "spin", "halt"}

\* A message: a header (which announces a stream), a sample or an answer.
\* A sample: whether it belongs to the scan that was started last (history).
NoNode == [now |-> TRUE, rev |-> 0, pos |-> -1]
Header == [kind |-> "header", key |-> "-", node |-> NoNode, own |-> FALSE]
Sample(node) == [Header EXCEPT !.kind = "sample", !.node = node]
Answer(kind, key) == [kind |-> kind, key |-> key, node |-> NoNode, own |-> TRUE]
Nothing == [Header EXCEPT !.kind = "nothing"]
IsAnswer(m) == m.kind \notin {"header", "sample", "nothing"}
Foreign(m) == [m EXCEPT !.own = FALSE]

NoGrab == [nodes |-> <<>>, ts |-> <<>>, fresh |-> FALSE]

(***************************************************************************)
(* The programs.                                                           *)
(***************************************************************************)
Step(op, arg) == <<[op |-> op, arg |-> arg]>>

\* A request: the answer it waits for, and whether the call fails without it.
Query(kind, key, must) == [kind |-> kind, key |-> key, must |-> must]

\* _disableDataGrabbing
Disarm == Step("disable", "") \o Step("exitLoop", "")

\* _sendCommandWithoutResponse, with noForceStop and without
TellOn(cmd) == Step("tell", Query(cmd, "-", FALSE))
Tell(cmd) == Disarm \o TellOn(cmd)

\* _sendCommandWithResponse: under the lock, _disableDataGrabbing and the arming
\* mutant: the event is reset once more when the request has been sent
AskArmingTwice(q) ==
    Step("lock", "") \o Step("exitLoop", "") \o Step("arm", q) \o Step("send", q)
    \o Step("arm", q) \o Step("await", q)
\* mutant: the codec stays in loop mode
AskInLoop(q) == Step("lock", "") \o Step("arm", q) \o Step("send", q) \o Step("await", q)
Ask(q) ==
    Step("lock", "") \o Step("exitLoop", "") \o Step("arm", q) \o Step("send", q) \o Step("await", q)

DeviceInfo == Ask(Query("devinfo", "-", TRUE))      \* also checkSupportConfigCommands
Health == Ask(Query("health", "-", TRUE))
Conf(key) == Ask(Query("conf", key, TRUE))
OptionalConf(key) == Ask(Query("conf", key, FALSE))
SetConf(key) == Ask(Query("setconf", key, TRUE))

\* setMotorSpeed, and startMotor with the speed that the device desires
SetMotor(speed) ==
    IF motor = "none" THEN Step("dtr", speed) ELSE TellOn(speed) \o Step("delay", speed)
StartMotor == OptionalConf("desired") \o SetMotor("spin")

Stop ==
    Tell("stop") \o Disarm \o Step("delay", "stop")
    \o (IF motor = "pwm" THEN SetMotor("halt") ELSE <<>>)

ModeFields == Conf("duration") \o Conf("distance") \o Conf("anstype") \o Conf("name")
LegacyRate == DeviceInfo \o (IF dev.kind.rate THEN Ask(Query("rate", "-", TRUE)) ELSE <<>>)
ModeInfo == IF dev.kind.conf THEN ModeFields ELSE LegacyRate

\* _updateTimingDesc: only an S series LIDAR is asked for its MAC address
Timing == IF dev.kind.ethernet THEN OptionalConf("mac") ELSE <<>>

\* the common end of startScanNormal_commonpath and startScanExpress
\* mutant: the scans of the previous start stay available
LaunchWithoutReset(cmd) == Step("enable", "") \o TellOn(cmd) \o Step("delay", cmd)
Launch(cmd) ==
    Step("reset", "") \o Step("enable", "") \o TellOn(cmd) \o Step("delay", cmd)
Begin(cmd) == Timing \o StartMotor \o Launch(cmd)

StartNormal == Stop \o DeviceInfo \o ModeInfo \o Begin("scan")
StartExpress ==
    Stop \o DeviceInfo \o ModeInfo
    \o (IF dev.kind.conf /\ dev.kind.std THEN StartNormal ELSE Begin("express"))
TypicalMode == DeviceInfo \o (IF dev.kind.conf THEN Conf("typical") ELSE <<>>)
StartScan(typical) ==
    Stop \o DeviceInfo
    \o (IF typical THEN TypicalMode \o StartExpress ELSE ModeInfo \o Begin("scan"))

\* getAllSupportedScanModes, of a device with one mode
ModeCount == Conf("count")
AllModes == DeviceInfo \o (IF dev.kind.conf THEN ModeCount \o ModeFields ELSE <<>>)
MotorInfo == Conf("minfreq") \o Conf("maxfreq") \o Conf("desired")

\* getModelNameDescriptionString: without an alias the name is that of the model
ModelName == OptionalConf("alias")

\* the other requests
Asks(q) ==
    CASE q = "devinfo" -> DeviceInfo
      [] q = "health" -> Health
      [] q = "modes" -> AllModes
      [] q = "typical" -> TypicalMode
      [] q = "motor" -> MotorInfo
      [] q = "ip" -> Conf("ip")
      [] q = "setip" -> SetConf("ip")
      [] q = "mac" -> Conf("mac")
      [] q = "alias" -> ModelName

\* checkMotorCtrlSupport, whose failure connect does not look at
CheckMotor ==
    Disarm \o DeviceInfo
    \o (IF dev.kind.support = "rpm" \/ ~dev.kind.board THEN <<>> ELSE Ask(Query("acc", "-", TRUE)))
    \o Step("support", dev.kind.support)

\* grabScanDataHqWithTimeStamp
Grab == Step("wait", "") \o Step("copy", "")

(***************************************************************************)
(* The caller's thread.  _op_locker makes the calls one after another.     *)
(***************************************************************************)
Idle == todo = <<>>
At(op) == ~Idle /\ Head(todo).op = op
Arg == Head(todo).arg
Goes == todo' = Tail(todo)                  \* on to the next step
Fails == todo' = <<>>                       \* the call returns

Call(program) ==
    /\ Idle /\ connected
    /\ todo' = program
    /\ got' = NoGrab
    /\ UNCHANGED <<connected, motor, dataLocked, shared, cmds, line, decoder, dev, history>>

Connect ==
    /\ Idle /\ ~connected
    /\ connected' = TRUE /\ motor' = "none"
    /\ todo' = CheckMotor
    /\ line' = <<>> /\ phase' = "idle" /\ taken' = Nothing    \* the channel is flushed
    /\ UNCHANGED <<dataLocked, got, shared, cmds, dev, history>>

\* disconnect: _disableDataGrabbing, then the transceiver joins its threads
Disconnect ==
    /\ Idle /\ connected /\ phase = "idle"
    /\ connected' = FALSE
    /\ unpacking' = FALSE /\ loop' = FALSE
    /\ line' = <<>>
    /\ UNCHANGED <<todo, motor, dataLocked, got, waiting, answered, answer, hold,
                   cmds, decoder, dev, history>>

Calls ==
    \/ \E typical \in BOOLEAN : Call(StartScan(typical))
    \/ Call(Stop) \/ Call(Grab) \/ Call(SetMotor("spin")) \/ Call(Tell("reset"))
    \/ \E q \in Queries : Call(Asks(q))
    \/ Connect \/ Disconnect

\* A request begins: the answers to earlier ones are not the answer to this one.
AnswerUnderWay ==
    \/ IsAnswer(taken)
    \/ \E i \in DOMAIN line : IsAnswer(line[i])
    \/ \E i \in DOMAIN cmds : cmds[i].kind \in Requests

Lock ==
    /\ At("lock") /\ dataLocked' = TRUE /\ unpacking' = FALSE /\ Goes
    /\ clean' = ~AnswerUnderWay
    /\ answer' = Foreign(answer) /\ taken' = Foreign(taken)
    /\ line' = [i \in DOMAIN line |-> Foreign(line[i])]
    /\ UNCHANGED <<connected, motor, got, loop, waiting, answered, hold, cmds, phase, dev,
                   timely, faults>>

Disable ==
    /\ At("disable") /\ unpacking' = FALSE /\ Goes
    /\ UNCHANGED <<connected, motor, dataLocked, got, loop, waiting, answered, answer, hold,
                   cmds, line, decoder, dev, history>>

\* The codec holds its lock while it decodes, and lets go of it for the listener.
CodecFree == phase # "decoding"

ExitLoop ==
    /\ At("exitLoop") /\ CodecFree /\ loop' = FALSE /\ Goes
    /\ UNCHANGED <<connected, motor, dataLocked, got, unpacking, waiting, answered, answer,
                   hold, cmds, line, decoder, dev, history>>

\* mutant: a set event survives
ResetEventNot == UNCHANGED answered
ResetEvent == answered' = FALSE

Arm ==
    /\ At("arm") /\ Goes
    /\ waiting' = Arg.kind /\ ResetEvent /\ dataLocked' = FALSE
    /\ UNCHANGED <<connected, motor, got, unpacking, loop, answer, hold, cmds, line, decoder,
                   dev, history>>

Fault(n) == faults + n <= MaxFaults /\ faults' = faults + n

Sends ==
    /\ Len(cmds) <= MaxLine
    /\ cmds' = Append(cmds, Arg) /\ Goes
    /\ UNCHANGED <<connected, motor, dataLocked, got, unpacking, loop, waiting, hold, line,
                   decoder, dev, history>>
Send == At("send") /\ Sends /\ UNCHANGED <<answered, answer>>
Tells == At("tell") /\ Sends /\ ResetEvent /\ answer' = Nothing

\* The channel does not take the message.  That ends the call, but for an optional
\* request: its caller goes on as after a wait that brought no answer.
SendFails ==
    /\ At("send") /\ Fault(1)
    /\ IF Arg.must THEN Fails ELSE Goes
    /\ UNCHANGED <<connected, motor, dataLocked, got, shared, cmds, line, decoder, dev, clean,
                   timely>>

\* stop, setMotorSpeed and the start of a scan return before their delay, and the start
\* goes on after a stop or a setMotorSpeed that failed.
TellFails ==
    /\ At("tell") /\ Fault(1) /\ timely' = FALSE
    /\ ResetEvent /\ answer' = Nothing /\ Goes
    /\ UNCHANGED <<connected, motor, dataLocked, got, unpacking, loop, waiting, hold, cmds,
                   line, decoder, dev, clean>>

\* the wait for the answer, and the checks of getDeviceInfo, getLidarConf, ...
Accepts(m, q) == m.kind = q.kind /\ m.key = q.key
AwaitAnswer ==
    /\ At("await") /\ answered /\ answered' = FALSE /\ answer' = Nothing
    /\ IF Accepts(answer, Arg) \/ ~Arg.must THEN Goes ELSE Fails
    /\ UNCHANGED <<connected, motor, dataLocked, got, unpacking, loop, waiting, hold, cmds,
                   line, decoder, dev, history>>

\* The device has taken the request, or lost it, when the caller gives up; the
\* answer may still be under way, or be stored after the deadline: hal::Event::wait
\* does not look at the event again.
Late == answered \/ taken.own \/ \E i \in DOMAIN line : line[i].own
AwaitTimeout ==
    /\ At("await") /\ Arg \notin ToSet(cmds)
    /\ Fault(IF Late THEN 1 ELSE 0)
    /\ IF Arg.must THEN Fails ELSE Goes
    /\ UNCHANGED <<connected, motor, dataLocked, got, shared, cmds, line, decoder, dev, clean,
                   timely>>

\* pthread_cond_timedwait may return without a signal, and the caller takes whatever
\* answer came last, which may be of any kind or none
Wakes ==
    /\ At("await") /\ ~answered /\ Fault(1)
    /\ Goes \/ Fails
    /\ UNCHANGED <<connected, motor, dataLocked, got, shared, cmds, line, decoder, dev, clean,
                   timely>>

\* delay(10) and delay(100): the commands and the answers that were under way have
\* arrived and are handled, while the samples of a running scan keep coming; or the
\* delay is too short for that, or was left out
Settled ==
    /\ cmds = <<>>
    /\ loop \/ phase = "idle"
    /\ \A i \in DOMAIN line : line[i].kind = "sample"
Delay ==
    /\ At("delay") /\ Goes
    /\ \/ Settled /\ UNCHANGED <<timely, faults>>
       \/ ~Settled /\ timely' = FALSE /\ Fault(IF timely THEN 1 ELSE 0)
    /\ UNCHANGED <<connected, motor, dataLocked, got, shared, cmds, line, decoder, dev, clean>>

SetDtr ==
    /\ At("dtr") /\ Goes
    /\ UNCHANGED <<connected, motor, dataLocked, got, shared, cmds, line, decoder, dev, history>>

Support ==
    /\ At("support") /\ motor' = Arg /\ Goes
    /\ UNCHANGED <<connected, dataLocked, got, shared, cmds, line, decoder, dev, history>>

ResetHolder ==
    /\ At("reset") /\ hold' = Empty /\ Goes
    /\ UNCHANGED <<connected, motor, dataLocked, got, unpacking, loop, waiting, answered,
                   answer, cmds, line, decoder, dev, history>>

Enable ==
    /\ At("enable") /\ unpacking' = TRUE /\ Goes
    /\ UNCHANGED <<connected, motor, dataLocked, got, loop, waiting, answered, answer, hold,
                   cmds, line, decoder, dev, history>>

GrabWait ==
    /\ At("wait")
    /\ IF Signalled(hold) THEN Goes ELSE Fails
    /\ hold' = Waited(hold)
    /\ UNCHANGED <<connected, motor, dataLocked, got, unpacking, loop, waiting, answered,
                   answer, cmds, line, decoder, dev, history>>

GrabCopy ==
    /\ At("copy") /\ Goes
    /\ got' = [nodes |-> Available(hold), ts |-> BeginTs(hold), fresh |-> TRUE]
    /\ UNCHANGED <<connected, motor, dataLocked, shared, cmds, line, decoder, dev, history>>

Caller ==
    \/ Lock \/ Disable \/ ExitLoop \/ Arm \/ Send \/ SendFails \/ Tells \/ TellFails
    \/ AwaitAnswer \/ AwaitTimeout \/ Wakes \/ Delay \/ SetDtr \/ Support
    \/ ResetHolder \/ Enable \/ GrabWait \/ GrabCopy

(***************************************************************************)
(* The decoder thread: onProtocolMessageDecoded.                           *)
(***************************************************************************)
callerIdle == <<caller, waiting, cmds, dev, history>>

\* The codec: a header begins loop mode, in which everything is a sample.
Decode ==
    /\ phase = "idle" /\ line # <<>> /\ connected
    /\ LET m == Head(line)
           passes == IF loop THEN m.kind = "sample" ELSE IsAnswer(m)
       IN  /\ loop' = (loop \/ m.kind = "header")
           /\ phase' = IF passes THEN "decoding" ELSE "idle"
           /\ taken' = IF passes THEN m ELSE Nothing
    /\ line' = Tail(line)
    /\ UNCHANGED <<callerIdle, unpacking, answered, answer, hold>>

Unlock ==
    /\ phase = "decoding" /\ phase' = "listening"
    /\ UNCHANGED <<callerIdle, shared, line, taken>>

ToUnpacker ==
    /\ phase = "listening" /\ taken.kind = "sample"
    /\ hold' = IF unpacking THEN Push(hold, taken.node) ELSE hold
    /\ phase' = "idle" /\ taken' = Nothing
    /\ UNCHANGED <<callerIdle, unpacking, loop, answered, answer, line>>

ToWaiter ==
    /\ phase = "listening" /\ IsAnswer(taken)
    /\ IF taken.kind = waiting THEN phase' = "storing" /\ UNCHANGED taken
       ELSE phase' = "idle" /\ taken' = Nothing
    /\ UNCHANGED <<callerIdle, shared, line>>

Store ==
    /\ phase = "storing" /\ ~dataLocked
    /\ answer' = taken /\ answered' = TRUE
    /\ phase' = "idle" /\ taken' = Nothing
    /\ UNCHANGED <<callerIdle, unpacking, loop, hold, line>>

Decoder == Decode \/ Unlock \/ ToUnpacker \/ ToWaiter \/ Store

(***************************************************************************)
(* The device, as the driver uses it: it answers a request or loses it.    *)
(***************************************************************************)
DeviceInit(kind) == [kind |-> kind, scanning |-> FALSE, next |-> NoNode]

\* the revolutions of a scan are numbered from its start on, modulo 2
Ended(d) == [d EXCEPT !.scanning = FALSE, !.next = [@ EXCEPT !.rev = 0, !.pos = 0]]

\* history: a scan starts, the samples of the one before are old
Old(nodes) == [i \in DOMAIN nodes |-> [nodes[i] EXCEPT !.now = FALSE]]
Aged(m) == [m EXCEPT !.node.now = FALSE]
ScanStarts(pos) ==
    /\ dev' = [dev EXCEPT !.scanning = TRUE, !.next = [@ EXCEPT !.rev = 0, !.pos = pos]]
    /\ line' = Append([i \in DOMAIN line |-> Aged(line[i])], Header)
    /\ taken' = Aged(taken)
    /\ hold' = [hold EXCEPT !.buf = [b \in 0 .. 1 |-> Old(@[b])],
                            !.ts = [b \in 0 .. 1 |-> Old(@[b])]]

Obeys(c) ==
    IF c.kind \in {"scan", "express"}
    THEN \E pos \in 0 .. RevLen - 1 : ScanStarts(pos)
    ELSE IF c.kind \in {"stop", "reset"}
    THEN dev' = Ended(dev) /\ UNCHANGED <<line, taken, hold>>
    ELSE IF c.kind \in {"spin", "halt"} THEN UNCHANGED <<dev, line, taken, hold>>
    ELSE /\ dev' = Ended(dev) /\ line' = Append(line, Answer(c.kind, c.key))
         /\ UNCHANGED <<taken, hold>>

DeviceTakes ==
    /\ cmds # <<>> /\ Len(line) <= MaxLine
    /\ cmds' = Tail(cmds)
    /\ Obeys(Head(cmds))
    /\ UNCHANGED <<caller, unpacking, loop, waiting, answered, answer, phase, history>>

DeviceLoses ==
    /\ cmds # <<>> /\ cmds' = Tail(cmds) /\ Fault(1)
    /\ UNCHANGED <<caller, shared, decoder, dev, line, clean, timely>>

Following(n) ==
    IF n.pos < RevLen - 1 THEN [n EXCEPT !.pos = @ + 1]
    ELSE [n EXCEPT !.pos = 0, !.rev = 1 - @]

\* The samples that the codec would discard, before a header, are left out.
DeviceSamples ==
    /\ dev.scanning /\ Len(line) < MaxLine
    /\ loop \/ Header \in ToSet(line)
    /\ line' = Append(line, Sample(dev.next))
    /\ dev' = [dev EXCEPT !.next = Following(@)]
    /\ UNCHANGED <<caller, shared, cmds, decoder, history>>

Device == DeviceTakes \/ DeviceLoses \/ DeviceSamples

Init ==
    /\ \E kind \in Devices : dev = DeviceInit(kind)
    /\ todo = <<>> /\ connected = FALSE /\ motor = "none"
    /\ unpacking = FALSE /\ loop = FALSE /\ dataLocked = FALSE
    /\ waiting = "none" /\ answered = FALSE /\ answer = Nothing
    /\ hold = Empty /\ got = NoGrab
    /\ cmds = <<>> /\ line = <<>> /\ phase = "idle" /\ taken = Nothing
    /\ clean = TRUE /\ timely = TRUE /\ faults = 0

Next == Calls \/ Caller \/ Decoder \/ Device

Spec == Init /\ [][Next]_vars

(***************************************************************************)
(* Properties.                                                             *)
(***************************************************************************)
Keys == {"-", "duration", "distance", "anstype", "name", "typical", "count", "minfreq",
         "maxfreq", "desired", "ip", "mac", "alias"}
Commands(kinds) == [kind : kinds, key : Keys, must : BOOLEAN]
Nodes == [now : BOOLEAN, rev : 0 .. 1, pos : -1 .. RevLen - 1]
Messages ==
    [kind : Requests \cup {"header", "sample", "nothing"}, key : Keys, node : Nodes,
     own : BOOLEAN]
Holders == [buf : [0 .. 1 -> Seq(Nodes)], avail : {-1, 0, 1},
            ts : [0 .. 1 -> Seq(Nodes)], signal : BOOLEAN]
Supports == {"none"} \cup {kind.support : kind \in Devices}
Steps ==
    [op : {"lock", "disable", "exitLoop", "reset", "enable", "wait", "copy"}, arg : {""}]
    \cup [op : {"dtr", "delay"}, arg : Tellings]
    \cup [op : {"support"}, arg : Supports]
    \cup [op : {"arm", "send", "await"}, arg : Commands(Requests)]
    \cup [op : {"tell"}, arg : Commands(Tellings)]

TypeOK ==
    /\ dev \in [kind : Devices, scanning : BOOLEAN, next : Nodes]
    /\ todo \in Seq(Steps)
    /\ connected \in BOOLEAN /\ unpacking \in BOOLEAN /\ loop \in BOOLEAN
    /\ dataLocked \in BOOLEAN /\ answered \in BOOLEAN
    /\ clean \in BOOLEAN /\ timely \in BOOLEAN
    /\ motor \in Supports /\ waiting \in Requests \cup {"none"}
    /\ answer \in Messages /\ taken \in Messages /\ line \in Seq(Messages)
    /\ phase \in {"idle", "decoding", "listening", "storing"}
    /\ hold \in Holders /\ cmds \in Seq(Commands(Requests \cup Tellings))
    /\ faults \in 0 .. MaxFaults
    /\ got \in [nodes : Seq(Nodes), ts : Seq(Nodes), fresh : BOOLEAN]

\* "grabScanDataHq ... The first node of the grabbed data array must be the first
\* sample of a scan ... All data nodes are belong to exactly ONE complete
\* 360-degrees's scan" (sl_lidar_driver.h), of the scan that was started last, and
\* its timestamp is that of its first node, as long as every delay has let the line
\* settle, which is all that the driver relies on.  A scan that is larger than the
\* buffer loses nodes before its last one.
GrabbedIsOneScan ==
    timely /\ got.fresh =>
        LET n == got.nodes
        IN  /\ n # <<>> /\ Sync(n[1]) /\ n[1].now /\ got.ts = <<n[1]>>
            /\ n[Len(n)].pos = RevLen - 1
            /\ \A i \in 2 .. Len(n) :
                  n[i].now /\ n[i].rev = n[1].rev /\ n[i].pos > n[i - 1].pos

\* What may be grabbed, now or after the next swap, begins with a sync node whose
\* time was kept for it, and a signalled scan is there (the assertion of
\* waitAndLockAvailableScan).
HolderBegins ==
    /\ hold.signal => hold.avail >= 0
    /\ hold.avail >= 0 => hold.buf[hold.avail] # <<>>
    /\ \A b \in 0 .. 1 :
          hold.buf[b] # <<>> => Sync(hold.buf[b][1]) /\ hold.ts[b] = <<hold.buf[b][1]>>

\* The event that wakes a call was not set by a late answer to an earlier request,
\* whose own call had timed out or had been woken without an answer.
AnswerIsOwn ==
    (At("await") /\ answered /\ clean /\ answer.kind = Arg.kind) => answer.own

\* An answer that is stored for a call has set the event for it: the call is woken by
\* it, unless its deadline has passed.
AnswerWakes ==
    (At("await") /\ answer.own /\ answer.kind = Arg.kind) => answered

\* As long as every delay has let the line settle, the codec is not in the loop mode
\* of an earlier scan, in which it would take the answer for a sample, while a call
\* waits for the answer.
AnswerHeard == timely /\ At("await") => ~loop
=============================================================================
