----------------------------- MODULE Ultrasonic -----------------------------
(***************************************************************************)
(* The ultrasonic sensors: the Arduino that measures them, the serial      *)
(* protocol of ultrasonic_usb, the node ultrasonic_publisher whose timer   *)
(* asks for a measurement and publishes it, and ultrasonic_estop, which    *)
(* stops the robot for an obstacle that was reported often enough.         *)
(*                                                                         *)
(* Data are bytes: distances in centimetres, identifiers and delimiters.   *)
(* The unit of time is the period of ultrasonic_publisher; the 10 ms that  *)
(* get_arduino_data sleeps before it reads are part of the reading.        *)
(***************************************************************************)
EXTENDS Naturals, Sequences

CONSTANTS
    Echoes,         \* what the three sensors may measure
    VTIME,          \* the gap between bytes that ends a read, in units of time
    MaxAge, RequiredReadings, CheckPeriod,      \* of ultrasonic_estop
    MaxDisturbances     \* bound: lost requests and bytes, stalls, an unplugged cable and
                        \* batches of parameters, together

Sensors == 1 .. 3
START == 202
STOP  == 203
ID    == <<211, 213, 215>>      \* LEFT, CENTER, RIGHT
PACKETLEN == 8
MinSafeDistance == 15

ASSUME EchoesAssumption == Echoes \subseteq [Sensors -> 0 .. 255]
ASSUME TimesAssumption ==
    VTIME \in Nat /\ MaxAge \in Nat /\ RequiredReadings \in Nat \ {0} /\ CheckPeriod \in Nat \ {0}

VARIABLES
    usb,        \* ultrasonic_usb and the timer: [fd, timer, due, reading, data]
    line,       \* the bytes that have arrived and are not read
    gap,        \* the time since the last of them
    arduino,    \* [echo, coming, held]: what the sensors see, the bytes on the wire
    estop,      \* UltrasonicLogic and its timer: [count, age, stops, next]
    inbox,      \* the topics range/...: at most one distance for each sensor
    log         \* history, and the counters of the bounds

vars == <<usb, line, gap, arduino, estop, inbox, log>>

Packet(e) == <<START, ID[1], e[1], ID[2], e[2], ID[3], e[3], STOP>>
Invalid == <<255, 255, 255>>

\* get_arduino_data's tests of a packet
\* mutant: the identifiers are not compared
WellFormedByEnds(p) == Len(p) = PACKETLEN /\ p[1] = START
WellFormed(p) ==
    /\ Len(p) = PACKETLEN
    /\ p[1] = START /\ p[8] = STOP
    /\ p[2] = ID[1] /\ p[4] = ID[2] /\ p[6] = ID[3]
Decoded(p) == IF WellFormed(p) THEN <<p[3], p[5], p[7]>> ELSE Invalid

\* publish_data: beyond 200 cm nothing is published; 0 is no echo, +inf
Infinity == 1000
Distance(v) == IF v = 0 THEN Infinity ELSE v
Published(data) == [s \in Sensors |-> IF data[s] <= 200 THEN <<Distance(data[s])>> ELSE <<>>]

Near(distance) == distance < MinSafeDistance
Saw(s, echo) == echo[s] <= 200 /\ Near(Distance(echo[s]))

\* How long an obstacle may be in view of an undisturbed sensor: a read that the
\* last fault broke off, the readings it takes, and the timer of ultrasonic_estop.
Reaction == VTIME + RequiredReadings + CheckPeriod + 1
-----------------------------------------------------------------------------
(***************************************************************************)
(* The constructor.  If init_arduino fails the node goes on without timer. *)
(***************************************************************************)
Init ==
    /\ \E fd \in {"open", "closed"} :
           usb = [fd |-> fd, timer |-> fd = "open", due |-> FALSE, reading |-> FALSE,
                  data |-> <<0, 0, 0>>]
    /\ line = <<>> /\ gap = 0
    /\ \E e \in Echoes : arduino = [echo |-> e, coming |-> <<>>, held |-> FALSE]
    /\ estop = [count |-> [s \in Sensors |-> 0], age |-> [s \in Sensors |-> MaxAge + 1],
                stops |-> FALSE, next |-> CheckPeriod]
    /\ inbox = [s \in Sensors |-> <<>>]
    /\ log = [measured |-> Invalid, nears |-> [s \in Sensors |-> 0],
              near |-> [s \in Sensors |-> 0], fresh |-> FALSE, disturbed |-> 0, stalls |-> 0]

(***************************************************************************)
(* on_parameter_change: only update_rate does something, it makes a new    *)
(* timer (also for a node that has none).  The messages took the limits    *)
(* and the field of view in initialize_sensors, and nothing reads the      *)
(* members again.                                                          *)
(***************************************************************************)
OnParameterChange ==
    /\ log.disturbed < MaxDisturbances
    /\ ~usb.reading
    /\ usb' = [usb EXCEPT !.timer = TRUE, !.due = FALSE]
    /\ log' = [log EXCEPT !.disturbed = @ + 1, !.near = [s \in Sensors |-> 0]]
    /\ UNCHANGED <<line, gap, arduino, estop, inbox>>

(***************************************************************************)
(* timer_callback: get_arduino_data and publish_data.  Bound: what was     *)
(* published before has been handled.                                      *)
(***************************************************************************)
Called ==
    /\ usb.timer /\ usb.due /\ ~usb.reading
    /\ inbox = [s \in Sensors |-> <<>>]
Finish(data) ==
    /\ usb' = [usb EXCEPT !.due = FALSE, !.reading = FALSE, !.data = data]
    /\ inbox' = Published(data)

\* tcflush discards what has arrived
\* mutant: it does not
Unflushed == line
Flushed == <<>>

\* The request reaches the Arduino, which measures and answers, or gets lost.
Ask ==
    /\ Called /\ usb.fd = "open"
    /\ line' = Flushed /\ gap' = 0
    /\ usb' = [usb EXCEPT !.due = FALSE, !.reading = TRUE]
    /\ \/ /\ arduino' = [arduino EXCEPT !.coming = @ \o Packet(arduino.echo)]
          /\ log' = [log EXCEPT !.measured = arduino.echo,
                                !.nears = [s \in Sensors |->
                                             IF Saw(s, arduino.echo) /\ @[s] < RequiredReadings
                                             THEN @[s] + 1 ELSE @[s]],
                                !.fresh = FALSE]
       \/ /\ log.disturbed < MaxDisturbances
          /\ log' = [log EXCEPT !.disturbed = @ + 1, !.near = [s \in Sensors |-> 0],
                                !.fresh = FALSE]
          /\ UNCHANGED arduino
    /\ UNCHANGED <<estop, inbox>>
WriteFails ==
    /\ Called /\ usb.fd # "open"
    /\ Finish(Invalid)
    /\ log' = [log EXCEPT !.fresh = FALSE]
    /\ UNCHANGED <<line, gap, arduino, estop>>

\* The read returns with eight bytes (VMIN), or when no byte has followed the last
\* one for VTIME.  VTIME counts from the first byte on: without one the read waits.
Whole == Len(line) >= PACKETLEN
BrokenOff == line # <<>> /\ gap > VTIME

\* mutant: an answer that is not valid leaves the data as they are
ResultKept(bytes) ==
    IF WellFormed(bytes) THEN <<bytes[3], bytes[5], bytes[7]>> ELSE usb.data
Result(bytes) == Decoded(bytes)

ReadReturns ==
    LET n == IF Whole THEN PACKETLEN ELSE Len(line)
        bytes == SubSeq(line, 1, n)
    IN  /\ usb.reading /\ (Whole \/ BrokenOff)
        /\ Finish(Result(bytes))
        /\ line' = SubSeq(line, n + 1, Len(line))
        /\ log' = [log EXCEPT !.fresh = (WellFormed(bytes) /\ usb'.data = log.measured)]
        /\ UNCHANGED <<gap, arduino, estop>>
\* the adapter is gone
ReadFails ==
    /\ usb.reading /\ usb.fd = "dead"
    /\ Finish(Invalid)
    /\ log' = [log EXCEPT !.fresh = FALSE]
    /\ UNCHANGED <<line, gap, arduino, estop>>
-----------------------------------------------------------------------------
(***************************************************************************)
(* The Arduino, the wire and the world (external).                         *)
(***************************************************************************)
Undisturbed == ~arduino.held /\ usb.fd = "open" /\ usb.timer
\* A read of which no byte has come and none is under way
Stuck == usb.reading /\ line = <<>> /\ arduino.coming = <<>>

Arrives ==
    /\ arduino.coming # <<>> /\ ~arduino.held
    /\ line' = IF usb.fd = "open" THEN Append(line, Head(arduino.coming)) ELSE line
    /\ gap' = 0
    /\ arduino' = [arduino EXCEPT !.coming = Tail(@)]
    /\ UNCHANGED <<usb, estop, inbox, log>>

Fault ==
    /\ log.disturbed < MaxDisturbances
    /\ log' = [log EXCEPT !.disturbed = @ + 1, !.near = [s \in Sensors |-> 0]]
    /\ UNCHANGED <<line, gap, estop, inbox>>
\* The next byte, or all that is left of what is under way
Loses(n) ==
    /\ Fault
    /\ n <= Len(arduino.coming)
    /\ arduino' = [arduino EXCEPT !.coming = SubSeq(@, n + 1, Len(@))]
    /\ UNCHANGED usb
Stalls ==
    /\ log.disturbed < MaxDisturbances
    /\ log' = [log EXCEPT !.disturbed = @ + 1, !.stalls = @ + 1, !.near = [s \in Sensors |-> 0]]
    /\ arduino.coming # <<>> /\ ~arduino.held
    /\ arduino' = [arduino EXCEPT !.held = TRUE]
    /\ UNCHANGED <<usb, line, gap, estop, inbox>>
Unplugged ==
    /\ Fault
    /\ usb.fd = "open"
    /\ usb' = [usb EXCEPT !.fd = "dead"]
    /\ arduino' = [arduino EXCEPT !.coming = <<>>, !.held = FALSE]
Resumes ==
    /\ arduino.held
    /\ arduino' = [arduino EXCEPT !.held = FALSE]
    /\ UNCHANGED <<usb, line, gap, estop, inbox, log>>

Moves(e) ==
    /\ e # arduino.echo
    /\ arduino' = [arduino EXCEPT !.echo = e]
    /\ log' = [log EXCEPT !.near = [s \in Sensors |-> IF Saw(s, e) THEN @[s] ELSE 0]]
    /\ UNCHANGED <<usb, line, gap, estop, inbox>>
-----------------------------------------------------------------------------
(***************************************************************************)
(* ultrasonic_estop: on_range for one sensor, and _check_and_publish.      *)
(* The count is kept up to RequiredReadings, with which alone it is        *)
(* compared.                                                               *)
(***************************************************************************)
Counted(s, d) ==
    IF ~Near(d) THEN 0
    ELSE IF estop.count[s] < RequiredReadings THEN estop.count[s] + 1 ELSE estop.count[s]
OnRange(s) ==
    /\ inbox[s] # <<>>
    /\ inbox' = [inbox EXCEPT ![s] = <<>>]
    /\ estop' = [estop EXCEPT !.count[s] = Counted(s, inbox[s][1]), !.age[s] = 0]
    /\ log' = [log EXCEPT !.nears[s] = IF Near(inbox[s][1]) THEN @ ELSE 0]
    /\ UNCHANGED <<usb, line, gap, arduino>>

\* mutant: all sensors are needed
UnsafeIfAll ==
    \A s \in Sensors : estop.age[s] <= MaxAge /\ estop.count[s] >= RequiredReadings
Unsafe ==
    \E s \in Sensors : estop.age[s] <= MaxAge /\ estop.count[s] >= RequiredReadings
CheckAndPublish ==
    /\ estop.next = 0
    /\ estop' = [estop EXCEPT !.next = CheckPeriod, !.stops = Unsafe]
    /\ UNCHANGED <<usb, line, gap, arduino, inbox, log>>

\* A period passes: what has been sent has arrived, and the executors have handled it.
Quiet ==
    /\ arduino.coming = <<>> \/ arduino.held
    /\ inbox = [s \in Sensors |-> <<>>]
    /\ estop.next # 0
    /\ usb.timer /\ usb.due => usb.reading
    /\ usb.reading => ~Whole /\ ~BrokenOff /\ usb.fd # "dead"
TimePasses ==
    /\ Quiet
    /\ usb' = [usb EXCEPT !.due = usb.timer]
    /\ gap' = IF usb.reading /\ line # <<>> THEN gap + 1 ELSE gap
    /\ estop' = [estop EXCEPT !.next = @ - 1,
                              !.age = [s \in Sensors |-> IF @[s] <= MaxAge THEN @[s] + 1 ELSE @[s]]]
    /\ log' = [log EXCEPT !.near = [s \in Sensors |->
                   IF ~Undisturbed \/ Stuck \/ ~Saw(s, arduino.echo) THEN 0
                   ELSE IF @[s] < Reaction THEN @[s] + 1 ELSE @[s]]]
    /\ UNCHANGED <<line, arduino, inbox>>

Publisher ==
    \/ OnParameterChange \/ Ask \/ WriteFails \/ ReadReturns \/ ReadFails
Wire ==
    \/ Arrives \/ Stalls \/ Unplugged \/ Resumes
    \/ \E n \in {1, Len(arduino.coming)} \ {0} : Loses(n)
EStop == CheckAndPublish \/ \E s \in Sensors : OnRange(s)
Next == Publisher \/ Wire \/ EStop \/ TimePasses \/ \E e \in Echoes : Moves(e)

Spec == Init /\ [][Next]_vars

\* The executors run, bytes that were sent arrive, and time passes.
Fairness ==
    /\ WF_vars(Ask) /\ WF_vars(WriteFails) /\ WF_vars(ReadReturns) /\ WF_vars(ReadFails)
    /\ WF_vars(Arrives) /\ WF_vars(TimePasses)
    /\ WF_vars(CheckAndPublish) /\ \A s \in Sensors : WF_vars(OnRange(s))
FairSpec == Spec /\ Fairness
-----------------------------------------------------------------------------
(***************************************************************************)
(* The properties.                                                         *)
(***************************************************************************)
\* What the guarantees below need: at most one answer has come late.  Nothing in a
\* packet says which request it answers, and after two stalls the whole answer to an
\* earlier request may be read as that to the last.
InStep == log.stalls < 2

\* Whatever bytes and requests are lost, and also when the bytes of one answer come
\* late and are read across their boundary with the next: no distance is put on a
\* topic that the last request which was answered did not measure for this very sensor
\* ("If START and STOP bytes are incorrect, packet is most likely also incorrect").
PublishedIsMeasured ==
    InStep => \A s \in Sensors :
        inbox[s] # <<>> => log.measured[s] <= 200 /\ inbox[s][1] = Distance(log.measured[s])

\* "so a single glitched echo doesn't stop the robot": as long as at most one answer
\* came late, a sensor stops the robot only after as many measurements of an obstacle
\* as are required, with none of a free way in between that was reported; no reading
\* counts twice, also when the Arduino falls silent after it.
OneGlitchDoesNotStop ==
    InStep => \A s \in Sensors : estop.count[s] <= log.nears[s]

\* An obstacle that a working sensor, whose reads return, has in view for the reaction
\* time stops the robot ("zeroes the robot's velocity (...) whenever any ultrasonic
\* sensor reads closer than min_safe_distance"), however many answers came late or
\* broken before.
StopsInTime ==
    \A s \in Sensors : log.near[s] >= Reaction /\ estop.next # 0 => estop.stops

\* After late answers and missing bytes the readings are published again and again:
\* none stays out of step with the packets.  The exception is a read to which not one
\* byte comes, as its request or the whole answer was lost: that one lasts for ever.
KeepsReading == (<>[]Undisturbed) => ([]<>log.fresh) \/ <>[]Stuck

\* "Read minimum PACKETLEN (8) characters, 0.5s timeout", and "If nothing received, set
\* data to invalid": every read returns, also one to which nothing comes.
ReadsTimeOut == usb.reading ~> ~usb.reading
=============================================================================
