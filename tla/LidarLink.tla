----------------------------- MODULE LidarLink -----------------------------
(***************************************************************************)
(* The link to the LIDAR (rplidar_ros/sdk/src): the channel, which is a    *)
(* serial port (sl_serial_channel.cpp, arch/linux/net_serial.cpp) or a TCP *)
(* or UDP socket (sl_tcp_channel.cpp, sl_udp_channel.cpp,                  *)
(* arch/linux/net_socket.cpp); the transceiver with its receiving and its  *)
(* decoding thread (sl_async_transceiver.cpp); and the codec that finds    *)
(* the messages in the bytes (sl_lidarprotocol_codec.cpp).  The driver     *)
(* above it connects, disconnects, negotiates the baud rate and leaves the *)
(* loop mode of the codec whenever it likes.                               *)
(***************************************************************************)
EXTENDS Naturals, SequencesExt

CONSTANTS
    Links,      \* records [kind, script]: the kind of channel, and what the device
                \* sends, a sequence of packets [type, len, loop, data]
    SizeLen,    \* bytes of the size field (four, of which the values use one)
    MaxPipe,    \* bound: bytes that are sent and not decoded yet
    MaxOpens,   \* bound: how often the channel is opened
    MaxResets   \* bound: how often the driver leaves the loop mode

ASSUME SizeLenAssumption == SizeLen \in Nat \ {0}

VARIABLES
    packets,    \* the script that the device follows
    script,     \* the bytes that it has not sent yet
    wire,       \* the bytes in the receive buffer of the port or socket
    port,       \* the channel: [kind, open, plugged, disposed]
    connected,  \* SlamtecLidarDriver::_isConnected
    closing,    \* what unbindAndClose is called for: "no", "disconnect" or "negotiate";
                \* or "crashed"
    working,    \* _isWorking
    queue,      \* _rxQueue
    signal,     \* the event _dataEvt
    rx,         \* the receiving thread: where it is, and what it holds
    dec,        \* the decoding thread: where it is, and what is left of its buffer
    codec,      \* the codec: state, loop flag, position, and the message in the making
    heard,      \* the messages that the listener has copied
    cut,        \* history: bytes were lost, or the codec was reset within a packet
    opens, resets

driver == <<connected, closing, working, opens>>
device == <<packets, script, wire, port>>
threads == <<queue, signal, rx, dec>>
vars == <<driver, device, threads, codec, heard, cut, resets>>

(***************************************************************************)
(* The bytes.  A size byte stands for the size and the loop flag; the      *)
(* payload may contain bytes that look like the sync bytes.                *)
(***************************************************************************)
Sync1 == 165
Sync2 == 90
LoopFlag == 64
SizeField(p) == <<p.len + (IF p.loop THEN LoopFlag ELSE 0)>> \o [i \in 1 .. SizeLen - 1 |-> 0]
Framed(p) == <<Sync1, Sync2>> \o SizeField(p) \o <<p.type>> \o p.data
Sent(ps) == FlattenSeq([i \in DOMAIN ps |-> Framed(ps[i])])

\* The messages of a script: a loop packet is followed by payloads of its size.
Chunk(p, k) == SubSeq(p.data, (k - 1) * p.len + 1, k * p.len)
Messages(ps) ==
    FlattenSeq([i \in DOMAIN ps |->
        LET p == ps[i]
        IN  [k \in 1 .. (IF p.len = 0 THEN 0 ELSE Len(p.data) \div p.len) |->
                [type |-> p.type, data |-> Chunk(p, k)]]])
Scripts == {link.script : link \in Links}

\* A packet carries what its header says: a message, or after the last header, which
\* has the loop flag, one message after the other.
Packets == [type : Nat, len : 0 .. LoopFlag - 1, loop : BOOLEAN, data : Seq(Nat)]
Carries(p, last) == IF p.loop /\ p.len > 0 THEN last ELSE Len(p.data) = p.len
ASSUME LinksAssumption ==
    \A link \in Links :
        /\ link.kind \in {"serial", "tcp", "udp"} /\ link.script \in Seq(Packets)
        /\ \A i \in DOMAIN link.script : Carries(link.script[i], i = Len(link.script))
ASSUME MaxPipeAssumption == MaxPipe \in Nat

Expected == [ps \in Scripts |-> Messages(ps)]
ByteValues == UNION {ToSet(Sent(ps)) : ps \in Scripts}

(***************************************************************************)
(* The channel: what raw_serial or the socket returns.                     *)
(***************************************************************************)
IsSerial == port.kind = "serial"

\* raw_serial::open needs the device, as the connect of a stream does; that of a
\* datagram socket succeeds whoever is there
Reachable == port.plugged \/ port.kind = "udp"
\* open and flush: what was there before is gone
Flushed == wire' = <<>>
Opened(ok) ==
    /\ ok => Reachable
    /\ port' = [port EXCEPT !.open = ok] /\ Flushed
\* close of a socket disposes of it for good
Closed == port' = [port EXCEPT !.open = FALSE, !.disposed = ~IsSerial] /\ wire' = <<>>

Readable(size) == {[ret |-> "ok", size |-> size]}
TimesOut == {[ret |-> "timeout", size |-> 0]}
Errs == {[ret |-> "error", size |-> 0]}
\* raw_serial::waitfordata: the loss of the device is an error, and so is a select that
\* fails, interrupted by a signal for instance; there is none if bytes are there
SerialData ==
    IF ~port.open \/ ~port.plugged THEN Errs
    ELSE IF wire # <<>> THEN Readable(Len(wire)) ELSE TimesOut \cup Errs
\* select: a socket whose other side is gone is silent, or readable with nothing to read;
\* the hint is more than there can be
SocketData ==
    Errs \cup (IF wire # <<>> \/ ~port.plugged THEN Readable(MaxPipe) ELSE {})
         \cup (IF wire = <<>> THEN TimesOut ELSE {})

\* waitForDataExt
WaitResults == IF IsSerial THEN SerialData ELSE SocketData

\* recv takes what is there, recvFrom a datagram, which is a byte here
Taken(size) == SubSeq(wire, 1, IF size < Len(wire) THEN size ELSE Len(wire))
Datagram == Taken(1)
Received(hint) == IF port.kind = "udp" THEN Datagram ELSE Taken(hint)
\* a read that fails returns no bytes, like one that finds none
ReadResults(hint) == {Received(hint), <<>>}

(***************************************************************************)
(* The codec.                                                              *)
(***************************************************************************)
CodecReset == [st |-> "sync1", loop |-> FALSE, pos |-> 0, len |-> 0, type |-> 0, data |-> <<>>]

\* onDecodeData, one byte of it, without the call of the listener
\* mutant: a loop message returns to the search for the next header
PayloadOnce(c, byte) ==
    IF c.pos + 1 < c.len THEN [c EXCEPT !.pos = @ + 1, !.data = Append(@, byte)]
    ELSE [c EXCEPT !.st = "sync1", !.loop = FALSE, !.data = Append(@, byte)]
Payload(c, byte) ==
    IF c.pos + 1 < c.len THEN [c EXCEPT !.pos = @ + 1, !.data = Append(@, byte)]
    ELSE IF c.loop THEN [c EXCEPT !.pos = 0, !.data = Append(@, byte)]
    ELSE [c EXCEPT !.st = "sync1", !.data = Append(@, byte)]

SizeByte(c, byte) ==
    LET d == IF c.pos = 0 THEN [c EXCEPT !.len = byte % LoopFlag, !.loop = byte \div LoopFlag = 1]
             ELSE c
    IN  IF c.pos + 1 = SizeLen THEN [d EXCEPT !.st = "type", !.pos = 0, !.data = <<>>]
        ELSE [d EXCEPT !.pos = @ + 1]

TypeByte(c, byte) ==
    IF c.len = 0 THEN [c EXCEPT !.st = "sync1", !.loop = FALSE, !.type = byte]
    ELSE [c EXCEPT !.st = "payload", !.type = byte]

DecodeByte(c, byte) ==
    CASE c.st = "sync1" -> IF byte = Sync1 THEN [c EXCEPT !.st = "sync2"] ELSE c
      [] c.st = "sync2" -> [c EXCEPT !.st = IF byte = Sync2 THEN "size" ELSE "sync1", !.pos = 0]
      [] c.st = "size" -> SizeByte(c, byte)
      [] c.st = "type" -> TypeByte(c, byte)
      [] c.st = "payload" -> Payload(c, byte)

Completes(c) == c.st = "payload" /\ c.pos + 1 = c.len
Emptied(c) == [c EXCEPT !.data = <<>>]

\* What is sent and not decoded yet: the rest of the buffer that is decoded, the
\* queue, the buffer that is received, and the port.
Pipe == dec.rest \o FlattenSeq(queue) \o rx.chunk \o wire

(***************************************************************************)
(* The device, and the cable.                                              *)
(***************************************************************************)
\* A datagram may get lost; they come in order, there is one link.
DeviceSends ==
    /\ script # <<>> /\ port.plugged /\ Len(Pipe) < MaxPipe
    /\ script' = Tail(script)
    /\ \E arrives \in (IF port.kind = "udp" /\ port.open THEN BOOLEAN ELSE {port.open}) :
          /\ wire' = IF arrives THEN Append(wire, Head(script)) ELSE wire
          /\ cut' = (cut \/ ~arrives)
    /\ UNCHANGED <<packets, port, driver, threads, codec, heard, resets>>

\* What a socket has received stays there, unless the other side resets it.
Unplug ==
    /\ port.plugged /\ port' = [port EXCEPT !.plugged = FALSE]
    /\ wire' \in (IF IsSerial THEN {<<>>} ELSE {wire, <<>>})
    /\ cut' = (cut \/ wire' # wire)
    /\ UNCHANGED <<packets, script, driver, threads, codec, heard, resets>>

(***************************************************************************)
(* The caller's thread.                                                    *)
(***************************************************************************)
\* openChannelAndBind; the Result within its loop hides the one that it returns, so
\* that a channel that does not open is a success for the caller
Binds ==
    \E ok \in BOOLEAN :
        /\ Opened(ok) /\ working' = ok
        /\ signal' = IF ok THEN FALSE ELSE signal
        /\ rx' = [rx EXCEPT !.pc = IF ok THEN "wait" ELSE "off"]
        /\ dec' = [dec EXCEPT !.pc = IF ok THEN "reset" ELSE "off"]
        /\ opens' = opens + 1
        /\ cut' = (cut \/ wire # <<>> \/ queue # <<>>)
BindSucceeds(ok) == TRUE

Connect ==
    /\ ~connected /\ ~port.disposed /\ opens < MaxOpens
    /\ Binds /\ connected' = BindSucceeds(working')
    /\ UNCHANGED <<packets, script, closing, queue, codec, heard, resets>>

\* A socket that was closed is a null pointer: the process ends.
ConnectDisposed ==
    /\ ~connected /\ port.disposed /\ closing = "no" /\ opens < MaxOpens
    /\ closing' = "crashed"
    /\ UNCHANGED <<connected, working, opens, device, threads, codec, heard, cut, resets>>

\* unbindAndClose tells its threads, joins them and closes the channel
Begins(why) ==
    /\ connected /\ working /\ closing = "no" /\ closing' = why
    /\ working' = FALSE /\ signal' = TRUE
    /\ UNCHANGED <<connected, opens, device, queue, rx, dec, codec, heard, cut, resets>>
Disconnect == Begins("disconnect")
Negotiate == IsSerial /\ opens < MaxOpens /\ Begins("negotiate")

DisconnectUnopened ==
    /\ connected /\ ~working /\ closing = "no" /\ connected' = FALSE
    /\ UNCHANGED <<closing, working, opens, device, threads, codec, heard, cut, resets>>

Joined == rx.pc = "off" /\ dec.pc = "off"

DisconnectEnds ==
    /\ closing = "disconnect" /\ Joined /\ closing' = "no"
    /\ connected' = FALSE /\ Closed /\ queue' = <<>>
    /\ cut' = (cut \/ wire # <<>> \/ queue # <<>>)
    /\ UNCHANGED <<packets, script, working, opens, signal, rx, dec, codec, heard, resets>>

\* negotiateSerialBaudRate: whatever its own exchange at the port brings, it binds
\* the channel again
NegotiateEnds ==
    /\ closing = "negotiate" /\ Joined /\ closing' = "no"
    /\ Binds /\ queue' = <<>>
    /\ UNCHANGED <<packets, script, connected, codec, heard, resets>>

\* exitLoopMode.  The codec holds its lock while it decodes, except during the call
\* of the listener: then the message goes while the listener copies it.
MidPacket == codec.st # "sync1" \/ dec.pc = "listen"
Torn == [type |-> 0, data |-> <<>>]
ExitLoopMode ==
    /\ connected /\ closing = "no" /\ resets < MaxResets /\ dec.pc # "decode"
    /\ codec' = CodecReset /\ resets' = resets + 1
    /\ dec' \in {dec, [dec EXCEPT !.msg = Torn]}
    /\ cut' = (cut \/ MidPacket)
    /\ UNCHANGED <<driver, device, queue, signal, rx, heard>>

(***************************************************************************)
(* _proc_rxThread.                                                         *)
(***************************************************************************)
rxIdle == <<packets, script, port, driver, dec, codec, heard, cut, resets>>

\* the wait ends after its timeout of a second at the latest
\* mutant: the wait has no timeout
RxStopsOnData == rx.pc = "wait" /\ ~working /\ wire # <<>>
RxStops == rx.pc = "wait" /\ ~working

RxStop ==
    /\ RxStops /\ rx' = [rx EXCEPT !.pc = "off"]
    /\ UNCHANGED <<rxIdle, wire, queue, signal>>

RxWait ==
    /\ rx.pc = "wait"
    /\ \E w \in WaitResults :
          rx' = CASE w.ret = "ok" -> [rx EXCEPT !.pc = "read", !.hint = w.size]
                  [] w.ret = "timeout" -> rx
                  [] w.ret = "error" -> [rx EXCEPT !.pc = "off"]
    /\ UNCHANGED <<rxIdle, wire, queue, signal>>

RxRead ==
    /\ rx.pc = "read"
    /\ \E got \in ReadResults(rx.hint) :
          /\ rx' = IF got = <<>> THEN [rx EXCEPT !.pc = "off", !.hint = 0]
                   ELSE [pc |-> "push", hint |-> 0, chunk |-> got]
          /\ wire' = SubSeq(wire, Len(got) + 1, Len(wire))
    /\ UNCHANGED <<rxIdle, queue, signal>>

RxPush ==
    /\ rx.pc = "push"
    /\ queue' = Append(queue, rx.chunk) /\ signal' = TRUE
    /\ rx' = [pc |-> "wait", hint |-> 0, chunk |-> <<>>]
    /\ UNCHANGED <<rxIdle, wire>>

Rx == RxStop \/ RxWait \/ RxRead \/ RxPush

(***************************************************************************)
(* _proc_decoderThread.                                                    *)
(***************************************************************************)
decIdle == <<driver, device, rx, resets>>

DecReset ==
    /\ dec.pc = "reset" /\ dec' = [dec EXCEPT !.pc = "check"]
    /\ codec' = CodecReset /\ cut' = (cut \/ codec.st # "sync1")
    /\ UNCHANGED <<decIdle, queue, signal, heard>>

\* mutant: the newest buffer is decoded first
TakesLast(q) == [chunk |-> q[Len(q)], rest |-> SubSeq(q, 1, Len(q) - 1)]
Takes(q) == [chunk |-> Head(q), rest |-> Tail(q)]

DecCheck ==
    /\ dec.pc = "check"
    /\ IF ~working THEN dec' = [dec EXCEPT !.pc = "off"] /\ UNCHANGED queue
       ELSE IF queue = <<>> THEN dec' = [dec EXCEPT !.pc = "wait"] /\ UNCHANGED queue
       ELSE /\ dec' = [dec EXCEPT !.pc = "decode", !.rest = Takes(queue).chunk]
            /\ queue' = Takes(queue).rest
    /\ UNCHANGED <<decIdle, signal, codec, heard, cut>>

\* Event::wait: signalled, after a second, or without a reason
DecWait ==
    /\ dec.pc = "wait" /\ dec' = [dec EXCEPT !.pc = "check"]
    /\ signal' = FALSE
    /\ UNCHANGED <<decIdle, queue, codec, heard, cut>>

DecByte ==
    /\ dec.pc = "decode" /\ dec.rest # <<>>
    /\ LET c == DecodeByte(codec, Head(dec.rest))
       IN  IF Completes(codec)
           THEN /\ codec' = Emptied(c)
                /\ dec' = [pc |-> "listen", rest |-> Tail(dec.rest),
                            msg |-> [type |-> c.type, data |-> c.data]]
           ELSE codec' = c /\ dec' = [dec EXCEPT !.rest = Tail(@)]
    /\ UNCHANGED <<decIdle, queue, signal, heard, cut>>

DecListen ==
    /\ dec.pc = "listen" /\ heard' = Append(heard, dec.msg)
    /\ dec' = [dec EXCEPT !.pc = "decode", !.msg = Torn]
    /\ UNCHANGED <<decIdle, queue, signal, codec, cut>>

DecDone ==
    /\ dec.pc = "decode" /\ dec.rest = <<>> /\ dec' = [dec EXCEPT !.pc = "check"]
    /\ UNCHANGED <<decIdle, queue, signal, codec, heard, cut>>

Dec == DecReset \/ DecCheck \/ DecWait \/ DecByte \/ DecListen \/ DecDone

Init ==
    /\ \E link \in Links :
          /\ packets = link.script
          /\ port = [kind |-> link.kind, open |-> FALSE, plugged |-> TRUE, disposed |-> FALSE]
    /\ script = Sent(packets) /\ wire = <<>>
    /\ connected = FALSE /\ closing = "no" /\ working = FALSE /\ opens = 0
    /\ queue = <<>> /\ signal = FALSE
    /\ rx = [pc |-> "off", hint |-> 0, chunk |-> <<>>]
    /\ dec = [pc |-> "off", rest |-> <<>>, msg |-> Torn]
    /\ codec = CodecReset /\ heard = <<>> /\ cut = FALSE /\ resets = 0

Caller ==
    \/ Connect \/ ConnectDisposed \/ Disconnect \/ DisconnectUnopened \/ DisconnectEnds
    \/ Negotiate \/ NegotiateEnds \/ ExitLoopMode

Next == Caller \/ Rx \/ Dec \/ DeviceSends \/ Unplug

Spec == Init /\ [][Next]_vars

\* The threads run on, and so does a call that waits for them.  A select may fail, but
\* nothing says that it ever does.
RxFails == rx'.pc = "off" /\ WaitResults # Errs
RxGoesOn == RxStop \/ (RxWait /\ ~RxFails) \/ RxRead \/ RxPush
FairSpec ==
    Spec /\ WF_vars(RxGoesOn) /\ WF_vars(Dec) /\ WF_vars(DisconnectEnds \/ NegotiateEnds)

(***************************************************************************)
(* Properties.                                                             *)
(***************************************************************************)
\* Two threads and a queue between the port and the codec: the bytes are decoded in
\* the order in which they came, none twice, and none is lost but off the end.
Stream == INSTANCE ByteStream WITH pipe <- Pipe, Bytes <- ByteValues
IsByteStream == Stream!Spec

\* The listener receives exactly the messages that were sent, whole and in their
\* order, in whatever pieces the bytes arrive, as long as no byte was lost and the
\* codec was not reset within a packet.
HeardIsSent ==
    ~cut => /\ IsPrefix(heard, Expected[packets])
            /\ (script = <<>> /\ Pipe = <<>> /\ dec.pc # "listen") => heard = Expected[packets]

\* disconnect and negotiateSerialBaudRate return: both threads notice within their
\* timeouts that they have to end, also when the device is gone.
CloseReturns == closing \in {"disconnect", "negotiate"} ~> closing = "no"

\* "Check if the connection is established" (sl_lidar_driver.h:325): a driver that
\* says so has an open channel.
ConnectedMeansOpen == connected /\ closing = "no" => working
=============================================================================
