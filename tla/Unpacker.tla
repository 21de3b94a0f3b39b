------------------------------ MODULE Unpacker ------------------------------
(***************************************************************************)
(* The sample data unpacker of the RPLIDAR SDK (dataunpacker.cpp and its   *)
(* handlers): it selects a handler by the type of the answer; the handler  *)
(* finds the frames in the bytes and publishes the measurement nodes.  A   *)
(* capsule is interpolated to the start of the next, so its nodes are      *)
(* published when the next has arrived.                                    *)
(*                                                                         *)
(* A frame is three bytes here: its first (a sync byte or nibble), its     *)
(* second, and the rest with the checksum.  An angle is a number of units, *)
(* Turn of them make a revolution, and the interpolation computes with     *)
(* Scale-ths of a unit as the code does with 1/65536 of a degree.          *)
(***************************************************************************)
EXTENDS Integers, FiniteSets, Sequences

CONSTANTS
    Kinds,      \* the answer types in use, a subset of AllKinds
    Turn,       \* units of a start angle in a revolution (360 << 8)
    Scale,      \* parts of a unit in the interpolation (1 << 8)
    MaxDiff,    \* the widest capsule that a dense handler interpolates
    Steps,      \* what the LIDAR may turn in the time of a capsule
    MaxFrames,  \* bounds: frames in each session, the number of sessions
    MaxFaults   \* bound: bytes and frames that get lost or damaged

AllKinds == {"normal", "hq", "capsule", "ultra", "dense", "ultradense"}
Simple == {"normal", "hq"}          \* each frame stands for itself
Dense == {"dense", "ultradense"}    \* detect the edge of the sync bit, have a limit

ASSUME UnpackerAssumption ==
    /\ Kinds \subseteq AllKinds
    /\ Turn \in Nat \ {0}
    /\ Scale \in Nat /\ Scale >= 4 /\ Scale % 2 = 0
    /\ Steps \subseteq 1 .. Turn - 1
    /\ MaxFrames \in Seq(Nat)

\* Nodes of a capsule: 32, 96, 40 and 64 in the code.  Scale is a multiple of the
\* first and the last, not of the others.
Nodes(kind) == IF kind \in {"capsule", "ultradense"} THEN 2 ELSE 3

VARIABLES
    source,     \* the LIDAR: session, kind, step; the next frame and its next byte
    enabled,    \* _enabled
    active,     \* _lastActiveAnsType and _lastActiveHandler
    handler,    \* the handlers: position, buffer, cached capsule, last sync bit
    out,        \* the last frame published: what it was made of, its sync bits
    tally,      \* history: zero crossings and sync bits of the session
    faults,     \* history: what went wrong in each session
    seen        \* history: frames of the session of which a byte was received

vars == <<source, enabled, active, handler, out, tally, faults, seen>>

None == [sess |-> 0, n |-> 0, at |-> 0]
Frame == [sess |-> source.sess, n |-> source.n, at |-> source.at]
\* the LIDAR sets the sync bit of the first capsule of a scan
First(frame) == frame.n = 1

\* prev: the cached capsule, or None if it is not ready
Fresh == [pos |-> 0, buf |-> <<>>, prev |-> None, last |-> FALSE]

Init ==
    /\ source = [sess |-> 0, kind |-> "none", step |-> 0, n |-> 0, at |-> 0, part |-> 1]
    /\ enabled = FALSE
    /\ active = "none"
    /\ handler = [k \in Kinds |-> Fresh]
    /\ out = <<>>
    /\ tally = [turns |-> 0, syncs |-> 0]
    /\ faults = [s \in 1 .. Len(MaxFrames) |-> 0]
    /\ seen = {}

(***************************************************************************)
(* The interpolation of a capsule.                                         *)
(***************************************************************************)
Span(prev, cur) == cur.at - prev.at + (IF prev.at > cur.at THEN Turn ELSE 0)
Inc(kind, prev, cur) == (Span(prev, cur) * Scale) \div Nodes(kind)
\* the angle where node i ends
NodeEnd(kind, prev, cur, i) == prev.at * Scale + i * Inc(kind, prev, cur)
\* mutant: the window of the dense handlers is as narrow as that of the others
NearZeroNarrow(kind, prev, cur, i) ==
    NodeEnd(kind, prev, cur, i) % (Turn * Scale) < Inc(kind, prev, cur)
NearZero(kind, prev, cur, i) ==
    NodeEnd(kind, prev, cur, i) % (Turn * Scale)
        < (IF kind \in Dense THEN 2 ELSE 1) * Inc(kind, prev, cur)

\* The sync bits of the nodes: where the dense handlers see the sync bit twice,
\* they keep the first.
SyncBits(kind, prev, cur, last) ==
    LET bit[i \in 0 .. Nodes(kind)] ==
            IF i = 0 THEN last
            ELSE NearZero(kind, prev, cur, i) /\ ~(kind \in Dense /\ bit[i - 1])
    IN  bit
TooWide(kind, prev, cur) == kind \in Dense /\ Span(prev, cur) > MaxDiff

(***************************************************************************)
(* The distances: _varbitscale_decode of "ultra", and the scales of        *)
(* "ultradense" (the two low bits select the scale, in quarters of mm).    *)
(***************************************************************************)
\* VBS_SCALED_BASE, VBS_TARGET_BASE, 1 << VBS_SCALED_LVL
\* mutant: a base that is taken from the wrong power of two
VbsWrongBase ==
    <<[from |-> 3328, base |-> 16384, unit |-> 16], [from |-> 1792, base |-> 8192, unit |-> 8],
      [from |-> 1280, base |-> 2048, unit |-> 4], [from |-> 512, base |-> 512, unit |-> 2],
      [from |-> 0, base |-> 0, unit |-> 1]>>
Vbs ==
    <<[from |-> 3328, base |-> 16384, unit |-> 16], [from |-> 1792, base |-> 4096, unit |-> 8],
      [from |-> 1280, base |-> 2048, unit |-> 4], [from |-> 512, base |-> 512, unit |-> 2],
      [from |-> 0, base |-> 0, unit |-> 1]>>
VbsLevel(scaled) ==
    CHOOSE i \in DOMAIN Vbs :
        /\ scaled >= Vbs[i].from
        /\ \A j \in 1 .. i - 1 : scaled < Vbs[j].from
MaxScaled == 4095   \* twelve bits
VbsDecode(scaled) ==
    LET v == Vbs[VbsLevel(scaled)] IN v.base + (scaled - v.from) * v.unit
UltraDenseDist(scale, value) ==
    4 * value * (scale + 2) + 4 * <<0, 2046, 8187, 24567>>[scale + 1]
UltraDenseMax(scale) == <<1023, 2047, 4095, 8191>>[scale + 1]

(***************************************************************************)
(* A handler that has collected a frame.                                   *)
(***************************************************************************)
\* _onScanNode...CapsuleData: the cached capsule is published, this one is cached
Published(kind, h, cur) == h.prev # None /\ ~TooWide(kind, h.prev, cur)
Cached(kind, h, cur) ==
    [h EXCEPT !.prev = cur,
              !.last = IF kind \in Dense /\ Published(kind, h, cur)
                       THEN SyncBits(kind, h.prev, cur, h.last)[Nodes(kind)] ELSE @]
\* the first capsule of a scan makes the cached one worthless
Started(h, cur) == IF First(cur) THEN [h EXCEPT !.prev = None] ELSE h
\* a capsule whose checksum is wrong breaks the chain
\* mutant: it does not
BrokenNot(h) == h
Broken(h) == [h EXCEPT !.prev = None]

\* What is published of a capsule, and the sync bits counted.
CapsuleOut(kind, h, cur) ==
    [kind |-> kind, by |-> {h.prev, cur}, from |-> h.prev, to |-> cur, sess |-> source.sess]
Counted(kind, h, cur) ==
    LET bit == SyncBits(kind, h.prev, cur, h.last)
    IN  [turns |-> tally.turns + (IF h.prev.at > cur.at THEN 1 ELSE 0),
         syncs |-> tally.syncs + Cardinality({i \in 1 .. Nodes(kind) : bit[i]})]

\* The bytes of a frame belong together and are intact: the checksum tells, but
\* the frames of the normal mode have none.
Whole(bytes) ==
    /\ \A i \in 1 .. 3 : bytes[i].part = i /\ bytes[i].ok
    /\ \A i \in 2 .. 3 : bytes[i].frame = bytes[1].frame
\* a frame of the normal or the HQ mode is published by itself
SimpleOut(kind, bytes) ==
    <<[kind |-> kind, by |-> {bytes[i].frame : i \in 1 .. 3},
       from |-> bytes[3].frame, to |-> bytes[3].frame, sess |-> source.sess]>>
HqOut(bytes) == IF Whole(bytes) THEN SimpleOut("hq", bytes) ELSE <<>>
Complete(kind, h, bytes) ==
    LET cur == bytes[3].frame
        s == Started(h, cur)
    IN  CASE kind \in Simple ->
               /\ handler' = [handler EXCEPT ![kind] = h]
               /\ out' = IF kind = "hq" THEN HqOut(bytes) ELSE SimpleOut(kind, bytes)
               /\ UNCHANGED tally
          [] kind \notin Simple /\ Whole(bytes) ->
               /\ handler' = [handler EXCEPT ![kind] = Cached(kind, s, cur)]
               /\ out' = IF Published(kind, s, cur)
                         THEN <<CapsuleOut(kind, s, cur)>> ELSE <<>>
               /\ tally' = IF Published(kind, s, cur) THEN Counted(kind, s, cur) ELSE tally
          [] OTHER ->
               /\ handler' = [handler EXCEPT ![kind] = Broken(h)]
               /\ out' = <<>>
               /\ UNCHANGED tally

(***************************************************************************)
(* A byte for a handler (onData).  A byte that is misplaced or damaged may *)
(* look like the one that is expected.                                     *)
(***************************************************************************)
Byte(ok) == [frame |-> Frame, part |-> source.part, ok |-> ok]
\* the handler of the HQ mode checks the first byte only
Unchecked(kind, h) == kind = "hq" /\ h.pos = 1
Expected(kind, h, byte, alike) ==
    \/ byte.part = h.pos + 1 /\ byte.ok
    \/ alike
    \/ Unchecked(kind, h)
\* without a beginning, a capsule handler forgets the cached capsule too
Unsynced(h) ==
    [h EXCEPT !.pos = 0, !.buf = <<>>, !.prev = None]
Collected(h, byte) == [h EXCEPT !.pos = @ + 1, !.buf = Append(@, byte)]
OnData(kind, h, byte, alike) ==
    IF h.pos = 2
    THEN Complete(kind, [h EXCEPT !.pos = 0, !.buf = <<>>], Append(h.buf, byte))
    ELSE /\ handler' = [handler EXCEPT ![kind] =
                IF Expected(kind, h, byte, alike) THEN Collected(h, byte) ELSE Unsynced(h)]
         /\ out' = <<>>
         /\ UNCHANGED tally

(***************************************************************************)
(* The unpacker.  reset() of the dense handlers keeps the cached capsule,  *)
(* and that of "dense" the sync bit, which is static.                      *)
(***************************************************************************)
\* mutant: no handler drops the cached capsule
ResetKeeping(kind, h) == [h EXCEPT !.pos = 0, !.buf = <<>>]
Reset(kind, h) ==
    [h EXCEPT !.pos = 0, !.buf = <<>>,
              !.prev = IF kind \in Dense THEN @ ELSE None,
              !.last = @ /\ kind = "dense"]
Deselected ==
    [k \in Kinds |-> IF k = active THEN Reset(k, handler[k]) ELSE handler[k]]

\* onSampleData: a handler that is not the active one is selected first, and
\* nothing is reset then but the one that was active
Selected == IF active = source.kind THEN handler ELSE Deselected
OnSampleData(ok, alike) ==
    /\ IF enabled
       THEN /\ OnData(source.kind, Selected[source.kind], Byte(ok), alike)
            /\ active' = source.kind
       ELSE /\ out' = <<>>
            /\ UNCHANGED <<handler, active, tally>>
    /\ UNCHANGED enabled

Enable(on) ==
    /\ enabled' = on
    /\ handler' = Deselected
    /\ active' = "none"
    /\ out' = <<>>

(***************************************************************************)
(* The LIDAR, the link and the driver.                                     *)
(***************************************************************************)
Sending == source.kind # "none" /\ source.n <= MaxFrames[source.sess]
Next1 ==    \* the byte that follows
    IF source.part < 3 THEN [source EXCEPT !.part = @ + 1]
    ELSE [source EXCEPT !.part = 1, !.n = @ + 1, !.at = (@ + source.step) % Turn]
Faulty ==
    /\ source.sess > 0 /\ faults[source.sess] < MaxFaults
    /\ faults' = [faults EXCEPT ![source.sess] = @ + 1]

Deliver ==
    /\ Sending
    /\ OnSampleData(TRUE, FALSE)
    /\ source' = Next1
    /\ seen' = seen \cup {Frame}
    /\ UNCHANGED faults
\* a byte in the place of another may pass for it
Mistake ==
    /\ Sending /\ enabled
    /\ Selected[source.kind].pos \in 0 .. 1 \ {source.part - 1}
    /\ OnSampleData(TRUE, TRUE)
    /\ source' = Next1
    /\ seen' = seen \cup {Frame}
    /\ UNCHANGED faults
Damage ==
    /\ Sending /\ Faulty
    /\ \E alike \in BOOLEAN : OnSampleData(FALSE, alike)
    /\ source' = Next1
    /\ seen' = seen \cup {Frame}
LoseByte ==
    /\ Sending /\ Faulty
    /\ source' = Next1
    /\ out' = <<>>
    /\ UNCHANGED <<enabled, active, handler, tally, seen>>
LoseFrame ==
    /\ Sending /\ Faulty
    /\ source.part = 1
    /\ source' = [source EXCEPT !.n = @ + 1, !.at = (@ + source.step) % Turn]
    /\ out' = <<>>
    /\ UNCHANGED <<enabled, active, handler, tally, seen>>

\* startScan: the unpacker is enabled, then the request is sent
StartScan(kind, step, at) ==
    /\ source.kind = "none" /\ ~enabled
    /\ source.sess < Len(MaxFrames)
    /\ Enable(TRUE)
    /\ source' = [sess |-> source.sess + 1, kind |-> kind, step |-> step,
                  n |-> 1, at |-> at, part |-> 1]
    /\ tally' = [turns |-> 0, syncs |-> 0]
    /\ seen' = {}
    /\ UNCHANGED faults
\* stop: the unpacker is disabled, the LIDAR stops when it gets the request
Disable ==
    /\ enabled
    /\ Enable(FALSE)
    /\ UNCHANGED <<source, tally, faults, seen>>
Stops ==
    /\ ~enabled /\ source.kind # "none"
    /\ source' = [source EXCEPT !.kind = "none"]
    /\ out' = <<>>
    /\ UNCHANGED <<enabled, active, handler, tally, faults, seen>>

Next ==
    \/ Deliver \/ Mistake \/ Damage \/ LoseByte \/ LoseFrame
    \/ \E kind \in Kinds, step \in Steps, at \in 0 .. Turn - 1 : StartScan(kind, step, at)
    \/ Disable \/ Stops

Spec == Init /\ [][Next]_vars

(***************************************************************************)
(* The properties.                                                         *)
(***************************************************************************)
\* What is published with a checksum was computed from frames that follow each
\* other: no frame between them was received, whole or in part (handler_capsules.cpp:
\* each way a frame is given up forgets the cached capsule).
Between(o) == {f \in seen : o.from.n < f.n /\ f.n < o.to.n}
NoFrameSkipped ==
    \A i \in DOMAIN out :
        out[i].kind # "normal" /\ out[i].from.sess = out[i].to.sess
            => Between(out[i]) = {} /\ out[i].by \subseteq {out[i].from, out[i].to}

\* The nodes of an earlier scan come out of the dense handlers only, whose reset()
\* keeps the cached capsule, and only if the first capsule of the scan was lost.
EarlierScanIsForgotten ==
    \A i \in DOMAIN out :
        out[i].from.sess # out[i].sess
            => out[i].kind \in Dense /\ faults[out[i].sess] > 0

\* The packed distances leave no gap and have no overlap: a scaled value stands for
\* the distances up to the next one's, and each scale begins where the one below ends.
VbsJoin ==
    \A v \in 0 .. MaxScaled - 1 :
        VbsDecode(v + 1) = VbsDecode(v) + Vbs[VbsLevel(v)].unit
ScalesJoin == \A k \in 0 .. 2 : UltraDenseDist(k + 1, 0) = UltraDenseDist(k, UltraDenseMax(k))
DistancesJoin ==
    /\ source.kind = "ultra" => VbsJoin
    /\ source.kind = "ultradense" => ScalesJoin

\* In an undisturbed scan each revolution gets one sync bit, so that the scans
\* grabbed are revolutions ("exactly detected", says the dense handler).  Not so for
\* "ultra": its angles are rounded down, a capsule that starts at zero gets none.
Undisturbed == source.sess > 0 /\ faults[source.sess] = 0
OneSyncPerTurn ==
    Undisturbed /\ source.kind \in {"capsule", "dense", "ultradense"}
        => tally.turns - tally.syncs \in -1 .. 1
=============================================================================
