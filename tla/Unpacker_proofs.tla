-------------------------- MODULE Unpacker_proofs --------------------------
(***************************************************************************)
(* What the sample data unpacker publishes, for every number of sessions,  *)
(* frames and faults, every angle and every set of answer types: capsules  *)
(* are interpolated only to the frame that was received next, and only the *)
(* dense handlers can publish a capsule of an earlier scan.                *)
(***************************************************************************)
EXTENDS Unpacker, SequenceTheorems, FiniteSetTheorems, TLAPS

Frames == [sess : Nat, n : Nat, at : Nat]
Bytes == [frame : Frames, part : 1 .. 3, ok : BOOLEAN]
IsHandler(h) ==
    /\ h \in [pos : 0 .. 2, buf : Seq(Bytes), prev : Frames, last : BOOLEAN]
    /\ Len(h.buf) = h.pos

TypeInv ==
    /\ source \in [sess : Nat, kind : Kinds \cup {"none"}, step : Nat, n : Nat, at : Nat,
                   part : 1 .. 3]
    /\ enabled \in BOOLEAN /\ active \in Kinds \cup {"none"}
    /\ handler = [k \in Kinds |-> handler[k]] /\ \A k \in Kinds : IsHandler(handler[k])
    /\ faults \in [1 .. Len(MaxFrames) -> Nat]
    /\ seen \subseteq Frames

(* The handler in use is that of the scan; the others have been reset.      *)
SelectedInv ==
    /\ ~enabled => active = "none"
    /\ enabled => source.kind # "none" /\ active \in {"none", source.kind}
    /\ source.kind # "none" => source.sess \in 1 .. Len(MaxFrames)
    /\ \A k \in Kinds \ {active} :
          handler[k].pos = 0 /\ (k \notin Dense => handler[k].prev = None)

(* A cached capsule is of this scan, or an earlier one in a dense handler.  *)
CachedInv == \A k \in Kinds :
    handler[k].prev # None =>
        /\ k \notin Simple
        /\ handler[k].prev.sess <= source.sess
        /\ k \notin Dense => handler[k].prev.sess = source.sess

(* Whatever was received after the cached capsule is in the buffer: all the *)
(* ways to give up a frame forget the cached capsule.                       *)
SeenInv == \A f \in seen : f.sess = source.sess /\ f.n <= source.n
BufferInv ==
    LET h == handler[source.kind]
    IN  enabled /\ h.prev # None /\ h.prev.sess = source.sess =>
            \A f \in seen : f.n > h.prev.n => \E i \in 1 .. h.pos : h.buf[i].frame = f

(* Without faults the handler is in step with the LIDAR, and the capsule of *)
(* an earlier scan is in the cache only until the first frame is complete.  *)
InStep ==
    LET h == handler[source.kind]
    IN  enabled /\ faults[source.sess] = 0 =>
            /\ h.pos = source.part - 1
            /\ \A i \in 1 .. h.pos : h.buf[i] = [frame |-> Frame, part |-> i, ok |-> TRUE]
            /\ h.prev # None /\ h.prev.sess # source.sess => source.n = 1

IInv ==
    /\ TypeInv /\ SelectedInv /\ CachedInv /\ SeenInv /\ BufferInv /\ InStep
    /\ NoFrameSkipped /\ EarlierScanIsForgotten

(***************************************************************************)
(* What a handler makes of a byte.                                         *)
(***************************************************************************)
LEMMA Constants ==
    /\ None \in Frames /\ "none" \notin Kinds /\ Kinds \subseteq AllKinds
    /\ "normal" \in Simple /\ \A k \in Simple : k \notin Dense
    /\ Turn \in Nat \ {0} /\ Steps \subseteq Nat /\ Len(MaxFrames) \in Nat
BY UnpackerAssumption DEF None, Frames, AllKinds, Simple, Dense

(* The sync bits of a capsule: what their recursive definition says.        *)
LEMMA Bits ==
    ASSUME NEW kind, NEW prev, NEW cur, NEW last
    PROVE  LET bit == SyncBits(kind, prev, cur, last)
           IN  /\ bit[0] = last
               /\ \A i \in 1 .. Nodes(kind) :
                     bit[i] = (NearZero(kind, prev, cur, i) /\ ~(kind \in Dense /\ bit[i - 1]))
<1> DEFINE N == Nodes(kind)
  near(i) == NearZero(kind, prev, cur, i)
  b1 == near(1) /\ ~(kind \in Dense /\ last)
  b2 == near(2) /\ ~(kind \in Dense /\ b1)
  b3 == near(3) /\ ~(kind \in Dense /\ b2)
  w == [i \in 0 .. N |-> IF i = 0 THEN last ELSE IF i = 1 THEN b1 ELSE IF i = 2 THEN b2 ELSE b3]
  IsBit(f) == f = [i \in 0 .. N |-> IF i = 0 THEN last ELSE near(i) /\ ~(kind \in Dense /\ f[i - 1])]
<1>1. N \in {2, 3}
  BY DEF Nodes
<1>2. IsBit(w)
  <2> DEFINE v(i) == IF i = 0 THEN last ELSE IF i = 1 THEN b1 ELSE IF i = 2 THEN b2 ELSE b3
  <2>1. /\ 1 \in 0 .. N /\ 2 \in 0 .. N /\ 0 \in 0 .. N
        /\ \A i \in 0 .. N : i \in {0, 1, 2, 3}
    BY <1>1
  <2>2. v(0) = last /\ v(1) = b1 /\ v(2) = b2 /\ v(3) = b3
    OBVIOUS
  <2>3. w = [i \in 0 .. N |-> v(i)]
    OBVIOUS
  <2> HIDE DEF N, v
  <2>4. \A i \in 0 .. N : w[i] = v(i)
    BY <2>3
  <2> HIDE DEF w
  <2>5. w[0] = last /\ w[1] = b1 /\ w[2] = b2
    BY <2>1, <2>2, <2>4
  <2>6. ASSUME NEW i \in 0 .. N
        PROVE  v(i) = (IF i = 0 THEN last ELSE near(i) /\ ~(kind \in Dense /\ w[i - 1]))
    <3> HIDE DEF near
    <3>1. CASE i = 0
      BY <2>2, <3>1
    <3>2. CASE i = 1
      <4>1. i - 1 = 0 /\ i # 0
        BY <3>2
      <4> QED
        BY <2>2, <2>5, <3>2, <4>1, Zenon
    <3>3. CASE i = 2
      <4>1. i - 1 = 1 /\ i # 0
        BY <3>3
      <4> QED
        BY <2>2, <2>5, <3>3, <4>1, Zenon
    <3>4. CASE i = 3
      <4>1. i - 1 = 2 /\ i # 0
        BY <3>4
      <4> QED
        BY <2>2, <2>5, <3>4, <4>1, Zenon
    <3> QED
      BY <2>1, <3>1, <3>2, <3>3, <3>4
  <2> QED
    BY <2>3, <2>6, Zenon
<1>3. SyncBits(kind, prev, cur, last) = CHOOSE f : IsBit(f)
  BY DEF SyncBits
<1> HIDE DEF IsBit
<1>4. IsBit(SyncBits(kind, prev, cur, last))
  BY <1>2, <1>3, Zenon
<1> USE DEF IsBit
<1> QED
  BY <1>4, <1>1

LEMMA LastBit ==
    ASSUME NEW kind, NEW prev, NEW cur, NEW last
    PROVE  SyncBits(kind, prev, cur, last)[Nodes(kind)] \in BOOLEAN
<1> DEFINE bit == SyncBits(kind, prev, cur, last)
<1>1. Nodes(kind) \in 1 .. Nodes(kind)
  BY DEF Nodes
<1>2. \A i \in 1 .. Nodes(kind) :
          bit[i] = (NearZero(kind, prev, cur, i) /\ ~(kind \in Dense /\ bit[i - 1]))
  BY Bits
<1> HIDE DEF bit
<1>3. bit[Nodes(kind)] \in BOOLEAN
  BY <1>1, <1>2
<1> QED
  BY <1>3 DEF bit

(* The operators on a handler, field by field.                              *)
LEMMA HandlerTyped ==
    ASSUME NEW h, IsHandler(h)
    PROVE  /\ h \in [pos : 0 .. 2, buf : Seq(Bytes), prev : Frames, last : BOOLEAN]
           /\ Len(h.buf) = h.pos /\ None \in Frames
BY Constants DEF IsHandler

LEMMA CollectedFields ==
    ASSUME NEW h, IsHandler(h), NEW byte \in Bytes, h.pos < 2
    PROVE  LET g == Collected(h, byte)
           IN  /\ IsHandler(g) /\ g.pos = h.pos + 1 /\ g.buf = Append(h.buf, byte)
               /\ g.prev = h.prev /\ g.last = h.last
<1> DEFINE g == Collected(h, byte)
<1>1. g = [h EXCEPT !.pos = h.pos + 1, !.buf = Append(h.buf, byte)]
  BY HandlerTyped DEF Collected
<1>2. Append(h.buf, byte) \in Seq(Bytes) /\ Len(Append(h.buf, byte)) = Len(h.buf) + 1
  BY HandlerTyped
<1>3. h.pos + 1 \in 0 .. 2
  BY HandlerTyped
<1> QED
  BY HandlerTyped, <1>1, <1>2, <1>3 DEF IsHandler

(* A handler whose buffer is emptied, with any cached capsule and sync bit. *)
LEMMA EmptyBuffer ==
    /\ <<>> \in Seq(Bytes) /\ Len(<<>>) = 0 /\ 0 \in 0 .. 2
OBVIOUS

LEMMA UnsyncedFields ==
    ASSUME NEW h, IsHandler(h)
    PROVE  LET g == Unsynced(h) IN IsHandler(g) /\ g.pos = 0 /\ g.prev = None
<1>1. ASSUME NEW pos \in 0 .. 2, NEW buf \in Seq(Bytes), Len(buf) = pos
      PROVE  LET g == [h EXCEPT !.pos = pos, !.buf = buf, !.prev = None]
             IN  IsHandler(g) /\ g.pos = pos /\ g.prev = None
  BY HandlerTyped, <1>1 DEF IsHandler
<1> QED
  BY <1>1, EmptyBuffer, Zenon DEF Unsynced

LEMMA EmptiedFields ==
    ASSUME NEW h, IsHandler(h)
    PROVE  LET g == [h EXCEPT !.pos = 0, !.buf = <<>>]
           IN  IsHandler(g) /\ g.pos = 0 /\ g.prev = h.prev /\ g.last = h.last
<1>1. ASSUME NEW pos \in 0 .. 2, NEW buf \in Seq(Bytes), Len(buf) = pos
      PROVE  LET g == [h EXCEPT !.pos = pos, !.buf = buf]
             IN  IsHandler(g) /\ g.pos = pos /\ g.prev = h.prev /\ g.last = h.last
  BY HandlerTyped, <1>1 DEF IsHandler
<1> QED
  BY <1>1, EmptyBuffer, Zenon

LEMMA BrokenFields ==
    ASSUME NEW h, IsHandler(h)
    PROVE  LET g == Broken(h) IN IsHandler(g) /\ g.pos = h.pos /\ g.prev = None
BY HandlerTyped DEF Broken, IsHandler

LEMMA StartedFields ==
    ASSUME NEW h, IsHandler(h), NEW cur
    PROVE  LET g == Started(h, cur)
           IN  /\ IsHandler(g) /\ g.pos = h.pos /\ g.last = h.last
               /\ g.prev = IF First(cur) THEN None ELSE h.prev
BY HandlerTyped DEF Started, IsHandler

LEMMA CachedFields ==
    ASSUME NEW h, IsHandler(h), NEW kind, NEW cur \in Frames
    PROVE  LET g == Cached(kind, h, cur)
           IN  /\ IsHandler(g) /\ g.pos = h.pos /\ g.prev = cur
               /\ g.last = IF kind \in Dense /\ Published(kind, h, cur)
                           THEN SyncBits(kind, h.prev, cur, h.last)[Nodes(kind)] ELSE h.last
<1> DEFINE last == IF kind \in Dense /\ Published(kind, h, cur)
                   THEN SyncBits(kind, h.prev, cur, h.last)[Nodes(kind)] ELSE h.last
           g == [h EXCEPT !.prev = cur, !.last = last]
<1>1. Cached(kind, h, cur) = g
  BY DEF Cached
<1>2. last \in BOOLEAN
  BY HandlerTyped, LastBit
<1> HIDE DEF last
<1>3. IsHandler(g) /\ g.pos = h.pos /\ g.prev = cur /\ g.last = last
  BY HandlerTyped, <1>2 DEF IsHandler
<1> QED
  BY <1>1, <1>3 DEF last

LEMMA ResetFields ==
    ASSUME NEW h, IsHandler(h), NEW kind
    PROVE  LET g == Reset(kind, h)
           IN  /\ IsHandler(g) /\ g.pos = 0
               /\ g.prev = IF kind \in Dense THEN h.prev ELSE None
<1> DEFINE last == h.last /\ kind = "dense"
           prev == IF kind \in Dense THEN h.prev ELSE None
<1>1. Reset(kind, h) = [h EXCEPT !.pos = 0, !.buf = <<>>, !.prev = prev, !.last = last]
  BY DEF Reset
<1>2. prev \in Frames /\ last \in BOOLEAN
  BY HandlerTyped
<1> HIDE DEF last, prev
<1>3. ASSUME NEW pos \in 0 .. 2, NEW buf \in Seq(Bytes), Len(buf) = pos
      PROVE  LET g == [h EXCEPT !.pos = pos, !.buf = buf, !.prev = prev, !.last = last]
             IN  IsHandler(g) /\ g.pos = pos /\ g.prev = prev
  BY HandlerTyped, <1>2, <1>3 DEF IsHandler
<1>4. LET g == [h EXCEPT !.pos = 0, !.buf = <<>>, !.prev = prev, !.last = last]
      IN  IsHandler(g) /\ g.pos = 0 /\ g.prev = prev
  BY <1>3, EmptyBuffer, Zenon
<1> QED
  BY <1>1, <1>4 DEF prev

(***************************************************************************)
(* The ways in which a byte changes the handler from h to g, and what is   *)
(* published: the byte is collected, the frame is given up, a frame of a   *)
(* simple mode is passed on, a capsule is cached.                          *)
(***************************************************************************)
Collects(h, g, byte) ==
    /\ h.pos < 2 /\ out' = <<>>
    /\ g.pos = h.pos + 1 /\ g.buf = Append(h.buf, byte) /\ g.prev = h.prev
GivesUp(h, g, byte, alike) ==
    /\ g.pos = 0 /\ g.prev = None /\ out' = <<>>
    /\ IF h.pos < 2 THEN ~Expected(source.kind, h, byte, alike)
       ELSE source.kind \notin Simple /\ ~Whole(Append(h.buf, byte))
PassesOn(h, g) ==
    /\ source.kind \in Simple /\ h.pos = 2
    /\ g.pos = 0 /\ g.prev = h.prev
    /\ \A i \in DOMAIN out' :
          /\ out'[i].from = Frame /\ out'[i].to = Frame /\ out'[i].sess = source.sess
          /\ out'[i].kind # "normal" => out'[i].by = {Frame}
Caches(h, g, byte) ==
    /\ source.kind \notin Simple /\ h.pos = 2 /\ Whole(Append(h.buf, byte))
    /\ g.pos = 0 /\ g.prev = Frame
    /\ \A i \in DOMAIN out' :
          /\ h.prev # None /\ source.n # 1
          /\ out'[i].from = h.prev /\ out'[i].to = Frame /\ out'[i].by = {h.prev, Frame}
          /\ out'[i].kind = source.kind /\ out'[i].sess = source.sess

LEMMA SelectedIsHandler ==
    ASSUME TypeInv, SelectedInv, enabled
    PROVE  source.kind \in Kinds /\ Selected[source.kind] = handler[source.kind]
<1>1. source.kind \in Kinds /\ active \in {"none", source.kind}
  BY DEF TypeInv, SelectedInv
<1>2. CASE active = source.kind
  BY <1>1, <1>2 DEF Selected
<1>3. CASE active # source.kind
  BY <1>1, <1>3 DEF Selected, Deselected
<1> QED
  BY <1>1, <1>2, <1>3

(* A frame that is complete.                                                *)
LEMMA Completed ==
    ASSUME NEW h, IsHandler(h), h.pos = 2, NEW byte \in Bytes, byte.frame = Frame, Frame \in Frames,
           NEW kind \in Kinds, source.kind = kind,
           Complete(kind, [h EXCEPT !.pos = 0, !.buf = <<>>], Append(h.buf, byte)),
           handler = [k \in Kinds |-> handler[k]]
    PROVE  \E g : /\ IsHandler(g) /\ handler' = [handler EXCEPT ![kind] = g]
                  /\ PassesOn(h, g) \/ Caches(h, g, byte) \/ GivesUp(h, g, byte, FALSE)
<1> DEFINE e == [h EXCEPT !.pos = 0, !.buf = <<>>]
           bytes == Append(h.buf, byte)
<1>1. IsHandler(e) /\ e.pos = 0 /\ e.prev = h.prev
  BY EmptiedFields
<1>2. bytes[3].frame = Frame
  <2>1. h.buf \in Seq(Bytes) /\ Len(h.buf) = 2
    BY DEF IsHandler
  <2>2. Append(h.buf, byte)[Len(h.buf) + 1] = byte
    BY <2>1, AppendProperties
  <2>3. Len(h.buf) + 1 = 3
    BY <2>1
  <2> QED
    BY <2>2, <2>3, Zenon
<1>3. Complete(kind, e, bytes)
  OBVIOUS
<1> HIDE DEF e, bytes
<1>4. CASE kind \in Simple
  <2>1. handler' = [handler EXCEPT ![kind] = e]
    BY <1>3, <1>4 DEF Complete
  <2> DEFINE o == [kind |-> kind, by |-> {bytes[i].frame : i \in 1 .. 3},
                   from |-> bytes[3].frame, to |-> bytes[3].frame, sess |-> source.sess]
  <2>2. out' = IF kind = "normal" \/ Whole(bytes) THEN <<o>> ELSE <<>>
    BY <1>3, <1>4 DEF Complete, Simple, HqOut, SimpleOut
  <2>3. Whole(bytes) => {bytes[i].frame : i \in 1 .. 3} = {Frame}
    BY <1>2 DEF Whole
  <2>4. /\ o.from = Frame /\ o.to = Frame /\ o.sess = source.sess /\ o.kind = kind
        /\ Whole(bytes) => o.by = {Frame}
    BY <1>2, <2>3
  <2> HIDE DEF o
  <2>5. \A i \in DOMAIN out' : out'[i] = o /\ (kind = "normal" \/ Whole(bytes))
    BY <2>2
  <2>6. PassesOn(h, e)
    BY <1>1, <1>4, <2>4, <2>5 DEF PassesOn
  <2> QED
    BY <1>1, <2>1, <2>6
<1>5. CASE kind \notin Simple /\ Whole(bytes)
  <2> DEFINE s == Started(e, Frame)
             g == Cached(kind, s, Frame)
  <2>1. IsHandler(s) /\ s.pos = 0 /\ s.prev = IF First(Frame) THEN None ELSE h.prev
    BY <1>1, StartedFields
  <2>2. IsHandler(g) /\ g.pos = 0 /\ g.prev = Frame
    BY <2>1, CachedFields
  <2>3. handler' = [handler EXCEPT ![kind] = g]
    BY <1>2, <1>3, <1>5 DEF Complete
  <2>4. out' = IF Published(kind, s, Frame) THEN <<CapsuleOut(kind, s, Frame)>> ELSE <<>>
    BY <1>2, <1>3, <1>5 DEF Complete
  <2> HIDE DEF s, g
  <2>5. Published(kind, s, Frame) => h.prev # None /\ s.prev = h.prev /\ source.n # 1
    BY <2>1 DEF Published, First, Frame
  <2>6. Caches(h, g, byte)
    BY <1>5, <2>2, <2>4, <2>5 DEF Caches, CapsuleOut, bytes
  <2> QED
    BY <2>2, <2>3, <2>6
<1>6. CASE kind \notin Simple /\ ~Whole(bytes)
  <2>1. handler' = [handler EXCEPT ![kind] = Broken(e)] /\ out' = <<>>
    BY <1>3, <1>6 DEF Complete
  <2>2. IsHandler(Broken(e)) /\ Broken(e).pos = 0 /\ Broken(e).prev = None
    BY <1>1, BrokenFields
  <2>3. GivesUp(h, Broken(e), byte, FALSE)
    BY <1>6, <2>1, <2>2 DEF GivesUp, bytes
  <2> QED
    BY <2>1, <2>2, <2>3
<1> QED
  BY <1>4, <1>5, <1>6

LEMMA Received ==
    ASSUME TypeInv, SelectedInv, enabled, NEW ok \in BOOLEAN, NEW alike \in BOOLEAN,
           OnSampleData(ok, alike)
    PROVE  LET h == handler[source.kind]
           IN  /\ active' = source.kind /\ enabled' = enabled
               /\ \E g : /\ IsHandler(g) /\ handler' = [handler EXCEPT ![source.kind] = g]
                         /\ \/ Collects(h, g, Byte(ok)) \/ GivesUp(h, g, Byte(ok), alike)
                            \/ PassesOn(h, g) \/ Caches(h, g, Byte(ok))
<1> DEFINE kind == source.kind
           h == handler[kind]
           byte == Byte(ok)
<1>1. kind \in Kinds /\ Selected[kind] = h
  BY SelectedIsHandler
<1>2. OnData(kind, h, byte, alike) /\ active' = kind /\ enabled' = enabled
  BY <1>1 DEF OnSampleData
<1>3. IsHandler(h) /\ handler = [k \in Kinds |-> handler[k]]
  BY <1>1 DEF TypeInv
<1>4. Frame \in Frames /\ byte \in Bytes /\ byte.frame = Frame
  BY DEF TypeInv, Frame, Frames, Byte, Bytes
<1>5. h.pos \in 0 .. 2
  BY <1>3 DEF IsHandler
<1>6. CASE h.pos = 2
  <2>1. Complete(kind, [h EXCEPT !.pos = 0, !.buf = <<>>], Append(h.buf, byte))
    BY <1>2, <1>6 DEF OnData
  <2>2. \E g : /\ IsHandler(g) /\ handler' = [handler EXCEPT ![kind] = g]
               /\ PassesOn(h, g) \/ Caches(h, g, byte) \/ GivesUp(h, g, byte, FALSE)
    BY <1>1, <1>3, <1>4, <1>6, <2>1, Completed
  <2>3. \A g : GivesUp(h, g, byte, FALSE) => GivesUp(h, g, byte, alike)
    BY <1>6 DEF GivesUp
  <2> QED
    BY <1>2, <2>2, <2>3
<1>7. CASE h.pos < 2 /\ Expected(kind, h, byte, alike)
  <2>1. handler' = [handler EXCEPT ![kind] = Collected(h, byte)] /\ out' = <<>>
    BY <1>2, <1>7 DEF OnData
  <2>2. IsHandler(Collected(h, byte)) /\ Collects(h, Collected(h, byte), byte)
    BY <1>3, <1>4, <1>7, <2>1, CollectedFields DEF Collects
  <2> QED
    BY <1>2, <2>1, <2>2
<1>8. CASE h.pos < 2 /\ ~Expected(kind, h, byte, alike)
  <2>1. handler' = [handler EXCEPT ![kind] = Unsynced(h)] /\ out' = <<>>
    BY <1>2, <1>8 DEF OnData
  <2>2. IsHandler(Unsynced(h)) /\ GivesUp(h, Unsynced(h), byte, alike)
    BY <1>3, <1>8, <2>1, UnsyncedFields DEF GivesUp
  <2> QED
    BY <1>2, <2>1, <2>2
<1> QED
  <2>1. h.pos = 2 \/ h.pos < 2
    BY <1>5
  <2> QED
    BY <2>1, <1>6, <1>7, <1>8, Zenon

(***************************************************************************)
(* The steps.                                                              *)
(***************************************************************************)
\* The LIDAR goes on to its next byte.
LEMMA NextByte ==
    ASSUME TypeInv, Sending, source' = Next1
    PROVE  /\ source' \in [sess : Nat, kind : Kinds \cup {"none"}, step : Nat, n : Nat, at : Nat,
                          part : 1 .. 3]
           /\ source'.sess = source.sess /\ source'.kind = source.kind
           /\ source.part < 3 => source'.part = source.part + 1 /\ Frame' = Frame
                                /\ source'.n = source.n
           /\ source.part = 3 => source'.part = 1 /\ source'.n = source.n + 1
           /\ Frame \in Frames
<1>1. (source.at + source.step) % Turn \in Nat
  BY Constants DEF TypeInv
<1>2. CASE source.part < 3
  BY <1>2 DEF TypeInv, Next1, Frame, Frames
<1>3. CASE source.part = 3
  <2>1. ASSUME NEW part \in 1 .. 3, NEW n \in Nat, NEW at \in Nat
        PROVE  LET next == [source EXCEPT !.part = part, !.n = n, !.at = at]
               IN  source' = next =>
                     /\ source' \in [sess : Nat, kind : Kinds \cup {"none"}, step : Nat, n : Nat,
                                      at : Nat, part : 1 .. 3]
                     /\ source'.sess = source.sess /\ source'.kind = source.kind
                     /\ source'.part = part /\ source'.n = n
    BY DEF TypeInv
  <2>2. source' = [source EXCEPT !.part = 1, !.n = source.n + 1,
                                 !.at = (source.at + source.step) % Turn]
    BY <1>3 DEF Next1
  <2>3. source.n + 1 \in Nat /\ 1 \in 1 .. 3
    BY DEF TypeInv
  <2>4. /\ source' \in [sess : Nat, kind : Kinds \cup {"none"}, step : Nat, n : Nat, at : Nat,
                          part : 1 .. 3]
        /\ source'.sess = source.sess /\ source'.kind = source.kind
        /\ source'.part = 1 /\ source'.n = source.n + 1
    BY <1>1, <2>1, <2>2, <2>3, Zenon
  <2>5. Frame \in Frames
    BY DEF TypeInv, Frame, Frames
  <2> QED
    BY <1>3, <2>4, <2>5
<1> QED
  BY <1>2, <1>3 DEF TypeInv

\* A byte that reaches the handler: what is needed of the fault counters is that
\* without a fault the byte is intact and was not mistaken for another.
LEMMA ReceivedKeeps ==
    ASSUME IInv, enabled, Sending, NEW ok \in BOOLEAN, NEW alike \in BOOLEAN,
           OnSampleData(ok, alike), source' = Next1, seen' = seen \cup {Frame},
           faults' \in [1 .. Len(MaxFrames) -> Nat],
           faults'[source.sess] = 0 =>
               /\ faults[source.sess] = 0 /\ ok
               /\ alike => handler[source.kind].pos # source.part - 1
    PROVE  IInv'
<1> DEFINE kind == source.kind
           h == handler[kind]
           byte == Byte(ok)
<1>1. /\ TypeInv /\ SelectedInv /\ CachedInv /\ SeenInv /\ BufferInv /\ InStep
  BY DEF IInv
<1>2. PICK g : /\ IsHandler(g) /\ handler' = [handler EXCEPT ![kind] = g]
               /\ \/ Collects(h, g, byte) \/ GivesUp(h, g, byte, alike)
                  \/ PassesOn(h, g) \/ Caches(h, g, byte)
  BY <1>1, Received, Zenon
<1>3. active' = kind /\ enabled' = enabled
  BY <1>1, Received, Zenon
<1>4. kind \in Kinds /\ kind # "none" /\ active \in {"none", kind}
  BY <1>1, Constants DEF TypeInv, SelectedInv
<1>5. /\ IsHandler(h) /\ handler = [k \in Kinds |-> handler[k]]
      /\ \A k \in Kinds : IsHandler(handler[k])
  BY <1>1, <1>4 DEF TypeInv
<1>6. /\ handler' = [k \in Kinds |-> handler'[k]] /\ handler'[kind] = g
      /\ \A k \in Kinds : k # kind => handler'[k] = handler[k]
  BY <1>2, <1>4, <1>5
<1>7. /\ source'.sess = source.sess /\ source'.kind = kind
      /\ source.part < 3 => source'.part = source.part + 1 /\ Frame' = Frame
                           /\ source'.n = source.n
      /\ source.part = 3 => source'.part = 1 /\ source'.n = source.n + 1
      /\ Frame \in Frames /\ source.part \in 1 .. 3 /\ source.n \in Nat /\ source.sess \in Nat
  BY <1>1, NextByte DEF TypeInv
<1>8. /\ h.pos \in 0 .. 2 /\ h.buf \in Seq(Bytes) /\ Len(h.buf) = h.pos /\ h.prev \in Frames
      /\ g.pos \in 0 .. 2 /\ g.buf \in Seq(Bytes) /\ Len(g.buf) = g.pos /\ g.prev \in Frames
  BY <1>2, <1>5 DEF IsHandler
<1>9. /\ Frame.sess = source.sess /\ Frame.n = source.n
      /\ byte \in Bytes /\ byte.frame = Frame /\ byte.part = source.part /\ byte.ok = ok
  BY <1>7 DEF Frame, Byte, Bytes
<1> HIDE DEF byte, h, kind
<1>10. TypeInv'
  <2>1. \A k \in Kinds : IsHandler(handler'[k])
    BY <1>2, <1>5, <1>6
  <2>2. seen' \subseteq Frames
    BY <1>1, <1>7 DEF TypeInv
  <2>3. enabled' \in BOOLEAN /\ active' \in Kinds \cup {"none"}
    BY <1>3, <1>4
  <2> QED
    BY <1>1, <1>6, <2>1, <2>2, <2>3, NextByte DEF TypeInv, IsHandler
<1>11. SelectedInv'
  <2>1. \A k \in Kinds \ {active'} : k \in Kinds \ {active} /\ handler'[k] = handler[k]
    BY <1>3, <1>4, <1>6, Constants
  <2>2. \A k \in Kinds \ {active'} :
            handler'[k].pos = 0 /\ (k \notin Dense => handler'[k].prev = None)
    BY <1>1, <2>1 DEF SelectedInv
  <2>3. source'.kind = kind /\ source'.sess = source.sess
    BY <1>7
  <2>4. source.sess \in 1 .. Len(MaxFrames)
    BY <1>1, <1>4 DEF SelectedInv, kind
  <2> QED
    BY <1>3, <1>4, <2>2, <2>3, <2>4 DEF SelectedInv
<1>12. SeenInv'
  <2>1. source.n <= source'.n
    BY <1>7
  <2> QED
    BY <1>1, <1>7, <1>9, <2>1 DEF SeenInv, TypeInv, Frames
<1>13. CachedInv'
  <2>1. ASSUME NEW k \in Kinds, k # kind
        PROVE  handler'[k].prev # None =>
                   /\ k \notin Simple /\ handler'[k].prev.sess <= source'.sess
                   /\ k \notin Dense => handler'[k].prev.sess = source'.sess
    BY <1>1, <1>6, <1>7, <2>1 DEF CachedInv
  <2>2. g.prev # None => g.prev = h.prev \/ (g.prev = Frame /\ kind \notin Simple)
    BY <1>2 DEF Collects, GivesUp, PassesOn, Caches, kind
  <2>3. g.prev # None =>
            /\ kind \notin Simple /\ g.prev.sess <= source.sess
            /\ kind \notin Dense => g.prev.sess = source.sess
    BY <1>1, <1>4, <1>7, <1>9, <2>2 DEF CachedInv, h
  <2> QED
    BY <1>6, <1>7, <2>1, <2>3 DEF CachedInv
<1>14. g.prev # None /\ g.prev.sess = source.sess =>
            \A f \in seen' : f.n > g.prev.n => \E i \in 1 .. g.pos : g.buf[i].frame = f
  <2>1. CASE Collects(h, g, byte)
    <3> SUFFICES ASSUME g.prev # None, g.prev.sess = source.sess,
                        NEW f \in seen', f.n > g.prev.n
                 PROVE  \E i \in 1 .. g.pos : g.buf[i].frame = f
      OBVIOUS
    <3>1. g.pos = h.pos + 1 /\ g.buf = Append(h.buf, byte) /\ g.prev = h.prev
      BY <2>1 DEF Collects
    <3>2. g.buf[h.pos + 1] = byte /\ \A i \in 1 .. h.pos : g.buf[i] = h.buf[i]
      BY <1>8, <1>9, <3>1, AppendProperties
    <3>3. CASE f = Frame
      BY <1>8, <1>9, <3>1, <3>2, <3>3
    <3>4. CASE f \in seen
      <4>1. \E i \in 1 .. h.pos : h.buf[i].frame = f
        BY <1>1, <3>1, <3>4 DEF BufferInv, h, kind
      <4> QED
        BY <1>8, <3>1, <3>2, <4>1
    <3> QED
      BY <3>3, <3>4
  <2>2. CASE PassesOn(h, g)
    BY <1>1, <1>4, <2>2 DEF CachedInv, PassesOn, h, kind
  <2>3. CASE Caches(h, g, byte)
    <3>1. \A f \in seen' : f.n <= Frame.n
      BY <1>1, <1>7, <1>9 DEF SeenInv
    <3>2. seen' \subseteq Frames
      BY <1>10 DEF TypeInv
    <3> QED
      BY <1>7, <1>9, <2>3, <3>1, <3>2 DEF Caches, Frames
  <2> QED
    BY <1>2, <2>1, <2>2, <2>3 DEF GivesUp
<1>15. BufferInv'
  BY <1>6, <1>7, <1>14 DEF BufferInv
<1>16. InStep'
  <2> SUFFICES ASSUME faults'[source.sess] = 0
               PROVE  /\ g.pos = source'.part - 1
                      /\ \A i \in 1 .. g.pos :
                             g.buf[i] = [frame |-> Frame', part |-> i, ok |-> TRUE]
                      /\ g.prev # None /\ g.prev.sess # source.sess => source'.n = 1
    BY <1>6, <1>7 DEF InStep
  <2>1. /\ faults[source.sess] = 0 /\ ok /\ h.pos = source.part - 1 /\ ~alike
        /\ \A i \in 1 .. h.pos : h.buf[i] = [frame |-> Frame, part |-> i, ok |-> TRUE]
        /\ h.prev # None /\ h.prev.sess # source.sess => source.n = 1
    BY <1>1 DEF InStep, h, kind
  <2>2. byte = [frame |-> Frame, part |-> source.part, ok |-> TRUE]
    BY <2>1 DEF byte, Byte
  <2>3. CASE h.pos < 2
    <3>1. Expected(kind, h, byte, alike)
      BY <1>9, <2>1, <1>8, <1>7 DEF Expected, Unchecked
    <3>2. Collects(h, g, byte)
      BY <1>2, <2>3, <3>1, <1>8 DEF GivesUp, PassesOn, Caches, kind
    <3>3. g.pos = h.pos + 1 /\ g.buf = Append(h.buf, byte) /\ g.prev = h.prev
      BY <3>2 DEF Collects
    <3>4. g.buf[h.pos + 1] = byte /\ \A i \in 1 .. h.pos : g.buf[i] = h.buf[i]
      BY <1>8, <1>9, <3>3, AppendProperties
    <3>5. source.part < 3 /\ source.part = h.pos + 1
      BY <1>7, <1>8, <2>1, <2>3
    <3>6. source'.part = source.part + 1 /\ Frame' = Frame /\ source'.n = source.n
      BY <1>7, <3>5
    <3>7. \A i \in 1 .. g.pos : i \in 1 .. h.pos \/ i = source.part
      BY <1>8, <3>3, <3>5
    <3>8. \A i \in 1 .. g.pos : g.buf[i] = [frame |-> Frame', part |-> i, ok |-> TRUE]
      BY <2>1, <2>2, <3>4, <3>5, <3>6, <3>7
    <3>9. g.pos = source'.part - 1
      BY <1>7, <1>8, <3>3, <3>5, <3>6
    <3> QED
      BY <2>1, <3>3, <3>6, <3>8, <3>9
  <2>4. CASE h.pos = 2
    <3>1. source.part = 3 /\ source'.part = 1
      BY <1>7, <2>1, <2>4
    <3>2. Whole(Append(h.buf, byte))
      <4> DEFINE bytes == Append(h.buf, byte)
      <4>1. bytes[h.pos + 1] = byte /\ \A i \in 1 .. h.pos : bytes[i] = h.buf[i]
        BY <1>8, <1>9, AppendProperties
      <4>2. h.pos + 1 = 3 /\ 1 \in 1 .. h.pos /\ 2 \in 1 .. h.pos
        BY <2>4
      <4>3. bytes[3] = byte
        BY <4>1, <4>2
      <4> HIDE DEF bytes
      <4>4. \A i \in 1 .. 3 : bytes[i].frame = Frame /\ bytes[i].part = i /\ bytes[i].ok = TRUE
        <5>1. \A i \in 1 .. 3 : i \in 1 .. h.pos \/ i = 3
          BY <2>4
        <5> QED
          BY <2>1, <2>2, <3>1, <4>1, <4>3, <5>1
      <4>5. Whole(bytes)
        BY <4>4 DEF Whole
      <4> QED
        BY <4>5 DEF bytes
    <3>3. PassesOn(h, g) \/ Caches(h, g, byte)
      BY <1>2, <2>4, <3>2 DEF Collects, GivesUp
    <3>4. g.pos = 0
      BY <3>3 DEF PassesOn, Caches
    <3>5. g.prev # None => g.prev.sess = source.sess
      <4>1. CASE PassesOn(h, g)
        BY <1>1, <1>4, <4>1 DEF PassesOn, CachedInv, h, kind
      <4>2. CASE Caches(h, g, byte)
        BY <1>9, <4>2 DEF Caches
      <4> QED
        BY <3>3, <4>1, <4>2
    <3> QED
      BY <3>1, <3>4, <3>5
  <2> QED
    BY <1>8, <2>3, <2>4
<1>17. ASSUME NEW i \in DOMAIN out'
       PROVE  /\ out'[i].kind # "normal" /\ out'[i].from.sess = out'[i].to.sess
                    => /\ {f \in seen' : out'[i].from.n < f.n /\ f.n < out'[i].to.n} = {}
                       /\ out'[i].by \subseteq {out'[i].from, out'[i].to}
              /\ out'[i].from.sess # out'[i].sess
                    => out'[i].kind \in Dense /\ faults'[out'[i].sess] > 0
  <2>1. CASE PassesOn(h, g)
    <3>1. /\ out'[i].from = Frame /\ out'[i].to = Frame /\ out'[i].sess = source.sess
          /\ out'[i].kind # "normal" => out'[i].by = {Frame}
      BY <1>17, <2>1 DEF PassesOn
    <3>2. ~ \E f \in seen' : out'[i].from.n < f.n /\ f.n < out'[i].to.n
      <4>1. seen' \subseteq Frames
        BY <1>10 DEF TypeInv
      <4> QED
        BY <1>7, <1>9, <3>1, <4>1 DEF Frames
    <3>3. {f \in seen' : out'[i].from.n < f.n /\ f.n < out'[i].to.n} = {}
      BY <3>2
    <3> QED
      BY <1>9, <3>1, <3>3
  <2>2. CASE Caches(h, g, byte)
    <3>1. /\ h.prev # None /\ source.n # 1 /\ Whole(Append(h.buf, byte)) /\ h.pos = 2
          /\ out'[i].from = h.prev /\ out'[i].to = Frame /\ out'[i].by = {h.prev, Frame}
          /\ out'[i].kind = kind /\ out'[i].sess = source.sess /\ kind \notin Simple
      BY <1>17, <2>2 DEF Caches, kind
    <3>2. \A j \in 1 .. h.pos : h.buf[j].frame = Frame
      <4> DEFINE bytes == Append(h.buf, byte)
      <4>1. bytes[h.pos + 1] = byte /\ \A j \in 1 .. h.pos : bytes[j] = h.buf[j]
        BY <1>8, <1>9, AppendProperties
      <4>2. h.pos + 1 = 3 /\ \A j \in 1 .. h.pos : j = 1 \/ j \in 2 .. 3
        BY <3>1
      <4>3. Whole(bytes)
        BY <3>1
      <4> HIDE DEF bytes
      <4>4. bytes[3].frame = bytes[1].frame /\ \A j \in 1 .. h.pos : bytes[j].frame = bytes[1].frame
        BY <4>2, <4>3 DEF Whole
      <4>5. bytes[3] = byte
        BY <4>1, <4>2, Zenon
      <4> QED
        BY <1>9, <4>1, <4>4, <4>5
    <3>3. h.prev.sess = source.sess => ~ \E f \in seen' : h.prev.n < f.n /\ f.n < Frame.n
      <4> SUFFICES ASSUME h.prev.sess = source.sess,
                          NEW f \in seen', h.prev.n < f.n, f.n < Frame.n
                   PROVE  FALSE
        OBVIOUS
      <4>1. f \in Frames /\ h.prev.n \in Nat /\ f.n \in Nat /\ Frame.n \in Nat
        BY <1>7, <1>8, <1>10 DEF TypeInv, Frames
      <4>2. f # Frame
        BY <4>1
      <4>3. f \in seen /\ f.n > h.prev.n
        BY <4>1, <4>2
      <4>4. \E j \in 1 .. h.pos : h.buf[j].frame = f
        BY <1>1, <3>1, <4>3 DEF BufferInv, h, kind
      <4> QED
        BY <3>2, <4>2, <4>4
    <3>4. out'[i].from.sess = out'[i].to.sess =>
              {f \in seen' : out'[i].from.n < f.n /\ f.n < out'[i].to.n} = {}
      BY <1>9, <3>1, <3>3
    <3>5. h.prev.sess # source.sess => kind \in Dense
      BY <1>1, <1>4, <3>1 DEF CachedInv, h
    <3>6. h.prev.sess # source.sess => faults'[source.sess] # 0
      BY <1>1, <3>1 DEF InStep, h, kind
    <3>7. faults'[source.sess] \in Nat
      <4>1. source.sess \in 1 .. Len(MaxFrames)
        BY <1>1, <1>4 DEF SelectedInv, kind
      <4> QED
        BY <4>1
    <3> QED
      BY <3>1, <3>4, <3>5, <3>6, <3>7
  <2>3. CASE out' = <<>>
    BY <1>17, <2>3
  <2> QED
    BY <1>2, <2>1, <2>2, <2>3 DEF Collects, GivesUp
<1> QED
  BY <1>10, <1>11, <1>12, <1>13, <1>15, <1>16, <1>17
     DEF IInv, NoFrameSkipped, EarlierScanIsForgotten, Between

\* A step that publishes nothing and leaves the handlers alone, while the LIDAR goes on.
LEMMA QuietKeeps ==
    ASSUME IInv, TypeInv', out' = <<>>,
           enabled' = enabled, active' = active, handler' = handler,
           source'.sess = source.sess, source'.n >= source.n,
           source'.kind # source.kind => ~enabled /\ source'.kind = "none",
           seen' = seen \/ (~enabled /\ seen' = seen \cup {Frame}),
           enabled => faults'[source.sess] # 0
    PROVE  IInv'
<1>1. /\ TypeInv /\ SelectedInv /\ CachedInv /\ SeenInv /\ BufferInv
  BY DEF IInv
<1>2. SelectedInv' /\ CachedInv'
  BY <1>1 DEF SelectedInv, CachedInv
<1>3. SeenInv'
  <2>1. source.n \in Nat /\ source'.n \in Nat /\ seen' \subseteq Frames
    BY <1>1 DEF TypeInv
  <2>2. Frame.sess = source.sess /\ Frame.n = source.n
    BY DEF Frame
  <2> QED
    BY <1>1, <2>1, <2>2 DEF SeenInv, Frames
<1>4. BufferInv' /\ InStep'
  <2>1. CASE enabled
    <3>1. seen' = seen /\ source'.kind = source.kind
      BY <2>1
    <3>2. BufferInv'
      BY <1>1, <2>1, <3>1 DEF BufferInv
    <3>3. InStep'
      BY <2>1 DEF InStep
    <3> QED
      BY <3>2, <3>3
  <2>2. CASE ~enabled
    BY <2>2 DEF BufferInv, InStep
  <2> QED
    BY <2>1, <2>2
<1>5. NoFrameSkipped' /\ EarlierScanIsForgotten'
  BY DEF NoFrameSkipped, EarlierScanIsForgotten
<1> QED
  BY <1>2, <1>3, <1>4, <1>5 DEF IInv

LEMMA FaultCounted ==
    ASSUME TypeInv, Faulty
    PROVE  faults' \in [1 .. Len(MaxFrames) -> Nat]
<1>1. \A i \in 1 .. Len(MaxFrames) : faults[i] + 1 \in Nat
  BY DEF TypeInv
<1> QED
  BY <1>1 DEF TypeInv, Faulty

LEMMA FaultSeen ==
    ASSUME TypeInv, SelectedInv, Sending, Faulty
    PROVE  faults'[source.sess] # 0
<1>1. source.sess \in 1 .. Len(MaxFrames)
  BY DEF Sending, SelectedInv
<1>2. faults'[source.sess] = faults[source.sess] + 1 /\ faults[source.sess] \in Nat
  BY <1>1 DEF TypeInv, Faulty
<1> QED
  BY <1>2

\* A byte for an unpacker that is disabled is dropped.
LEMMA DroppedKeeps ==
    ASSUME IInv, ~enabled, Sending, NEW ok, NEW alike, OnSampleData(ok, alike),
           source' = Next1, seen' = seen \cup {Frame},
           faults' \in [1 .. Len(MaxFrames) -> Nat]
    PROVE  IInv'
<1>1. TypeInv
  BY DEF IInv
<1>2. out' = <<>> /\ handler' = handler /\ active' = active /\ enabled' = enabled
  BY DEF OnSampleData
<1>3. /\ source' \in [sess : Nat, kind : Kinds \cup {"none"}, step : Nat, n : Nat, at : Nat,
                       part : 1 .. 3]
      /\ source'.sess = source.sess /\ source'.kind = source.kind
      /\ source'.n >= source.n /\ Frame \in Frames
  BY <1>1, NextByte DEF TypeInv
<1>4. TypeInv'
  BY <1>1, <1>2, <1>3 DEF TypeInv
<1> QED
  BY <1>2, <1>3, <1>4, QuietKeeps

LEMMA DeliverKeeps ==
    ASSUME IInv, Deliver PROVE IInv'
<1>1. /\ Sending /\ OnSampleData(TRUE, FALSE) /\ source' = Next1
      /\ seen' = seen \cup {Frame} /\ faults' = faults
  BY DEF Deliver
<1>2. faults' \in [1 .. Len(MaxFrames) -> Nat]
  BY <1>1 DEF IInv, TypeInv
<1>3. CASE enabled
  <2>1. FALSE \in BOOLEAN /\ TRUE \in BOOLEAN
    OBVIOUS
  <2> QED
    BY <1>1, <1>2, <1>3, <2>1, ReceivedKeeps, Zenon
<1>4. CASE ~enabled
  BY <1>1, <1>2, <1>4, DroppedKeeps, Zenon
<1> QED
  BY <1>3, <1>4

LEMMA MistakeKeeps ==
    ASSUME IInv, Mistake PROVE IInv'
<1>1. /\ Sending /\ enabled /\ OnSampleData(TRUE, TRUE) /\ source' = Next1
      /\ seen' = seen \cup {Frame} /\ faults' = faults
      /\ Selected[source.kind].pos # source.part - 1
  BY DEF Mistake
<1>2. faults' \in [1 .. Len(MaxFrames) -> Nat]
  BY <1>1 DEF IInv, TypeInv
<1>3. handler[source.kind].pos # source.part - 1
  BY <1>1, SelectedIsHandler DEF IInv
<1>4. TRUE \in BOOLEAN
  OBVIOUS
<1> QED
  BY <1>1, <1>2, <1>3, <1>4, ReceivedKeeps, Zenon

LEMMA DamageKeeps ==
    ASSUME IInv, Damage PROVE IInv'
<1>1. PICK alike \in BOOLEAN : OnSampleData(FALSE, alike)
  BY DEF Damage
<1>2. /\ Sending /\ Faulty /\ source' = Next1 /\ seen' = seen \cup {Frame}
  BY DEF Damage
<1>3. faults' \in [1 .. Len(MaxFrames) -> Nat] /\ faults'[source.sess] # 0
  BY <1>2, FaultCounted, FaultSeen DEF IInv
<1>4. CASE enabled
  <2>1. FALSE \in BOOLEAN
    OBVIOUS
  <2> QED
    BY <1>1, <1>2, <1>3, <1>4, <2>1, ReceivedKeeps, Zenon
<1>5. CASE ~enabled
  BY <1>1, <1>2, <1>3, <1>5, DroppedKeeps, Zenon
<1> QED
  BY <1>4, <1>5

LEMMA LoseByteKeeps ==
    ASSUME IInv, LoseByte PROVE IInv'
<1>1. TypeInv /\ SelectedInv
  BY DEF IInv
<1>2. /\ Sending /\ Faulty /\ source' = Next1 /\ out' = <<>>
      /\ enabled' = enabled /\ active' = active /\ handler' = handler /\ seen' = seen
  BY DEF LoseByte
<1>3. faults' \in [1 .. Len(MaxFrames) -> Nat] /\ faults'[source.sess] # 0
  BY <1>1, <1>2, FaultCounted, FaultSeen
<1>4. /\ source' \in [sess : Nat, kind : Kinds \cup {"none"}, step : Nat, n : Nat, at : Nat,
                       part : 1 .. 3]
      /\ source'.sess = source.sess /\ source'.kind = source.kind /\ source'.n >= source.n
  BY <1>1, <1>2, NextByte DEF TypeInv
<1>5. TypeInv'
  BY <1>1, <1>2, <1>3, <1>4 DEF TypeInv
<1> QED
  BY <1>2, <1>3, <1>4, <1>5, QuietKeeps

LEMMA LoseFrameKeeps ==
    ASSUME IInv, LoseFrame PROVE IInv'
<1>1. TypeInv /\ SelectedInv
  BY DEF IInv
<1>2. /\ Sending /\ Faulty /\ out' = <<>>
      /\ source' = [source EXCEPT !.n = source.n + 1, !.at = (source.at + source.step) % Turn]
      /\ enabled' = enabled /\ active' = active /\ handler' = handler /\ seen' = seen
  BY DEF LoseFrame
<1>3. faults' \in [1 .. Len(MaxFrames) -> Nat] /\ faults'[source.sess] # 0
  BY <1>1, <1>2, FaultCounted, FaultSeen
<1>4. (source.at + source.step) % Turn \in Nat
  BY <1>1, Constants DEF TypeInv
<1>5. /\ source' \in [sess : Nat, kind : Kinds \cup {"none"}, step : Nat, n : Nat, at : Nat,
                       part : 1 .. 3]
      /\ source'.sess = source.sess /\ source'.kind = source.kind /\ source'.n >= source.n
  <2>1. ASSUME NEW n \in Nat, NEW at \in Nat, source' = [source EXCEPT !.n = n, !.at = at]
        PROVE  /\ source' \in [sess : Nat, kind : Kinds \cup {"none"}, step : Nat, n : Nat,
                                at : Nat, part : 1 .. 3]
               /\ source'.sess = source.sess /\ source'.kind = source.kind /\ source'.n = n
    BY <1>1, <2>1 DEF TypeInv
  <2>2. source.n + 1 \in Nat /\ source.n \in Nat
    BY <1>1 DEF TypeInv
  <2>3. /\ source' \in [sess : Nat, kind : Kinds \cup {"none"}, step : Nat, n : Nat, at : Nat,
                         part : 1 .. 3]
        /\ source'.sess = source.sess /\ source'.kind = source.kind
        /\ source'.n = source.n + 1
    BY <1>2, <1>4, <2>1, <2>2, Zenon
  <2> QED
    BY <2>2, <2>3
<1>6. TypeInv'
  BY <1>1, <1>2, <1>3, <1>5 DEF TypeInv
<1> QED
  BY <1>2, <1>3, <1>5, <1>6, QuietKeeps

LEMMA StopsKeeps ==
    ASSUME IInv, Stops PROVE IInv'
<1>1. TypeInv
  BY DEF IInv
<1>2. /\ ~enabled /\ source' = [source EXCEPT !.kind = "none"] /\ out' = <<>>
      /\ enabled' = enabled /\ active' = active /\ handler' = handler
      /\ seen' = seen /\ faults' = faults
  BY DEF Stops
<1>3. /\ source' \in [sess : Nat, kind : Kinds \cup {"none"}, step : Nat, n : Nat, at : Nat,
                       part : 1 .. 3]
      /\ source'.sess = source.sess /\ source'.kind = "none" /\ source'.n >= source.n
  BY <1>1, <1>2 DEF TypeInv
<1>4. TypeInv'
  BY <1>1, <1>2, <1>3 DEF TypeInv
<1> QED
  BY <1>2, <1>3, <1>4, QuietKeeps

\* Nothing is reset but the handler that was active.
LEMMA DeselectedFields ==
    ASSUME TypeInv, SelectedInv
    PROVE  /\ Deselected = [k \in Kinds |-> Deselected[k]]
           /\ \A k \in Kinds :
                 /\ IsHandler(Deselected[k]) /\ Deselected[k].pos = 0
                 /\ Deselected[k].prev = IF k \in Dense THEN handler[k].prev ELSE None
<1>1. Deselected = [k \in Kinds |-> Deselected[k]]
  BY DEF Deselected
<1>2. ASSUME NEW k \in Kinds
      PROVE  /\ IsHandler(Deselected[k]) /\ Deselected[k].pos = 0
             /\ Deselected[k].prev = IF k \in Dense THEN handler[k].prev ELSE None
  <2>1. IsHandler(handler[k])
    BY DEF TypeInv
  <2>2. CASE k = active
    <3>1. Deselected[k] = Reset(k, handler[k])
      BY <2>2 DEF Deselected
    <3> QED
      BY <2>1, <3>1, ResetFields
  <2>3. CASE k # active
    <3>1. Deselected[k] = handler[k]
      BY <2>3 DEF Deselected
    <3>2. handler[k].pos = 0 /\ (k \notin Dense => handler[k].prev = None)
      BY <2>3 DEF SelectedInv
    <3> QED
      BY <2>1, <3>1, <3>2
  <2> QED
    BY <2>2, <2>3
<1> QED
  BY <1>1, <1>2

LEMMA DisableKeeps ==
    ASSUME IInv, Disable PROVE IInv'
<1>1. TypeInv /\ SelectedInv /\ CachedInv /\ SeenInv
  BY DEF IInv
<1>2. /\ enabled' = FALSE /\ handler' = Deselected /\ active' = "none" /\ out' = <<>>
      /\ source' = source /\ faults' = faults /\ seen' = seen
  BY DEF Disable, Enable
<1>3. /\ handler' = [k \in Kinds |-> handler'[k]]
      /\ \A k \in Kinds :
            /\ IsHandler(handler'[k]) /\ handler'[k].pos = 0
            /\ handler'[k].prev = IF k \in Dense THEN handler[k].prev ELSE None
  BY <1>1, <1>2, DeselectedFields
<1>4. TypeInv'
  <2>1. enabled' \in BOOLEAN /\ active' \in Kinds \cup {"none"}
    BY <1>2
  <2> QED
    BY <1>1, <1>2, <1>3, <2>1 DEF TypeInv, IsHandler
<1>5. SelectedInv'
  BY <1>1, <1>2, <1>3 DEF SelectedInv
<1>6. CachedInv'
  BY <1>1, <1>2, <1>3 DEF CachedInv
<1>7. SeenInv' /\ BufferInv' /\ InStep'
  BY <1>1, <1>2 DEF SeenInv, BufferInv, InStep
<1>8. NoFrameSkipped' /\ EarlierScanIsForgotten'
  BY <1>2 DEF NoFrameSkipped, EarlierScanIsForgotten
<1> QED
  BY <1>4, <1>5, <1>6, <1>7, <1>8 DEF IInv

LEMMA StartScanKeeps ==
    ASSUME IInv, NEW kind \in Kinds, NEW step \in Steps, NEW at \in 0 .. Turn - 1,
           StartScan(kind, step, at)
    PROVE  IInv'
<1>1. TypeInv /\ SelectedInv /\ CachedInv
  BY DEF IInv
<1>2. /\ enabled' = TRUE /\ handler' = Deselected /\ active' = "none" /\ out' = <<>>
      /\ source' = [sess |-> source.sess + 1, kind |-> kind, step |-> step,
                    n |-> 1, at |-> at, part |-> 1]
      /\ source.sess < Len(MaxFrames)
      /\ faults' = faults /\ seen' = {}
  BY DEF StartScan, Enable
<1>3. /\ handler' = [k \in Kinds |-> handler'[k]]
      /\ \A k \in Kinds :
            /\ IsHandler(handler'[k]) /\ handler'[k].pos = 0
            /\ handler'[k].prev = IF k \in Dense THEN handler[k].prev ELSE None
  BY <1>1, <1>2, DeselectedFields
<1>4. /\ source'.sess = source.sess + 1 /\ source'.kind = kind /\ source'.n = 1
      /\ source'.part = 1 /\ source.sess \in Nat /\ kind # "none"
  BY <1>1, <1>2, Constants DEF TypeInv
<1>5. TypeInv'
  <2>1. ASSUME NEW sess \in Nat, NEW n \in Nat, NEW part \in 1 .. 3,
               source' = [sess |-> sess, kind |-> kind, step |-> step, n |-> n, at |-> at,
                          part |-> part]
        PROVE  source' \in [sess : Nat, kind : Kinds \cup {"none"}, step : Nat, n : Nat, at : Nat,
                            part : 1 .. 3]
    BY <2>1, Constants
  <2>2. source.sess + 1 \in Nat /\ 1 \in Nat /\ 1 \in 1 .. 3
    BY <1>4
  <2>3. source' \in [sess : Nat, kind : Kinds \cup {"none"}, step : Nat, n : Nat, at : Nat,
                     part : 1 .. 3]
    BY <1>2, <2>1, <2>2, Zenon
  <2>4. enabled' \in BOOLEAN /\ active' \in Kinds \cup {"none"}
    BY <1>2
  <2> QED
    BY <1>1, <1>2, <1>3, <2>3, <2>4 DEF TypeInv, IsHandler
<1>6. SelectedInv'
  <2>1. source'.sess \in 1 .. Len(MaxFrames)
    BY <1>2, <1>4, Constants
  <2> QED
    BY <1>2, <1>3, <1>4, <2>1 DEF SelectedInv
<1>7. \A k \in Kinds : handler'[k].prev # None =>
          /\ k \in Dense /\ k \notin Simple
          /\ handler'[k].prev.sess <= source.sess /\ handler'[k].prev.sess \in Nat
  <2>1. \A k \in Kinds : handler[k].prev \in Frames
    BY <1>1 DEF TypeInv, IsHandler
  <2>2. \A k \in Kinds : handler[k].prev.sess \in Nat
    BY <2>1 DEF Frames
  <2> QED
    BY <1>1, <1>3, <2>2 DEF CachedInv
<1>8. CachedInv'
  BY <1>4, <1>7 DEF CachedInv
<1>9. SeenInv' /\ BufferInv'
  BY <1>2 DEF SeenInv, BufferInv
<1>10. InStep'
  <2>1. handler'[kind].pos = 0 /\ source'.part - 1 = 0 /\ 1 .. 0 = {}
    BY <1>3, <1>4
  <2>2. \A i \in 1 .. handler'[kind].pos : FALSE
    BY <2>1
  <2> QED
    BY <1>4, <2>1, <2>2 DEF InStep
<1>11. NoFrameSkipped' /\ EarlierScanIsForgotten'
  BY <1>2 DEF NoFrameSkipped, EarlierScanIsForgotten
<1> QED
  BY <1>5, <1>6, <1>8, <1>9, <1>10, <1>11 DEF IInv

(***************************************************************************)
(* The sync bits of a scan without faults.                                 *)
(***************************************************************************)
LEMMA CountOne ==
    ASSUME NEW n \in Nat, NEW bit
    PROVE  LET set(k) == {i \in 1 .. k : bit[i]}
           IN  /\ IsFiniteSet(set(n)) /\ Cardinality(set(n)) \in Nat
               /\ Cardinality(set(n + 1)) = Cardinality(set(n)) + (IF bit[n + 1] THEN 1 ELSE 0)
<1> DEFINE set(k) == {i \in 1 .. k : bit[i]}
<1>1. IsFiniteSet(1 .. n) /\ set(n) \subseteq 1 .. n
  BY FS_Interval
<1>2. IsFiniteSet(set(n)) /\ Cardinality(set(n)) \in Nat
  BY <1>1, FS_Subset, FS_CardinalityType
<1>3. CASE bit[n + 1]
  <2>1. set(n + 1) = set(n) \cup {n + 1} /\ n + 1 \notin set(n)
    BY <1>3
  <2> QED
    BY <1>2, <1>3, <2>1, FS_AddElement
<1>4. CASE ~ bit[n + 1]
  <2>1. set(n + 1) = set(n)
    BY <1>4
  <2> QED
    BY <1>2, <1>4, <2>1
<1> QED
  BY <1>2, <1>3, <1>4

LEMMA CountBits ==
    ASSUME NEW bit
    PROVE  LET one(i) == IF bit[i] THEN 1 ELSE 0
           IN  /\ Cardinality({i \in 1 .. 2 : bit[i]}) = one(1) + one(2)
               /\ Cardinality({i \in 1 .. 3 : bit[i]}) = one(1) + one(2) + one(3)
<1>1. {i \in 1 .. 0 : bit[i]} = {}
  OBVIOUS
<1>2. Cardinality({i \in 1 .. 0 : bit[i]}) = 0
  BY <1>1, FS_EmptySet
<1>3. Cardinality({i \in 1 .. 1 : bit[i]}) = IF bit[1] THEN 1 ELSE 0
  BY <1>2, CountOne, 0 + 1 = 1
<1>4. Cardinality({i \in 1 .. 2 : bit[i]}) =
          (IF bit[1] THEN 1 ELSE 0) + (IF bit[2] THEN 1 ELSE 0)
  BY <1>3, CountOne, 1 + 1 = 2
<1> QED
  <2>1. Cardinality({i \in 1 .. 2 + 1 : bit[i]}) =
            Cardinality({i \in 1 .. 2 : bit[i]}) + (IF bit[2 + 1] THEN 1 ELSE 0)
    BY CountOne
  <2>2. 2 + 1 = 3
    OBVIOUS
  <2>3. Cardinality({i \in 1 .. 3 : bit[i]}) =
            Cardinality({i \in 1 .. 2 : bit[i]}) + (IF bit[3] THEN 1 ELSE 0)
    BY <2>1, <2>2
  <2> QED
    BY <1>4, <2>3

LEMMA Mono ==
    ASSUME NEW s \in Nat, NEW x \in Nat, NEW y \in Nat, x <= y
    PROVE  x * s <= y * s
<1>1. PICK z \in Nat : y = x + z
  <2>1. y - x \in Nat /\ y = x + (y - x)
    OBVIOUS
  <2> QED BY <2>1
<1>2. y * s = x * s + z * s /\ z * s \in Nat /\ x * s \in Nat
  BY <1>1
<1> QED BY <1>2

(***************************************************************************)
(* A capsule from a to the next, in parts of a unit: the nodes are d apart *)
(* and t make a revolution.                                                *)
(***************************************************************************)
One(p) == IF p THEN 1 ELSE 0
Near(x, t, w) == (IF x < t THEN x ELSE x - t) < w
\* the two nodes of a window of the dense handlers: a zero that was crossed without
\* a bit gets it from the second node
Owed(a, d, last) == One(a < d /\ ~last)
\* where d is rounded down, the last node may be short of a zero
Short(a, r) == One(a < r)
InWindow(a, d, r) == r <= a /\ a - r < 2 * d
Settled(a, d, r, last) ==
    /\ last => InWindow(a, d, r)
    /\ InWindow(a, d, r) /\ ~last => d <= a - r

LEMMA NearModulo ==
    ASSUME NEW x, NEW t, NEW w, x \in Nat, t \in Nat \ {0}, x < 2 * t
    PROVE  Near(x, t, w) <=> x % t < w
<1>1. x < t => x % t = x
  OBVIOUS
<1>2. ~(x < t) => x % t = x - t
  OBVIOUS
<1> QED
  BY <1>1, <1>2, Zenon DEF Near

LEMMA CapsuleTurns ==
    ASSUME NEW a \in Nat, NEW d \in Nat, NEW t \in Nat, a < t, 2 * d < t, 1 <= d
    PROVE  One(Near(a + d, t, d)) + One(Near(a + 2 * d, t, d)) = One(t <= a + 2 * d)
BY DEF One, Near

Synced == {"capsule", "dense", "ultradense"}
Apart(kind, step) == (step * Scale) \div Nodes(kind)
Rest(kind, step) == step * Scale - Nodes(kind) * Apart(kind, step)
\* The sync bits that are behind the zero crossings when the capsule that starts at
\* `at` is cached.
Phase(kind, step, at, last, behind) ==
    LET a == at * Scale
        d == Apart(kind, step)
        r == Rest(kind, step)
    IN  /\ kind = "capsule" => behind = 0
        /\ kind = "ultradense" => behind - Owed(a, d, last) \in {-1, 0}
        /\ kind = "dense" =>
              behind = 0 \/ (Settled(a, d, r, last) /\ behind - Short(a, r) \in {-1, 0})

LEMMA PhaseParts ==
    ASSUME NEW a, NEW d, NEW r, NEW last \in BOOLEAN
    PROVE  Owed(a, d, last) \in {0, 1} /\ Short(a, r) \in {0, 1}
BY DEF Owed, Short, One

LEMMA PhaseBounds ==
    ASSUME NEW kind \in Synced, NEW step, NEW at, NEW last \in BOOLEAN, NEW behind \in Int,
           Phase(kind, step, at, last, behind)
    PROVE  behind \in -1 .. 1
BY PhaseParts DEF Phase, Synced

LEMMA PhaseZero ==
    ASSUME NEW kind, NEW step, NEW at, NEW last \in BOOLEAN
    PROVE  Phase(kind, step, at, last, 0)
BY PhaseParts DEF Phase

After(at, step) == (at + step) % Turn

LEMMA Angles ==
    ASSUME NEW step \in Steps, NEW p \in 0 .. Turn - 1, NEW c, c = After(p, step)
    PROVE  /\ c \in 0 .. Turn - 1
           /\ (p > c) <=> (Turn * Scale <= p * Scale + step * Scale)
           /\ c - p + (IF p > c THEN Turn ELSE 0) = step
           /\ Turn * Scale <= p * Scale + step * Scale
                => c * Scale = p * Scale + step * Scale - Turn * Scale
           /\ ~(Turn * Scale <= p * Scale + step * Scale)
                => c * Scale = p * Scale + step * Scale
           /\ p * Scale \in Nat /\ Turn * Scale \in Nat /\ step * Scale \in Nat
           /\ p * Scale < Turn * Scale
           /\ step * Scale + 4 <= Turn * Scale /\ 4 <= step * Scale
           /\ \E k \in Nat : step * Scale = 2 * k
<1>1. /\ Turn \in Nat \ {0} /\ Scale \in Nat /\ Scale >= 4 /\ Scale % 2 = 0
      /\ step \in 1 .. Turn - 1 /\ p \in Nat /\ step \in Nat
  BY UnpackerAssumption
<1>2. /\ p + step < Turn => c = p + step
      /\ Turn <= p + step => c = p + step - Turn
  <2>1. p + step \in Nat /\ p + step < 2 * Turn /\ Turn \in Nat \ {0}
    BY <1>1
  <2> QED
    BY <1>1, <2>1 DEF After
<1>3. /\ c \in 0 .. Turn - 1
      /\ (p > c) <=> (Turn <= p + step)
      /\ c - p + (IF p > c THEN Turn ELSE 0) = step
  BY <1>1, <1>2
<1>4. /\ (p + step) * Scale = p * Scale + step * Scale
      /\ (p + step - Turn) * Scale = p * Scale + step * Scale - Turn * Scale
      /\ (p + 1) * Scale = p * Scale + Scale
      /\ (step + 1) * Scale = step * Scale + Scale
      /\ p * Scale \in Nat /\ Turn * Scale \in Nat /\ step * Scale \in Nat
  BY <1>1
<1>5. /\ (p + 1) * Scale <= Turn * Scale /\ (step + 1) * Scale <= Turn * Scale
      /\ 1 * Scale <= step * Scale
  BY <1>1, Mono
<1>6. Turn <= p + step => Turn * Scale <= p * Scale + step * Scale
  BY <1>1, <1>4, Mono
<1>7. p + step < Turn => p * Scale + step * Scale < Turn * Scale
  <2>1. p + step < Turn => (p + step + 1) * Scale <= Turn * Scale
    BY <1>1, Mono
  <2>2. (p + step + 1) * Scale = p * Scale + step * Scale + Scale
    BY <1>1
  <2> QED
    BY <1>1, <1>4, <2>1, <2>2
<1>8. \E k \in Nat : step * Scale = 2 * k
  <2>1. PICK m \in Nat : Scale = 2 * m
    BY <1>1
  <2>2. step * Scale = 2 * (step * m) /\ step * m \in Nat
    BY <1>1, <2>1
  <2> QED
    BY <2>2
<1>9. /\ Turn * Scale <= p * Scale + step * Scale
            => c * Scale = p * Scale + step * Scale - Turn * Scale
      /\ ~(Turn * Scale <= p * Scale + step * Scale)
            => c * Scale = p * Scale + step * Scale
  <2>1. CASE p + step < Turn
    BY <1>1, <1>2, <1>4, <1>7, <2>1
  <2>2. CASE Turn <= p + step
    BY <1>1, <1>2, <1>4, <1>6, <2>2
  <2> QED
    BY <1>1, <2>1, <2>2
<1>10. (p > c) <=> (Turn * Scale <= p * Scale + step * Scale)
  BY <1>1, <1>3, <1>4, <1>6, <1>7
<1> QED
  <2>1. /\ p * Scale < Turn * Scale /\ step * Scale + 4 <= Turn * Scale /\ 4 <= step * Scale
    BY <1>1, <1>4, <1>5
  <2> QED
    BY <1>3, <1>4, <1>8, <1>9, <1>10, <2>1

LEMMA Halved ==
    ASSUME NEW s \in Nat, 4 <= s
    PROVE  /\ s \div 3 \in Nat /\ s \div 3 >= 1 /\ s - 3 * (s \div 3) \in 0 .. 2
           /\ (\E k \in Nat : s = 2 * k) =>
                 /\ s \div 2 \in Nat /\ s = 2 * (s \div 2) /\ s \div 2 >= 1
                 /\ s - 3 * (s \div 3) <= s \div 3
OBVIOUS

\* A capsule that is published: its zero crossing and its sync bits.
LEMMA CapsuleCounted ==
    ASSUME NEW kind \in Synced, NEW step \in Steps,
           NEW h, NEW cur, h.last \in BOOLEAN, h.prev.at \in 0 .. Turn - 1,
           cur.at = After(h.prev.at, step),
           tally.turns \in Nat, tally.syncs \in Nat,
           Phase(kind, step, h.prev.at, h.last, tally.turns - tally.syncs)
    PROVE  LET c == Counted(kind, h, cur)
               last == SyncBits(kind, h.prev, cur, h.last)[Nodes(kind)]
           IN  /\ c.turns \in Nat /\ c.syncs \in Nat /\ last \in BOOLEAN
               /\ Phase(kind, step, cur.at, last, c.turns - c.syncs)
<1> DEFINE p == h.prev.at
           s == step * Scale
           t == Turn * Scale
           a == p * Scale
           bit == SyncBits(kind, h.prev, cur, h.last)
           d == Apart(kind, step)
           next == IF t <= a + s THEN a + s - t ELSE a + s
           w == IF kind \in Dense THEN 2 * d ELSE d
<1>1. /\ (p > cur.at) <=> (t <= a + s)
      /\ Span(h.prev, cur) = step /\ cur.at * Scale = next
      /\ s \in Nat /\ a \in Nat /\ t \in Nat /\ a < t /\ s + 4 <= t /\ 4 <= s
      /\ \E k \in Nat : s = 2 * k
  <2>1. /\ cur.at = After(p, step) /\ p \in 0 .. Turn - 1
        /\ Span(h.prev, cur) = cur.at - p + (IF p > cur.at THEN Turn ELSE 0)
    BY DEF Span
  <2>2. /\ (p > cur.at) <=> (t <= a + s)
        /\ cur.at - p + (IF p > cur.at THEN Turn ELSE 0) = step
        /\ t <= a + s => cur.at * Scale = a + s - t
        /\ ~(t <= a + s) => cur.at * Scale = a + s
        /\ a \in Nat /\ t \in Nat /\ s \in Nat
        /\ a < t
        /\ s + 4 <= t /\ 4 <= s
        /\ \E k \in Nat : s = 2 * k
    <3> HIDE DEF p
    <3> QED
      BY <2>1, Angles, Zenon
  <2> HIDE DEF p, a, t, s
  <2>3. cur.at * Scale = next
    BY <2>2
  <2> QED
    BY <2>1, <2>2, <2>3
<1>2. Inc(kind, h.prev, cur) = d
  BY <1>1 DEF Inc, Apart
<1> HIDE DEF s, t, a, next
<1>3. /\ Nodes(kind) = IF kind = "dense" THEN 3 ELSE 2
      /\ kind \in Dense <=> kind # "capsule"
  BY DEF Nodes, Synced, Dense
<1>4. d = IF kind = "dense" THEN s \div 3 ELSE s \div 2
  BY <1>3 DEF Apart, s
<1>5. /\ d \in Nat /\ 1 <= d
      /\ kind # "dense" => s = 2 * d
      /\ kind = "dense" => s - 3 * d \in 0 .. 2 /\ s - 3 * d <= d
  BY <1>1, <1>4, Halved
<1> HIDE DEF d
<1>6. ASSUME NEW i \in 1 .. Nodes(kind)
      PROVE  NearZero(kind, h.prev, cur, i) <=> Near(a + i * d, t, w)
  <2>1. NodeEnd(kind, h.prev, cur, i) = a + i * d
    BY <1>2 DEF NodeEnd, a
  <2> DEFINE x == a + i * d
  <2>2. x \in Nat /\ x < 2 * t /\ t \in Nat \ {0}
    <3>1. i * d <= s /\ i * d \in Nat
      <4>1. i = 1 \/ i = 2 \/ (i = 3 /\ kind = "dense")
        BY <1>3
      <4>2. CASE i = 1
        BY <1>1, <1>3, <1>5, <4>2
      <4>3. CASE i = 2
        BY <1>1, <1>3, <1>5, <4>3
      <4>4. CASE i = 3 /\ kind = "dense"
        BY <1>1, <1>5, <4>4
      <4> QED
        BY <4>1, <4>2, <4>3, <4>4, Zenon
    <3>2. /\ i * d \in Nat /\ i * d <= s
          /\ a \in Nat /\ s \in Nat /\ t \in Nat /\ a < t /\ s + 4 <= t
      BY <1>1, <3>1
    <3> QED
      BY <3>2
  <2>3. NearZero(kind, h.prev, cur, i) <=> x % t < (IF kind \in Dense THEN 2 ELSE 1) * d
    BY <1>2, <2>1, Zenon DEF NearZero, t
  <2>4. (IF kind \in Dense THEN 2 ELSE 1) * d = w
    BY <1>5
  <2> HIDE DEF x, w
  <2>5. x \in Nat /\ t \in Nat \ {0} /\ x < 2 * t
    BY <2>2
  <2>6. Near(x, t, w) <=> x % t < w
    BY <2>5, NearModulo, Zenon
  <2> QED
    BY <2>3, <2>4, <2>6, Zenon DEF x
<1>7. /\ bit[0] = h.last
      /\ \A i \in 1 .. Nodes(kind) :
            bit[i] = (NearZero(kind, h.prev, cur, i) /\ ~(kind \in Dense /\ bit[i - 1]))
  BY Bits
<1>8. ASSUME NEW i \in 1 .. Nodes(kind)
      PROVE  /\ bit[i] \in BOOLEAN
             /\ bit[i] <=> Near(a + i * d, t, w) /\ ~(kind \in Dense /\ bit[i - 1])
  BY <1>6, <1>7
<1> DEFINE turns == IF p > cur.at THEN 1 ELSE 0
           syncs == Cardinality({i \in 1 .. Nodes(kind) : bit[i]})
           c == Counted(kind, h, cur)
           behind == tally.turns - tally.syncs
<1>9. c.turns = tally.turns + turns /\ c.syncs = tally.syncs + syncs
  BY DEF Counted
<1>10. turns = One(t <= a + s)
  BY <1>1 DEF One
<1>11. bit[0] = h.last /\ h.last \in BOOLEAN
  BY <1>7
<1>12. /\ kind # "dense" => syncs = One(bit[1]) + One(bit[2])
       /\ kind = "dense" => syncs = One(bit[1]) + One(bit[2]) + One(bit[3])
  BY <1>3, CountBits DEF One
<1> HIDE DEF bit, turns, syncs, c
<1>13. /\ c.turns - c.syncs = behind + turns - syncs /\ behind \in Int

       /\ c.turns \in Nat /\ c.syncs \in Nat
  <2>1. /\ turns \in {0, 1} /\ One(bit[1]) \in {0, 1} /\ One(bit[2]) \in {0, 1}
        /\ One(bit[3]) \in {0, 1}
    BY <1>10 DEF One
  <2>2. turns \in Nat /\ syncs \in Nat
    BY <1>3, <1>12, <2>1
  <2>3. tally.turns \in Nat /\ tally.syncs \in Nat
    OBVIOUS
  <2>4. c.turns \in Nat /\ c.syncs \in Nat
    BY <1>9, <2>2, <2>3
  <2>5. behind \in Int
    BY <2>3
  <2>6. c.turns - c.syncs = behind + turns - syncs
    BY <1>9, <2>2, <2>3
  <2> QED
    BY <2>4, <2>5, <2>6
<1>14. bit[Nodes(kind)] \in BOOLEAN
  <2>1. Nodes(kind) \in 1 .. Nodes(kind)
    BY <1>3
  <2> QED
    BY <1>8, <2>1
<1>15. d = Apart(kind, step) /\ s - Nodes(kind) * d = Rest(kind, step)
  BY DEF d, s, Rest
<1> HIDE DEF behind
<1>16. CASE kind = "capsule"
  <2>1. /\ bit[1] \in BOOLEAN /\ (bit[1] <=> Near(a + d, t, d))
        /\ bit[2] \in BOOLEAN /\ (bit[2] <=> Near(a + 2 * d, t, d))
    BY <1>3, <1>5, <1>8, <1>16
  <2>2. One(bit[1]) + One(bit[2]) = One(t <= a + 2 * d)
    <3>1. One(Near(a + d, t, d)) + One(Near(a + 2 * d, t, d)) = One(t <= a + 2 * d)
      <4>1. 2 * d < t
        BY <1>1, <1>5, <1>16
      <4> QED
        BY <1>1, <1>5, <4>1, CapsuleTurns
    <3> QED
      BY <2>1, <3>1 DEF One
  <2>3. syncs = turns
    BY <1>5, <1>10, <1>12, <1>16, <2>2
  <2>4. behind = 0
    BY <1>16 DEF Phase, behind
  <2>5. c.turns - c.syncs = 0
    BY <1>10, <1>13, <2>3, <2>4 DEF One
  <2> QED
    BY <1>13, <1>14, <1>16, <2>5 DEF Phase, bit, c
<1>17. CASE kind = "ultradense"
  <2>1. /\ bit[1] \in BOOLEAN /\ (bit[1] <=> Near(a + d, t, 2 * d) /\ ~h.last)
        /\ bit[2] \in BOOLEAN /\ (bit[2] <=> Near(a + 2 * d, t, 2 * d) /\ ~bit[1])
    BY <1>3, <1>5, <1>8, <1>11, <1>17
  <2>2. /\ s = 2 * d
        /\ t <= a + 2 * d => next = a + 2 * d - t
        /\ ~(t <= a + 2 * d) => next = a + 2 * d
    BY <1>5, <1>17 DEF next
  <2>3. One(t <= a + 2 * d) - One(bit[1]) - One(bit[2])
            = Owed(next, d, bit[2]) - Owed(a, d, h.last)
    <3>1. 2 * d < t
      BY <1>1, <2>2
    <3>2. next = IF t <= a + 2 * d THEN a + 2 * d - t ELSE a + 2 * d
      BY <2>2
    <3> QED
      BY <1>1, <1>5, <1>11, <2>1, <3>1, <3>2 DEF One, Near, Owed
  <2>4. behind - Owed(a, d, h.last) \in {-1, 0}
    BY <1>15, <1>17 DEF Phase, behind, a
  <2>5. c.turns - c.syncs - Owed(next, d, bit[2]) \in {-1, 0}
    <3>1. c.turns - c.syncs = behind + One(t <= a + 2 * d) - (One(bit[1]) + One(bit[2]))
      BY <1>10, <1>12, <1>13, <1>17, <2>2
    <3>2. /\ One(t <= a + 2 * d) \in Int /\ One(bit[1]) \in Int /\ One(bit[2]) \in Int
          /\ Owed(next, d, bit[2]) \in Int /\ Owed(a, d, h.last) \in Int
      BY DEF One, Owed
    <3> QED
      BY <1>13, <2>3, <2>4, <3>1, <3>2
  <2>6. Nodes(kind) = 2 /\ cur.at * Scale = next
    BY <1>1, <1>3, <1>17
  <2> QED
    BY <1>13, <1>14, <1>15, <1>17, <2>5, <2>6 DEF Phase, bit, c
<1>18. CASE kind = "dense"
  <2>1. /\ bit[1] \in BOOLEAN /\ (bit[1] <=> Near(a + d, t, 2 * d) /\ ~h.last)
        /\ bit[2] \in BOOLEAN /\ (bit[2] <=> Near(a + 2 * d, t, 2 * d) /\ ~bit[1])
        /\ bit[3] \in BOOLEAN /\ (bit[3] <=> Near(a + 3 * d, t, 2 * d) /\ ~bit[2])
    BY <1>3, <1>5, <1>8, <1>11, <1>18
  <2> DEFINE r == s - 3 * d
             over == t <= a + 3 * d + r
             after == IF over THEN a + 3 * d + r - t ELSE a + 3 * d + r
             now == behind + One(over) - One(bit[1]) - One(bit[2]) - One(bit[3])
  <2>2. r \in Nat /\ r <= 2 /\ r <= d /\ 3 * d + r = s /\ 3 * d + r + 3 <= t
    BY <1>1, <1>5, <1>18
  <2>3. behind = 0 \/ (Settled(a, d, r, h.last) /\ behind - Short(a, r) \in {-1, 0})
    BY <1>3, <1>15, <1>18 DEF Phase, behind, a
  <2>4. next = after /\ (over <=> t <= a + s)
    BY <1>1, <1>5, <2>2 DEF next
  <2> HIDE DEF r
  <2>9. over \in BOOLEAN /\ (over <=> t <= a + 3 * d + r)
    OBVIOUS
  <2>10. after = IF over THEN a + 3 * d + r - t ELSE a + 3 * d + r
    OBVIOUS
  <2>11. now = behind + One(over) - One(bit[1]) - One(bit[2]) - One(bit[3])
    OBVIOUS
  <2> HIDE DEF now, after, over
  <2>5. Settled(after, d, r, bit[3]) /\ now - Short(after, r) \in {-1, 0}
    BY <1>1, <1>5, <1>11, <1>13, <2>1, <2>2, <2>3, <2>9, <2>10, <2>11 DEF One, Near, Short, Settled, InWindow
  <2>6. c.turns - c.syncs = now
    <3>1. /\ One(over) \in Int /\ One(bit[1]) \in Int /\ One(bit[2]) \in Int
          /\ One(bit[3]) \in Int
      BY DEF One
    <3>2. turns = One(over)
      BY <1>10, <2>4 DEF One
    <3>3. syncs = One(bit[1]) + One(bit[2]) + One(bit[3])
      BY <1>12, <1>18
    <3> HIDE DEF over
    <3> QED
      BY <1>13, <2>11, <3>1, <3>2, <3>3
  <2>7. Nodes(kind) = 3 /\ cur.at * Scale = after /\ r = Rest(kind, step)
    BY <1>1, <1>3, <1>15, <1>18, <2>4 DEF r
  <2>8. Phase(kind, step, cur.at, bit[3], c.turns - c.syncs)
    BY <1>15, <1>18, <2>5, <2>6, <2>7 DEF Phase
  <2> QED
    BY <1>13, <1>14, <2>7, <2>8 DEF bit, c
<1> QED
  BY <1>16, <1>17, <1>18 DEF Synced

(* What is counted so far: nothing before the second frame; then the sync   *)
(* bits keep up with the zero crossings, as the phase of the last capsule   *)
(* tells.  A capsule that is too wide is not published, nor is any other of *)
(* its scan.                                                                *)
Counting(h) ==
    LET kind == source.kind
        behind == tally.turns - tally.syncs
    IN  /\ source.step \in Steps /\ source.at \in 0 .. Turn - 1
        /\ tally.turns \in Nat /\ tally.syncs \in Nat /\ source.n >= 1
        /\ source.n = 1 => tally.turns = 0 /\ tally.syncs = 0
        /\ source.n # 1 =>
              /\ h.prev # None /\ h.prev.at \in 0 .. Turn - 1
              /\ source.at = After(h.prev.at, source.step)
              /\ Phase(kind, source.step, h.prev.at, h.last, behind)
              /\ kind \in Dense /\ source.step > MaxDiff => behind = 0
SyncInv ==
    enabled /\ faults[source.sess] = 0 /\ source.kind \in Synced
        => Counting(handler[source.kind])

LEMMA AfterType ==
    ASSUME NEW at \in 0 .. Turn - 1, NEW step \in Steps
    PROVE  After(at, step) \in 0 .. Turn - 1
<1>1. Turn \in Nat \ {0} /\ at + step \in Nat
  BY UnpackerAssumption
<1> QED
  BY <1>1 DEF After

LEMMA CountedIsBounded ==
    ASSUME TypeInv, SelectedInv, SyncInv, enabled
    PROVE  OneSyncPerTurn
<1> SUFFICES ASSUME Undisturbed, source.kind \in Synced
             PROVE  tally.turns - tally.syncs \in -1 .. 1
  BY DEF OneSyncPerTurn, Synced
<1> DEFINE h == handler[source.kind]
           behind == tally.turns - tally.syncs
<1>1. Counting(h)
  BY DEF SyncInv, Undisturbed
<1>2. source.kind \in Kinds
  BY DEF TypeInv, Synced
<1>3. h.last \in BOOLEAN
  BY <1>2 DEF TypeInv, IsHandler
<1>4. behind \in Int
  BY <1>1 DEF Counting
<1>5. CASE source.n = 1
  BY <1>1, <1>5 DEF Counting
<1>6. CASE source.n # 1
  <2>1. Phase(source.kind, source.step, h.prev.at, h.last, behind)
    BY <1>1, <1>6 DEF Counting
  <2> HIDE DEF behind, h
  <2>2. behind \in -1 .. 1
    BY <1>3, <1>4, <2>1, PhaseBounds
  <2> QED
    BY <2>2 DEF behind
<1> QED
  BY <1>5, <1>6

\* A frame of a scan without faults, as the handler makes of it.
LEMMA WholeFrame ==
    ASSUME TypeInv, SelectedInv, InStep, enabled, faults[source.sess] = 0, source.part = 3,
           source.kind \in Kinds
    PROVE  LET h == handler[source.kind]
               bytes == Append(h.buf, Byte(TRUE))
           IN  h.pos = 2 /\ Whole(bytes) /\ bytes[3].frame = Frame /\ Frame \in Frames
<1> DEFINE h == handler[source.kind]
           byte == Byte(TRUE)
           bytes == Append(h.buf, byte)
<1>1. h.pos = 2 /\ \A i \in 1 .. 2 : h.buf[i] = [frame |-> Frame, part |-> i, ok |-> TRUE]
  BY DEF InStep
<1>2. h.pos \in 0 .. 2 /\ h.buf \in Seq(Bytes) /\ Len(h.buf) = h.pos
  BY DEF TypeInv, IsHandler
<1>3. byte = [frame |-> Frame, part |-> 3, ok |-> TRUE] /\ Frame \in Frames /\ byte \in Bytes
  BY DEF TypeInv, Frame, Frames, Byte, Bytes
<1> HIDE DEF byte, h
<1>4. bytes[3] = byte /\ \A i \in 1 .. 2 : bytes[i] = h.buf[i]
  <2>1. bytes[h.pos + 1] = byte /\ \A i \in 1 .. h.pos : bytes[i] = h.buf[i]
    BY <1>2, <1>3, AppendProperties
  <2> HIDE DEF bytes
  <2> QED
    BY <1>1, <2>1
<1> HIDE DEF bytes
<1>5. \A i \in 1 .. 3 : bytes[i] = [frame |-> Frame, part |-> i, ok |-> TRUE]
  <2>1. \A i \in 1 .. 3 : i \in 1 .. 2 \/ i = 3
    OBVIOUS
  <2> QED
    BY <1>1, <1>3, <1>4, <2>1
<1>6. Whole(bytes) /\ bytes[3].frame = Frame
  BY <1>5 DEF Whole
<1> QED
  BY <1>1, <1>3, <1>6 DEF bytes, byte, h

LEMMA SpanIsStep ==
    ASSUME NEW step \in Steps, NEW prev, NEW cur, prev.at \in 0 .. Turn - 1,
           cur.at = After(prev.at, step)
    PROVE  Span(prev, cur) = step
<1>1. cur.at - prev.at + (IF prev.at > cur.at THEN Turn ELSE 0) = step
  BY Angles, Zenon
<1> QED
  BY <1>1 DEF Span

\* The byte of a scan without faults is collected, or it completes the frame.
LEMMA DeliverSyncs ==
    ASSUME IInv, SyncInv, Deliver, enabled, faults[source.sess] = 0, source.kind \in Synced
    PROVE  SyncInv'
<1> DEFINE kind == source.kind
           h == handler[kind]
           byte == Byte(TRUE)
<1>1. TypeInv /\ SelectedInv /\ InStep /\ Counting(h)
  BY DEF IInv, SyncInv
<1>2. kind \in Kinds /\ Selected[kind] = h
  BY <1>1, SelectedIsHandler
<1>3. /\ OnData(kind, h, byte, FALSE) /\ source' = Next1 /\ Sending
      /\ faults' = faults
  BY <1>2 DEF Deliver, OnSampleData
<1>4. IsHandler(h) /\ handler = [k \in Kinds |-> handler[k]] /\ h.pos = source.part - 1
  BY <1>1, <1>2 DEF TypeInv, InStep
<1>5. /\ source.part \in 1 .. 3 /\ source.n \in Nat /\ source.at \in 0 .. Turn - 1
      /\ source.step \in Steps /\ tally.turns \in Nat /\ tally.syncs \in Nat
  BY <1>1 DEF TypeInv, Counting
<1>6. /\ source'.kind = kind /\ source'.step = source.step
      /\ source.part < 3 => source'.n = source.n /\ source'.at = source.at
      /\ source.part = 3 => source'.n = source.n + 1 /\ source'.at = After(source.at, source.step)
  BY <1>1, <1>3, <1>5 DEF Next1, After, TypeInv
<1>7. byte \in Bytes /\ byte.part = source.part /\ byte.ok
  BY <1>1 DEF TypeInv, Byte, Bytes, Frame, Frames
<1> HIDE DEF byte
<1>8. ASSUME NEW g, handler' = [handler EXCEPT ![kind] = g],
             tally'.turns \in Nat, tally'.syncs \in Nat, source'.at \in 0 .. Turn - 1,
             source'.n = 1 => tally'.turns = 0 /\ tally'.syncs = 0,
             source'.n # 1 =>
                 /\ g.prev # None /\ g.prev.at \in 0 .. Turn - 1
                 /\ source'.at = After(g.prev.at, source.step)
                 /\ Phase(kind, source.step, g.prev.at, g.last, tally'.turns - tally'.syncs)
                 /\ kind \in Dense /\ source.step > MaxDiff => tally'.turns - tally'.syncs = 0
      PROVE  SyncInv'
  <2>1. handler'[source'.kind] = g
    BY <1>2, <1>4, <1>6, <1>8
  <2> QED
    BY <1>5, <1>6, <1>8, <2>1 DEF SyncInv, Counting
<1>9. CASE source.part < 3
  <2>1. h.pos # 2 /\ h.pos < 2 /\ Expected(kind, h, byte, FALSE)
    BY <1>4, <1>5, <1>7, <1>9 DEF Expected, Unchecked
  <2>2. handler' = [handler EXCEPT ![kind] = Collected(h, byte)] /\ tally' = tally
    BY <1>3, <2>1, Zenon DEF OnData
  <2>3. Collected(h, byte).prev = h.prev /\ Collected(h, byte).last = h.last
    BY <1>4, <1>7, <2>1, CollectedFields
  <2> QED
    BY <1>1, <1>5, <1>6, <1>8, <1>9, <2>2, <2>3 DEF Counting
<1>10. CASE source.part = 3
  <2> DEFINE e == [h EXCEPT !.pos = 0, !.buf = <<>>]
             bytes == Append(h.buf, byte)
             s == Started(e, Frame)
             g == Cached(kind, s, Frame)
  <2>1. h.pos = 2 /\ Whole(bytes) /\ bytes[3].frame = Frame /\ Frame \in Frames
    BY <1>1, <1>2, <1>10, WholeFrame DEF byte
  <2>2. Complete(kind, e, bytes) /\ kind \notin Simple
    <3>1. Complete(kind, e, bytes)
      <4>1. h.pos = 2
        BY <2>1
      <4> QED
        BY <1>3, <4>1 DEF OnData
    <3>2. kind \notin Simple
      BY DEF Synced, Simple
    <3> QED
      BY <3>1, <3>2
  <2>3. IsHandler(e) /\ e.prev = h.prev /\ e.last = h.last
    BY <1>4, EmptiedFields
  <2> HIDE DEF e, bytes
  <2>4. /\ handler' = [handler EXCEPT ![kind] = g]
        /\ tally' = IF Published(kind, s, Frame) THEN Counted(kind, s, Frame) ELSE tally
    BY <2>1, <2>2 DEF Complete
  <2>5. /\ IsHandler(s) /\ s.last = h.last
        /\ s.prev = IF source.n = 1 THEN None ELSE h.prev
    <3>1. First(Frame) <=> source.n = 1
      BY DEF First, Frame
    <3>2. /\ IsHandler(s) /\ s.last = e.last
          /\ s.prev = IF First(Frame) THEN None ELSE e.prev
      BY <2>3, StartedFields, Zenon
    <3> QED
      BY <2>3, <3>1, <3>2
  <2>6. /\ g.prev = Frame
        /\ g.last = IF kind \in Dense /\ Published(kind, s, Frame)
                    THEN SyncBits(kind, s.prev, Frame, s.last)[Nodes(kind)] ELSE s.last
        /\ IsHandler(g)
    BY <2>1, <2>5, CachedFields
  <2> HIDE DEF s, g
  <2>7. /\ g.prev # None /\ g.prev.at = source.at /\ g.last \in BOOLEAN
        /\ source'.n # 1 /\ source'.at \in 0 .. Turn - 1
    <3>1. Frame.n = source.n /\ Frame.at = source.at
      BY DEF Frame
    <3>2. source.n >= 1
      BY <1>1 DEF Counting
    <3>3. g.last \in BOOLEAN
      BY <2>6 DEF IsHandler
    <3>4. source'.at \in 0 .. Turn - 1 /\ source'.n = source.n + 1
      BY <1>5, <1>6, <1>10, AfterType
    <3>5. g.prev # None
      BY <1>5, <2>6, <3>1, <3>2 DEF None
    <3> QED
      BY <1>5, <2>6, <3>1, <3>2, <3>3, <3>4, <3>5
  <2>8. CASE ~Published(kind, s, Frame)
    <3>1. tally'.turns = tally.turns /\ tally'.syncs = tally.syncs
      BY <2>4, <2>8
    <3>2. source.n = 1 => tally'.turns - tally'.syncs = 0
      <4> SUFFICES ASSUME source.n = 1 PROVE tally'.turns - tally'.syncs = 0
        OBVIOUS
      <4>1. tally.turns = 0 /\ tally.syncs = 0
        BY <1>1 DEF Counting
      <4> QED
        BY <3>1, <4>1
    <3>3. source.n # 1 => tally'.turns - tally'.syncs = 0
      <4> SUFFICES ASSUME source.n # 1 PROVE tally'.turns - tally'.syncs = 0
        OBVIOUS
      <4>1. s.prev = h.prev /\ h.prev # None /\ s.prev.at \in 0 .. Turn - 1
            /\ Frame.at = After(s.prev.at, source.step)
        BY <1>1, <2>5 DEF Counting, Frame
      <4>2. Span(s.prev, Frame) = source.step
        BY <1>5, <4>1, SpanIsStep
      <4>3. kind \in Dense /\ source.step > MaxDiff
        BY <2>8, <4>1, <4>2 DEF Published, TooWide
      <4>4. tally.turns - tally.syncs = 0
        BY <1>1, <4>3 DEF Counting
      <4> QED
        BY <3>1, <4>4
    <3>4. tally'.turns - tally'.syncs = 0
      BY <3>2, <3>3
    <3>5. Phase(kind, source.step, g.prev.at, g.last, tally'.turns - tally'.syncs)
      BY <2>7, <3>4, PhaseZero
    <3> QED
      BY <1>5, <1>6, <1>8, <1>10, <2>4, <2>7, <3>1, <3>4, <3>5
  <2>9. CASE Published(kind, s, Frame)
    <3> DEFINE c == Counted(kind, s, Frame)
               last == SyncBits(kind, s.prev, Frame, s.last)[Nodes(kind)]
    <3>1. source.n # 1 /\ s.prev = h.prev /\ h.prev # None
      BY <2>5, <2>9 DEF Published
    <3>2. tally' = c /\ (kind \in Dense => g.last = last)
      BY <2>4, <2>6, <2>9
    <3>3. /\ s.last \in BOOLEAN /\ s.prev.at \in 0 .. Turn - 1
          /\ Frame.at = After(s.prev.at, source.step)
          /\ Phase(kind, source.step, s.prev.at, s.last, tally.turns - tally.syncs)
      BY <1>1, <2>5, <3>1 DEF Counting, IsHandler, Frame
    <3>4. /\ c.turns \in Nat /\ c.syncs \in Nat /\ last \in BOOLEAN
          /\ Phase(kind, source.step, Frame.at, last, c.turns - c.syncs)
      <4>1. /\ kind \in Synced /\ source.step \in Steps /\ tally.turns \in Nat /\ tally.syncs \in Nat
        BY <1>5
      <4>2. ASSUME NEW k \in Synced, NEW step \in Steps, NEW old, NEW cur, old.last \in BOOLEAN,
                   old.prev.at \in 0 .. Turn - 1, cur.at = After(old.prev.at, step),
                   Phase(k, step, old.prev.at, old.last, tally.turns - tally.syncs)
            PROVE  LET new == Counted(k, old, cur)
                       bit == SyncBits(k, old.prev, cur, old.last)[Nodes(k)]
                   IN  /\ new.turns \in Nat /\ new.syncs \in Nat /\ bit \in BOOLEAN
                       /\ Phase(k, step, cur.at, bit, new.turns - new.syncs)
        BY <4>1, <4>2, CapsuleCounted
      <4> HIDE DEF kind
      <4> QED
        BY <3>3, <4>1, <4>2
    <3> HIDE DEF c, last
    <3>5. Phase(kind, source.step, Frame.at, g.last, c.turns - c.syncs)
      <4>1. CASE kind \in Dense
        BY <3>2, <3>4, <4>1
      <4>2. CASE kind = "capsule"
        BY <3>4, <4>2 DEF Phase
      <4> QED
        BY <4>1, <4>2 DEF Synced, Dense
    <3>6. ~(kind \in Dense /\ source.step > MaxDiff)
      <4>1. Span(s.prev, Frame) = source.step
        BY <1>5, <3>3, SpanIsStep
      <4> QED
        BY <2>9, <4>1 DEF Published, TooWide
    <3>7. Frame.at = source.at
      BY DEF Frame
    <3>8. /\ tally'.turns \in Nat /\ tally'.syncs \in Nat /\ source'.at \in 0 .. Turn - 1
          /\ source'.n # 1 /\ g.prev # None /\ g.prev.at \in 0 .. Turn - 1
          /\ source'.at = After(g.prev.at, source.step)
      BY <1>5, <1>6, <1>10, <2>7, <3>2, <3>4
    <3>9. Phase(kind, source.step, g.prev.at, g.last, tally'.turns - tally'.syncs)
      BY <2>7, <3>2, <3>5, <3>7
    <3> HIDE DEF kind
    <3> QED
      BY <1>8, <2>4, <3>6, <3>8, <3>9
  <2> QED
    BY <2>8, <2>9
<1> QED
  BY <1>5, <1>9, <1>10

LEMMA Initially == Init => IInv
<1> SUFFICES ASSUME Init PROVE IInv
  OBVIOUS
<1>1. /\ enabled = FALSE /\ active = "none" /\ handler = [k \in Kinds |-> Fresh]
      /\ out = <<>> /\ seen = {}
      /\ source = [sess |-> 0, kind |-> "none", step |-> 0, n |-> 0, at |-> 0, part |-> 1]
      /\ faults = [i \in 1 .. Len(MaxFrames) |-> 0]
  BY DEF Init
<1>2. IsHandler(Fresh) /\ Fresh.pos = 0 /\ Fresh.prev = None
  <2>1. ASSUME NEW pos \in 0 .. 2, NEW buf \in Seq(Bytes), Len(buf) = pos, NEW prev \in Frames,
               NEW last \in BOOLEAN
        PROVE  LET h == [pos |-> pos, buf |-> buf, prev |-> prev, last |-> last]
               IN  IsHandler(h) /\ h.pos = pos /\ h.prev = prev
    BY <2>1 DEF IsHandler
  <2>2. None \in Frames
    BY Constants
  <2>3. FALSE \in BOOLEAN
    OBVIOUS
  <2> QED
    BY <2>1, <2>2, <2>3, EmptyBuffer, Zenon DEF Fresh
<1>3. source.sess = 0 /\ source.kind = "none"
  BY <1>1
<1>4. TypeInv
  <2>1. source \in [sess : Nat, kind : Kinds \cup {"none"}, step : Nat, n : Nat, at : Nat,
                    part : 1 .. 3]
    <3>1. ASSUME NEW z \in Nat, NEW part \in 1 .. 3
          PROVE  [sess |-> z, kind |-> "none", step |-> z, n |-> z, at |-> z, part |-> part]
                   \in [sess : Nat, kind : Kinds \cup {"none"}, step : Nat, n : Nat, at : Nat,
                        part : 1 .. 3]
      OBVIOUS
    <3>2. 0 \in Nat /\ 1 \in 1 .. 3
      OBVIOUS
    <3> QED
      BY <1>1, <3>1, <3>2, Zenon
  <2>2. faults \in [1 .. Len(MaxFrames) -> Nat]
    BY <1>1
  <2>3. enabled \in BOOLEAN /\ active \in Kinds \cup {"none"}
    BY <1>1
  <2>4. handler = [k \in Kinds |-> handler[k]] /\ \A k \in Kinds : IsHandler(handler[k])
    BY <1>1, <1>2, Zenon
  <2> QED
    BY <1>1, <2>1, <2>2, <2>3, <2>4 DEF TypeInv
<1>5. \A k \in Kinds : handler[k].pos = 0 /\ handler[k].prev = None
  BY <1>1, <1>2
<1>6. SelectedInv /\ CachedInv /\ SeenInv /\ BufferInv /\ InStep
  BY <1>1, <1>3, <1>5 DEF SelectedInv, CachedInv, SeenInv, BufferInv, InStep
<1>7. NoFrameSkipped /\ EarlierScanIsForgotten
  BY <1>1 DEF NoFrameSkipped, EarlierScanIsForgotten
<1> QED
  BY <1>4, <1>6, <1>7 DEF IInv

LEMMA Inductive == IInv /\ [Next]_vars => IInv'
<1> SUFFICES ASSUME IInv, [Next]_vars PROVE IInv'
  OBVIOUS
<1>1. CASE Deliver
  BY <1>1, DeliverKeeps
<1>2. CASE Mistake
  BY <1>2, MistakeKeeps
<1>3. CASE Damage
  BY <1>3, DamageKeeps
<1>4. CASE LoseByte
  BY <1>4, LoseByteKeeps
<1>5. CASE LoseFrame
  BY <1>5, LoseFrameKeeps
<1>6. CASE \E kind \in Kinds, step \in Steps, at \in 0 .. Turn - 1 : StartScan(kind, step, at)
  BY <1>6, StartScanKeeps
<1>7. CASE Disable
  BY <1>7, DisableKeeps
<1>8. CASE Stops
  BY <1>8, StopsKeeps
<1>9. CASE UNCHANGED vars
  BY <1>9 DEF vars, IInv, TypeInv, IsHandler, SelectedInv, CachedInv, SeenInv, BufferInv, InStep,
              Frame, NoFrameSkipped, EarlierScanIsForgotten, Between
<1> QED
  BY <1>1, <1>2, <1>3, <1>4, <1>5, <1>6, <1>7, <1>8, <1>9 DEF Next

\* A fault of the running scan ends the obligation, a scan that begins has no counts.
LEMMA SyncInductive == IInv /\ SyncInv /\ [Next]_vars => SyncInv'
<1> SUFFICES ASSUME IInv, SyncInv, [Next]_vars PROVE SyncInv'
  OBVIOUS
<1>1. TypeInv /\ SelectedInv /\ InStep
  BY DEF IInv
<1>2. ASSUME Sending, Faulty, enabled' = enabled, source'.sess = source.sess
      PROVE  SyncInv'
  <2>1. faults'[source'.sess] # 0
    BY <1>1, <1>2, FaultSeen
  <2> QED
    BY <2>1 DEF SyncInv
<1>3. ASSUME Sending, source' = Next1 PROVE source'.sess = source.sess /\ source'.kind = source.kind
  BY <1>1, <1>3, NextByte
<1>4. CASE Deliver
  <2>1. Sending /\ source' = Next1 /\ faults' = faults /\ enabled' = enabled
    BY <1>4 DEF Deliver, OnSampleData
  <2>2. SUFFICES ASSUME enabled, faults[source.sess] = 0, source.kind \in Synced PROVE SyncInv'
    BY <1>3, <2>1 DEF SyncInv
  <2> QED
    BY <1>4, <2>2, DeliverSyncs
<1>5. CASE Mistake
  <2>1. /\ Sending /\ enabled /\ source' = Next1 /\ faults' = faults
        /\ Selected[source.kind].pos # source.part - 1
    BY <1>5 DEF Mistake
  <2>2. faults[source.sess] # 0
    BY <1>1, <2>1, SelectedIsHandler DEF InStep
  <2> QED
    BY <1>3, <2>1, <2>2 DEF SyncInv
<1>6. CASE Damage
  <2>1. Sending /\ Faulty /\ source' = Next1 /\ enabled' = enabled
    BY <1>6 DEF Damage, OnSampleData
  <2> QED
    BY <1>2, <1>3, <2>1
<1>7. CASE LoseByte
  <2>1. Sending /\ Faulty /\ source' = Next1 /\ enabled' = enabled
    BY <1>7 DEF LoseByte
  <2> QED
    BY <1>2, <1>3, <2>1
<1>8. CASE LoseFrame
  <2>1. Sending /\ Faulty /\ enabled' = enabled
    BY <1>8 DEF LoseFrame
  <2>2. source'.sess = source.sess
    BY <1>1, <1>8 DEF LoseFrame, TypeInv
  <2> QED
    BY <1>2, <2>1, <2>2
<1>9. ASSUME NEW kind \in Kinds, NEW step \in Steps, NEW at \in 0 .. Turn - 1,
             StartScan(kind, step, at)
      PROVE  SyncInv'
  <2>1. /\ source'.step = step /\ source'.at = at /\ source'.n = 1
        /\ tally'.turns = 0 /\ tally'.syncs = 0
    BY <1>9 DEF StartScan
  <2> QED
    BY <2>1 DEF SyncInv, Counting
<1>10. CASE Disable
  BY <1>10 DEF Disable, Enable, SyncInv
<1>11. CASE Stops
  BY <1>11 DEF Stops, SyncInv
<1>12. CASE UNCHANGED vars
  BY <1>12 DEF vars, SyncInv, Counting
<1> QED
  BY <1>4, <1>5, <1>6, <1>7, <1>8, <1>9, <1>10, <1>11, <1>12 DEF Next

\* While the unpacker is disabled, nothing is counted.
LEMMA TurnsInductive ==
    IInv /\ OneSyncPerTurn /\ [Next]_vars /\ ~enabled' => OneSyncPerTurn'
<1> SUFFICES ASSUME IInv, OneSyncPerTurn, [Next]_vars, ~enabled' PROVE OneSyncPerTurn'
  OBVIOUS
<1>1. TypeInv
  BY DEF IInv
<1>2. ASSUME tally' = tally, source'.sess = source.sess,
             source'.kind = source.kind \/ source'.kind = "none",
             faults' = faults \/ Faulty
      PROVE  OneSyncPerTurn'
  <2>1. source.sess > 0 /\ faults'[source.sess] = 0 => faults[source.sess] = 0
    <3>1. CASE faults' = faults
      BY <3>1
    <3>2. CASE Faulty
      <4>1. faults' = [faults EXCEPT ![source.sess] = faults[source.sess] + 1]
        BY <3>2 DEF Faulty
      <4> QED
        BY <1>1, <4>1 DEF TypeInv
    <3> QED
      BY <1>2, <3>1, <3>2
  <2> QED
    BY <1>2, <2>1 DEF OneSyncPerTurn, Undisturbed
<1>3. ASSUME Sending, source' = Next1, tally' = tally, faults' = faults \/ Faulty
      PROVE  OneSyncPerTurn'
  <2>1. source'.sess = source.sess /\ source'.kind = source.kind
    BY <1>1, <1>3, NextByte
  <2> QED
    BY <1>2, <1>3, <2>1
<1>4. CASE Deliver
  <2>1. Sending /\ source' = Next1 /\ faults' = faults /\ OnSampleData(TRUE, FALSE)
    BY <1>4 DEF Deliver
  <2>2. tally' = tally
    BY <2>1 DEF OnSampleData
  <2> QED
    BY <1>3, <2>1, <2>2
<1>5. CASE Mistake
  BY <1>5 DEF Mistake, OnSampleData
<1>6. CASE Damage
  <2>1. Sending /\ source' = Next1 /\ Faulty
    BY <1>6 DEF Damage
  <2>2. tally' = tally
    BY <1>6 DEF Damage, OnSampleData
  <2> QED
    BY <1>3, <2>1, <2>2
<1>7. CASE LoseByte
  BY <1>3, <1>7 DEF LoseByte
<1>8. CASE LoseFrame
  <2>1. Faulty /\ tally' = tally
    BY <1>8 DEF LoseFrame
  <2>2. source'.sess = source.sess /\ source'.kind = source.kind
    BY <1>1, <1>8 DEF LoseFrame, TypeInv
  <2> QED
    BY <1>2, <2>1, <2>2
<1>9. ~ \E kind \in Kinds, step \in Steps, at \in 0 .. Turn - 1 : StartScan(kind, step, at)
  BY DEF StartScan, Enable
<1>10. CASE Disable
  BY <1>2, <1>10 DEF Disable
<1>11. CASE Stops
  <2>1. source'.sess = source.sess /\ source'.kind = "none"
    BY <1>1, <1>11 DEF Stops, TypeInv
  <2> QED
    BY <1>2, <1>11, <2>1 DEF Stops
<1>12. CASE UNCHANGED vars
  BY <1>2, <1>12 DEF vars
<1> QED
  BY <1>4, <1>5, <1>6, <1>7, <1>8, <1>9, <1>10, <1>11, <1>12 DEF Next

LEMMA Invariance == Spec => []IInv
BY Initially, Inductive, PTL DEF Spec

(***************************************************************************)
(* The packed distances.                                                   *)
(***************************************************************************)
LEMMA Levels ==
    ASSUME NEW v \in Nat
    PROVE  Vbs[VbsLevel(v)] =
             IF v >= 3328 THEN [from |-> 3328, base |-> 16384, unit |-> 16]
             ELSE IF v >= 1792 THEN [from |-> 1792, base |-> 4096, unit |-> 8]
             ELSE IF v >= 1280 THEN [from |-> 1280, base |-> 2048, unit |-> 4]
             ELSE IF v >= 512 THEN [from |-> 512, base |-> 512, unit |-> 2]
             ELSE [from |-> 0, base |-> 0, unit |-> 1]
<1> DEFINE From == <<3328, 1792, 1280, 512, 0>>
           Is(i) == v >= Vbs[i].from /\ \A j \in 1 .. i - 1 : v < Vbs[j].from
           level == IF v >= 3328 THEN 1 ELSE IF v >= 1792 THEN 2 ELSE IF v >= 1280 THEN 3
                    ELSE IF v >= 512 THEN 4 ELSE 5
<1>1. DOMAIN Vbs = 1 .. 5 /\ \A i \in 1 .. 5 : Vbs[i].from = From[i]
  BY DEF Vbs
<1>2. level \in 1 .. 5 /\ Is(level)
  BY <1>1
<1>3. ASSUME NEW i \in 1 .. 5, Is(i) PROVE i = level
  <2>1. v >= From[i] /\ \A j \in 1 .. i - 1 : v < From[j]
    BY <1>1, <1>3
  <2> QED
    BY <2>1
<1>4. VbsLevel(v) = level
  BY <1>1, <1>2, <1>3 DEF VbsLevel
<1> QED
  BY <1>4 DEF Vbs

LEMMA LevelsJoin == VbsJoin
<1>1. ASSUME NEW v \in 0 .. MaxScaled - 1
      PROVE  VbsDecode(v + 1) = VbsDecode(v) + Vbs[VbsLevel(v)].unit
  <2>1. v \in Nat /\ v + 1 \in Nat
    OBVIOUS
  <2> QED
    BY <2>1, Levels DEF VbsDecode
<1>2. \A v \in 0 .. MaxScaled - 1 : VbsDecode(v + 1) = VbsDecode(v) + Vbs[VbsLevel(v)].unit
  BY <1>1
<1> QED
  BY <1>2 DEF VbsJoin

(***************************************************************************)
(* The results.                                                            *)
(***************************************************************************)
\* The state keeps its type: a handler never holds more than two bytes of a frame
\* that is not complete, and nothing but frames that the LIDAR sent.
THEOREM TypeCorrect == Spec => []TypeInv
<1>1. IInv => TypeInv
  BY DEF IInv
<1> QED
  BY <1>1, Invariance, PTL

\* A capsule is interpolated only to the frame that was received next: between the
\* two nothing of the scan reached the unpacker, not even in part or damaged (every
\* way a handler gives up a frame makes the cached capsule worthless).
THEOREM SkipCorrect == Spec => []NoFrameSkipped
<1>1. IInv => NoFrameSkipped
  BY DEF IInv
<1> QED
  BY <1>1, Invariance, PTL

\* The nodes of an earlier scan are published by the dense handlers only, whose
\* reset keeps the cached capsule, and only in a scan that was disturbed.
THEOREM ForgottenCorrect == Spec => []EarlierScanIsForgotten
<1>1. IInv => EarlierScanIsForgotten
  BY DEF IInv
<1> QED
  BY <1>1, Invariance, PTL

\* In a scan without faults the sync bits keep up with the revolutions, for every
\* number of steps in a revolution and every angle turned in the time of a capsule:
\* the scans that the driver grabs are revolutions ("exactly detected").
THEOREM SyncsCorrect == Spec => []OneSyncPerTurn
<1>1. Init => IInv /\ SyncInv /\ OneSyncPerTurn
  <2>1. Init => IInv
    BY Initially
  <2>2. Init => ~enabled /\ source.sess = 0
    BY DEF Init
  <2> QED
    BY <2>1, <2>2 DEF SyncInv, OneSyncPerTurn, Undisturbed
<1>2. IInv /\ SyncInv /\ [Next]_vars => IInv' /\ SyncInv'
  BY Inductive, SyncInductive
<1>3. IInv /\ SyncInv /\ enabled => OneSyncPerTurn
  BY CountedIsBounded DEF IInv
<1>4. IInv /\ OneSyncPerTurn /\ [Next]_vars /\ ~enabled' => OneSyncPerTurn'
  BY TurnsInductive
<1> QED
  BY <1>1, <1>2, <1>3, <1>4, PTL DEF Spec

\* The packed distances of both kinds leave no gap and have no overlap.
THEOREM DistancesCorrect == Spec => []DistancesJoin
<1>1. ScalesJoin
  BY DEF ScalesJoin, UltraDenseDist, UltraDenseMax
<1>2. DistancesJoin
  BY <1>1, LevelsJoin DEF DistancesJoin
<1> QED
  BY <1>2, PTL
=============================================================================
