----------------------------- MODULE ByteStream -----------------------------
(***************************************************************************)
(* What the receiving half of AsyncTransceiver promises to the codec: the  *)
(* bytes of a connection, in the order in which they were sent, each once. *)
(* Bytes are lost only off the end: all that are left when the channel is  *)
(* opened or closed, the last ones when the device is unplugged.           *)
(***************************************************************************)
EXTENDS Naturals, Sequences

CONSTANT Bytes

VARIABLE pipe       \* the bytes that are sent and not decoded

Init == pipe = <<>>

Send == \E byte \in Bytes : pipe' = Append(pipe, byte)
Decode == pipe # <<>> /\ pipe' = Tail(pipe)
Lose == \E n \in 0 .. Len(pipe) : pipe' = SubSeq(pipe, 1, n)

Next == Send \/ Decode \/ Lose

Spec == Init /\ [][Next]_pipe
=============================================================================
