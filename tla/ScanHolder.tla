----------------------------- MODULE ScanHolder -----------------------------
(***************************************************************************)
(* ScanDataHolder of the RPLIDAR SDK (sl_lidar_driver.cpp): two buffers,   *)
(* one that is being filled and one that may be grabbed, and the signal    *)
(* that a scan is available.  Its operations, as operators on its state.   *)
(* A node is a record with a field "pos", its place in the revolution: the *)
(* sync bit is set on place 0.                                             *)
(***************************************************************************)
EXTENDS Integers, Sequences

CONSTANT Cap        \* capacity of a buffer (_scan_node_buffer_size)

ASSUME CapAssumption == Cap \in Nat /\ Cap >= 2

Sync(node) == node.pos = 0

\* buf: _scanbuffer; avail: _scan_node_available_id; ts: the node whose time
\* _scan_begin_timestamp_uS holds (or none); signal: the event _data_waiter
Empty == [buf |-> [b \in 0 .. 1 |-> <<>>], avail |-> -1,
          ts |-> [b \in 0 .. 1 |-> <<>>], signal |-> FALSE]

\* _getOperationBufferID_locked
Operation(h) == IF h.avail < 0 THEN 0 ELSE 1 - h.avail

\* _finishCurrentScanAndSwap_locked, with the signal that announces the scan
Swapped(h) ==
    [h EXCEPT !.avail = Operation(h), !.signal = TRUE,
              !.buf[1 - Operation(h)] = <<>>]

\* the end of pushScanNodeData: a full buffer keeps its last entry up to date
Stored(seq, node) ==
    IF Len(seq) < Cap THEN Append(seq, node) ELSE [seq EXCEPT ![Len(seq)] = node]

\* pushScanNodeData: a sync node ends the scan and begins the next, any other
\* node without a beginning is discarded
Push(h, node) ==
    LET begun == h.buf[Operation(h)] # <<>>
        s == IF Sync(node) /\ begun THEN Swapped(h) ELSE h
    IN  IF ~Sync(node) /\ ~begun THEN h
        ELSE [s EXCEPT !.buf[Operation(s)] = Stored(@, node),
                       !.ts[Operation(s)] = IF Sync(node) THEN <<node>> ELSE @]

\* waitAndLockAvailableScan: the wait consumes the signal, the locked buffer is
\* looked up afterwards
Signalled(h) == h.signal
Waited(h) == [h EXCEPT !.signal = FALSE]
Available(h) == h.buf[h.avail]
BeginTs(h) == h.ts[h.avail]
=============================================================================
