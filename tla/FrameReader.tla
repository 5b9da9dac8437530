----------------------------- MODULE FrameReader -----------------------------
(***************************************************************************)
(* read_frame of control.rs, run again and again over one stream.          *)
(*                                                                         *)
(* A frame is a 4-byte header (8 bytes for a FIRST fragment, whose total   *)
(* length follows) and a payload.  read_frame asks the stream for up to    *)
(* 4096 bytes in one read, finds the header in what that read returned,    *)
(* and reads the rest of the payload with read_exact.  It keeps nothing    *)
(* between calls: bytes past the frame in its buffer, and bytes of a frame *)
(* it was reading when the control loop's select! dropped it, are gone.    *)
(*                                                                         *)
(* Bytes are offsets into the stream the peer writes.  How many of them a  *)
(* read returns depends on the transport: a socket returns whatever has    *)
(* arrived, the accessory chardev never reads past the end of a transfer.  *)
(***************************************************************************)
EXTENDS Naturals, Sequences

CONSTANTS
  Frames,       \* the frames the peer writes: [type, payload length]
  FrameStart,   \* the offset of each frame, and of the end of the stream
  Transports,   \* the links a session may run over: "usb", "tcp"
  Ends,         \* usb: the offsets at which the peer's transfers end
  BufCap,       \* size of the first read (4096 in the code)
  Cancellable   \* tcp: read_frame races the other branches of a select!

FrameType == {"Bulk", "First", "Middle", "Last"}

HeaderLength(f) == IF f.type = "First" THEN 8 ELSE 4

StreamLength == FrameStart[Len(Frames) + 1]

\* Frames follow each other without a gap.  Over USB a dropped read is a
\* matter of ControlLoop: the stream is never read again after one.
ASSUME ReaderAssumption ==
  /\ Frames \in Seq([type : FrameType, payload : Nat])
  /\ FrameStart \in [1..Len(Frames) + 1 -> Nat]
  /\ FrameStart[1] = 0
  /\ \A k \in DOMAIN Frames :
       FrameStart[k + 1] =
         FrameStart[k] + HeaderLength(Frames[k]) + Frames[k].payload
  /\ \A j, k \in DOMAIN FrameStart : j < k => FrameStart[j] < FrameStart[k]
  /\ Transports \subseteq {"usb", "tcp"}
  /\ Ends \subseteq 1..StreamLength
  /\ BufCap \in Nat \ (0..7)
  /\ Cancellable \in BOOLEAN

VARIABLES
  transport,  \* the link of this session, which never changes
  arrived,    \* bytes the peer has written
  closed,     \* the peer has closed the stream
  consumed,   \* bytes taken off the stream
  reader,     \* first: awaiting the first read   rest: in read_exact
              \* failed: returned an error        garbled: parsed a non-header
  current,    \* the frame whose payload read_exact is completing
  missing,    \* bytes read_exact still has to read for it
  returned    \* the frames read_frame has returned

vars == <<arrived, closed, consumed, reader, current, missing, returned>>
peer == <<arrived, closed>>

StreamTypeOK ==
  /\ arrived \in 0..StreamLength
  /\ closed \in BOOLEAN
  /\ consumed \in 0..arrived
  /\ reader \in {"first", "rest", "failed", "garbled"}
  /\ current \in 0..Len(Frames)
  /\ missing \in 0..StreamLength
  /\ returned \in Seq(DOMAIN Frames)

TypeOK == transport \in Transports /\ StreamTypeOK

Init ==
  /\ transport \in Transports
  /\ arrived = 0
  /\ closed = FALSE
  /\ consumed = 0
  /\ reader = "first"
  /\ current = 0
  /\ missing = 0
  /\ returned = <<>>

\* A read that starts now does not go past these offsets.
ReadLimits ==
  IF transport = "tcp" THEN {arrived}
  ELSE {e \in Ends : e > consumed /\ \A x \in Ends : x > consumed => e <= x}

Smaller(a, b) == IF a <= b THEN a ELSE b

\* Mutant of ReadSizes: every read fills its buffer.
ReadSizesFull(cap) == {cap}

\* How many bytes a read into a buffer of cap bytes may return.
ReadSizes(cap) == {Smaller(cap, e - consumed) : e \in ReadLimits}

-----------------------------------------------------------------------------
(* The peer                                                                *)

\* Some bytes arrive; over USB whole transfers do.
PeerWrites ==
  /\ ~closed
  /\ \E a \in arrived + 1..StreamLength :
       /\ transport = "usb" => a \in Ends
       /\ arrived' = a
  /\ UNCHANGED <<closed, consumed, reader, current, missing, returned>>

PeerCloses ==
  /\ ~closed
  /\ closed' = TRUE
  /\ UNCHANGED <<arrived, consumed, reader, current, missing, returned>>

-----------------------------------------------------------------------------
(* read_frame                                                              *)

\* Mutant of FirstRead: a peek, the bytes stay in the stream.
FirstPeek(k, n) ==
  /\ reader = "first"
  /\ consumed < arrived
  /\ FrameStart[k] = consumed
  /\ n \in ReadSizes(BufCap)
  /\ UNCHANGED <<consumed, peer>>

\* The first read returns n bytes, the first of them the header of frame k.
FirstRead(k, n) ==
  /\ reader = "first"
  /\ consumed < arrived
  /\ FrameStart[k] = consumed
  /\ n \in ReadSizes(BufCap)
  /\ consumed' = consumed + n
  /\ UNCHANGED peer

\* The bytes of frame k's payload that are among them.
FromBuf(k, n) == Smaller(n - HeaderLength(Frames[k]), Frames[k].payload)

\* Fewer bytes than the header has: an error.
HeaderIncomplete(k, n) ==
  /\ FirstRead(k, n)
  /\ n < HeaderLength(Frames[k])
  /\ reader' = "failed"
  /\ UNCHANGED <<current, missing, returned>>

\* The whole frame: what the buffer holds beyond it is dropped.
FrameInBuffer(k, n) ==
  /\ FirstRead(k, n)
  /\ n >= HeaderLength(Frames[k])
  /\ FromBuf(k, n) = Frames[k].payload
  /\ returned' = Append(returned, k)
  /\ UNCHANGED <<reader, current, missing>>

\* Part of the payload: read_exact has to read the rest.
PayloadIncomplete(k, n) ==
  /\ FirstRead(k, n)
  /\ n >= HeaderLength(Frames[k])
  /\ FromBuf(k, n) < Frames[k].payload
  /\ reader' = "rest"
  /\ current' = k
  /\ missing' = Frames[k].payload - FromBuf(k, n)
  /\ UNCHANGED returned

\* The first read returns bytes that no header starts: they are taken for
\* one, and what read_frame returns from there on is arbitrary.
Garbled ==
  /\ reader = "first"
  /\ consumed < arrived
  /\ \A k \in DOMAIN Frames : FrameStart[k] # consumed
  /\ reader' = "garbled"
  /\ UNCHANGED <<peer, consumed, current, missing, returned>>

\* Mutant of ReadRest: a single read() instead of read_exact().
ReadRestOnce(n) ==
  /\ reader = "rest"
  /\ consumed < arrived
  /\ n \in ReadSizes(missing)
  /\ consumed' = consumed + n
  /\ reader' = "first" /\ returned' = Append(returned, current)
  /\ UNCHANGED <<peer, current, missing>>

\* One read of read_exact; the last one completes the frame.
ReadRest(n) ==
  /\ reader = "rest"
  /\ consumed < arrived
  /\ n \in ReadSizes(missing)
  /\ consumed' = consumed + n
  /\ missing' = missing - n
  /\ IF n = missing
     THEN reader' = "first" /\ returned' = Append(returned, current)
     ELSE UNCHANGED <<reader, returned>>
  /\ UNCHANGED <<peer, current>>

\* Mutant of ReadFails: a read that would have to wait is an error.
ReadFailsWhenEmpty ==
  /\ reader \in {"first", "rest"}
  /\ consumed = arrived
  /\ reader' = "failed"
  /\ UNCHANGED <<peer, consumed, current, missing, returned>>

\* End of file, or a transport error: read_frame fails.
ReadFails ==
  /\ reader \in {"first", "rest"}
  /\ closed /\ consumed = arrived
  /\ reader' = "failed"
  /\ UNCHANGED <<peer, consumed, current, missing, returned>>

\* Another select! branch wins while read_exact waits: the future is dropped
\* and with it the part of the payload it had.
Dropped ==
  /\ Cancellable /\ transport = "tcp"
  /\ reader = "rest"
  /\ consumed = arrived
  /\ reader' = "first"
  /\ UNCHANGED <<peer, consumed, current, missing, returned>>

ReadFrame ==
  \/ \E k \in DOMAIN Frames, n \in 1..BufCap :
       \/ HeaderIncomplete(k, n)
       \/ FrameInBuffer(k, n)
       \/ PayloadIncomplete(k, n)
  \/ \E n \in 1..StreamLength : ReadRest(n)
  \/ Garbled \/ ReadFails

Next ==
  /\ PeerWrites \/ PeerCloses \/ ReadFrame \/ Dropped
  /\ UNCHANGED transport

Spec == Init /\ [][Next]_<<transport, vars>>

\* The task that reads is scheduled; nothing is assumed of the peer.
FairSpec == Spec /\ WF_vars(ReadFrame)

-----------------------------------------------------------------------------
(* Properties                                                              *)

\* Between two calls the stream stands right behind the frames returned: no
\* byte of a later frame was taken, none of an earlier one is left, and the
\* frames come back once each, in order.
Aligned ==
  /\ reader # "garbled"
  /\ returned = [i \in 1..Len(returned) |-> i]
  /\ reader = "first" => consumed = FrameStart[Len(returned) + 1]

\* Over transfers that hold bytes of one frame each, read_frame stays aligned
\* and only fails at the end of the stream.
NoEarlyFailure == reader = "failed" => closed /\ consumed = arrived
FrameAligned == transport = "usb" => Aligned /\ NoEarlyFailure

\* Whatever is lost, no frame is returned twice or behind a later one.
NeverReplayed ==
  \A i, j \in DOMAIN returned : i < j => returned[i] < returned[j]

\* Over such transfers a frame that has arrived whole is returned.
ArrivedIsReturned ==
  \A k \in DOMAIN Frames :
    transport = "usb" /\ arrived >= FrameStart[k + 1] ~> Len(returned) >= k

=============================================================================
