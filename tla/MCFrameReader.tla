---------------------------- MODULE MCFrameReader ----------------------------
(***************************************************************************)
(* Streams for FrameReader: sizes are scaled to a first read of 10 bytes,  *)
(* so that one frame is longer than the buffer and several fit into it.    *)
(***************************************************************************)
EXTENDS FrameReader

\* The offset of each frame of a sequence of frames.
Offsets(fs) ==
  LET start[k \in 1..Len(fs) + 1] ==
        IF k = 1 THEN 0
        ELSE start[k - 1] + HeaderLength(fs[k - 1]) + fs[k - 1].payload
  IN start

\* A control message, an empty payload, a fragmented AV message whose FIRST
\* frame exceeds the buffer, another control message.
MCFrames == << [type |-> "Bulk",  payload |-> 3],
               [type |-> "Bulk",  payload |-> 0],
               [type |-> "First", payload |-> 5],
               [type |-> "Last",  payload |-> 4],
               [type |-> "Bulk",  payload |-> 2] >>

MCFrameStart == Offsets(MCFrames)

\* Transfers that split payloads, but never hold parts of two frames nor end
\* in a header.
MCEnds == {5, 7, 11, 19, 20, 22, 24, 28, 30, 32, 36, 38}

=============================================================================
