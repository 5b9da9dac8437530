---------------------------- MODULE FragmentedSend ----------------------------
(***************************************************************************)
(* send_encrypted of control_channel.rs with the TLS records it consumes   *)
(* (encrypted.rs) and the frames it writes (framing.rs), facing a peer     *)
(* that decrypts and reassembles.                                          *)
(*                                                                         *)
(* A message is its number and the length of its plaintext.  Each chunk is *)
(* encrypted just before its frame is written: a TLS record has a number,  *)
(* implied by its place in the stream, and a peer that misses one cannot   *)
(* decrypt those that follow.                                              *)
(***************************************************************************)
EXTENDS Naturals, Sequences

CONSTANTS
  MaxFragment,  \* MAX_FRAGMENT_PLAINTEXT, 0x1F00 in the code
  Lengths,      \* bound: plaintext lengths of the messages
  MaxMessages,  \* bound: messages sent
  WireCap       \* bound: frames written and not read by the peer

ASSUME SendAssumption ==
  /\ MaxFragment \in Nat \ {0}
  /\ Lengths \subseteq Nat \ {0}
  /\ MaxMessages \in Nat
  /\ WireCap \in Nat \ {0}

Types == {"Bulk", "First", "Middle", "Last"}
NoMessage == [id |-> 0, len |-> 0]
Messages == [id : 1..MaxMessages, len : Lengths]
WireFrame ==
  [type : Types, total : Nat, record : Nat, id : Nat, from : Nat, to : Nat]

VARIABLES
  current,     \* the message send_encrypted is called with
  offset,      \* bytes of its plaintext that were framed
  record,      \* TLS records encrypted so far
  wire,        \* frames written, not yet read by the peer
  peer         \* what the peer expects, holds and has delivered

\* History: the frames of the current or last message.
VARIABLES
  accepted,    \* messages send_encrypted was called with
  shape        \* how many frames of each type it got, and their bytes

vars == <<current, offset, record, wire, peer, accepted, shape>>

NoShape == [type \in Types \cup {"bytes"} |-> 0]

SendTypeOK ==
  /\ current \in Messages \cup {NoMessage}
  /\ offset \in Nat /\ (current # NoMessage => offset < current.len)
  /\ record \in Nat
  /\ wire \in Seq(WireFrame)
  /\ accepted \in Seq(Messages)
  /\ shape \in [Types \cup {"bytes"} -> Nat]

SendInit ==
  /\ current = NoMessage
  /\ offset = 0
  /\ record = 0
  /\ wire = <<>>
  /\ peer = [next |-> 0, partial |-> <<>>, received |-> <<>>, up |-> TRUE]
  /\ accepted = <<>>
  /\ shape = NoShape

\* send_encrypted is called with the next message.
Begin(len) ==
  /\ current = NoMessage
  /\ Len(accepted) < MaxMessages
  /\ LET m == [id |-> Len(accepted) + 1, len |-> len] IN
       current' = m /\ accepted' = Append(accepted, m)
  /\ offset' = 0
  /\ shape' = NoShape
  /\ UNCHANGED <<record, wire, peer>>

\* Mutant of ChunkEnd: off by one.
ChunkEndOneMore ==
  IF offset + MaxFragment + 1 < current.len THEN offset + MaxFragment + 1
  ELSE current.len

ChunkEnd ==
  IF offset + MaxFragment < current.len THEN offset + MaxFragment
  ELSE current.len

\* Mutant of ChunkType: a fragment that is full is never the last one.
ChunkTypeLastByLength ==
  IF current.len <= MaxFragment THEN "Bulk"
  ELSE IF offset = 0 THEN "First"
  ELSE IF ChunkEnd - offset = MaxFragment THEN "Middle"
  ELSE "Last"

\* The one-frame path, and the frame_type of a fragment.
ChunkType ==
  IF current.len <= MaxFragment THEN "Bulk"
  ELSE IF offset = 0 THEN "First"
  ELSE IF ChunkEnd = current.len THEN "Last"
  ELSE "Middle"

Fragment ==
  [type |-> ChunkType,
   total |-> IF ChunkType = "First" THEN current.len ELSE 0,
   record |-> record, id |-> current.id, from |-> offset, to |-> ChunkEnd]

Framed ==
  shape' = [t \in DOMAIN shape |->
              CASE t = "bytes" -> shape[t] + (ChunkEnd - offset)
                [] t = ChunkType -> shape[t] + 1
                [] OTHER -> shape[t]]

\* One iteration: encrypt the chunk, write its frame.
WriteFragment ==
  /\ current # NoMessage
  /\ Len(wire) < WireCap
  /\ wire' = Append(wire, Fragment)
  /\ record' = record + 1
  /\ Framed
  /\ offset' = ChunkEnd
  /\ current' = IF ChunkEnd = current.len THEN NoMessage ELSE current
  /\ UNCHANGED <<peer, accepted>>

\* Mutant of WriteFails: the chunk is encrypted anew by the next message's
\* send, as if the records had numbers of their own.
WriteFailsRewinds ==
  /\ current # NoMessage
  /\ current' = NoMessage
  /\ UNCHANGED <<offset, record, wire, peer, accepted, shape>>

\* write_frame fails after encryption: the rest of the message is abandoned.
\* The caller logs it and goes on with the next message.
WriteFails ==
  /\ current # NoMessage
  /\ record' = record + 1
  /\ current' = NoMessage
  /\ UNCHANGED <<offset, wire, peer, accepted, shape>>

Chunk(f) == [id |-> f.id, from |-> f.from, to |-> f.to]

\* The peer (external): decrypt in sequence, reassemble, or give up.
PeerReads ==
  /\ wire # <<>>
  /\ wire' = Tail(wire)
  /\ LET f == Head(wire) IN
     peer' =
       IF ~peer.up \/ f.record # peer.next THEN [peer EXCEPT !.up = FALSE]
       ELSE LET p == IF f.type \in {"Bulk", "First"} THEN <<Chunk(f)>>
                     ELSE Append(peer.partial, Chunk(f))
            IN IF f.type \in {"Bulk", "Last"}
               THEN [peer EXCEPT !.next = @ + 1, !.partial = <<>>,
                                 !.received = Append(@, p)]
               ELSE [peer EXCEPT !.next = @ + 1, !.partial = p]
  /\ UNCHANGED <<current, offset, record, accepted, shape>>

SendNext ==
  \/ \E len \in Lengths : Begin(len)
  \/ WriteFragment \/ WriteFails \/ PeerReads

SendSpec == SendInit /\ [][SendNext]_vars

SendFairness == WF_vars(WriteFragment) /\ WF_vars(PeerReads)

-----------------------------------------------------------------------------
(* Properties                                                              *)

\* A message whose every write succeeded is one BULK, or one FIRST, some
\* MIDDLEs and one LAST, and its fragments hold each of its bytes once: at
\* MAX_FRAGMENT_PLAINTEXT and one byte more too.
Completed ==
  current = NoMessage /\ offset > 0 /\ offset = accepted[Len(accepted)].len

WellShaped ==
  Completed =>
    /\ shape["bytes"] = accepted[Len(accepted)].len
    /\ \/ shape["Bulk"] = 1 /\ shape["First"] + shape["Middle"] + shape["Last"] = 0
       \/ shape["Bulk"] = 0 /\ shape["First"] = 1 /\ shape["Last"] = 1

\* And no fragment carries more than MAX_FRAGMENT_PLAINTEXT.
WithinLimit ==
  \A i \in DOMAIN wire : wire[i].to <= wire[i].from + MaxFragment

\* Hence the car finds the fragments of a message well formed, whatever its
\* length (send_encrypted).
WellFormed == WellShaped /\ WithinLimit

\* A reassembled message is made of adjoining chunks of one message, whole.
WholeMessage(chunks, m) ==
  /\ \A i \in DOMAIN chunks : chunks[i].id = m.id
  /\ chunks[1].from = 0 /\ chunks[Len(chunks)].to = m.len
  /\ \A i \in 2..Len(chunks) : chunks[i].from = chunks[i - 1].to

\* The peer delivers the messages we sent, whole and in order, up to the first
\* write that failed: a message abandoned half way is never glued to the next.
DeliveredInOrder ==
  /\ Len(peer.received) <= Len(accepted)
  /\ \A i \in DOMAIN peer.received :
       WholeMessage(peer.received[i], accepted[i])

-----------------------------------------------------------------------------
(* The inductive invariant behind DeliveredInOrder.                        *)

Chunks == [id : Nat, from : Nat, to : Nat]
PeerState ==
  [next : Nat, partial : Seq(Chunks), received : Seq(Seq(Chunks)), up : BOOLEAN]

\* What a peer holds that has read the first i frames of the wire: whole
\* messages, and how far into the next one it is.
Held(i) ==
  IF i = 0
  THEN [whole |-> Len(peer.received), open |-> peer.partial # <<>>,
        to |-> IF peer.partial = <<>> THEN 0
               ELSE peer.partial[Len(peer.partial)].to]
  ELSE IF wire[i].type \in {"Bulk", "Last"}
  THEN [whole |-> wire[i].id, open |-> FALSE, to |-> 0]
  ELSE [whole |-> wire[i].id - 1, open |-> TRUE, to |-> wire[i].to]

\* Frame f goes on where h stopped, and ends the message if it says so.
Follows(f, h) ==
  /\ f.id = h.whole + 1 /\ f.id \in DOMAIN accepted /\ f.from = h.to
  /\ f.type \in {"Middle", "Last"} <=> h.open
  /\ f.type \in {"Bulk", "Last"} => f.to = accepted[f.id].len

\* A frame that the peer will be able to decrypt follows the one before it.
FramesFollow ==
  \A i \in DOMAIN wire :
    wire[i].record = peer.next + i - 1 => Follows(wire[i], Held(i - 1))

\* And as long as no write failed, send_encrypted goes on from there too.
SenderFollows ==
  LET h == Held(Len(wire))
      inside == current # NoMessage /\ offset > 0
  IN record = peer.next + Len(wire) =>
       /\ h.whole + 1 = Len(accepted) + (IF current = NoMessage THEN 1 ELSE 0)
       /\ h.open <=> inside
       /\ h.to = IF inside THEN offset ELSE 0

\* The peer's partial message is the beginning of the next one.
PartialBegun ==
  LET p == peer.partial IN
    /\ \A i \in DOMAIN p : p[i].id = Len(peer.received) + 1
    /\ p # <<>> => p[1].from = 0
    /\ \A i \in 2..Len(p) : p[i].from = p[i - 1].to

DeliveryInv ==
  /\ peer \in PeerState
  /\ \A i \in DOMAIN accepted : accepted[i].id = i
  /\ current # NoMessage => accepted # <<>> /\ current = accepted[Len(accepted)]
  /\ DeliveredInOrder
  /\ peer.up => /\ record >= peer.next + Len(wire)
                /\ FramesFollow /\ SenderFollows /\ PartialBegun

=============================================================================
