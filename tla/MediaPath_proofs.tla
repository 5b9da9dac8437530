------------------------- MODULE MediaPath_proofs -------------------------
(***************************************************************************)
(* What is encoded arrives.                                                *)
(*                                                                         *)
(* 1. send_encrypted cuts a message of any length into well-formed         *)
(*    fragments, and what the peer reassembles is the messages sent,       *)
(*    whatever is written, lost and read (FragmentedSend).                 *)
(* 2. However the recorder's output is cut into reads, next_frame hands    *)
(*    out the access units as encoded (AccessUnits): from the bytes of a   *)
(*    NAL to where start codes are in the stream, to what split_nals and   *)
(*    group_access_units make of a piece of it, to what is left over.      *)
(* 3. Both together: the car's messages are the units (MediaPath).         *)
(***************************************************************************)
EXTENDS MediaPath, Integers, SequenceTheorems, FiniteSetTheorems,
        WellFoundedInduction, TLAPS

-----------------------------------------------------------------------------
(* send_encrypted and the peer                                             *)

\* What the frames written so far say about a message that is being sent.
InProgress ==
  current # NoMessage =>
    /\ accepted # <<>> /\ current = accepted[Len(accepted)]
    /\ shape["bytes"] = offset
    /\ offset = 0 => \A t \in Types : shape[t] = 0
    /\ offset > 0 =>
         /\ current.len > MaxFragment
         /\ shape["Bulk"] = 0 /\ shape["First"] = 1 /\ shape["Last"] = 0

ShapeInv == SendTypeOK /\ InProgress /\ WellShaped

\* A chunk is never empty, never longer than a fragment, never past the end.
LEMMA ChunkBounds ==
  ASSUME SendTypeOK, current # NoMessage
  PROVE  /\ ChunkEnd \in Nat
         /\ offset < ChunkEnd /\ ChunkEnd <= current.len
         /\ ChunkEnd - offset <= MaxFragment
         /\ ChunkType \in Types
         /\ current.len \in Nat /\ current.id \in Nat
<1>1. current \in Messages
  BY DEF SendTypeOK
<1>2. current.len \in Nat /\ current.len > 0 /\ current.id \in Nat
  <2>1. Lengths \subseteq Nat \ {0} /\ MaxMessages \in Nat
    BY SendAssumption
  <2>2. current.len \in Lengths /\ current.id \in 1..MaxMessages
    BY <1>1 DEF Messages
  <2>3. current.len \in Nat \ {0}
    BY <2>1, <2>2
  <2>4. current.id \in Nat
    BY <2>1, <2>2
  <2>5. current.len > 0
    BY <2>3
  <2> QED
    BY <2>3, <2>4, <2>5
<1>3. offset \in Nat /\ offset < current.len /\ MaxFragment \in Nat \ {0}
  BY SendAssumption DEF SendTypeOK
<1>4. /\ ChunkEnd \in Nat /\ offset < ChunkEnd /\ ChunkEnd <= current.len
      /\ ChunkEnd - offset <= MaxFragment
  BY <1>2, <1>3 DEF ChunkEnd
<1>5. ChunkType \in Types
  BY DEF ChunkType, Types
<1> QED
  BY <1>2, <1>4, <1>5

\* No message is taken for the absence of one.
LEMMA MessagesReal == NoMessage \notin Messages
BY DEF NoMessage, Messages

\* Sending and reading keep the types,
LEMMA SendTypeStep ==
  ASSUME SendTypeOK, [SendNext]_vars
  PROVE  SendTypeOK'
<1> USE SendAssumption DEF SendTypeOK
<1>1. ASSUME NEW len \in Lengths, Begin(len) PROVE SendTypeOK'
  <2>1. [id |-> Len(accepted) + 1, len |-> len] \in Messages
    BY <1>1 DEF Begin, Messages
  <2>2. NoShape \in [Types \cup {"bytes"} -> Nat]
    BY DEF NoShape
  <2> QED
    BY <1>1, <2>1, <2>2 DEF Begin, Messages
<1>2. CASE WriteFragment
  <2>1. Fragment \in WireFrame
    BY <1>2, ChunkBounds DEF WriteFragment, Fragment, WireFrame
  <2>2. shape' \in [Types \cup {"bytes"} -> Nat]
    <3>1. ChunkType \in Types /\ ChunkEnd - offset \in Nat
      BY <1>2, ChunkBounds DEF WriteFragment
    <3>2. shape \in [Types \cup {"bytes"} -> Nat] /\ DOMAIN shape = Types \cup {"bytes"}
      OBVIOUS
    <3>3. PICK x \in Nat : x = ChunkEnd - offset
      BY <3>1
    <3>4. PICK c : c = ChunkType
      OBVIOUS
    <3>5. shape' = [t \in Types \cup {"bytes"} |->
                      CASE t = "bytes" -> shape[t] + x
                        [] t = c -> shape[t] + 1
                        [] OTHER -> shape[t]]
      BY <1>2, <3>2, <3>3, <3>4 DEF WriteFragment, Framed
    <3>6. \A t \in Types \cup {"bytes"} :
            (CASE t = "bytes" -> shape[t] + x
               [] t = c -> shape[t] + 1
               [] OTHER -> shape[t]) \in Nat
      BY <3>2
    <3> QED
      BY <3>5, <3>6
  <2> QED
    BY <1>2, <2>1, <2>2, ChunkBounds DEF WriteFragment
<1>3. CASE WriteFails
  BY <1>3 DEF WriteFails
<1>4. CASE PeerReads
  BY <1>4 DEF PeerReads
<1>5. CASE UNCHANGED vars
  BY <1>5 DEF vars
<1> QED
  BY <1>1, <1>2, <1>3, <1>4, <1>5 DEF SendNext

\* the shape of the message in progress,
LEMMA ShapeStep ==
  ASSUME ShapeInv, [SendNext]_vars
  PROVE  InProgress' /\ WellShaped'
<1> USE SendAssumption DEF ShapeInv
<1>1. ASSUME NEW len \in Lengths, Begin(len) PROVE InProgress' /\ WellShaped'
  <2>1. current' # NoMessage /\ offset' = 0 /\ shape' = NoShape
    BY <1>1 DEF Begin, NoMessage, SendTypeOK
  <2>2. accepted' # <<>> /\ current' = accepted'[Len(accepted')]
    BY <1>1 DEF Begin, SendTypeOK
  <2> QED
    BY <2>1, <2>2 DEF InProgress, WellShaped, Completed, NoShape, Types
<1>2. CASE WriteFragment
  <2>0. /\ current # NoMessage /\ SendTypeOK /\ InProgress
        /\ accepted' = accepted /\ offset' = ChunkEnd
        /\ current' = IF ChunkEnd = current.len THEN NoMessage ELSE current
        /\ shape \in [Types \cup {"bytes"} -> Nat]
        /\ ChunkType \in Types
    BY <1>2, ChunkBounds DEF WriteFragment, SendTypeOK
  <2>1. shape'["bytes"] = ChunkEnd
    <3>1. shape'["bytes"] = shape["bytes"] + (ChunkEnd - offset)
      BY <1>2, <2>0 DEF WriteFragment, Framed, Types
    <3>2. shape["bytes"] = offset /\ offset \in Nat /\ ChunkEnd \in Nat
      BY <2>0, ChunkBounds DEF InProgress, SendTypeOK
    <3> QED
      BY <3>1, <3>2
  <2>2. \A t \in Types : shape'[t] = IF t = ChunkType THEN shape[t] + 1 ELSE shape[t]
    BY <1>2, <2>0 DEF WriteFragment, Framed, Types
  <2>3. CASE ChunkEnd = current.len
    <3>1. current' = NoMessage /\ accepted'[Len(accepted')].len = current.len
      BY <2>0, <2>3 DEF InProgress
    <3>2. CASE current.len <= MaxFragment
      <4>1. offset = 0 /\ ChunkType = "Bulk"
        BY <3>2, <2>0, ChunkBounds DEF InProgress, ChunkType, SendTypeOK
      <4> QED
        BY <2>0, <2>1, <2>2, <2>3, <3>1, <4>1 DEF InProgress, WellShaped, Types
    <3>3. CASE ~(current.len <= MaxFragment)
      <4>1. offset > 0 /\ ChunkType = "Last"
        BY <3>3, <2>0, <2>3, ChunkBounds DEF InProgress, ChunkType, SendTypeOK
      <4> QED
        BY <2>0, <2>1, <2>2, <2>3, <3>1, <4>1 DEF InProgress, WellShaped, Types
    <3> QED
      BY <3>2, <3>3
  <2>4. CASE ChunkEnd # current.len
    <3>1. current' = current /\ current.len > MaxFragment /\ ChunkEnd > 0
      BY <2>0, <2>4, ChunkBounds DEF ChunkEnd, SendTypeOK
    <3>2. ChunkType = IF offset = 0 THEN "First" ELSE "Middle"
      BY <2>4, <3>1, <2>0, ChunkBounds DEF ChunkType
    <3>3. ~Completed'
      BY <3>1, <2>0 DEF Completed
    <3> QED
      BY <2>0, <2>1, <2>2, <3>1, <3>2, <3>3, ChunkBounds
      DEF InProgress, WellShaped, Types, SendTypeOK
  <2> QED
    BY <2>3, <2>4
<1>3. CASE WriteFails
  <2>1. current' = NoMessage /\ ~Completed'
    BY <1>3, ChunkBounds DEF WriteFails, Completed, InProgress, SendTypeOK
  <2> QED
    BY <2>1 DEF InProgress, WellShaped
<1>4. CASE PeerReads \/ UNCHANGED vars
  BY <1>4 DEF PeerReads, vars, InProgress, WellShaped, Completed
<1> QED
  BY <1>1, <1>2, <1>3, <1>4 DEF SendNext

\* and the size of the fragments.
LEMMA LimitStep ==
  ASSUME ShapeInv, WithinLimit, [SendNext]_vars
  PROVE  WithinLimit'
<1>1. CASE WriteFragment
  <2>1. wire' = Append(wire, Fragment) /\ wire \in Seq(WireFrame)
    BY <1>1 DEF WriteFragment, ShapeInv, SendTypeOK
  <2>2. ChunkEnd <= offset + MaxFragment
    <3>1. offset \in Nat /\ MaxFragment \in Nat
      BY SendAssumption DEF ShapeInv, SendTypeOK
    <3> QED
      BY <1>1, <3>1, ChunkBounds DEF WriteFragment, ShapeInv
  <2>3. Fragment.to <= Fragment.from + MaxFragment
    BY <2>2 DEF Fragment
  <2> QED
    BY <2>1, <2>3 DEF WithinLimit
<1>2. CASE PeerReads
  <2>1. wire' = Tail(wire) /\ wire # <<>> /\ wire \in Seq(WireFrame)
    BY <1>2 DEF PeerReads, ShapeInv, SendTypeOK
  <2> QED
    BY <2>1 DEF WithinLimit
<1>3. CASE (\E len \in Lengths : Begin(len)) \/ WriteFails \/ UNCHANGED vars
  BY <1>3 DEF Begin, WriteFails, vars, WithinLimit
<1> QED
  BY <1>1, <1>2, <1>3 DEF SendNext

\* Every message whose writes succeed is one BULK frame or one FIRST, some
\* MIDDLEs and one LAST, with each byte in one fragment of at most
\* MAX_FRAGMENT_PLAINTEXT bytes (control_channel.rs:172-206), whatever the
\* limit is.
THEOREM FragmentsWellFormed == SendSpec => [](SendTypeOK /\ WellFormed)
<1>1. SendInit => ShapeInv /\ WithinLimit
  BY DEF SendInit, ShapeInv, SendTypeOK, InProgress, WellShaped, Completed,
     NoShape, WithinLimit
<1>2. ShapeInv /\ WithinLimit /\ [SendNext]_vars => (ShapeInv /\ WithinLimit)'
  BY SendTypeStep, ShapeStep, LimitStep DEF ShapeInv
<1>3. ShapeInv /\ WithinLimit => SendTypeOK /\ WellFormed
  BY DEF ShapeInv, WellFormed
<1> QED
  BY <1>1, <1>2, <1>3, PTL DEF SendSpec

-----------------------------------------------------------------------------
(* In order and whole.                                                     *)

\* What the peer holds depends on the wire and the peer alone.
LEMMA HeldSame ==
  ASSUME UNCHANGED <<wire, peer>>
  PROVE  \A i : Held(i)' = Held(i)
BY DEF Held

\* A message more leaves those before it where they are.
LEMMA AcceptedGrows ==
  ASSUME SendTypeOK, NEW m \in Messages, accepted' = Append(accepted, m)
  PROVE  /\ Len(accepted') = Len(accepted) + 1
         /\ DOMAIN accepted \subseteq DOMAIN accepted'
         /\ DOMAIN accepted' = DOMAIN accepted \cup {Len(accepted) + 1}
         /\ \A i \in DOMAIN accepted : accepted'[i] = accepted[i]
         /\ accepted'[Len(accepted) + 1] = m
BY DEF SendTypeOK

\* DeliveryInv, when a message is accepted,
LEMMA BeginDelivery ==
  ASSUME DeliveryInv, ShapeInv, NEW len \in Lengths, Begin(len)
  PROVE  DeliveryInv'
<1> DEFINE m == [id |-> Len(accepted) + 1, len |-> len]
<1>1. /\ current = NoMessage /\ current' = m /\ accepted' = Append(accepted, m)
      /\ offset' = 0 /\ UNCHANGED <<record, wire, peer>>
      /\ accepted \in Seq(Messages)
  BY DEF Begin, ShapeInv, SendTypeOK
<1>2. m \in Messages /\ m # NoMessage /\ Len(accepted) \in Nat
  BY SendAssumption DEF Begin, Messages, NoMessage, ShapeInv, SendTypeOK
<1>3. /\ Len(accepted') = Len(accepted) + 1
      /\ DOMAIN accepted' = DOMAIN accepted \cup {Len(accepted) + 1}
      /\ \A i \in DOMAIN accepted : accepted'[i] = accepted[i]
      /\ accepted'[Len(accepted) + 1] = m
  BY <1>1, <1>2, AcceptedGrows DEF ShapeInv
<1>4. m.id = Len(accepted) + 1
  OBVIOUS
<1> HIDE DEF m
<1>5. \A i \in DOMAIN accepted' : accepted'[i].id = i
  BY <1>3, <1>4 DEF DeliveryInv
<1>6. current' = accepted'[Len(accepted')] /\ accepted' # <<>>
  BY <1>1, <1>2, <1>3
<1>7. DeliveredInOrder'
  <2>1. DOMAIN peer.received = 1..Len(peer.received) /\ Len(peer.received) \in Nat
    BY DEF DeliveryInv, PeerState
  <2>2. DOMAIN peer.received \subseteq DOMAIN accepted
    BY <1>1, <1>2, <2>1 DEF DeliveryInv, DeliveredInOrder
  <2>3. \A i \in DOMAIN peer.received :
          WholeMessage(peer.received[i], accepted'[i])
    BY <1>3, <2>2 DEF DeliveryInv, DeliveredInOrder
  <2>4. Len(peer.received) <= Len(accepted')
    BY <1>2, <1>3, <2>1 DEF DeliveryInv, DeliveredInOrder
  <2> QED
    BY <1>1, <2>3, <2>4 DEF DeliveredInOrder
<1>8. ASSUME peer.up PROVE FramesFollow' /\ SenderFollows' /\ PartialBegun'
  <2>1. \A f, h : Follows(f, h) => Follows(f, h)'
    BY <1>3 DEF Follows
  <2>2. FramesFollow'
    BY <1>1, <1>8, <2>1, HeldSame DEF DeliveryInv, FramesFollow
  <2>3. SenderFollows'
    BY <1>1, <1>2, <1>3, <1>8, HeldSame DEF DeliveryInv, SenderFollows
  <2> QED
    BY <1>1, <1>8, <2>2, <2>3 DEF DeliveryInv, PartialBegun
<1> QED
  BY <1>1, <1>5, <1>6, <1>7, <1>8 DEF DeliveryInv

\* when a fragment is written,
LEMMA WriteDelivery ==
  ASSUME DeliveryInv, ShapeInv, WriteFragment
  PROVE  DeliveryInv'
<1>1. /\ current # NoMessage /\ wire' = Append(wire, Fragment)
      /\ record' = record + 1 /\ offset' = ChunkEnd
      /\ current' = IF ChunkEnd = current.len THEN NoMessage ELSE current
      /\ UNCHANGED <<peer, accepted>> /\ wire \in Seq(WireFrame)
      /\ record \in Nat /\ offset \in Nat
  BY DEF WriteFragment, ShapeInv, SendTypeOK
<1>2. /\ ChunkEnd \in Nat /\ offset < ChunkEnd /\ ChunkType \in Types
      /\ current.len \in Nat
  BY <1>1, ChunkBounds DEF ShapeInv
<1>3. /\ accepted # <<>> /\ current = accepted[Len(accepted)]
      /\ current.id = Len(accepted) /\ Len(accepted) \in DOMAIN accepted
      /\ Len(accepted) \in Nat
  <2>1. accepted # <<>> /\ current = accepted[Len(accepted)] /\ accepted \in Seq(Messages)
    BY <1>1 DEF DeliveryInv, ShapeInv, SendTypeOK
  <2>2. Len(accepted) \in DOMAIN accepted /\ Len(accepted) \in Nat
    BY <2>1
  <2> QED
    BY <2>1, <2>2 DEF DeliveryInv
<1>4. /\ Fragment.type = ChunkType /\ Fragment.record = record
      /\ Fragment.id = Len(accepted) /\ Fragment.from = offset
      /\ Fragment.to = ChunkEnd /\ Fragment \in WireFrame
  BY <1>1, <1>2, <1>3 DEF Fragment, WireFrame
<1>5. /\ Len(wire') = Len(wire) + 1 /\ Len(wire) \in Nat
      /\ DOMAIN wire' = DOMAIN wire \cup {Len(wire) + 1}
      /\ \A i \in DOMAIN wire : wire'[i] = wire[i]
      /\ wire'[Len(wire) + 1] = Fragment /\ DOMAIN wire = 1..Len(wire)
  BY <1>1, <1>4
<1>6. \A i \in 0..Len(wire) : Held(i)' = Held(i)
  <2> SUFFICES ASSUME NEW i \in 0..Len(wire) PROVE Held(i)' = Held(i)
    OBVIOUS
  <2>1. i # 0 => wire'[i] = wire[i]
    BY <1>5
  <2> QED
    BY <1>1, <2>1 DEF Held
<1>7. /\ ChunkType \in {"Bulk", "Last"} <=> ChunkEnd = current.len
      /\ ChunkType \in {"Middle", "Last"} <=> offset > 0
  <2>1. offset > 0 => current.len > MaxFragment
    BY <1>1 DEF ShapeInv, InProgress
  <2>2. MaxFragment \in Nat \ {0} /\ current.len > offset
    BY <1>1, SendAssumption DEF ShapeInv, SendTypeOK
  <2> QED
    BY <1>1, <1>2, <2>1, <2>2 DEF ChunkType, ChunkEnd
<1>8. DeliveredInOrder'
  BY <1>1 DEF DeliveryInv, DeliveredInOrder
<1>9. current' # NoMessage => accepted' # <<>> /\ current' = accepted'[Len(accepted')]
  BY <1>1, <1>3
<1>10. ASSUME peer.up
       PROVE  /\ record' >= peer'.next + Len(wire')
              /\ FramesFollow' /\ SenderFollows' /\ PartialBegun'
  <2>0. peer.next \in Nat /\ record >= peer.next + Len(wire)
    BY <1>10 DEF DeliveryInv, PeerState
  <2>1. \A f, h : Follows(f, h)' <=> Follows(f, h)
    BY <1>1 DEF Follows
  <2>2. ASSUME record = peer.next + Len(wire)
        PROVE  Follows(Fragment, Held(Len(wire)))
    <3>1. /\ Held(Len(wire)).whole + 1 = Len(accepted)
          /\ Held(Len(wire)).open <=> offset > 0
          /\ Held(Len(wire)).to = IF offset > 0 THEN offset ELSE 0
      <4>1. Held(Len(wire)).whole + 1 = Len(accepted) + 0
        BY <1>1, <1>10, <2>2 DEF DeliveryInv, SenderFollows
      <4> QED
        BY <1>1, <1>3, <1>10, <2>2, <4>1 DEF DeliveryInv, SenderFollows
    <3>2. Held(Len(wire)).to = offset
      BY <1>1, <3>1
    <3> QED
      BY <1>3, <1>4, <1>7, <3>1, <3>2 DEF Follows
  <2>3. FramesFollow'
    <3> SUFFICES ASSUME NEW i \in DOMAIN wire', wire'[i].record = peer.next + i - 1
                 PROVE  Follows(wire'[i], Held(i - 1)')
      BY <1>1, <2>1 DEF FramesFollow
    <3>1. CASE i \in DOMAIN wire
      <4>1. i - 1 \in 0..Len(wire) /\ wire'[i] = wire[i]
        BY <1>5, <3>1
      <4>2. Held(i - 1)' = Held(i - 1)
        BY <1>6, <4>1
      <4> QED
        BY <1>10, <3>1, <4>1, <4>2 DEF DeliveryInv, FramesFollow
    <3>2. CASE i = Len(wire) + 1
      <4>1. i - 1 = Len(wire) /\ Len(wire) \in 0..Len(wire)
        BY <1>5, <3>2
      <4>2. record = peer.next + Len(wire)
        BY <1>1, <1>4, <1>5, <2>0, <3>2
      <4>3. Held(i - 1)' = Held(Len(wire))
        BY <1>6, <4>1
      <4> QED
        BY <1>5, <2>2, <3>2, <4>2, <4>3
    <3> QED
      BY <1>5, <3>1, <3>2
  <2>4. SenderFollows'
    <3>0. PICK n \in Nat : n = Len(wire) + 1
      BY <1>5
    <3>1. Held(n)' =
            IF ChunkEnd = current.len
            THEN [whole |-> Len(accepted), open |-> FALSE, to |-> 0]
            ELSE [whole |-> Len(accepted) - 1, open |-> TRUE, to |-> ChunkEnd]
      <4>1. n # 0 /\ wire'[n] = Fragment
        BY <1>5, <3>0
      <4>2. Held(n)' =
              IF Fragment.type \in {"Bulk", "Last"}
              THEN [whole |-> Fragment.id, open |-> FALSE, to |-> 0]
              ELSE [whole |-> Fragment.id - 1, open |-> TRUE, to |-> Fragment.to]
        BY <4>1 DEF Held
      <4> QED
        BY <1>4, <1>7, <4>2
    <3>2. CASE ChunkEnd = current.len
      <4>1. /\ current' = NoMessage /\ Held(n)'.whole = Len(accepted)
            /\ Held(n)'.open = FALSE /\ Held(n)'.to = 0
        BY <1>1, <3>1, <3>2
      <4> QED
        BY <1>1, <1>3, <1>5, <3>0, <4>1 DEF SenderFollows
    <3>3. CASE ChunkEnd # current.len
      <4>1. /\ current' # NoMessage /\ Held(n)'.whole = Len(accepted) - 1
            /\ Held(n)'.open = TRUE /\ Held(n)'.to = ChunkEnd
            /\ offset' > 0
        BY <1>1, <1>2, <3>1, <3>3
      <4>2. Held(n)'.whole + 1 = Len(accepted') + 0
        BY <1>1, <1>3, <4>1
      <4> QED
        BY <1>1, <1>2, <1>5, <3>0, <4>1, <4>2 DEF SenderFollows
    <3> QED
      BY <3>2, <3>3
  <2>5. record' >= peer'.next + Len(wire')
    BY <1>1, <1>5, <2>0
  <2> QED
    BY <1>1, <1>10, <2>3, <2>4, <2>5 DEF DeliveryInv, PartialBegun
<1> QED
  BY <1>1, <1>8, <1>9, <1>10 DEF DeliveryInv

\* when a write fails,
LEMMA FailDelivery ==
  ASSUME DeliveryInv, ShapeInv, WriteFails
  PROVE  DeliveryInv'
<1>1. /\ record' = record + 1 /\ record \in Nat /\ current' = NoMessage
      /\ UNCHANGED <<wire, peer, accepted>>
  BY DEF WriteFails, ShapeInv, SendTypeOK
<1>2. peer.next \in Nat /\ Len(wire) \in Nat
  BY DEF DeliveryInv, PeerState, ShapeInv, SendTypeOK
<1>3. DeliveredInOrder'
  BY <1>1 DEF DeliveryInv, DeliveredInOrder
<1>4. ASSUME peer.up
      PROVE  /\ record' >= peer'.next + Len(wire') /\ record' # peer'.next + Len(wire')
             /\ FramesFollow' /\ PartialBegun'
  <2>1. record >= peer.next + Len(wire)
    BY <1>4 DEF DeliveryInv
  <2>2. FramesFollow'
    BY <1>1, <1>4, HeldSame DEF DeliveryInv, FramesFollow, Follows
  <2> QED
    BY <1>1, <1>2, <1>4, <2>1, <2>2 DEF DeliveryInv, PartialBegun
<1> QED
  BY <1>1, <1>3, <1>4 DEF DeliveryInv, SenderFollows

\* What Append does, element by element.
LEMMA Lengthened ==
  ASSUME NEW S, NEW s \in Seq(S), NEW x \in S
  PROVE  /\ Append(s, x) \in Seq(S) /\ Len(s) \in Nat
         /\ Len(Append(s, x)) = Len(s) + 1 /\ Append(s, x)[Len(s) + 1] = x
         /\ \A i \in 1..Len(s) : Append(s, x)[i] = s[i]
         /\ DOMAIN s = 1..Len(s) /\ DOMAIN Append(s, x) = 1..(Len(s) + 1)
         /\ s # <<>> => Len(s) # 0
OBVIOUS

\* A sequence of one.
LEMMA Single ==
  ASSUME NEW S, NEW x \in S
  PROVE  /\ <<x>> \in Seq(S) /\ <<x>> # <<>> /\ Len(<<x>>) = 1
         /\ <<x>>[1] = x /\ DOMAIN <<x>> = {1}
OBVIOUS

Joined(f) ==
  IF f.type \in {"Bulk", "First"} THEN <<Chunk(f)>>
  ELSE Append(peer.partial, Chunk(f))

\* What the peer makes of its next frame: a longer partial message that still
\* is the beginning of the next one, or the whole of it.
LEMMA FrameReassembled ==
  ASSUME DeliveryInv, peer.up, NEW f \in WireFrame, Follows(f, Held(0)),
         NEW p, p = Joined(f)
  PROVE  /\ p \in Seq(Chunks) /\ p # <<>> /\ p[Len(p)].to = f.to
         /\ f.id = Len(peer.received) + 1 /\ f.id \in DOMAIN accepted
         /\ \A i \in DOMAIN p : p[i].id = f.id
         /\ p[1].from = 0
         /\ \A i \in 2..Len(p) : p[i].from = p[i - 1].to
         /\ f.type \in {"Bulk", "Last"} => WholeMessage(p, accepted[f.id])
<1> DEFINE q == peer.partial
<1>1. /\ q \in Seq(Chunks)
      /\ \A i \in DOMAIN q : q[i].id = Len(peer.received) + 1
      /\ q # <<>> => q[1].from = 0
      /\ \A i \in 2..Len(q) : q[i].from = q[i - 1].to
  BY DEF DeliveryInv, PeerState, PartialBegun
<1>2. /\ f.id = Len(peer.received) + 1 /\ f.id \in DOMAIN accepted
      /\ f.from = IF q = <<>> THEN 0 ELSE q[Len(q)].to
      /\ f.type \in {"Middle", "Last"} <=> q # <<>>
      /\ f.type \in {"Bulk", "Last"} => f.to = accepted[f.id].len
  BY DEF Follows, Held
<1>3. /\ Chunk(f) \in Chunks /\ Chunk(f).id = f.id /\ Chunk(f).from = f.from
      /\ Chunk(f).to = f.to
  BY DEF Chunk, Chunks, WireFrame
<1>4. f.type \in {"Bulk", "First", "Middle", "Last"}
  BY DEF WireFrame, Types
<1> DEFINE c == Chunk(f)
<1> HIDE DEF c, q
<1>5. /\ p \in Seq(Chunks) /\ p # <<>> /\ p[Len(p)].to = f.to
      /\ \A i \in DOMAIN p : p[i].id = f.id
      /\ p[1].from = 0
      /\ \A i \in 2..Len(p) : p[i].from = p[i - 1].to
  <2>1. CASE f.type \in {"Bulk", "First"}
    <3>1. p = <<c>> /\ f.from = 0 /\ c \in Chunks
      BY <1>2, <1>3, <2>1 DEF c, Joined
    <3>2. p \in Seq(Chunks) /\ p # <<>> /\ Len(p) = 1 /\ p[1] = c /\ DOMAIN p = {1}
      BY <3>1, Single
    <3> QED
      BY <1>3, <3>1, <3>2 DEF c
  <2>2. CASE f.type \in {"Middle", "Last"}
    <3>1. p = Append(q, c) /\ q # <<>> /\ c \in Chunks
      BY <1>2, <1>3, <2>2 DEF c, q, Joined
    <3>2. /\ Len(p) = Len(q) + 1 /\ p[Len(q) + 1] = c /\ p \in Seq(Chunks)
          /\ \A i \in 1..Len(q) : p[i] = q[i]
          /\ Len(q) \in Nat \ {0} /\ DOMAIN q = 1..Len(q) /\ DOMAIN p = 1..Len(p)
      BY <1>1, <3>1, Lengthened
    <3>3. \A i \in DOMAIN p : p[i].id = f.id
      BY <1>1, <1>2, <1>3, <3>2 DEF c
    <3>4. \A i \in 2..Len(p) : p[i].from = p[i - 1].to
      <4> SUFFICES ASSUME NEW i \in 2..Len(p) PROVE p[i].from = p[i - 1].to
        OBVIOUS
      <4>1. CASE i = Len(q) + 1
        <5>1. p[i] = c /\ p[i - 1] = q[Len(q)]
          BY <3>2, <4>1
        <5> QED
          BY <1>2, <1>3, <3>1, <5>1 DEF c
      <4>2. CASE i \in 2..Len(q)
        <5>1. i \in 1..Len(q) /\ i - 1 \in 1..Len(q)
          BY <3>2, <4>2
        <5> QED
          BY <1>1, <3>2, <4>2, <5>1
      <4> QED
        BY <3>2, <4>1, <4>2
    <3>5. p[1].from = 0 /\ p[Len(p)].to = f.to /\ p # <<>>
      BY <1>1, <1>3, <3>1, <3>2 DEF c
    <3> QED
      BY <3>2, <3>3, <3>4, <3>5
  <2> QED
    BY <1>4, <2>1, <2>2
<1>6. f.type \in {"Bulk", "Last"} => WholeMessage(p, accepted[f.id])
  <2>1. accepted[f.id].id = f.id
    BY <1>2 DEF DeliveryInv
  <2> QED
    BY <1>2, <1>5, <2>1 DEF WholeMessage
<1> QED
  BY <1>2, <1>5, <1>6

\* What a frame makes of the peer is a state of the peer.
LEMMA PeerTypes ==
  ASSUME peer \in PeerState, NEW p \in Seq(Chunks)
  PROVE  /\ [peer EXCEPT !.next = @ + 1, !.partial = <<>>,
                         !.received = Append(@, p)] \in PeerState
         /\ [peer EXCEPT !.next = @ + 1, !.partial = p] \in PeerState
<1>1. peer.next + 1 \in Nat
  BY DEF PeerState
<1>2. Append(peer.received, p) \in Seq(Seq(Chunks))
  BY Lengthened DEF PeerState
<1>3. peer \in PeerState /\ <<>> \in Seq(Chunks)
  OBVIOUS
<1> DEFINE n == peer.next + 1
           r == Append(peer.received, p)
<1>4. n \in Nat /\ r \in Seq(Seq(Chunks))
  BY <1>1, <1>2
<1> HIDE DEF n, r
<1>5. /\ [peer EXCEPT !.next = n, !.partial = <<>>, !.received = r] \in PeerState
      /\ [peer EXCEPT !.next = n, !.partial = p] \in PeerState
  BY <1>3, <1>4 DEF PeerState
<1> QED
  BY <1>5 DEF n, r

\* The peer reads a frame it can decrypt.
LEMMA FrameRead ==
  ASSUME DeliveryInv, SendTypeOK, PeerReads, peer.up,
         NEW f \in WireFrame, f = wire[1], f.record = peer.next
  PROVE  /\ peer' \in PeerState /\ DeliveredInOrder' /\ PartialBegun'
         /\ peer'.next = peer.next + 1 /\ Held(0)' = Held(1)
<1>1. Follows(f, Held(0))
  <2>1. 1 \in DOMAIN wire
    BY DEF PeerReads, SendTypeOK
  <2>2. peer.next \in Nat /\ wire[1].record = peer.next + 1 - 1
    BY DEF DeliveryInv, PeerState
  <2>3. Follows(wire[1], Held(1 - 1))
    BY <2>1, <2>2 DEF DeliveryInv, FramesFollow
  <2> QED
    BY <2>3
<1>2. PICK p : p = Joined(f)
  OBVIOUS
<1>3. /\ p \in Seq(Chunks) /\ p # <<>> /\ p[Len(p)].to = f.to
      /\ f.id = Len(peer.received) + 1 /\ f.id \in DOMAIN accepted
      /\ \A i \in DOMAIN p : p[i].id = f.id
      /\ p[1].from = 0
      /\ \A i \in 2..Len(p) : p[i].from = p[i - 1].to
      /\ f.type \in {"Bulk", "Last"} => WholeMessage(p, accepted[f.id])
  BY <1>1, <1>2, FrameReassembled
<1>4. peer' = IF f.type \in {"Bulk", "Last"}
              THEN [peer EXCEPT !.next = @ + 1, !.partial = <<>>,
                                !.received = Append(@, p)]
              ELSE [peer EXCEPT !.next = @ + 1, !.partial = p]
  <2>1. f = Head(wire)
    BY DEF PeerReads, SendTypeOK
  <2> QED
    BY <1>2, <2>1 DEF PeerReads, Joined
<1>5. /\ UNCHANGED accepted /\ peer \in PeerState /\ Len(accepted) \in Nat
      /\ DOMAIN accepted = 1..Len(accepted)
      /\ Held(1) = IF f.type \in {"Bulk", "Last"}
                   THEN [whole |-> f.id, open |-> FALSE, to |-> 0]
                   ELSE [whole |-> f.id - 1, open |-> TRUE, to |-> f.to]
  BY DEF PeerReads, DeliveryInv, SendTypeOK, Held
<1>6. CASE f.type \in {"Bulk", "Last"}
  <2>1. /\ peer'.next = peer.next + 1 /\ peer'.partial = <<>>
        /\ peer'.received = Append(peer.received, p)
    BY <1>4, <1>5, <1>6 DEF PeerState
  <2>2. /\ peer'.received \in Seq(Seq(Chunks)) /\ Len(peer.received) \in Nat
        /\ Len(peer'.received) = Len(peer.received) + 1
        /\ DOMAIN peer'.received = 1..(Len(peer.received) + 1)
        /\ DOMAIN peer.received = 1..Len(peer.received)
        /\ \A i \in 1..Len(peer.received) : peer'.received[i] = peer.received[i]
        /\ peer'.received[Len(peer.received) + 1] = p
    BY <1>3, <1>5, <2>1, Lengthened DEF PeerState
  <2>3. peer' \in PeerState
    BY <1>3, <1>4, <1>5, <1>6, PeerTypes
  <2>4. DeliveredInOrder'
    <3>1. Len(peer'.received) <= Len(accepted)
      BY <1>3, <1>5, <2>2
    <3>2. \A i \in DOMAIN peer'.received :
            WholeMessage(peer'.received[i], accepted[i])
      <4>1. \A i \in 1..Len(peer.received) :
              WholeMessage(peer.received[i], accepted[i])
        BY <2>2 DEF DeliveryInv, DeliveredInOrder
      <4>2. WholeMessage(p, accepted[Len(peer.received) + 1])
        BY <1>3, <1>6
      <4>3. \A i \in DOMAIN peer'.received :
              i \in 1..Len(peer.received) \/ i = Len(peer.received) + 1
        BY <2>2
      <4> QED
        BY <2>2, <4>1, <4>2, <4>3
    <3> QED
      BY <1>5, <3>1, <3>2 DEF DeliveredInOrder
  <2>5. PartialBegun'
    <3>1. DOMAIN peer'.partial = {} /\ Len(peer'.partial) = 0
      BY <2>1
    <3> QED
      BY <2>1, <3>1 DEF PartialBegun
  <2>6. Held(0)' = Held(1)
    <3>1. Held(0)' = [whole |-> Len(peer'.received), open |-> FALSE, to |-> 0]
      BY <2>1 DEF Held
    <3> QED
      BY <1>3, <1>5, <1>6, <2>2, <3>1
  <2> QED
    BY <2>1, <2>3, <2>4, <2>5, <2>6
<1>7. CASE f.type \notin {"Bulk", "Last"}
  <2>1. /\ peer'.next = peer.next + 1 /\ peer'.partial = p
        /\ peer'.received = peer.received
    BY <1>4, <1>5, <1>7 DEF PeerState
  <2>2. peer' \in PeerState
    BY <1>3, <1>4, <1>5, <1>7, PeerTypes
  <2>3. DeliveredInOrder'
    BY <1>5, <2>1 DEF DeliveryInv, DeliveredInOrder
  <2>4. PartialBegun'
    BY <1>3, <2>1 DEF PartialBegun
  <2>5. Held(0)' = Held(1)
    <3>1. Held(0)' = [whole |-> Len(peer.received), open |-> TRUE, to |-> f.to]
      BY <1>3, <2>1 DEF Held
    <3>2. Len(peer.received) = f.id - 1
      BY <1>3, <1>5 DEF PeerState
    <3> QED
      BY <1>5, <1>7, <3>1, <3>2
  <2> QED
    BY <2>1, <2>2, <2>3, <2>4, <2>5
<1> QED
  BY <1>6, <1>7

\* and when the peer reads a frame.
LEMMA ReadDelivery ==
  ASSUME DeliveryInv, SendTypeOK, PeerReads
  PROVE  DeliveryInv'
<1>1. /\ wire # <<>> /\ wire' = Tail(wire) /\ wire \in Seq(WireFrame)
      /\ UNCHANGED <<current, offset, record, accepted>>
  BY DEF PeerReads, SendTypeOK
<1>2. /\ Len(wire') = Len(wire) - 1 /\ Len(wire) \in Nat \ {0}
      /\ DOMAIN wire = 1..Len(wire) /\ DOMAIN wire' = 1..(Len(wire) - 1)
      /\ \A i \in 1..(Len(wire) - 1) : wire'[i] = wire[i + 1]
      /\ wire[1] \in WireFrame /\ Head(wire) = wire[1]
  BY <1>1
<1>3. peer \in PeerState /\ peer.next \in Nat
  BY DEF DeliveryInv, PeerState
<1>4. CASE ~peer.up \/ wire[1].record # peer.next
  <2>1. peer' = [peer EXCEPT !.up = FALSE]
    BY <1>2, <1>4 DEF PeerReads
  <2>2. peer' \in PeerState /\ ~peer'.up /\ peer'.received = peer.received
    BY <1>3, <2>1 DEF PeerState
  <2>3. DeliveredInOrder'
    BY <1>1, <2>2 DEF DeliveryInv, DeliveredInOrder
  <2> QED
    BY <1>1, <2>2, <2>3 DEF DeliveryInv
<1>5. CASE peer.up /\ wire[1].record = peer.next
  <2>1. /\ peer' \in PeerState /\ DeliveredInOrder' /\ PartialBegun'
        /\ peer'.next = peer.next + 1 /\ Held(0)' = Held(1)
    BY <1>2, <1>5, FrameRead
  <2>2. \A i \in 0..(Len(wire) - 1) : Held(i)' = Held(i + 1)
    <3> SUFFICES ASSUME NEW i \in 1..(Len(wire) - 1) PROVE Held(i)' = Held(i + 1)
      BY <1>2, <2>1
    <3>1. i # 0 /\ i + 1 # 0 /\ wire'[i] = wire[i + 1]
      BY <1>2
    <3> QED
      BY <3>1 DEF Held
  <2>3. record >= peer.next + Len(wire) /\ FramesFollow /\ SenderFollows
    BY <1>5 DEF DeliveryInv
  <2>4. FramesFollow'
    <3> SUFFICES ASSUME NEW i \in DOMAIN wire', wire'[i].record = peer'.next + i - 1
                 PROVE  Follows(wire'[i], Held(i - 1)')
      <4>1. \A f, h : Follows(f, h)' <=> Follows(f, h)
        BY <1>1 DEF Follows
      <4> QED
        BY <4>1 DEF FramesFollow
    <3>1. /\ i + 1 \in DOMAIN wire /\ wire'[i] = wire[i + 1] /\ i - 1 \in 0..(Len(wire) - 1)
          /\ i \in Int
      BY <1>2
    <3>2. wire[i + 1].record = peer.next + (i + 1) - 1
      BY <1>3, <2>1, <3>1
    <3>3. Follows(wire[i + 1], Held((i + 1) - 1))
      BY <2>3, <3>1, <3>2 DEF FramesFollow
    <3>4. Held(i - 1)' = Held((i - 1) + 1) /\ (i - 1) + 1 = i /\ (i + 1) - 1 = i
      BY <2>2, <3>1
    <3> QED
      BY <3>1, <3>3, <3>4
  <2>5. SenderFollows'
    <3>1. PICK n : n \in Nat /\ n + 1 = Len(wire) /\ n = Len(wire')
      BY <1>2
    <3>2. Held(n)' = Held(Len(wire))
      BY <1>2, <2>2, <3>1
    <3>3. record = peer'.next + n => record = peer.next + Len(wire)
      <4>1. PICK a \in Nat : a = peer.next
        BY <1>3
      <4>2. (a + 1) + n = a + (n + 1)
        BY <3>1
      <4> QED
        BY <2>1, <3>1, <4>1, <4>2, Zenon
    <3> QED
      BY <1>1, <2>3, <3>1, <3>2, <3>3 DEF SenderFollows
  <2>6. record' >= peer'.next + Len(wire')
    BY <1>1, <1>2, <1>3, <2>1, <2>3
  <2> QED
    BY <1>1, <2>1, <2>4, <2>5, <2>6 DEF DeliveryInv
<1> QED
  BY <1>3, <1>4, <1>5 DEF PeerState

\* DeliveryInv holds initially,
LEMMA DeliveryInit == SendInit => DeliveryInv
<1> SUFFICES ASSUME SendInit PROVE DeliveryInv
  OBVIOUS
<1>1. /\ wire = <<>> /\ accepted = <<>> /\ current = NoMessage /\ offset = 0
      /\ record = 0
      /\ peer = [next |-> 0, partial |-> <<>>, received |-> <<>>, up |-> TRUE]
  BY DEF SendInit
<1>2. /\ peer.next = 0 /\ peer.partial = <<>> /\ peer.received = <<>>
      /\ peer \in PeerState
  BY <1>1 DEF PeerState
<1>3. DeliveredInOrder /\ PartialBegun
  BY <1>1, <1>2 DEF DeliveredInOrder, PartialBegun
<1>4. Len(wire) = 0 /\ Len(accepted) = 0 /\ DOMAIN wire = {} /\ DOMAIN accepted = {}
  BY <1>1
<1>5. Held(Len(wire)) = [whole |-> 0, open |-> FALSE, to |-> 0]
  BY <1>2, <1>4 DEF Held
<1>6. SenderFollows
  <2>1. /\ Held(Len(wire)).whole = 0 /\ Held(Len(wire)).open = FALSE
        /\ Held(Len(wire)).to = 0
    BY <1>5
  <2> QED
    BY <1>1, <1>4, <2>1 DEF SenderFollows
<1>7. FramesFollow /\ record >= peer.next + Len(wire)
  BY <1>1, <1>2, <1>4 DEF FramesFollow
<1> QED
  BY <1>1, <1>2, <1>3, <1>4, <1>6, <1>7 DEF DeliveryInv

\* and every step keeps it.
LEMMA DeliveryStep ==
  ASSUME DeliveryInv, ShapeInv, [SendNext]_vars
  PROVE  DeliveryInv'
<1>1. CASE UNCHANGED vars
  <2>1. UNCHANGED <<current, offset, record, wire, peer, accepted>>
    BY <1>1 DEF vars
  <2> QED
    BY <2>1 DEF DeliveryInv, DeliveredInOrder, FramesFollow, Follows, Held,
       SenderFollows, PartialBegun
<1> QED
  BY <1>1, BeginDelivery, WriteDelivery, FailDelivery, ReadDelivery
  DEF SendNext, ShapeInv

\* Whatever is written, lost and read, what the peer delivers is the messages
\* send_encrypted was called with, whole and in order (control_channel.rs:
\* 172-206; the peer gives up at a record it cannot decrypt).
THEOREM MessagesInOrder == SendSpec => []DeliveredInOrder
<1>1. SendInit => ShapeInv /\ DeliveryInv
  BY DeliveryInit DEF SendInit, ShapeInv, SendTypeOK, InProgress, WellShaped,
     Completed, NoShape
<1>2. ShapeInv /\ DeliveryInv /\ [SendNext]_vars => (ShapeInv /\ DeliveryInv)'
  BY SendTypeStep, ShapeStep, DeliveryStep DEF ShapeInv
<1>3. DeliveryInv => DeliveredInOrder
  BY DEF DeliveryInv
<1> QED
  BY <1>1, <1>2, <1>3, PTL DEF SendSpec

\* A set of numbers has a least one,
LEMMA Least ==
  ASSUME NEW U, U \subseteq Nat, U # {}
  PROVE \E x \in U : \A y \in U : x <= y
<1> DEFINE Less == {p \in Nat \X Nat : p[1] < p[2]}
<1>1. IsWellFoundedOn(Less, Nat)
  BY NatLessThanWellFounded DEF OpToRel
<1> HIDE DEF Less
<1>2. PICK x \in U : \A y \in U : ~ (<<y, x>> \in Less)
  BY <1>1, WFMin
<1>3. ASSUME NEW y \in U PROVE x <= y
  <2>1. y < x => <<y, x>> \in Less
    BY DEF Less
  <2>2. x \in Nat /\ y \in Nat
    OBVIOUS
  <2>3. ~(y < x)
    BY <1>2, <2>1, Zenon
  <2> QED
    BY <2>2, <2>3
<1> QED
  BY <1>3

\* so what holds of 0 and is passed on up to n holds of all numbers up to n,
LEMMA UpTo ==
  ASSUME NEW n \in Nat, NEW U, 0 \in U, \A k \in 1..n : k - 1 \in U => k \in U
  PROVE \A k \in 0..n : k \in U
<1> DEFINE V == {k \in 0..n : k \notin U}
<1> SUFFICES ASSUME V # {} PROVE FALSE
  OBVIOUS
<1>1. V \subseteq Nat
  OBVIOUS
<1>2. PICK x \in V : \A y \in V : x <= y
  <2> HIDE DEF V
  <2> QED
    BY <1>1, Least
<1>3. x \in 1..n /\ x \notin U
  BY <1>2
<1>4. x - 1 \in U
  BY <1>2, <1>3
<1> QED
  BY <1>3, <1>4

\* and a set of numbers up to n has a greatest one.
LEMMA Greatest ==
  ASSUME NEW n \in Nat, NEW U, U \subseteq 0..n, U # {}
  PROVE \E x \in U : \A y \in U : y <= x
<1> DEFINE V == {n - x : x \in U}
<1>1. V \subseteq Nat /\ V # {}
  <2>1. \A x \in U : x \in 0..n /\ n - x \in Nat
    OBVIOUS
  <2> QED
    BY <2>1
<1>2. PICK v \in V : \A y \in V : v <= y
  <2> HIDE DEF V
  <2> QED
    BY <1>1, Least
<1>3. PICK x \in U : v = n - x
  BY <1>2
<1>4. ASSUME NEW y \in U PROVE y <= x
  <2>1. x \in 0..n /\ y \in 0..n /\ n - x <= n - y
    BY <1>2, <1>3
  <2> QED
    BY <2>1
<1> QED
  BY <1>4

-----------------------------------------------------------------------------
(* Ascending                                                               *)

\* The first n values of g grow.
Climbs(g, n) == \A i, j \in 1..n : i < j => g[i] < g[j]

\* A row of numbers that climbs is the ascending order of its members.
LEMMA AscendingIs ==
  ASSUME NEW n \in Nat, NEW g \in [1..n -> Nat], Climbs(g, n),
         NEW S, S = {g[i] : i \in 1..n}
  PROVE  Ascending(S) = g
<1>1. ASSUME NEW m \in 0..n PROVE Cardinality({g[i] : i \in 1..m}) = m
  <2> DEFINE f == [i \in 1..m |-> g[i]]
             T == {g[i] : i \in 1..m}
  <2>1. f \in Bijection(1..m, T)
    <3>1. f \in [1..m -> T] /\ \A t \in T : \E i \in 1..m : f[i] = t
      OBVIOUS
    <3>2. ASSUME NEW a \in 1..m, NEW b \in 1..m, f[a] = f[b] PROVE a = b
      <4>1. a \in 1..n /\ b \in 1..n /\ g[a] = g[b] /\ g[a] \in Nat
        BY <3>2
      <4>2. ~(a < b) /\ ~(b < a)
        BY <4>1 DEF Climbs
      <4> QED
        BY <4>1, <4>2
    <3> HIDE DEF f, T
    <3> QED
      BY <3>1, <3>2 DEF Bijection, Injection, Surjection, IsInjective
  <2>2. ExistsBijection(1..m, T)
    <3> HIDE DEF f, T
    <3> QED
      BY <2>1 DEF ExistsBijection
  <2> HIDE DEF T
  <2>3. Cardinality(T) = m
    BY <2>2, FS_CountingElements
  <2> QED
    BY <2>3 DEF T
<1>2. Cardinality(S) = n
  <2>1. n \in 0..n
    OBVIOUS
  <2> QED
    BY <1>1, <2>1
<1>3. ASSUME NEW k \in 1..n PROVE Cardinality({j \in S : j < g[k]}) = k - 1
  <2>1. {j \in S : j < g[k]} = {g[i] : i \in 1..k - 1}
    <3>1. ASSUME NEW i \in 1..n PROVE g[i] < g[k] <=> i < k
      <4>1. i < k => g[i] < g[k]
        BY DEF Climbs
      <4>2. k < i => g[k] < g[i]
        BY DEF Climbs
      <4>3. g[i] \in Nat /\ g[k] \in Nat
        OBVIOUS
      <4> QED
        BY <4>1, <4>2, <4>3
    <3>2. 1..k - 1 = {i \in 1..n : i < k}
      OBVIOUS
    <3> QED
      BY <3>1, <3>2
  <2>2. k - 1 \in 0..n
    OBVIOUS
  <2> QED
    BY <1>1, <2>1, <2>2
<1>4. ASSUME NEW k \in 1..n
      PROVE  (CHOOSE i \in S : Cardinality({j \in S : j < i}) = k - 1) = g[k]
  <2>1. ASSUME NEW i \in S, Cardinality({j \in S : j < i}) = k - 1 PROVE i = g[k]
    <3>1. PICK l \in 1..n : i = g[l]
      OBVIOUS
    <3>2. Cardinality({j \in S : j < g[l]}) = l - 1
      BY <1>3
    <3>3. l - 1 = k - 1
      BY <2>1, <3>1, <3>2
    <3> QED
      BY <3>1, <3>3
  <2>2. g[k] \in S /\ Cardinality({j \in S : j < g[k]}) = k - 1
    BY <1>3
  <2> QED
    BY <2>1, <2>2
<1>5. Ascending(S) = [k \in 1..n |-> g[k]]
  BY <1>2, <1>4 DEF Ascending
<1> QED
  BY <1>5

\* Every set of numbers up to m has one.
LEMMA AscendingExists ==
  ASSUME NEW m \in Nat, NEW S, S \subseteq 1..m
  PROVE  \E n \in Nat : \E g \in [1..n -> Nat] : Climbs(g, n) /\ S = {g[i] : i \in 1..n}
<1> DEFINE Row(k, n, g) == Climbs(g, n) /\ {x \in 1..k : x \in S} = {g[i] : i \in 1..n}
           U == {k \in 0..m : \E n \in Nat : \E g \in [1..n -> Nat] : Row(k, n, g)}
<1>1. 0 \in U
  <2>1. PICK g : g = [i \in 1..0 |-> 0]
    OBVIOUS
  <2>2. g \in [1..0 -> Nat] /\ Row(0, 0, g)
    BY <2>1 DEF Climbs
  <2>3. 0 \in 0..m /\ 0 \in Nat
    OBVIOUS
  <2> HIDE DEF Row
  <2> QED
    BY <2>2, <2>3, Zenon
<1>2. ASSUME NEW k \in 1..m, k - 1 \in U PROVE k \in U
  <2>1. PICK n \in Nat : \E g \in [1..n -> Nat] : Row(k - 1, n, g)
    BY <1>2
  <2>2. PICK g \in [1..n -> Nat] : Row(k - 1, n, g)
    BY <2>1
  <2>3. CASE k \notin S
    <3>1. {x \in 1..k : x \in S} = {x \in 1..k - 1 : x \in S}
      BY <2>3
    <3> QED
      BY <2>2, <3>1
  <2>4. CASE k \in S
    <3>1. PICK h : h = [i \in 1..n + 1 |-> IF i = n + 1 THEN k ELSE g[i]]
      OBVIOUS
    <3>2. /\ h \in [1..n + 1 -> Nat] /\ h[n + 1] = k
          /\ \A i \in 1..n : h[i] = g[i]
      BY <3>1
    <3>3. {x \in 1..k : x \in S} = {x \in 1..k - 1 : x \in S} \cup {k}
      BY <2>4
    <3>4. {h[i] : i \in 1..n + 1} = {g[i] : i \in 1..n} \cup {k}
      <4>1. 1..n + 1 = 1..n \cup {n + 1}
        OBVIOUS
      <4> QED
        BY <3>2, <4>1
    <3>5. \A i \in 1..n : g[i] \in 1..k - 1
      BY <2>2
    <3>6. Climbs(h, n + 1)
      <4> SUFFICES ASSUME NEW i \in 1..n + 1, NEW j \in 1..n + 1, i < j
                   PROVE  h[i] < h[j]
        BY DEF Climbs
      <4>1. i \in 1..n /\ g[i] \in Nat /\ g[i] < k /\ h[i] = g[i]
        BY <3>2, <3>5
      <4>2. CASE j = n + 1
        BY <3>2, <4>1, <4>2
      <4>3. CASE j \in 1..n
        BY <2>2, <3>2, <4>1, <4>3 DEF Climbs
      <4> QED
        BY <4>2, <4>3
    <3>7. Row(k, n + 1, h)
      BY <2>2, <3>3, <3>4, <3>6
    <3>8. n + 1 \in Nat
      OBVIOUS
    <3>9. h \in [1..n + 1 -> Nat]
      BY <3>2
    <3> HIDE DEF Row
    <3> QED
      BY <3>7, <3>8, <3>9
  <2> QED
    BY <2>3, <2>4
<1>3. m \in U
  <2> HIDE DEF U
  <2>1. \A k \in 0..m : k \in U
    BY <1>1, <1>2, UpTo
  <2> QED
    BY <2>1
<1>4. {x \in 1..m : x \in S} = S
  OBVIOUS
<1> QED
  BY <1>3, <1>4

-----------------------------------------------------------------------------
(* FlattenSeq                                                              *)

\* Joining sequences one by one, from the first.
Accumulated(g, n, m) == \A i \in 1..n : g[i] = IF i = 1 THEN m[i] ELSE g[i - 1] \o m[i]

\* FlattenSeq joins all of them.
LEMMA FlattenIs ==
  ASSUME NEW n \in Nat \ {0}, NEW m \in [1..n -> Seq(Nat)], NEW g \in [1..n -> Seq(Nat)],
         Accumulated(g, n, m)
  PROVE  FlattenSeq(m) = g[n]
<1> DEFINE Rec(f) == f = [i \in 1..Len(m) |-> IF i = 1 THEN m[i] ELSE f[i - 1] \o m[i]]
           flat == CHOOSE f : Rec(f)
<1>1. Len(m) = n
  OBVIOUS
<1>2. Rec(g)
  <2>1. g = [i \in 1..n |-> g[i]]
    OBVIOUS
  <2> QED
    BY <1>1, <2>1 DEF Accumulated
<1>3. Rec(flat)
  <2> HIDE DEF Rec
  <2> QED
    BY <1>2
<1>4. Accumulated(flat, n, m)
  <2> HIDE DEF flat
  <2> QED
    BY <1>1, <1>3 DEF Accumulated
<1>5. FlattenSeq(m) = flat[n]
  BY <1>1, Zenon DEF FlattenSeq
<1> HIDE DEF flat
<1> DEFINE U == {k \in 0..n : k = 0 \/ flat[k] = g[k]}
<1>6. 0 \in U
  OBVIOUS
<1>7. ASSUME NEW k \in 1..n, k - 1 \in U PROVE k \in U
  <2>1. flat[k] = (IF k = 1 THEN m[k] ELSE flat[k - 1] \o m[k])
        /\ g[k] = (IF k = 1 THEN m[k] ELSE g[k - 1] \o m[k])
    BY <1>4 DEF Accumulated
  <2>2. k # 1 => flat[k - 1] = g[k - 1]
    BY <1>7
  <2>3. flat[k] = g[k]
    BY <2>1, <2>2
  <2> QED
    BY <2>3
<1>8. n \in U
  <2>1. n \in 0..n
    OBVIOUS
  <2> HIDE DEF U
  <2> QED
    BY <1>6, <1>7, <2>1, UpTo
<1> QED
  BY <1>5, <1>8

\* No sequences join to the empty one.
LEMMA FlattenNone == FlattenSeq([k \in 1..0 |-> k]) = <<>>
<1>1. PICK s : s = [k \in 1..0 |-> k]
  OBVIOUS
<1>2. s = <<>> /\ Len(s) = 0
  BY <1>1
<1>3. FlattenSeq(s) = s
  BY <1>2, Zenon DEF FlattenSeq
<1> QED
  BY <1>1, <1>2, <1>3

\* The same from nothing: f[k] joins the first k.
Joins(f, n, m) == f[0] = <<>> /\ \A i \in 1..n : f[i] = f[i - 1] \o m[i]

\* There always is such a row of sequences.
LEMMA JoinsExist ==
  ASSUME NEW n \in Nat, NEW m \in [1..n -> Seq(Nat)]
  PROVE  \E f \in [0..n -> Seq(Nat)] : Joins(f, n, m)
<1> DEFINE U == {k \in 0..n : \E f \in [0..k -> Seq(Nat)] : Joins(f, k, m)}
<1>1. 0 \in U
  <2>1. PICK f : f = [i \in 0..0 |-> <<>>]
    OBVIOUS
  <2>2. f \in [0..0 -> Seq(Nat)] /\ Joins(f, 0, m)
    BY <2>1 DEF Joins
  <2> QED
    BY <2>2
<1>2. ASSUME NEW k \in 1..n, k - 1 \in U PROVE k \in U
  <2>1. PICK f \in [0..k - 1 -> Seq(Nat)] : Joins(f, k - 1, m)
    BY <1>2
  <2>2. PICK h : h = [i \in 0..k |-> IF i = k THEN f[k - 1] \o m[k] ELSE f[i]]
    OBVIOUS
  <2>3. f[k - 1] \o m[k] \in Seq(Nat)
    <3>1. f[k - 1] \in Seq(Nat) /\ m[k] \in Seq(Nat)
      OBVIOUS
    <3> QED
      BY <3>1, ConcatProperties
  <2>4. h \in [0..k -> Seq(Nat)]
    BY <2>2, <2>3
  <2>5. \A i \in 1..k : h[i] = h[i - 1] \o m[i]
    <3>1. h[k] = h[k - 1] \o m[k]
      <4>1. h[k] = f[k - 1] \o m[k] /\ h[k - 1] = f[k - 1]
        BY <2>2
      <4> QED
        BY <4>1, Zenon
    <3>2. ASSUME NEW i \in 1..k - 1 PROVE h[i] = h[i - 1] \o m[i]
      <4>1. h[i] = f[i] /\ h[i - 1] = f[i - 1]
        BY <2>2
      <4>2. f[i] = f[i - 1] \o m[i]
        BY <2>1 DEF Joins
      <4> QED
        BY <4>1, <4>2
    <3>3. \A i \in 1..k : i = k \/ i \in 1..k - 1
      OBVIOUS
    <3> QED
      BY <3>1, <3>2, <3>3, Zenon
  <2>6. h[0] = <<>>
    BY <2>1, <2>2 DEF Joins
  <2>7. Joins(h, k, m)
    BY <2>5, <2>6 DEF Joins
  <2> QED
    BY <2>4, <2>7
<1>3. n \in U
  <2>1. n \in 0..n
    OBVIOUS
  <2> HIDE DEF U
  <2> QED
    BY <1>1, <1>2, <2>1, UpTo
<1> QED
  BY <1>3

\* FlattenSeq of the first k is what they join to.
LEMMA FlattenFirst ==
  ASSUME NEW n \in Nat, NEW m \in [1..n -> Seq(Nat)], NEW f \in [0..n -> Seq(Nat)],
         Joins(f, n, m), NEW k \in 0..n
  PROVE  FlattenSeq([i \in 1..k |-> m[i]]) = f[k]
<1>1. CASE k = 0
  <2>1. [i \in 1..k |-> m[i]] = [i \in 1..0 |-> i]
    BY <1>1
  <2>2. f[k] = <<>>
    BY <1>1 DEF Joins
  <2> QED
    BY <2>1, <2>2, FlattenNone, Zenon
<1>2. CASE k # 0
  <2>1. PICK g : g = [i \in 1..k |-> f[i]]
    OBVIOUS
  <2>2. PICK l : l = [i \in 1..k |-> m[i]]
    OBVIOUS
  <2>3. g \in [1..k -> Seq(Nat)] /\ l \in [1..k -> Seq(Nat)] /\ k \in Nat \ {0}
    BY <1>2, <2>1, <2>2
  <2>4. ASSUME NEW i \in 1..k PROVE g[i] = IF i = 1 THEN l[i] ELSE g[i - 1] \o l[i]
    <3>0. i \in 1..n /\ g[i] = f[i] /\ l[i] = m[i]
      BY <2>1, <2>2
    <3>1. f[i] = f[i - 1] \o m[i] /\ m[i] \in Seq(Nat)
      BY <3>0 DEF Joins
    <3>2. CASE i = 1
      <4>1. f[i - 1] = <<>>
        BY <3>2 DEF Joins
      <4>2. <<>> \o m[i] = m[i]
        BY <3>1, ConcatEmptySeq
      <4> QED
        BY <3>0, <3>1, <3>2, <4>1, <4>2
    <3>3. CASE i # 1
      <4>1. g[i - 1] = f[i - 1]
        BY <2>1, <3>3
      <4> QED
        BY <3>0, <3>1, <3>3, <4>1
    <3> QED
      BY <3>2, <3>3
  <2>5. Accumulated(g, k, l)
    BY <2>4 DEF Accumulated
  <2>6. FlattenSeq(l) = g[k]
    BY <2>3, <2>5, FlattenIs
  <2> QED
    BY <1>2, <2>1, <2>2, <2>6
<1> QED
  BY <1>1, <1>2

\* Consecutive pieces of a sequence join to the piece that they make up.
LEMMA FlattenPieces ==
  ASSUME NEW x \in Seq(Nat), NEW n \in Nat \ {0}, NEW c \in [0..n -> 0..Len(x)],
         \A i \in 1..n : c[i - 1] <= c[i],
         NEW m, m = [i \in 1..n |-> SubSeq(x, c[i - 1] + 1, c[i])]
  PROVE  FlattenSeq(m) = SubSeq(x, c[0] + 1, c[n])
<1>0. Len(x) \in Nat /\ \A i \in 0..n : c[i] \in 0..Len(x)
  BY LenProperties
<1> DEFINE U == {k \in 0..n : c[0] <= c[k]}
<1>1. \A k \in 0..n : k \in U
  <2>1. 0 \in U
    BY <1>0
  <2>2. ASSUME NEW k \in 1..n, k - 1 \in U PROVE k \in U
    <3>1. c[k - 1] <= c[k] /\ c[0] <= c[k - 1]
      BY <2>2
    <3>2. k \in 0..n /\ 0 \in 0..n /\ k - 1 \in 0..n
      OBVIOUS
    <3>3. c[0] \in Nat /\ c[k] \in Nat /\ c[k - 1] \in Nat
      BY <1>0, <3>2
    <3> QED
      BY <3>1, <3>2, <3>3
  <2> HIDE DEF U
  <2> QED
    BY <2>1, <2>2, UpTo
<1>2. \A k \in 0..n : c[0] <= c[k]
  BY <1>1
<1> DEFINE P(i, j) == SubSeq(x, i, j)
<1>3. ASSUME NEW i \in 0..Len(x), NEW j \in 0..Len(x) PROVE P(i + 1, j) \in Seq(Nat)
  <2>0. \A k \in 1..Len(x) : x[k] \in Nat
    BY ElementOfSeq
  <2>1. \A k \in i + 1..j : x[k] \in Nat
    BY <1>0, <2>0
  <2> QED
    BY <1>0, <2>1, SubSeqProperties
<1>4. ASSUME NEW i \in 0..Len(x), NEW j \in i..Len(x), NEW k \in j..Len(x)
      PROVE  P(i + 1, j) \o P(j + 1, k) = P(i + 1, k)
  <2>1. i + 1 \in 1..Len(x) + 1 /\ j \in (i + 1) - 1..Len(x)
    BY <1>0
  <2> QED
    BY <2>1, ConcatAdjacentSubSeq
<1> HIDE DEF P
<1>5. m = [i \in 1..n |-> P(c[i - 1] + 1, c[i])]
  BY Zenon DEF P
<1>6. PICK g : g = [i \in 1..n |-> P(c[0] + 1, c[i])]
  OBVIOUS
<1>7. m \in [1..n -> Seq(Nat)] /\ g \in [1..n -> Seq(Nat)]
  <2>1. \A i \in 1..n : i \in 0..n /\ i - 1 \in 0..n /\ 0 \in 0..n
    OBVIOUS
  <2>2. \A i \in 1..n : P(c[i - 1] + 1, c[i]) \in Seq(Nat) /\ P(c[0] + 1, c[i]) \in Seq(Nat)
    BY <1>0, <1>3, <2>1
  <2> QED
    BY <1>5, <1>6, <2>2
<1>8. ASSUME NEW i \in 1..n PROVE g[i] = IF i = 1 THEN m[i] ELSE g[i - 1] \o m[i]
  <2>0. i \in 0..n /\ i - 1 \in 0..n /\ 0 \in 0..n
    OBVIOUS
  <2>1. g[i] = P(c[0] + 1, c[i]) /\ m[i] = P(c[i - 1] + 1, c[i])
    BY <1>5, <1>6
  <2>2. CASE i = 1
    <3>1. i - 1 = 0
      BY <2>2
    <3> QED
      BY <2>1, <2>2, <3>1
  <2>3. CASE i # 1
    <3>1. g[i - 1] = P(c[0] + 1, c[i - 1])
      BY <1>6, <2>3
    <3>2. PICK d \in 0..Len(x), e \in 0..Len(x), f \in 0..Len(x) :
            d = c[0] /\ e = c[i - 1] /\ f = c[i]
      BY <1>0, <2>0
    <3>3. d <= e /\ e <= f
      BY <1>2, <2>0, <3>2
    <3>4. e \in d..Len(x) /\ f \in e..Len(x)
      BY <1>0, <3>3
    <3>5. P(d + 1, e) \o P(e + 1, f) = P(d + 1, f)
      BY <1>4, <3>4
    <3> QED
      BY <2>1, <2>3, <3>1, <3>2, <3>5
  <2> QED
    BY <2>2, <2>3
<1>9. FlattenSeq(m) = g[n]
  <2>1. Accumulated(g, n, m)
    BY <1>8 DEF Accumulated
  <2> QED
    BY <1>7, <2>1, FlattenIs
<1>10. n \in 1..n
  OBVIOUS
<1> QED
  BY <1>6, <1>9, <1>10 DEF P

-----------------------------------------------------------------------------
(* The stream                                                              *)

\* The bytes of NAL i, its prefix and its header among them.
Size(i) == Nals[i].prefix + 1 + Len(Nals[i].body)

\* What the recorder is assumed to encode, NAL by NAL.
LEMMA NalsAre ==
  /\ Nals \in Seq([prefix : {3, 4}, header : 1..255, body : Seq(0..255)])
  /\ Len(Nals) \in Nat /\ DOMAIN Nals = 1..Len(Nals)
  /\ \A i \in 1..Len(Nals) :
       /\ Nals[i].prefix \in {3, 4} /\ Nals[i].header \in 1..255
       /\ Nals[i].body \in Seq(0..255) /\ Len(Nals[i].body) \in Nat
       /\ Size(i) \in Nat /\ Size(i) >= 4
<1>1. Nals \in Seq([prefix : {3, 4}, header : 1..255, body : Seq(0..255)])
  BY SourceAssumption
<1>2. Len(Nals) \in Nat /\ DOMAIN Nals = 1..Len(Nals)
  BY <1>1
<1>3. ASSUME NEW i \in 1..Len(Nals)
      PROVE  /\ Nals[i].prefix \in {3, 4} /\ Nals[i].header \in 1..255
             /\ Nals[i].body \in Seq(0..255) /\ Len(Nals[i].body) \in Nat
             /\ Size(i) \in Nat /\ Size(i) >= 4
  <2>1. Nals[i] \in [prefix : {3, 4}, header : 1..255, body : Seq(0..255)]
    BY <1>1, ElementOfSeq
  <2>2. /\ Nals[i].prefix \in {3, 4} /\ Nals[i].header \in 1..255
        /\ Nals[i].body \in Seq(0..255)
    BY <2>1
  <2>3. Len(Nals[i].body) \in Nat
    BY <2>2, LenProperties
  <2> QED
    BY <2>2, <2>3 DEF Size
<1> QED
  BY <1>1, <1>2, <1>3

\* The bytes of a NAL,
LEMMA EncodedBytes ==
  ASSUME NEW i \in 1..Len(Nals)
  PROVE  /\ Encoded(Nals[i]) \in Seq(Nat) /\ Len(Encoded(Nals[i])) = Size(i)
         /\ \A j \in 1..Size(i) :
              Encoded(Nals[i])[j] =
                IF j < Nals[i].prefix THEN 0
                ELSE IF j = Nals[i].prefix THEN 1
                ELSE IF j = Nals[i].prefix + 1 THEN Nals[i].header
                ELSE Nals[i].body[j - Nals[i].prefix - 1]
<1>1. PICK r \in {3, 4}, h \in 1..255, b \in Seq(0..255) :
        r = Nals[i].prefix /\ h = Nals[i].header /\ b = Nals[i].body
  BY NalsAre, Zenon
<1>2. PICK z : z = IF r = 4 THEN <<0, 0, 0, 1>> ELSE <<0, 0, 1>>
  OBVIOUS
<1>3. z \in Seq(Nat) /\ Len(z) = r /\ \A j \in 1..r : z[j] = IF j < r THEN 0 ELSE 1
  <2>1. CASE r = 4
    BY <1>2, <2>1
  <2>2. CASE r = 3
    BY <1>2, <2>2
  <2> QED
    BY <2>1, <2>2
<1>4. PICK x : x = z \o <<h>>
  OBVIOUS
<1>5. /\ x \in Seq(Nat) /\ Len(x) = r + 1
      /\ \A j \in 1..r + 1 : x[j] = IF j < r THEN 0 ELSE IF j = r THEN 1 ELSE h
  <2>1. << h >> \in Seq(Nat) /\ Len(<< h >>) = 1 /\ << h >>[1] = h
    OBVIOUS
  <2>2. x \in Seq(Nat) /\ Len(x) = r + 1
    BY <1>3, <1>4, <2>1, ConcatProperties
  <2>3. \A j \in 1..r + 1 : x[j] = IF j <= r THEN z[j] ELSE << h >>[j - r]
    BY <1>3, <1>4, <2>1, ConcatProperties
  <2> QED
    BY <1>3, <2>1, <2>2, <2>3
<1>6. PICK y : y = x \o b
  OBVIOUS
<1>7. b \in Seq(Nat) /\ Len(b) \in Nat
  <2>1. 0..255 \subseteq Nat
    OBVIOUS
  <2>2. \A s \in Seq(0..255) : s \in Seq(Nat)
    BY <2>1, SeqMonotonic, Zenon
  <2>3. b \in Seq(Nat)
    BY <2>2
  <2> QED
    BY <2>3, LenProperties
<1>8. /\ y \in Seq(Nat) /\ Len(y) = r + 1 + Len(b)
      /\ \A j \in 1..r + 1 + Len(b) : y[j] = IF j <= r + 1 THEN x[j] ELSE b[j - (r + 1)]
  BY <1>5, <1>6, <1>7, ConcatProperties
<1>9. Encoded(Nals[i]) = y
  BY <1>1, <1>2, <1>4, <1>6, Zenon DEF Encoded
<1>10. Size(i) = r + 1 + Len(b)
  BY <1>1 DEF Size
<1>11. ASSUME NEW j \in 1..Size(i)
       PROVE y[j] = IF j < r THEN 0 ELSE IF j = r THEN 1 ELSE IF j = r + 1 THEN h
                    ELSE b[j - r - 1]
  <2>1. j \in 1..r + 1 + Len(b)
    BY <1>10
  <2>2. j <= r + 1 => j \in 1..r + 1
    OBVIOUS
  <2>3. j - (r + 1) = j - r - 1 /\ j \in Nat
    OBVIOUS
  <2>4. CASE j <= r + 1
    <3>1. y[j] = x[j]
      BY <1>8, <2>1, <2>4, Zenon
    <3>2. x[j] = IF j < r THEN 0 ELSE IF j = r THEN 1 ELSE h
      BY <1>5, <2>2, <2>4, Zenon
    <3>3. j < r \/ j = r \/ j = r + 1
      BY <2>3, <2>4
    <3> QED
      BY <3>1, <3>2, <3>3, Zenon
  <2>5. CASE ~(j <= r + 1)
    <3>1. y[j] = b[j - r - 1]
      BY <1>8, <2>1, <2>3, <2>5, Zenon
    <3>2. ~(j < r) /\ j # r /\ j # r + 1
      BY <2>3, <2>5
    <3> QED
      BY <3>1, <3>2, Zenon
  <2> QED
    BY <2>4, <2>5
<1> QED
  BY <1>1, <1>8, <1>9, <1>10, <1>11

\* and where they are in the stream.
LEMMA StreamBytes ==
  /\ Stream \in Seq(Nat) /\ Offset(0) = 0 /\ Offset(Len(Nals)) = Len(Stream)
  /\ \A i \in 0..Len(Nals) : Offset(i) \in Nat
  /\ \A i \in 1..Len(Nals) :
       /\ Offset(i) = Offset(i - 1) + Size(i)
       /\ \A j \in 1..Size(i) : Stream[Offset(i - 1) + j] = Encoded(Nals[i])[j]
<1>1. PICK n \in Nat : n = Len(Nals)
  BY NalsAre
<1>2. PICK m : m = [i \in 1..n |-> Encoded(Nals[i])]
  OBVIOUS
<1>3. m \in [1..n -> Seq(Nat)] /\ \A i \in 1..n : Len(m[i]) = Size(i)
  BY <1>1, <1>2, EncodedBytes
<1>4. PICK f \in [0..n -> Seq(Nat)] : Joins(f, n, m)
  BY <1>3, JoinsExist
<1>5. \A k \in 0..n : FlattenSeq([i \in 1..k |-> m[i]]) = f[k]
  BY <1>3, <1>4, FlattenFirst
<1>6. ASSUME NEW k \in 0..n PROVE Offset(k) = Len(f[k]) /\ f[k] \in Seq(Nat) /\ Len(f[k]) \in Nat
  <2>1. [i \in 1..k |-> m[i]] = [i \in 1..k |-> Encoded(Nals[i])]
    <3>1. \A i \in 1..k : i \in 1..n
      OBVIOUS
    <3>2. \A i \in 1..k : m[i] = Encoded(Nals[i])
      BY <1>2, <3>1
    <3> QED
      BY <3>2, Zenon
  <2>2. f[k] \in Seq(Nat)
    OBVIOUS
  <2> QED
    BY <1>5, <2>1, <2>2, LenProperties DEF Offset
<1>7. Stream = f[n]
  <2>1. DOMAIN Nals = 1..n
    BY <1>1, NalsAre
  <2>2. n \in 0..n
    OBVIOUS
  <2>3. Stream = FlattenSeq(m)
    BY <1>2, <2>1, Zenon DEF Stream
  <2>4. [i \in 1..n |-> m[i]] = m
    BY <1>3
  <2> QED
    BY <1>5, <2>2, <2>3, <2>4
<1>8. ASSUME NEW k \in 1..n
      PROVE  /\ f[k] = f[k - 1] \o m[k]
             /\ f[k - 1] \in Seq(Nat) /\ m[k] \in Seq(Nat) /\ f[k] \in Seq(Nat)
             /\ Len(f[k]) = Len(f[k - 1]) + Size(k)
             /\ \A j \in 1..Len(f[k - 1]) : f[k][j] = f[k - 1][j]
             /\ \A j \in 1..Size(k) : f[k][Len(f[k - 1]) + j] = m[k][j]
  <2>1. f[k] = f[k - 1] \o m[k]
    BY <1>4 DEF Joins
  <2>2. f[k - 1] \in Seq(Nat) /\ m[k] \in Seq(Nat) /\ Len(m[k]) = Size(k)
    BY <1>3
  <2>3. PICK p \in Seq(Nat), q \in Seq(Nat) : p = f[k - 1] /\ q = m[k]
    BY <2>2
  <2>9. PICK y : y = p \o q
    OBVIOUS
  <2>4. y \in Seq(Nat) /\ Len(y) = Len(p) + Len(q)
        /\ \A j \in 1..Len(p) + Len(q) : y[j] = IF j <= Len(p) THEN p[j] ELSE q[j - Len(p)]
    BY <2>9, ConcatProperties
  <2>5. Len(p) \in Nat /\ Len(q) \in Nat
    BY LenProperties
  <2>6. \A j \in 1..Len(p) : y[j] = p[j]
    <3>1. \A j \in 1..Len(p) : j \in 1..Len(p) + Len(q) /\ j <= Len(p)
      BY <2>5
    <3> QED
      BY <2>4, <3>1, Zenon
  <2>7. \A j \in 1..Len(q) : y[Len(p) + j] = q[j]
    <3>1. \A j \in 1..Len(q) : /\ Len(p) + j \in 1..Len(p) + Len(q)
                             /\ ~(Len(p) + j <= Len(p)) /\ (Len(p) + j) - Len(p) = j
      BY <2>5
    <3> QED
      BY <2>4, <3>1
  <2>8. f[k] = y
    BY <2>1, <2>3, <2>9
  <2> QED
    BY <2>1, <2>2, <2>3, <2>4, <2>6, <2>7, <2>8
\* What is joined stays.
<1>9. ASSUME NEW i \in 0..n, NEW j \in 1..Len(f[i]) PROVE f[n][j] = f[i][j]
  <2> DEFINE U == {k \in 0..n : k >= i => j \in 1..Len(f[k]) /\ f[k][j] = f[i][j]}
  <2>1. 0 \in U
    <3>1. 0 >= i => i = 0
      OBVIOUS
    <3> QED
      BY <3>1
  <2>2. ASSUME NEW k \in 1..n, k - 1 \in U PROVE k \in U
    <3>1. CASE k > i
      <4>1. j \in 1..Len(f[k - 1]) /\ f[k - 1][j] = f[i][j]
        BY <2>2, <3>1
      <4>2. f[k][j] = f[k - 1][j] /\ Len(f[k]) = Len(f[k - 1]) + Size(k)
        BY <1>8, <4>1
      <4>3. Size(k) \in Nat /\ k - 1 \in 0..n
        BY <1>1, NalsAre
      <4>4. Len(f[k - 1]) \in Nat
        BY <1>6, <4>3
      <4> QED
        BY <4>1, <4>2, <4>3, <4>4
    <3>2. CASE k = i
      BY <3>2
    <3>3. CASE k < i
      BY <3>3
    <3> QED
      BY <3>1, <3>2, <3>3
  <2>3. n \in U
    <3>1. n \in 0..n
      OBVIOUS
    <3> HIDE DEF U
    <3> QED
      BY <2>1, <2>2, <3>1, UpTo
  <2> QED
    BY <2>3
<1>10. Stream \in Seq(Nat) /\ Offset(0) = 0 /\ Offset(n) = Len(Stream)
  <2>1. 0 \in 0..n /\ n \in 0..n
    OBVIOUS
  <2>2. Len(f[0]) = 0
    BY <1>4 DEF Joins
  <2> QED
    BY <1>6, <1>7, <2>1, <2>2
<1>11. ASSUME NEW i \in 1..n
       PROVE  /\ Offset(i) = Offset(i - 1) + Size(i)
              /\ \A j \in 1..Size(i) : Stream[Offset(i - 1) + j] = Encoded(Nals[i])[j]
  <2>0. i \in 0..n /\ i - 1 \in 0..n /\ Size(i) \in Nat
    BY <1>1, NalsAre
  <2>1. Offset(i) = Len(f[i]) /\ Offset(i - 1) = Len(f[i - 1]) /\ Len(f[i - 1]) \in Nat
    BY <1>6, <2>0
  <2>2. Len(f[i]) = Len(f[i - 1]) + Size(i)
    BY <1>8
  <2>3. ASSUME NEW j \in 1..Size(i) PROVE Stream[Offset(i - 1) + j] = Encoded(Nals[i])[j]
    <3>1. Len(f[i - 1]) + j \in 1..Len(f[i])
      BY <2>0, <2>1, <2>2
    <3>2. f[n][Len(f[i - 1]) + j] = f[i][Len(f[i - 1]) + j]
      BY <1>9, <2>0, <3>1
    <3>3. f[i][Len(f[i - 1]) + j] = m[i][j]
      BY <1>8
    <3>4. m[i] = Encoded(Nals[i])
      BY <1>2
    <3> QED
      BY <1>7, <2>1, <3>2, <3>3, <3>4
  <2> QED
    BY <2>1, <2>2, <2>3
<1> QED
  BY <1>1, <1>6, <1>10, <1>11

\* NALs lie one behind the other,
LEMMA OffsetsGrow ==
  ASSUME NEW i \in 0..Len(Nals), NEW j \in 0..Len(Nals)
  PROVE  /\ i <= j => Offset(i) <= Offset(j)
         /\ i < j => Offset(i) + Size(i + 1) <= Offset(j)
<1>1. PICK n \in Nat : n = Len(Nals)
  BY NalsAre
<1>2. \A k \in 0..n : Offset(k) \in Nat
  BY <1>1, StreamBytes
<1>3. \A k \in 1..n : Offset(k) = Offset(k - 1) + Size(k) /\ Size(k) \in Nat
  BY <1>1, StreamBytes, NalsAre
<1>4. ASSUME NEW l \in 0..n PROVE \A k \in 0..n : l <= k => Offset(l) <= Offset(k)
  <2> DEFINE U == {k \in 0..n : l <= k => Offset(l) <= Offset(k)}
  <2>1. 0 \in U
    <3>1. 0 <= l => (l <= 0 => l = 0)
      OBVIOUS
    <3> QED
      BY <1>2, <3>1
  <2>2. ASSUME NEW k \in 1..n, k - 1 \in U PROVE k \in U
    <3>1. CASE l <= k - 1
      <4>1. k - 1 \in 0..n /\ k \in 0..n
        OBVIOUS
      <4>2. Offset(l) \in Nat /\ Offset(k) \in Nat /\ Offset(k - 1) \in Nat
        BY <1>2, <4>1
      <4> QED
        BY <1>3, <2>2, <3>1, <4>1, <4>2
    <3>2. CASE l = k
      BY <1>2, <3>2
    <3>3. CASE l > k
      BY <3>3
    <3> QED
      BY <3>1, <3>2, <3>3
  <2>3. \A k \in 0..n : k \in U
    <3> HIDE DEF U
    <3> QED
      BY <2>1, <2>2, UpTo
  <2> QED
    BY <2>3
<1>5. i <= j => Offset(i) <= Offset(j)
  BY <1>1, <1>4
<1>6. ASSUME i < j PROVE Offset(i) + Size(i + 1) <= Offset(j)
  <2>1. i + 1 \in 1..n /\ i + 1 \in 0..n /\ i + 1 <= j /\ (i + 1) - 1 = i
    BY <1>1, <1>6
  <2>2. Offset(i + 1) = Offset(i) + Size(i + 1)
    BY <1>3, <2>1
  <2>3. Offset(i + 1) <= Offset(j)
    BY <1>1, <1>4, <2>1
  <2> QED
    BY <2>2, <2>3
<1> QED
  BY <1>5, <1>6

\* every byte is in one of them,
LEMMA InSomeNal ==
  ASSUME NEW q \in 1..Len(Stream)
  PROVE  \E i \in 1..Len(Nals) : q \in Offset(i - 1) + 1..Offset(i)
<1>1. PICK n \in Nat : n = Len(Nals)
  BY NalsAre
<1>2. \A k \in 0..n : Offset(k) \in Nat
  BY <1>1, StreamBytes
<1>3. Offset(0) = 0 /\ Offset(n) = Len(Stream)
  BY <1>1, StreamBytes
<1> DEFINE U == {k \in 0..n : q <= Offset(k)}
<1>4. n \in U
  <2>1. n \in 0..n /\ Offset(n) \in Nat
    BY <1>2
  <2> QED
    BY <1>3, <2>1
<1>5. PICK i \in U : \A k \in U : i <= k
  <2>1. U \subseteq Nat /\ U # {}
    BY <1>4
  <2> HIDE DEF U
  <2> QED
    BY <2>1, Least
<1>6. i \in 1..n
  BY <1>3, <1>5
<1>7. i - 1 \notin U /\ i - 1 \in 0..n /\ i \in 0..n
  BY <1>5, <1>6
<1>8. ~(q <= Offset(i - 1)) /\ q <= Offset(i) /\ Offset(i - 1) \in Nat /\ Offset(i) \in Nat
  BY <1>2, <1>5, <1>7
<1> QED
  BY <1>1, <1>6, <1>8

\* and the last byte of one is no zero.
LEMMA LastByte ==
  ASSUME NEW i \in 1..Len(Nals)
  PROVE  Offset(i) \in 1..Len(Stream) /\ Stream[Offset(i)] # 0
<1>1. PICK n \in Nat : n = Len(Nals)
  BY NalsAre
<1>2. PICK r \in {3, 4}, h \in 1..255, b \in Seq(0..255) :
        r = Nals[i].prefix /\ h = Nals[i].header /\ b = Nals[i].body
  BY NalsAre, Zenon
<1>3. Len(b) \in Nat /\ Size(i) = r + 1 + Len(b) /\ Size(i) \in 1..Size(i) /\ Size(i) \in Nat
  <2>1. PICK l \in Nat : l = Len(b)
    BY <1>2, LenProperties, Zenon
  <2>2. Size(i) = r + 1 + l
    BY <1>2, <2>1, Zenon DEF Size
  <2>3. r + 1 + l \in Nat /\ r + 1 + l \in 1..r + 1 + l
    OBVIOUS
  <2> QED
    BY <2>1, <2>2, <2>3, Zenon
<1>4. Offset(i) = Offset(i - 1) + Size(i) /\ Stream[Offset(i - 1) + Size(i)] = Encoded(Nals[i])[Size(i)]
  BY <1>3, StreamBytes
<1>5. Encoded(Nals[i])[Size(i)] # 0
  <2>1. CASE Len(b) = 0
    <3>1. Encoded(Nals[i])[Size(i)] = h
      <4>1. ~(Size(i) < r) /\ Size(i) # r /\ Size(i) = r + 1
        BY <1>3, <2>1
      <4> QED
        BY <1>2, <1>3, <4>1, EncodedBytes
    <3> QED
      BY <3>1
  <2>2. CASE Len(b) # 0
    <3>1. Encoded(Nals[i])[Size(i)] = b[Len(b)]
      <4>1. ~(Size(i) < r) /\ Size(i) # r /\ Size(i) # r + 1 /\ Size(i) - r - 1 = Len(b)
        BY <1>3, <2>2
      <4> QED
        BY <1>2, <1>3, <4>1, EncodedBytes
    <3>2. Nals[i] \in ToSet(Nals)
      BY NalsAre DEF ToSet
    <3>3. b # <<>> => Last(b) # 0
      BY <1>2, <3>2, EmulationAssumption
    <3>4. b # <<>>
      BY <2>2
    <3> QED
      BY <3>1, <3>3, <3>4 DEF Last
  <2> QED
    BY <2>1, <2>2
<1>6. i \in 0..n /\ n \in 0..n /\ i - 1 \in 0..n
  BY <1>1
<1>7. Offset(i) <= Offset(n) /\ Offset(i) \in Nat /\ Offset(n) = Len(Stream) /\ Offset(i - 1) \in Nat
  BY <1>1, <1>6, OffsetsGrow, StreamBytes
<1>8. Size(i) >= 4
  BY NalsAre
<1> QED
  BY <1>3, <1>4, <1>5, <1>7, <1>8

\* Hence 00 00 01 is in the stream where a prefix is,
LEMMA StartsInStream ==
  ASSUME NEW q \in 1..Len(Stream), q + 2 <= Len(Stream)
  PROVE  (Stream[q] = 0 /\ Stream[q + 1] = 0 /\ Stream[q + 2] = 1)
           <=> \E i \in 1..Len(Nals) : q = Offset(i - 1) + Nals[i].prefix - 2
<1>1. ASSUME NEW i \in 1..Len(Nals), q = Offset(i - 1) + Nals[i].prefix - 2
      PROVE  Stream[q] = 0 /\ Stream[q + 1] = 0 /\ Stream[q + 2] = 1
  <2>1. PICK r \in 3..4 : r = Nals[i].prefix
    <3>1. Nals[i].prefix \in {3, 4}
      BY NalsAre
    <3> QED
      BY <3>1
  <2>2. Size(i) >= r /\ Size(i) \in Nat /\ Offset(i - 1) \in Nat
    <3>1. i - 1 \in 0..Len(Nals) /\ Len(Nals[i].body) \in Nat
      BY NalsAre
    <3>2. PICK l \in Nat : l = Len(Nals[i].body)
      BY <3>1
    <3>3. Size(i) = r + 1 + l
      BY <2>1, <3>2, Zenon DEF Size
    <3>4. Offset(i - 1) \in Nat
      BY <3>1, StreamBytes
    <3>5. r + 1 + l \in Nat /\ r + 1 + l >= r
      BY <2>1
    <3> QED
      BY <3>3, <3>4, <3>5, Zenon
  <2>3. \A j \in 1..Size(i) : j <= r =>
          Stream[Offset(i - 1) + j] = IF j < r THEN 0 ELSE 1
    <3>1. ASSUME NEW j \in 1..Size(i), j <= r
          PROVE Stream[Offset(i - 1) + j] = IF j < r THEN 0 ELSE 1
      <4>1. Stream[Offset(i - 1) + j] = Encoded(Nals[i])[j]
        BY StreamBytes
      <4>2. Encoded(Nals[i])[j] = IF j < r THEN 0 ELSE 1
        <5>1. j < r \/ j = r
          BY <2>1, <3>1
        <5> QED
          BY <2>1, <5>1, EncodedBytes
      <4> QED
        BY <4>1, <4>2
    <3> QED
      BY <3>1
  <2>4. r - 2 \in 1..Size(i) /\ r - 1 \in 1..Size(i) /\ r \in 1..Size(i)
    BY <2>2
  <2>5. /\ Stream[Offset(i - 1) + (r - 2)] = 0
        /\ Stream[Offset(i - 1) + (r - 1)] = 0
        /\ Stream[Offset(i - 1) + r] = 1
    BY <2>3, <2>4
  <2>6. /\ q = Offset(i - 1) + (r - 2) /\ q + 1 = Offset(i - 1) + (r - 1)
        /\ q + 2 = Offset(i - 1) + r
    <3>1. PICK o \in Nat : o = Offset(i - 1)
      BY <2>2
    <3>2. q = o + r - 2
      BY <1>1, <2>1, <3>1, Zenon
    <3>3. q = o + (r - 2) /\ q + 1 = o + (r - 1) /\ q + 2 = o + r
      BY <3>2
    <3> QED
      BY <3>1, <3>3, Zenon
  <2> QED
    BY <2>5, <2>6
<1>2. ASSUME Stream[q] = 0, Stream[q + 1] = 0, Stream[q + 2] = 1
      PROVE  \E i \in 1..Len(Nals) : q = Offset(i - 1) + Nals[i].prefix - 2
  <2>1. PICK i \in 1..Len(Nals) : q \in Offset(i - 1) + 1..Offset(i)
    BY InSomeNal
  <2>2. PICK r \in {3, 4}, h \in 1..255, b \in Seq(0..255) :
          r = Nals[i].prefix /\ h = Nals[i].header /\ b = Nals[i].body
    BY NalsAre, Zenon
  <2>3. PICK o \in Nat : o = Offset(i - 1)
    <3>1. i - 1 \in 0..Len(Nals)
      BY NalsAre
    <3> QED
      BY <3>1, StreamBytes
  <2>4. PICK k \in Nat : k = q - o
    BY <2>1, <2>3
  <2>5. Len(b) \in Nat /\ Size(i) = r + 1 + Len(b) /\ Offset(i) = o + Size(i)
    BY <2>2, <2>3, LenProperties, StreamBytes DEF Size
  <2>6. k \in 1..Size(i) /\ q = o + k
    <3>1. PICK t \in Nat : t = Size(i)
      BY NalsAre
    <3>2. q \in o + 1..o + t
      BY <2>1, <2>3, <2>5, <3>1, Zenon
    <3>3. k \in 1..t /\ q = o + k
      BY <2>4, <3>2
    <3> QED
      BY <3>1, <3>3, Zenon
  <2>7. Stream[o + Size(i)] # 0
    BY <2>5, LastByte
  <2>8. k + 2 <= Size(i)
    <3>1. q # o + Size(i) /\ q + 1 # o + Size(i)
      BY <1>2, <2>7, Zenon
    <3>2. PICK t \in Nat : t = Size(i)
      BY NalsAre
    <3>3. k \in 1..t /\ q = o + k /\ q # o + t /\ q + 1 # o + t
      BY <2>6, <3>1, <3>2, Zenon
    <3>4. k + 2 <= t
      BY <3>3
    <3> QED
      BY <3>2, <3>4, Zenon
  <2>9. \A j \in 1..Size(i) : Stream[o + j] =
          IF j < r THEN 0 ELSE IF j = r THEN 1 ELSE IF j = r + 1 THEN h ELSE b[j - r - 1]
    <3> SUFFICES ASSUME NEW j \in 1..Size(i)
                 PROVE  Stream[o + j] = IF j < r THEN 0 ELSE IF j = r THEN 1
                                        ELSE IF j = r + 1 THEN h ELSE b[j - r - 1]
      OBVIOUS
    <3>1. Stream[o + j] = Encoded(Nals[i])[j]
      BY <2>3, StreamBytes
    <3>2. Encoded(Nals[i])[j] =
            IF j < Nals[i].prefix THEN 0
            ELSE IF j = Nals[i].prefix THEN 1
            ELSE IF j = Nals[i].prefix + 1 THEN Nals[i].header
            ELSE Nals[i].body[j - Nals[i].prefix - 1]
      BY EncodedBytes
    <3> QED
      BY <2>2, <3>1, <3>2, Zenon
  <2>10. k + 1 \in 1..Size(i) /\ k + 2 \in 1..Size(i)
    BY <2>5, <2>6, <2>8
  <2>11. Stream[o + k] = 0 /\ Stream[o + (k + 1)] = 0 /\ Stream[o + (k + 2)] = 1
    <3>1. q + 1 = o + (k + 1) /\ q + 2 = o + (k + 2)
      BY <2>6
    <3> QED
      BY <1>2, <2>6, <3>1
  <2>12. k <= r + 1
    <3> SUFFICES ASSUME k > r + 1 PROVE FALSE
      OBVIOUS
    <3>1. PICK l \in Nat : l = k - r - 1 /\ l >= 1
      OBVIOUS
    <3>2. k + 1 - r - 1 = l + 1 /\ k + 2 - r - 1 = l + 2
      BY <3>1
    <3> DEFINE Behind(j) == ~(j < r) /\ j # r /\ j # r + 1
    <3>11. Behind(k) /\ Behind(k + 1) /\ Behind(k + 2)
      OBVIOUS
    <3>10. \A j \in 1..Size(i) : Behind(j) => Stream[o + j] = b[j - r - 1]
      BY <2>9, Zenon
    <3> HIDE DEF Behind
    <3>3. b[l] = 0
      BY <2>6, <2>11, <3>1, <3>11, <3>10, Zenon
    <3>4. b[l + 1] = 0
      <4>1. Stream[o + (k + 1)] = b[k + 1 - r - 1]
        BY <2>10, <3>11, <3>10
      <4> QED
        BY <2>11, <3>2, <4>1, Zenon
    <3>5. b[l + 2] = 1
      <4>1. Stream[o + (k + 2)] = b[k + 2 - r - 1]
        BY <2>10, <3>11, <3>10
      <4> QED
        BY <2>11, <3>2, <4>1, Zenon
    <3>6. l + 2 <= Len(b)
      BY <2>5, <2>8, <3>1
    <3>7. Nals[i] \in ToSet(Nals)
      BY NalsAre DEF ToSet
    <3>8. l \in DOMAIN b => ~ThreeAt(b, l)
      BY <2>2, <3>7, EmulationAssumption
    <3>9. l \in DOMAIN b
      BY <2>5, <3>1, <3>6, LenProperties
    <3> QED
      BY <3>1, <3>3, <3>4, <3>5, <3>6, <3>8, <3>9 DEF ThreeAt
  <2>13. k # r + 1 /\ k # r /\ k + 1 # r
    <3>1. k = r + 1 => Stream[o + k] = h
      BY <2>6, <2>9
    <3>2. k = r => Stream[o + k] = 1
      BY <2>6, <2>9
    <3>3. k + 1 = r => Stream[o + (k + 1)] = 1
      BY <2>9, <2>10
    <3> QED
      BY <2>11, <3>1, <3>2, <3>3
  <2>14. ~(k + 2 < r)
    BY <2>9, <2>10, <2>11
  <2>15. q = o + r - 2
    BY <2>6, <2>12, <2>13, <2>14
  <2> QED
    BY <2>2, <2>3, <2>15
<1>3. (\E i \in 1..Len(Nals) : q = Offset(i - 1) + Nals[i].prefix - 2)
        => (Stream[q] = 0 /\ Stream[q + 1] = 0 /\ Stream[q + 2] = 1)
  BY <1>1, Zenon
<1>4. (Stream[q] = 0 /\ Stream[q + 1] = 0 /\ Stream[q + 2] = 1)
        => \E i \in 1..Len(Nals) : q = Offset(i - 1) + Nals[i].prefix - 2
  BY <1>2, Zenon
<1> QED
  BY <1>3, <1>4, Zenon

\* and it has a zero in front of it if the prefix has four bytes.
LEMMA FourByte ==
  ASSUME NEW i \in 1..Len(Nals), Offset(i - 1) + Nals[i].prefix - 3 >= 1
  PROVE  Stream[Offset(i - 1) + Nals[i].prefix - 3] = 0 <=> Nals[i].prefix = 4
<1>1. PICK r \in {3, 4} : r = Nals[i].prefix
  BY NalsAre
<1>2. PICK o \in Nat : o = Offset(i - 1)
  <2>1. i - 1 \in 0..Len(Nals)
    BY NalsAre
  <2> QED
    BY <2>1, StreamBytes
<1>3. CASE r = 4
  <2>1. 1 \in 1..Size(i)
    BY NalsAre
  <2>2. Stream[o + 1] = Encoded(Nals[i])[1]
    BY <1>2, <2>1, StreamBytes
  <2>3. Encoded(Nals[i])[1] = 0
    <3>1. 1 < Nals[i].prefix
      BY <1>1
    <3> QED
      BY <2>1, <3>1, EncodedBytes
  <2>4. o + r - 3 = o + 1
    BY <1>3
  <2> QED
    BY <1>1, <1>2, <1>3, <2>2, <2>3, <2>4
<1>4. CASE r = 3
  <2>1. o >= 1 /\ o + r - 3 = o
    BY <1>1, <1>2, <1>4
  <2>2. i # 1
    <3>1. i = 1 => o = 0
      BY <1>2, StreamBytes
    <3> QED
      BY <2>1, <3>1
  <2>3. i - 1 \in 1..Len(Nals)
    BY <2>2, NalsAre
  <2>4. Stream[o] # 0
    BY <1>2, <2>3, LastByte
  <2> QED
    BY <1>1, <1>2, <1>4, <2>1, <2>4
<1> QED
  BY <1>3, <1>4

-----------------------------------------------------------------------------
(* What is found in a buffer that begins with a NAL                        *)

\* Buffer(a, e) is what was read behind NAL a, up to byte e.
Buffer(a, e) == SubSeq(Stream, Offset(a) + 1, e)

\* The NALs whose prefix is in it.
Seen(a, e) == {i \in a + 1..Len(Nals) : Offset(i - 1) + Nals[i].prefix <= e}

\* Where a NAL lies, before or behind NAL a.
LEMMA NalPlaces ==
  ASSUME NEW a \in 0..Len(Nals), NEW i \in 1..Len(Nals)
  PROVE  /\ Offset(a) \in Nat /\ Offset(i - 1) \in Nat /\ Offset(i) \in Nat
         /\ Nals[i].prefix \in 3..4 /\ Size(i) \in Nat
         /\ Size(i) >= Nals[i].prefix + 1
         /\ Offset(i) = Offset(i - 1) + Size(i) /\ Offset(i) <= Len(Stream)
         /\ Len(Stream) \in Nat /\ i - 1 \in 0..Len(Nals) /\ i \in 0..Len(Nals)
         /\ i > a => Offset(a) <= Offset(i - 1)
         /\ i <= a => Offset(i) <= Offset(a)
<1>1. i - 1 \in 0..Len(Nals) /\ i \in 0..Len(Nals) /\ Len(Nals) \in 0..Len(Nals)
  BY NalsAre
<1>2. Offset(a) \in Nat /\ Offset(i - 1) \in Nat /\ Offset(i) \in Nat
  BY <1>1, StreamBytes
<1>3. /\ Nals[i].prefix \in 3..4 /\ Size(i) \in Nat
      /\ Size(i) >= Nals[i].prefix + 1
  <2>1. PICK r \in 3..4 : r = Nals[i].prefix
    <3>1. Nals[i].prefix \in {3, 4}
      BY NalsAre
    <3> QED
      BY <3>1
  <2>2. PICK l \in Nat : l = Len(Nals[i].body)
    BY NalsAre
  <2>3. Size(i) = r + 1 + l
    BY <2>1, <2>2 DEF Size
  <2>4. r + 1 + l \in Nat /\ r + 1 + l >= r + 1
    OBVIOUS
  <2> QED
    BY <2>1, <2>3, <2>4, Zenon
<1>4. Offset(i) = Offset(i - 1) + Size(i)
  BY StreamBytes
<1>5. Offset(i) <= Len(Stream) /\ Len(Stream) \in Nat
  BY <1>1, OffsetsGrow, StreamBytes
<1>6. i > a => Offset(a) <= Offset(i - 1)
  <2>1. i > a => a <= i - 1
    BY NalsAre
  <2> QED
    BY <1>1, <2>1, OffsetsGrow
<1>7. i <= a => Offset(i) <= Offset(a)
  BY <1>1, OffsetsGrow
<1> QED
  BY <1>1, <1>2, <1>3, <1>4, <1>5, <1>6, <1>7

\* The bytes of a buffer are those of the stream, further on.
LEMMA BufferIs ==
  ASSUME NEW a \in 0..Len(Nals), NEW e \in Offset(a)..Len(Stream)
  PROVE  /\ Buffer(a, e) \in Seq(Nat) /\ Len(Buffer(a, e)) = e - Offset(a)
         /\ \A q \in 1..e - Offset(a) : Buffer(a, e)[q] = Stream[Offset(a) + q]
<1>1. PICK o \in Nat : o = Offset(a)
  BY StreamBytes
<1>2. Len(Stream) \in Nat /\ \A k \in 1..Len(Stream) : Stream[k] \in Nat
  BY StreamBytes, LenProperties, ElementOfSeq
<1>3. o + 1 \in Int /\ e \in Int /\ \A k \in o + 1..e : Stream[k] \in Nat
  BY <1>1, <1>2
<1>4. /\ SubSeq(Stream, o + 1, e) \in Seq(Nat)
      /\ Len(SubSeq(Stream, o + 1, e)) = IF o + 1 <= e THEN e - (o + 1) + 1 ELSE 0
      /\ \A k \in 1..e - (o + 1) + 1 : SubSeq(Stream, o + 1, e)[k] = Stream[(o + 1) + k - 1]
  BY <1>3, SubSeqProperties
<1>5. Buffer(a, e) = SubSeq(Stream, o + 1, e)
  BY <1>1 DEF Buffer
<1>6. PICK x : x = Buffer(a, e)
  OBVIOUS
<1>7. e - (o + 1) + 1 = e - o /\ e >= o
  BY <1>1, <1>2
<1>8. Len(x) = e - o
  BY <1>3, <1>4, <1>5, <1>6, <1>7
<1>9. ASSUME NEW q \in 1..e - o PROVE x[q] = Stream[o + q]
  <2>1. (o + 1) + q - 1 = o + q
    BY <1>1
  <2> QED
    BY <1>4, <1>5, <1>6, <1>7, <2>1
<1> QED
  BY <1>1, <1>4, <1>5, <1>6, <1>8, <1>9

\* 00 00 01 is in a buffer where a prefix is,
LEMMA ThreeInBuffer ==
  ASSUME NEW a \in 0..Len(Nals), NEW e \in Offset(a)..Len(Stream), NEW q \in Nat
  PROVE  ThreeAt(Buffer(a, e), q)
           <=> \E i \in Seen(a, e) : q = Offset(i - 1) - Offset(a) + Nals[i].prefix - 2
<1>1. PICK o \in Nat : o = Offset(a)
  BY StreamBytes
<1>2. PICK x : x = Buffer(a, e)
  OBVIOUS
<1>3. Len(x) = e - o /\ \A k \in 1..e - o : x[k] = Stream[o + k]
  BY <1>1, <1>2, BufferIs
<1>4. Len(Stream) \in Nat /\ e \in o..Len(Stream)
  BY <1>1, StreamBytes, LenProperties
<1>5. ASSUME ThreeAt(x, q)
      PROVE  \E i \in Seen(a, e) : q = Offset(i - 1) - Offset(a) + Nals[i].prefix - 2
  <2>1. q >= 1 /\ q + 2 <= e - o /\ x[q] = 0 /\ x[q + 1] = 0 /\ x[q + 2] = 1
    BY <1>3, <1>5 DEF ThreeAt
  <2>2. q \in 1..e - o /\ q + 1 \in 1..e - o /\ q + 2 \in 1..e - o
    BY <1>4, <2>1
  <2>3. PICK p \in 1..Len(Stream) : p = o + q /\ p + 2 <= e
    BY <1>4, <2>1
  <2>4. p + 2 <= Len(Stream) /\ o + (q + 1) = p + 1 /\ o + (q + 2) = p + 2
    BY <1>4, <2>3
  <2>5. Stream[p] = 0 /\ Stream[p + 1] = 0 /\ Stream[p + 2] = 1
    BY <1>3, <2>1, <2>2, <2>3, <2>4
  <2>6. PICK i \in 1..Len(Nals) : p = Offset(i - 1) + Nals[i].prefix - 2
    BY <2>4, <2>5, StartsInStream
  <2>7. PICK r \in 3..4, f \in Nat : r = Nals[i].prefix /\ f = Offset(i - 1)
    BY NalPlaces
  <2>11. p = f + r - 2
    BY <2>6, <2>7, Zenon
  <2>8. i > a
    <3>1. i <= a => f + r + 1 <= o
      <4>1. PICK s \in Nat : s = Size(i)
        BY NalPlaces
      <4>2. i <= a => f + s <= o
        BY <1>1, <2>7, <4>1, NalPlaces
      <4>3. s >= r + 1
        BY <2>7, <4>1, NalPlaces
      <4> QED
        BY <4>2, <4>3
    <3>2. i \in Nat /\ a \in Nat
      BY NalsAre
    <3> QED
      BY <2>1, <2>3, <2>11, <3>1, <3>2
  <2>9. i \in Seen(a, e)
    <3>1. f + r <= e
      BY <2>3, <2>11
    <3>2. i \in a + 1..Len(Nals)
      BY <2>8, NalsAre
    <3> QED
      BY <2>7, <3>1, <3>2 DEF Seen
  <2>10. q = f - o + r - 2
    BY <2>3, <2>11
  <2> QED
    BY <1>1, <2>7, <2>9, <2>10
<1>6. ASSUME NEW i \in Seen(a, e), q = Offset(i - 1) - Offset(a) + Nals[i].prefix - 2
      PROVE  ThreeAt(x, q)
  <2>1. i \in 1..Len(Nals) /\ i > a
    BY NalsAre DEF Seen
  <2>2. PICK r \in 3..4, f \in Nat : r = Nals[i].prefix /\ f = Offset(i - 1)
    BY <2>1, NalPlaces
  <2>3. f + r <= e /\ o <= f
    BY <1>1, <2>1, <2>2, NalPlaces DEF Seen
  <2>4. q = f - o + r - 2
    BY <1>1, <1>6, <2>2
  <2>5. q >= 1 /\ q + 2 <= e - o
    BY <1>4, <2>3, <2>4
  <2>6. q \in 1..e - o /\ q + 1 \in 1..e - o /\ q + 2 \in 1..e - o
    BY <1>4, <2>5
  <2>7. PICK p \in 1..Len(Stream) : p = o + q /\ p + 2 <= Len(Stream)
    BY <1>4, <2>5
  <2>8. p = f + r - 2 /\ o + (q + 1) = p + 1 /\ o + (q + 2) = p + 2
    BY <2>4, <2>7
  <2>9. Stream[p] = 0 /\ Stream[p + 1] = 0 /\ Stream[p + 2] = 1
    BY <2>1, <2>2, <2>7, <2>8, StartsInStream
  <2>10. x[q] = 0 /\ x[q + 1] = 0 /\ x[q + 2] = 1
    BY <1>3, <2>6, <2>7, <2>8, <2>9
  <2> QED
    BY <1>3, <2>5, <2>10 DEF ThreeAt
<1>7. ThreeAt(x, q) => \E i \in Seen(a, e) : q = Offset(i - 1) - Offset(a) + Nals[i].prefix - 2
  BY <1>5, Zenon
<1>8. (\E i \in Seen(a, e) : q = Offset(i - 1) - Offset(a) + Nals[i].prefix - 2) => ThreeAt(x, q)
  BY <1>6, Zenon
<1> QED
  BY <1>2, <1>7, <1>8, Zenon

\* and 00 00 00 01 where one of four bytes is.
LEMMA FourInBuffer ==
  ASSUME NEW a \in 0..Len(Nals), NEW e \in Offset(a)..Len(Stream), NEW q \in Nat
  PROVE  FourAt(Buffer(a, e), q)
           <=> \E i \in Seen(a, e) : Nals[i].prefix = 4 /\ q = Offset(i - 1) - Offset(a) + 1
<1>1. PICK o \in Nat : o = Offset(a)
  BY StreamBytes
<1>2. PICK x : x = Buffer(a, e)
  OBVIOUS
<1>3. Len(x) = e - o /\ \A k \in 1..e - o : x[k] = Stream[o + k]
  BY <1>1, <1>2, BufferIs
<1>4. Len(Stream) \in Nat /\ e \in o..Len(Stream)
  BY <1>1, StreamBytes, LenProperties
<1>5. q + 1 \in Nat
  OBVIOUS
<1>6. ASSUME FourAt(x, q)
      PROVE  \E i \in Seen(a, e) : Nals[i].prefix = 4 /\ q = Offset(i - 1) - Offset(a) + 1
  <2>1. q >= 1 /\ x[q] = 0 /\ ThreeAt(x, q + 1)
    BY <1>6 DEF FourAt
  <2>2. PICK i \in Seen(a, e) : q + 1 = Offset(i - 1) - Offset(a) + Nals[i].prefix - 2
    BY <1>2, <1>5, <2>1, ThreeInBuffer
  <2>3. i \in 1..Len(Nals) /\ i > a
    BY NalsAre DEF Seen
  <2>4. PICK r \in 3..4, f \in Nat : r = Nals[i].prefix /\ f = Offset(i - 1)
    BY <2>3, NalPlaces
  <2>5. f + r <= e /\ q + 1 = f - o + r - 2
    BY <1>1, <2>2, <2>4 DEF Seen
  <2>10. o + q = f + r - 3
    BY <2>5
  <2>6. q \in 1..e - o /\ o + q = f + r - 3 /\ f + r - 3 >= 1
    BY <1>4, <2>1, <2>5, <2>10
  <2>7. Stream[f + r - 3] = 0
    BY <1>3, <2>1, <2>6
  <2>8. r = 4
    BY <2>3, <2>4, <2>6, <2>7, FourByte
  <2>9. q = f - o + 1
    BY <2>5, <2>8
  <2> QED
    BY <1>1, <2>4, <2>8, <2>9
<1>7. ASSUME NEW i \in Seen(a, e), Nals[i].prefix = 4, q = Offset(i - 1) - Offset(a) + 1
      PROVE  FourAt(x, q)
  <2>1. i \in 1..Len(Nals) /\ i > a
    BY NalsAre DEF Seen
  <2>2. PICK f \in Nat : f = Offset(i - 1)
    BY <2>1, NalPlaces
  <2>3. f + 4 <= e /\ o <= f /\ q = f - o + 1
    BY <1>1, <1>7, <2>1, <2>2, NalPlaces DEF Seen
  <2>4. q >= 1 /\ q \in 1..e - o /\ o + q = f + 4 - 3 /\ f + 4 - 3 >= 1
    <3>1. PICK z \in Nat : z = e
      BY <1>4
    <3>2. f + 4 <= z /\ o <= f /\ q = f - o + 1
      BY <2>3, <3>1
    <3>3. q >= 1 /\ q \in 1..z - o /\ o + q = f + 4 - 3 /\ f + 4 - 3 >= 1
      BY <3>2
    <3> QED
      BY <3>1, <3>3, Zenon
  <2>5. Stream[f + 4 - 3] = 0
    BY <1>7, <2>1, <2>2, <2>4, FourByte
  <2>6. x[q] = 0
    BY <1>3, <2>4, <2>5
  <2>7. q + 1 = Offset(i - 1) - Offset(a) + Nals[i].prefix - 2
    BY <1>1, <1>7, <2>2, <2>3
  <2>8. ThreeAt(x, q + 1)
    BY <1>2, <1>5, <2>7, ThreeInBuffer
  <2> QED
    BY <2>4, <2>6, <2>8 DEF FourAt
<1>8. FourAt(x, q) => \E i \in Seen(a, e) : Nals[i].prefix = 4 /\ q = Offset(i - 1) - Offset(a) + 1
  BY <1>6, Zenon
<1>9. (\E i \in Seen(a, e) : Nals[i].prefix = 4 /\ q = Offset(i - 1) - Offset(a) + 1) => FourAt(x, q)
  BY <1>7, Zenon
<1> QED
  BY <1>2, <1>8, <1>9, Zenon

\* What is seen of the NALs is seen in their order.
LEMMA SeenIs ==
  ASSUME NEW a \in 0..Len(Nals), NEW e \in Offset(a)..Len(Stream)
  PROVE  \E b \in a..Len(Nals) : Seen(a, e) = a + 1..b
<1>1. PICK n \in Nat : n = Len(Nals)
  BY NalsAre
<1>2. a \in Nat /\ a <= n
  BY <1>1
<1>3. CASE Seen(a, e) = {}
  <2>1. a + 1..a = {} /\ a \in a..n
    BY <1>2
  <2> QED
    BY <1>1, <1>3, <2>1
<1>4. CASE Seen(a, e) # {}
  <2>1. Seen(a, e) \subseteq 0..n
    BY <1>1, <1>2 DEF Seen
  <2>2. PICK b \in Seen(a, e) : \A i \in Seen(a, e) : i <= b
    BY <1>4, <2>1, Greatest
  <2>3. b \in 1..n /\ b > a /\ b \in Nat
    BY <1>1, <1>2 DEF Seen
  <2>4. ASSUME NEW i \in a + 1..b PROVE i \in Seen(a, e)
    <3>1. i \in 1..n /\ i > a /\ i \in a + 1..n /\ i <= b
      BY <1>2, <2>3
    <3>2. CASE i = b
      BY <3>2
    <3>3. CASE i < b
      <4>0. /\ Nals[i].prefix \in 3..4 /\ Offset(i - 1) \in Nat
            /\ Nals[b].prefix \in 3..4 /\ Offset(b - 1) \in Nat
        BY <1>1, <2>3, <3>1, NalPlaces
      <4>1. PICK r \in 3..4, f \in Nat, g \in Nat, h \in 3..4 :
              /\ r = Nals[i].prefix /\ f = Offset(i - 1)
              /\ g = Offset(b - 1) /\ h = Nals[b].prefix
        BY <4>0, Zenon
      <4>2. PICK s \in Nat : s = Size(i) /\ s >= r + 1
        BY <1>1, <3>1, <4>1, NalPlaces
      <4>3. f + s <= g
        <5>1. i - 1 \in 0..n /\ b - 1 \in 0..n /\ i - 1 < b - 1 /\ (i - 1) + 1 = i
          BY <2>3, <3>1, <3>3
        <5>2. Offset(i - 1) + Size(i) <= Offset(b - 1)
          BY <1>1, <5>1, OffsetsGrow
        <5> QED
          BY <4>1, <4>2, <5>2, Zenon
      <4>4. g + h <= e
        BY <4>1 DEF Seen
      <4>5. e \in Nat
        <5>1. Offset(a) \in Nat /\ Len(Stream) \in Nat
          BY StreamBytes, LenProperties
        <5> QED
          BY <5>1
      <4>6. f + r <= e
        BY <4>2, <4>3, <4>4, <4>5
      <4> QED
        BY <1>1, <3>1, <4>1, <4>6 DEF Seen
    <3> QED
      BY <2>3, <3>1, <3>2, <3>3
  <2>5. ASSUME NEW i \in Seen(a, e) PROVE i \in a + 1..b
    <3>1. i \in a + 1..n /\ i <= b
      BY <1>1, <2>2 DEF Seen
    <3> QED
      BY <1>2, <2>3, <3>1
  <2>6. b \in a..n
    BY <1>2, <2>3
  <2> QED
    BY <1>1, <2>4, <2>5, <2>6
<1> QED
  BY <1>3, <1>4

\* The start codes of a buffer are where its NALs begin,
LEMMA StartCodesAre ==
  ASSUME NEW a \in 0..Len(Nals), NEW e \in Offset(a)..Len(Stream)
  PROVE  StartCodes(Buffer(a, e)) = {Offset(i - 1) - Offset(a) + 1 : i \in Seen(a, e)}
<1>1. PICK o \in Nat : o = Offset(a)
  BY StreamBytes
<1>2. PICK x : x = Buffer(a, e)
  OBVIOUS
<1>3. Len(x) = e - o /\ e - o \in Nat /\ e \in Nat
  <2>1. Len(Stream) \in Nat
    BY StreamBytes, LenProperties
  <2> QED
    BY <1>1, <1>2, <2>1, BufferIs
<1>4. \A i \in Seen(a, e) : i \in 1..Len(Nals) /\ i > a
  BY NalsAre DEF Seen
<1>5. ASSUME NEW i \in Seen(a, e)
      PROVE  Offset(i - 1) - Offset(a) + 1 \in StartCodes(x)
  <2>1. PICK r \in 3..4, f \in Nat : r = Nals[i].prefix /\ f = Offset(i - 1)
    BY <1>4, NalPlaces
  <2>2. o <= f
    BY <1>1, <1>4, <2>1, NalPlaces
  <2>3. f + r <= e
    BY <2>1 DEF Seen
  <2>4. PICK q \in 1..e - o : q = f - o + 1
    BY <1>3, <2>2, <2>3
  <2>5. CASE r = 4
    <3>1. Nals[i].prefix = 4 /\ q = Offset(i - 1) - Offset(a) + 1
      BY <1>1, <2>1, <2>4, <2>5
    <3>2. FourAt(x, q)
      BY <1>2, <3>1, FourInBuffer
    <3> QED
      BY <1>1, <1>3, <2>1, <2>4, <3>2 DEF StartCodes
  <2>6. CASE r = 3
    <3>1. f - o + 1 = f - o + 3 - 2
      OBVIOUS
    <3>2. q = Offset(i - 1) - Offset(a) + Nals[i].prefix - 2
      BY <1>1, <2>1, <2>4, <2>6, <3>1, Zenon
    <3>3. ThreeAt(x, q)
      BY <1>2, <3>2, ThreeInBuffer
    <3>4. ~FourAt(x, q - 1)
      <4> SUFFICES ASSUME FourAt(x, q - 1) PROVE FALSE
        OBVIOUS
      <4>0. q - 1 \in Nat
        OBVIOUS
      <4>1. PICK l \in Seen(a, e) :
              Nals[l].prefix = 4 /\ q - 1 = Offset(l - 1) - Offset(a) + 1
        BY <1>2, <4>0, FourInBuffer
      <4>2. PICK g \in Nat : g = Offset(l - 1)
        BY <1>4, NalPlaces
      <4>3. q - 1 = g - o + 1
        BY <1>1, <4>1, <4>2
      <4>4. f = g + 1
        BY <2>4, <4>3
      <4>5. i - 1 \in 0..Len(Nals) /\ l - 1 \in 0..Len(Nals) /\ i \in Nat /\ l \in Nat
        <5>1. i \in 1..Len(Nals) /\ l \in 1..Len(Nals)
          BY <1>4
        <5>2. Len(Nals) \in Nat
          BY NalsAre
        <5> QED
          BY <5>1, <5>2
      <4>6. CASE l - 1 < i - 1
        <5>1. PICK s \in Nat : s = Size(l) /\ s >= 4
          BY <1>4, NalsAre
        <5>2. (l - 1) + 1 = l
          BY <4>5
        <5>3. Offset(l - 1) + Size((l - 1) + 1) <= Offset(i - 1)
          BY <4>5, <4>6, OffsetsGrow
        <5>4. g + s <= f
          BY <2>1, <4>2, <5>1, <5>2, <5>3, Zenon
        <5> QED
          BY <4>4, <5>1, <5>4
      <4>7. CASE i - 1 <= l - 1
        <5>1. Offset(i - 1) <= Offset(l - 1)
          BY <4>5, <4>7, OffsetsGrow
        <5>2. f <= g
          BY <2>1, <4>2, <5>1, Zenon
        <5> QED
          BY <4>4, <5>2
      <4> QED
        BY <4>5, <4>6, <4>7
    <3> QED
      BY <1>1, <1>3, <2>1, <2>4, <3>3, <3>4 DEF StartCodes
  <2> QED
    BY <2>5, <2>6
<1>6. ASSUME NEW q \in StartCodes(x)
      PROVE  \E i \in Seen(a, e) : q = Offset(i - 1) - Offset(a) + 1
  <2>1. q \in 1..e - o /\ q \in Nat /\ q - 1 \in Nat
    BY <1>3 DEF StartCodes
  <2>2. FourAt(x, q) \/ (ThreeAt(x, q) /\ ~FourAt(x, q - 1))
    BY DEF StartCodes
  <2>3. CASE FourAt(x, q)
    BY <1>2, <2>1, <2>3, FourInBuffer
  <2>4. CASE ThreeAt(x, q) /\ ~FourAt(x, q - 1)
    <3>1. PICK i \in Seen(a, e) : q = Offset(i - 1) - Offset(a) + Nals[i].prefix - 2
      BY <1>2, <2>1, <2>4, ThreeInBuffer
    <3>2. PICK r \in 3..4, f \in Nat : r = Nals[i].prefix /\ f = Offset(i - 1)
      BY <1>4, NalPlaces
    <3>3. q = f - o + r - 2
      BY <1>1, <3>1, <3>2, Zenon
    <3>4. r # 4
      <4> SUFFICES ASSUME r = 4 PROVE FALSE
        OBVIOUS
      <4>1. q - 1 = f - o + 1
        BY <3>3
      <4>2. q - 1 = Offset(i - 1) - Offset(a) + 1
        BY <1>1, <3>2, <4>1, Zenon
      <4>3. FourAt(x, q - 1)
        BY <1>2, <2>1, <3>2, <4>2, FourInBuffer
      <4> QED
        BY <2>4, <4>3
    <3>5. q = f - o + 1
      BY <3>3, <3>4
    <3> QED
      BY <1>1, <3>2, <3>5, Zenon
  <2> QED
    BY <2>2, <2>3, <2>4
<1>7. StartCodes(x) = {Offset(i - 1) - Offset(a) + 1 : i \in Seen(a, e)}
  BY <1>5, <1>6, Zenon
<1> QED
  BY <1>2, <1>7, Zenon

\* and the last one is where the last one begins that is seen.
LEMMA FindLast ==
  ASSUME NEW a \in 0..Len(Nals), NEW e \in Offset(a)..Len(Stream),
         NEW b \in a..Len(Nals), Seen(a, e) = a + 1..b
  PROVE  find_last_start_code(Buffer(a, e)) =
           IF b = a THEN 0 ELSE Offset(b - 1) - Offset(a) + 1
<1>1. PICK o \in Nat : o = Offset(a)
  BY StreamBytes
<1>2. PICK x : x = Buffer(a, e)
  OBVIOUS
<1>3. Len(x) \in Nat /\ a \in Nat /\ b \in Nat /\ a <= b
  <2>1. Len(Stream) \in Nat
    BY StreamBytes, LenProperties
  <2> QED
    BY <1>1, <1>2, <2>1, BufferIs, NalsAre
<1>4. \A i \in a + 1..b : i \in 1..Len(Nals) /\ i > a
  BY <1>3, NalsAre
<1> DEFINE all == {i \in 1..Len(x) : ThreeAt(x, i)}
           last == CHOOSE i \in all : \A j \in all : j <= i
<1>5. find_last_start_code(x) =
        IF all = {} THEN 0 ELSE IF FourAt(x, last - 1) THEN last - 1 ELSE last
  BY Zenon DEF find_last_start_code
<1>6. \A q \in all : q \in Nat /\ ThreeAt(x, q)
  OBVIOUS
<1>7. ASSUME NEW q \in Nat, ThreeAt(x, q) PROVE q \in all
  BY <1>3, <1>7 DEF ThreeAt
<1> HIDE DEF all
<1>8. CASE b = a
  <2>1. all = {}
    <3> SUFFICES ASSUME NEW q \in all PROVE FALSE
      OBVIOUS
    <3>1. PICK i \in Seen(a, e) : q = Offset(i - 1) - Offset(a) + Nals[i].prefix - 2
      BY <1>2, <1>6, ThreeInBuffer
    <3> QED
      BY <1>3, <1>8
  <2> QED
    BY <1>2, <1>5, <1>8, <2>1
<1>9. CASE b # a
  <2>1. b \in a + 1..b
    BY <1>3, <1>9
  <2>2. PICK r \in 3..4, f \in Nat : r = Nals[b].prefix /\ f = Offset(b - 1) /\ o <= f
    BY <1>1, <1>4, <2>1, NalPlaces
  <2>10. r - 2 \in Nat /\ r - 2 >= 1 /\ f - o \in Nat
    <3>1. o <= f
      BY <2>2
    <3> QED
      BY <3>1
  <2>3. PICK p \in Nat : p = f - o + r - 2
    BY <2>10
  <2>4. p \in all
    <3>1. p = Offset(b - 1) - Offset(a) + Nals[b].prefix - 2
      BY <1>1, <2>2, <2>3, Zenon
    <3>2. ThreeAt(x, p)
      BY <1>2, <2>1, <3>1, ThreeInBuffer
    <3> QED
      BY <1>7, <3>2
  <2>5. ASSUME NEW q \in all PROVE q <= p
    <3>1. q \in Nat
      BY <1>6
    <3>7. ThreeAt(Buffer(a, e), q)
      BY <1>2, <1>6
    <3>8. \E i \in Seen(a, e) : q = Offset(i - 1) - Offset(a) + Nals[i].prefix - 2
      BY <3>1, <3>7, ThreeInBuffer
    <3>2. PICK i \in a + 1..b : q = Offset(i - 1) - Offset(a) + Nals[i].prefix - 2
      BY <3>8, Zenon
    <3>3. PICK t \in 3..4, g \in Nat : t = Nals[i].prefix /\ g = Offset(i - 1)
      BY <1>4, NalPlaces
    <3>4. q = g - o + t - 2
      BY <1>1, <3>2, <3>3, Zenon
    <3>5. CASE i = b
      BY <2>2, <2>3, <3>3, <3>4, <3>5
    <3>6. CASE i # b
      <4>1. i - 1 \in 0..Len(Nals) /\ b - 1 \in 0..Len(Nals) /\ i - 1 < b - 1 /\ (i - 1) + 1 = i
        BY <1>3, <1>4, <2>1, <3>6
      <4>2. PICK s \in Nat : s = Size(i) /\ s >= t + 1
        BY <1>4, <3>3, NalPlaces
      <4>3. Offset(i - 1) + Size(i) <= Offset(b - 1)
        BY <4>1, OffsetsGrow
      <4>4. g + s <= f
        BY <2>2, <3>3, <4>2, <4>3, Zenon
      <4> QED
        BY <2>3, <3>4, <4>2, <4>4
    <3> QED
      BY <3>5, <3>6
  <2>6. last = p
    <3>1. \A q \in all : (\A j \in all : j <= q) => q = p
      <4>1. \A q \in all : q \in Nat /\ q <= p /\ (p <= q => q = p)
        BY <1>6, <2>5
      <4> QED
        BY <2>4, <4>1
    <3>2. p \in all /\ \A j \in all : j <= p
      BY <2>4, <2>5
    <3> QED
      BY <3>1, <3>2
  <2> HIDE DEF last
  <2>7. p - 1 \in Nat
    BY <2>3, <2>10
  <2>8. CASE r = 4
    <3>1. p - 1 = f - o + 1
      BY <2>3, <2>8
    <3>2. p - 1 = Offset(b - 1) - Offset(a) + 1
      BY <1>1, <2>2, <3>1, Zenon
    <3>3. FourAt(x, p - 1)
      BY <1>2, <2>1, <2>2, <2>7, <2>8, <3>2, FourInBuffer
    <3>4. find_last_start_code(x) = p - 1
      BY <1>5, <2>4, <2>6, <3>3
    <3> QED
      BY <1>2, <1>9, <3>2, <3>4
  <2>9. CASE r = 3
    <3>1. p = f - o + 1
      BY <2>3, <2>9
    <3>2. ~FourAt(x, p - 1)
      <4> SUFFICES ASSUME FourAt(x, p - 1) PROVE FALSE
        OBVIOUS
      <4>1. PICK i \in a + 1..b : Nals[i].prefix = 4 /\ p - 1 = Offset(i - 1) - Offset(a) + 1
        BY <1>2, <2>7, FourInBuffer
      <4>2. PICK g \in Nat : g = Offset(i - 1)
        BY <1>4, NalPlaces
      <4>3. p - 1 = g - o + 1
        BY <1>1, <4>1, <4>2, Zenon
      <4>4. i # b
        <5>1. r # 4
          BY <2>9
        <5> QED
          BY <2>2, <4>1, <5>1, Zenon
      <4>5. i - 1 \in 0..Len(Nals) /\ b - 1 \in 0..Len(Nals) /\ i - 1 < b - 1 /\ (i - 1) + 1 = i
        BY <1>3, <1>4, <2>1, <4>4
      <4>6. PICK s \in Nat : s = Size(i) /\ s >= 4
        BY <1>4, NalsAre
      <4>7. Offset(i - 1) + Size(i) <= Offset(b - 1)
        BY <4>5, OffsetsGrow
      <4>8. g + s <= f
        BY <2>2, <4>2, <4>6, <4>7, Zenon
      <4> QED
        BY <3>1, <4>3, <4>6, <4>8
    <3>3. find_last_start_code(x) = p
      BY <1>5, <2>4, <2>6, <3>2
    <3>4. p = Offset(b - 1) - Offset(a) + 1
      BY <1>1, <2>2, <3>1, Zenon
    <3> QED
      BY <1>2, <1>9, <3>3, <3>4
  <2> QED
    BY <2>8, <2>9
<1> QED
  BY <1>8, <1>9

-----------------------------------------------------------------------------
(* Whole NALs                                                              *)

\* Each NAL is a piece of the stream,
LEMMA PieceOfStream ==
  ASSUME NEW i \in 1..Len(Nals)
  PROVE  Encoded(Nals[i]) = SubSeq(Stream, Offset(i - 1) + 1, Offset(i))
<1>1. PICK o \in Nat, s \in Nat : o = Offset(i - 1) /\ s = Size(i)
  BY NalPlaces, NalsAre
<1>2. i - 1 \in 0..Len(Nals) /\ Offset(i) = o + s /\ Offset(i) <= Len(Stream) /\ Len(Stream) \in Nat
  <2>1. i \in 0..Len(Nals)
    BY NalsAre
  <2>2. /\ i - 1 \in 0..Len(Nals) /\ Offset(i) = Offset(i - 1) + Size(i)
        /\ Offset(i) <= Len(Stream) /\ Len(Stream) \in Nat
    BY <2>1, NalPlaces
  <2> QED
    BY <1>1, <2>2, Zenon
<1>3. o + s \in o..Len(Stream) /\ (o + s) - o = s
  BY <1>1, <1>2
<1>4. PICK x : x = Buffer(i - 1, o + s)
  OBVIOUS
<1>5. x \in Seq(Nat) /\ Len(x) = s /\ \A q \in 1..s : x[q] = Stream[o + q]
  <2>1. o + s \in Offset(i - 1)..Len(Stream)
    BY <1>1, <1>3
  <2>2. /\ x \in Seq(Nat) /\ Len(x) = (o + s) - Offset(i - 1)
        /\ \A q \in 1..(o + s) - Offset(i - 1) : x[q] = Stream[Offset(i - 1) + q]
    BY <1>2, <1>4, <2>1, BufferIs
  <2>3. (o + s) - Offset(i - 1) = s
    BY <1>1, <1>3, Zenon
  <2> QED
    BY <1>1, <2>2, <2>3
<1>6. PICK y : y = Encoded(Nals[i])
  OBVIOUS
<1>7. y \in Seq(Nat) /\ Len(y) = s
  BY <1>1, <1>6, EncodedBytes
<1>8. \A q \in 1..s : y[q] = Stream[o + q]
  BY <1>1, <1>6, StreamBytes
<1>9. x = y
  <2>1. \A q \in 1..Len(x) : x[q] = y[q]
    BY <1>5, <1>8
  <2> QED
    BY <1>5, <1>7, <2>1, SeqEqual
<1>10. x = SubSeq(Stream, Offset(i - 1) + 1, Offset(i))
  BY <1>1, <1>2, <1>4, Zenon DEF Buffer
<1> QED
  BY <1>6, <1>9, <1>10, Zenon

\* whose header byte is found behind either prefix.
LEMMA TypeOfEncoded ==
  ASSUME NEW i \in 1..Len(Nals)
  PROVE  nal_unit_type(Encoded(Nals[i])) = Nals[i].header % 32
<1>1. PICK r \in 3..4 : r = Nals[i].prefix
  BY NalPlaces, NalsAre
<1>2. PICK s \in Nat : s = Size(i) /\ s >= r + 1
  <2>1. i \in 0..Len(Nals)
    BY NalsAre
  <2>2. Size(i) \in Nat /\ Size(i) >= Nals[i].prefix + 1
    BY <2>1, NalPlaces
  <2> QED
    BY <1>1, <2>2, Zenon
<1>3. PICK x : x = Encoded(Nals[i])
  OBVIOUS
<1>4. /\ Len(x) = s
      /\ \A j \in 1..s : j <= r => x[j] = IF j < r THEN 0 ELSE 1
      /\ x[r + 1] = Nals[i].header
  <2>1. Len(x) = s
    BY <1>2, <1>3, EncodedBytes
  <2>2. ASSUME NEW j \in 1..s, j <= r PROVE x[j] = IF j < r THEN 0 ELSE 1
    <3>1. j < r \/ j = r
      BY <2>2
    <3> QED
      BY <1>1, <1>2, <1>3, <3>1, EncodedBytes
  <2>3. r + 1 \in 1..s /\ ~(r + 1 < r) /\ r + 1 # r
    BY <1>2
  <2>4. x[r + 1] = Nals[i].header
    BY <1>1, <1>2, <1>3, <2>3, EncodedBytes
  <2> QED
    BY <2>1, <2>2, <2>4
<1>5. 1 \in 1..s /\ 2 \in 1..s /\ 3 \in 1..s /\ 4 \in 1..s
  BY <1>2
<1>6. CASE r = 4
  <2>1. x[1] = 0 /\ x[2] = 0 /\ x[3] = 0 /\ x[4] = 1 /\ 4 <= Len(x)
    BY <1>4, <1>5, <1>6
  <2>2. FourAt(x, 1)
    BY <2>1 DEF FourAt, ThreeAt
  <2>3. 5 <= Len(x) /\ x[5] = Nals[i].header
    BY <1>2, <1>4, <1>6
  <2> QED
    BY <1>3, <2>2, <2>3 DEF nal_unit_type
<1>7. CASE r = 3
  <2>1. x[3] = 1
    BY <1>4, <1>5, <1>7
  <2>2. ~FourAt(x, 1)
    BY <2>1 DEF FourAt, ThreeAt
  <2>3. 4 <= Len(x) /\ x[4] = Nals[i].header
    BY <1>2, <1>4, <1>7
  <2> QED
    BY <1>3, <2>2, <2>3 DEF nal_unit_type
<1> QED
  BY <1>6, <1>7

\* What ends with a NAL is split into its NALs.
LEMMA SplitWhole ==
  ASSUME NEW a \in 0..Len(Nals), NEW b \in a..Len(Nals)
  PROVE  split_nals(Buffer(a, Offset(b))) = [k \in 1..b - a |-> Encoded(Nals[a + k])]
<1>0. a \in Nat /\ b \in Nat /\ a <= b /\ b \in 0..Len(Nals) /\ b - a \in Nat
  BY NalsAre
<1> DEFINE F(k) == Offset(a + k) - Offset(a)
<1>1. /\ Offset(a) \in Nat /\ Offset(b) \in Offset(a)..Len(Stream)
      /\ Len(Stream) \in Nat
      /\ \A k \in 0..b - a : a + k \in 0..Len(Nals) /\ Offset(a + k) \in Nat /\ F(k) \in Nat
  <2>1. Offset(a) \in Nat /\ Offset(b) \in Nat /\ Len(Stream) \in Nat
    BY <1>0, StreamBytes, LenProperties
  <2>2. Offset(a) <= Offset(b) /\ Offset(b) <= Offset(Len(Nals))
    BY <1>0, OffsetsGrow, NalsAre
  <2>3. ASSUME NEW k \in 0..b - a
        PROVE  a + k \in 0..Len(Nals) /\ Offset(a + k) \in Nat /\ F(k) \in Nat
    <3>1. a + k \in 0..Len(Nals) /\ a <= a + k
      BY <1>0, NalsAre
    <3>2. Offset(a + k) \in Nat /\ Offset(a) <= Offset(a + k)
      BY <3>1, StreamBytes, OffsetsGrow
    <3> QED
      BY <2>1, <3>1, <3>2
  <2> QED
    BY <2>1, <2>2, <2>3, StreamBytes
<1>2. PICK x : x = Buffer(a, Offset(b))
  OBVIOUS
<1>3. Len(x) = F(b - a)
  <2>1. Len(x) = Offset(b) - Offset(a)
    BY <1>1, <1>2, BufferIs
  <2>2. a + (b - a) = b
    BY <1>0
  <2> QED
    BY <2>1, <2>2
<1>4. ASSUME NEW i \in 0..b - a, NEW j \in 0..b - a, i < j PROVE F(i) < F(j)
  <2>1. a + i \in 0..Len(Nals) /\ a + j \in 0..Len(Nals) /\ a + i < a + j /\ (a + i) + 1 \in 1..Len(Nals)
    BY <1>0, <1>1, <1>4, NalsAre
  <2>2. PICK s \in Nat : s = Size((a + i) + 1) /\ s >= 4
    BY <2>1, NalsAre
  <2>3. Offset(a + i) + Size((a + i) + 1) <= Offset(a + j)
    BY <2>1, OffsetsGrow
  <2>4. PICK f \in Nat, g \in Nat : f = Offset(a + i) /\ g = Offset(a + j)
    BY <1>1
  <2>5. f + s <= g
    BY <2>2, <2>3, <2>4, Zenon
  <2>6. f - Offset(a) < g - Offset(a)
    BY <1>1, <2>2, <2>5
  <2> QED
    BY <2>4, <2>6
<1>5. Seen(a, Offset(b)) = a + 1..b
  <2>1. ASSUME NEW i \in a + 1..b PROVE i \in Seen(a, Offset(b))
    <3>1. i \in 1..Len(Nals) /\ i \in a + 1..Len(Nals) /\ i <= b
      BY <1>0, NalsAre
    <3>2. PICK r \in 3..4, f \in Nat, s \in Nat, g \in Nat, h \in Nat :
            /\ r = Nals[i].prefix /\ f = Offset(i - 1) /\ s = Size(i)
            /\ g = Offset(i) /\ h = Offset(b)
      BY <1>0, <3>1, NalPlaces
    <3>3. s >= r + 1 /\ g = f + s /\ g <= h
      BY <1>0, <3>1, <3>2, NalPlaces
    <3>4. f + r <= h
      BY <3>3
    <3> QED
      BY <3>1, <3>2, <3>4 DEF Seen
  <2>2. ASSUME NEW i \in Seen(a, Offset(b)) PROVE i \in a + 1..b
    <3>1. i \in a + 1..Len(Nals) /\ i \in 1..Len(Nals)
      BY <1>0, NalsAre DEF Seen
    <3>2. PICK r \in 3..4, f \in Nat, h \in Nat :
            r = Nals[i].prefix /\ f = Offset(i - 1) /\ h = Offset(b)
      BY <1>0, <3>1, NalPlaces
    <3>3. f + r <= h
      BY <3>2 DEF Seen
    <3>4. ~(i > b)
      <4>1. i > b => h <= f
        BY <1>0, <3>1, <3>2, NalPlaces
      <4> QED
        BY <3>3, <4>1
    <3> QED
      BY <1>0, <3>1, <3>4, NalsAre
  <2> QED
    BY <2>1, <2>2
<1>6. PICK g : g = [k \in 1..b - a |-> F(k - 1) + 1]
  OBVIOUS
<1>7. g \in [1..b - a -> Nat]
  <2>1. \A k \in 1..b - a : k - 1 \in 0..b - a
    BY <1>0
  <2>2. \A k \in 1..b - a : F(k - 1) \in Nat
    BY <1>1, <2>1
  <2> HIDE DEF F
  <2> QED
    BY <1>6, <2>2
<1>8. Climbs(g, b - a)
  <2> SUFFICES ASSUME NEW i \in 1..b - a, NEW j \in 1..b - a, i < j PROVE g[i] < g[j]
    BY DEF Climbs
  <2>1. i - 1 \in 0..b - a /\ j - 1 \in 0..b - a /\ i - 1 < j - 1
    BY <1>0
  <2>2. F(i - 1) < F(j - 1) /\ F(i - 1) \in Nat /\ F(j - 1) \in Nat
    BY <1>1, <1>4, <2>1
  <2> HIDE DEF F
  <2> QED
    BY <1>6, <2>2
<1>9. StartCodes(x) = {g[k] : k \in 1..b - a}
  <2>1. StartCodes(x) = {Offset(i - 1) - Offset(a) + 1 : i \in a + 1..b}
    BY <1>1, <1>2, <1>5, StartCodesAre
  <2>2. ASSUME NEW k \in 1..b - a
        PROVE  a + k \in a + 1..b /\ g[k] = Offset((a + k) - 1) - Offset(a) + 1
    <3>1. a + k \in a + 1..b /\ a + (k - 1) = (a + k) - 1
      BY <1>0
    <3> QED
      BY <1>6, <3>1
  <2>3. ASSUME NEW i \in a + 1..b
        PROVE  i - a \in 1..b - a /\ g[i - a] = Offset(i - 1) - Offset(a) + 1
    <3>1. i - a \in 1..b - a /\ a + ((i - a) - 1) = i - 1
      BY <1>0
    <3> QED
      BY <1>6, <3>1
  <2> DEFINE P(i) == Offset(i - 1) - Offset(a) + 1
  <2>4. ASSUME NEW k \in 1..b - a PROVE g[k] \in {P(i) : i \in a + 1..b}
    <3>1. a + k \in a + 1..b /\ g[k] = P(a + k)
      BY <2>2
    <3> HIDE DEF P
    <3> QED
      BY <3>1, Zenon
  <2>5. ASSUME NEW i \in a + 1..b PROVE P(i) \in {g[k] : k \in 1..b - a}
    <3>1. i - a \in 1..b - a /\ g[i - a] = P(i)
      BY <2>3
    <3> HIDE DEF P
    <3> QED
      BY <3>1, Zenon
  <2>6. StartCodes(x) = {P(i) : i \in a + 1..b}
    BY <2>1, Zenon
  <2> HIDE DEF P
  <2> QED
    BY <2>4, <2>5, <2>6, Zenon
<1>10. Ascending(StartCodes(x)) = g
  BY <1>0, <1>7, <1>8, <1>9, AscendingIs
<1>11. Len(g) = b - a /\ DOMAIN g = 1..b - a
  BY <1>0, <1>7
<1> DEFINE end(i) == IF i = Len(g) THEN Len(x) ELSE g[i + 1] - 1
<1>12. split_nals(x) = [i \in 1..b - a |-> SubSeq(x, g[i], end(i))]
  BY <1>10, <1>11, Zenon DEF split_nals
<1>13. ASSUME NEW i \in 1..b - a PROVE SubSeq(x, g[i], end(i)) = Encoded(Nals[a + i])
  <2>0. i \in 0..b - a /\ i - 1 \in 0..b - a /\ b - a \in 0..b - a
    BY <1>0
  <2>1. g[i] = F(i - 1) + 1
    BY <1>6
  <2>2. end(i) = F(i)
    <3>1. CASE i = b - a
      <4>1. end(i) = Len(x)
        BY <1>11, <3>1
      <4> HIDE DEF end
      <4> QED
        BY <1>3, <3>1, <4>1
    <3>2. CASE i # b - a
      <4>1. i + 1 \in 1..b - a /\ (i + 1) - 1 = i
        BY <1>0, <3>2
      <4>2. end(i) = g[i + 1] - 1 /\ g[i + 1] = F((i + 1) - 1) + 1
        BY <1>6, <1>11, <3>2, <4>1
      <4>3. g[i + 1] = F(i) + 1 /\ F(i) \in Nat
        BY <1>1, <2>0, <4>1, <4>2
      <4> HIDE DEF F, end
      <4>4. (F(i) + 1) - 1 = F(i)
        BY <4>3
      <4> QED
        BY <4>2, <4>3, <4>4
    <3> QED
      BY <3>1, <3>2
  <2>3. PICK o \in Nat, u \in Nat, v \in Nat, w \in Nat :
          /\ o = Offset(a) /\ u = Offset(a + (i - 1)) /\ v = Offset(a + i) /\ w = Offset(b)
    <3>1. Offset(b) \in Nat
      BY <1>0, StreamBytes
    <3> QED
      BY <1>1, <2>0, <3>1
  <2>4. o <= u /\ u < v /\ v <= w /\ w <= Len(Stream)
    <3>1. F(i - 1) < F(i) /\ F(i - 1) \in Nat /\ F(i) \in Nat
      <4>1. i - 1 < i
        OBVIOUS
      <4> QED
        BY <1>1, <1>4, <2>0, <4>1
    <3>2. u - o < v - o /\ u - o \in Nat
      BY <2>3, <3>1
    <3>3. v <= w
      <4>1. a + i \in 0..Len(Nals) /\ a + i <= b
        BY <1>0, <1>1, <2>0
      <4>2. Offset(a + i) <= Offset(b)
        BY <1>0, <4>1, OffsetsGrow
      <4> QED
        BY <2>3, <4>2, Zenon
    <3>4. w <= Len(Stream)
      BY <1>1, <2>3
    <3> QED
      BY <3>2, <3>3, <3>4
  <2>5. SubSeq(x, (u - o) + 1, v - o) = SubSeq(Stream, u + 1, v)
    <3>1. /\ o + 1 \in 1..Len(Stream) /\ w \in 1..Len(Stream)
          /\ (u - o) + 1 \in 1..w - (o + 1) + 1 /\ v - o \in 1..w - (o + 1) + 1
      BY <1>1, <2>4
    <3>2. SubSeq(SubSeq(Stream, o + 1, w), (u - o) + 1, v - o)
            = SubSeq(Stream, (o + 1) + ((u - o) + 1) - 1, (o + 1) + (v - o) - 1)
      BY <3>1, StreamBytes, SubSeqOfSubSeq
    <3>3. (o + 1) + ((u - o) + 1) - 1 = u + 1 /\ (o + 1) + (v - o) - 1 = v
      OBVIOUS
    <3>4. x = SubSeq(Stream, o + 1, w)
      BY <1>2, <2>3, Zenon DEF Buffer
    <3> QED
      BY <3>2, <3>3, <3>4
  <2>6. Encoded(Nals[a + i]) = SubSeq(Stream, u + 1, v)
    <3>1. a + i \in 1..Len(Nals) /\ (a + i) - 1 = a + (i - 1)
      BY <1>0, NalsAre
    <3>2. Encoded(Nals[a + i]) = SubSeq(Stream, Offset((a + i) - 1) + 1, Offset(a + i))
      BY <3>1, PieceOfStream
    <3> QED
      BY <2>3, <3>1, <3>2
  <2>7. F(i - 1) + 1 = (u - o) + 1 /\ F(i) = v - o
    BY <2>3
  <2> HIDE DEF F, end
  <2> QED
    BY <2>1, <2>2, <2>5, <2>6, <2>7, Zenon
<1> HIDE DEF end
<1>14. split_nals(x) = [i \in 1..b - a |-> Encoded(Nals[a + i])]
  BY <1>12, <1>13
<1> QED
  BY <1>2, <1>14, Zenon

\* NALs in a row join to the bytes they take up.
LEMMA NalsJoin ==
  ASSUME NEW a \in 0..Len(Nals), NEW b \in a + 1..Len(Nals)
  PROVE  FlattenSeq([k \in 1..b - a |-> Encoded(Nals[a + k])]) = Buffer(a, Offset(b))
<1>0. a \in Nat /\ b \in Nat /\ b - a \in Nat \ {0}
  BY NalsAre
<1>1. ASSUME NEW k \in 0..b - a
      PROVE  a + k \in 0..Len(Nals) /\ Offset(a + k) \in 0..Len(Stream)
  <2>1. a + k \in 0..Len(Nals)
    BY <1>0, NalsAre
  <2>2. Len(Nals) \in 0..Len(Nals) /\ Len(Stream) \in Nat /\ a + k <= Len(Nals)
    BY <2>1, NalsAre, StreamBytes, LenProperties
  <2>3. Offset(a + k) \in Nat /\ Offset(a + k) <= Offset(Len(Nals))
    BY <2>1, <2>2, StreamBytes, OffsetsGrow
  <2> QED
    BY <2>1, <2>2, <2>3, StreamBytes
<1>2. PICK c : c = [k \in 0..b - a |-> Offset(a + k)]
  OBVIOUS
<1>3. c \in [0..b - a -> 0..Len(Stream)]
  BY <1>1, <1>2
<1>4. ASSUME NEW k \in 1..b - a
      PROVE  /\ c[k - 1] <= c[k]
             /\ Encoded(Nals[a + k]) = SubSeq(Stream, c[k - 1] + 1, c[k])
  <2>1. /\ k - 1 \in 0..b - a /\ k \in 0..b - a /\ a + (k - 1) = (a + k) - 1
        /\ a + k \in 1..Len(Nals) /\ (a + k) - 1 <= a + k
    BY <1>0, NalsAre
  <2>2. c[k] = Offset(a + k) /\ c[k - 1] = Offset((a + k) - 1)
    BY <1>2, <2>1
  <2>3. (a + k) - 1 \in 0..Len(Nals) /\ a + k \in 0..Len(Nals)
    BY <2>1, NalsAre
  <2>4. Offset((a + k) - 1) <= Offset(a + k)
    BY <2>1, <2>3, OffsetsGrow
  <2>5. Encoded(Nals[a + k]) = SubSeq(Stream, Offset((a + k) - 1) + 1, Offset(a + k))
    BY <2>1, PieceOfStream
  <2> QED
    BY <2>2, <2>4, <2>5, Zenon
<1>5. PICK m : m = [k \in 1..b - a |-> Encoded(Nals[a + k])]
  OBVIOUS
<1>6. m = [k \in 1..b - a |-> SubSeq(Stream, c[k - 1] + 1, c[k])]
  BY <1>4, <1>5
<1>7. FlattenSeq(m) = SubSeq(Stream, c[0] + 1, c[b - a])
  <2>1. \A k \in 1..b - a : c[k - 1] <= c[k]
    BY <1>4
  <2> QED
    BY <1>0, <1>3, <1>6, <2>1, StreamBytes, FlattenPieces
<1>8. c[0] = Offset(a) /\ c[b - a] = Offset(b)
  <2>1. 0 \in 0..b - a /\ b - a \in 0..b - a /\ a + 0 = a /\ a + (b - a) = b
    BY <1>0
  <2>2. c[0] = Offset(a + 0) /\ c[b - a] = Offset(a + (b - a))
    BY <1>2, <2>1
  <2> QED
    BY <2>1, <2>2
<1> QED
  BY <1>5, <1>7, <1>8, Zenon DEF Buffer

\* The types in whole NALs are those of their headers.
LEMMA TypesIn ==
  ASSUME NEW a \in 0..Len(Nals), NEW b \in a..Len(Nals), NEW T
  PROVE  HasType(Buffer(a, Offset(b)), T)
           <=> \E i \in a + 1..b : Nals[i].header % 32 \in T
<1>0. a \in Nat /\ b \in Nat /\ a <= b
  BY NalsAre
<1>1. PICK s : s = split_nals(Buffer(a, Offset(b)))
  OBVIOUS
<1>2. s = [k \in 1..b - a |-> Encoded(Nals[a + k])]
  BY <1>1, SplitWhole
<1>3. DOMAIN s = 1..b - a
  BY <1>2
<1>4. HasType(Buffer(a, Offset(b)), T) <=> \E k \in 1..b - a : nal_unit_type(s[k]) \in T
  BY <1>1, <1>3, Zenon DEF HasType
<1>5. ASSUME NEW k \in 1..b - a
      PROVE  a + k \in a + 1..b /\ nal_unit_type(s[k]) = Nals[a + k].header % 32
  <2>1. a + k \in a + 1..b /\ a + k \in 1..Len(Nals)
    BY <1>0, NalsAre
  <2> QED
    BY <1>2, <2>1, TypeOfEncoded
<1>6. ASSUME NEW i \in a + 1..b
      PROVE  i - a \in 1..b - a /\ nal_unit_type(s[i - a]) = Nals[i].header % 32
  <2>1. i - a \in 1..b - a /\ a + (i - a) = i
    BY <1>0
  <2> QED
    BY <1>5, <2>1
<1> QED
  BY <1>4, <1>5, <1>6, Zenon

-----------------------------------------------------------------------------
(* Units                                                                   *)

\* The NALs that are slices, whatever is in between.
Slices == {i \in 1..Len(Nals) : is_slice(Nals[i].header % 32)}

\* Where the units end.
LEMMA UnitEnds ==
  /\ Len(SliceNals) \in Nat /\ DOMAIN SliceNals = 1..Len(SliceNals)
  /\ UnitEnd(0) = 0
  /\ \A k \in 1..Len(SliceNals) : UnitEnd(k) = SliceNals[k] /\ UnitEnd(k) \in Slices
  /\ \A i \in Slices : \E k \in 1..Len(SliceNals) : i = UnitEnd(k)
  /\ \A k \in 0..Len(SliceNals) : UnitEnd(k) \in 0..Len(Nals)
  /\ \A j, k \in 0..Len(SliceNals) : j < k => UnitEnd(j) < UnitEnd(k)
<1>1. PICK n \in Nat : n = Len(Nals)
  BY NalsAre
<1>2. Slices \subseteq 1..n
  BY <1>1 DEF Slices
<1>3. PICK m \in Nat : \E g \in [1..m -> Nat] : Climbs(g, m) /\ Slices = {g[i] : i \in 1..m}
  BY <1>2, AscendingExists
<1>4. PICK g \in [1..m -> Nat] : Climbs(g, m) /\ Slices = {g[i] : i \in 1..m}
  BY <1>3
<1>5. SliceNals = g
  <2>1. SliceNals = Ascending(Slices)
    BY NalsAre, Zenon DEF SliceNals, Slices
  <2> QED
    BY <1>4, <2>1, AscendingIs
<1>6. Len(SliceNals) = m /\ DOMAIN SliceNals = 1..m
  BY <1>5
<1>7. \A k \in 1..m : UnitEnd(k) = g[k]
  BY <1>5 DEF UnitEnd
<1>8. UnitEnd(0) = 0
  BY DEF UnitEnd
<1>9. \A k \in 1..m : g[k] \in Slices /\ g[k] \in 1..n
  BY <1>2, <1>4
<1>10. \A k \in 0..m : UnitEnd(k) \in 0..n
  <2>1. \A k \in 0..m : k = 0 \/ k \in 1..m
    OBVIOUS
  <2> QED
    BY <1>7, <1>8, <1>9, <2>1
<1>11. ASSUME NEW j \in 0..m, NEW k \in 0..m, j < k PROVE UnitEnd(j) < UnitEnd(k)
  <2>1. k \in 1..m /\ UnitEnd(k) = g[k] /\ g[k] \in 1..n
    BY <1>7, <1>9, <1>11
  <2>2. CASE j = 0
    BY <1>8, <2>1, <2>2
  <2>3. CASE j # 0
    <3>1. j \in 1..m /\ UnitEnd(j) = g[j]
      BY <1>7, <2>3
    <3>2. g[j] < g[k]
      BY <1>4, <1>11, <2>1, <3>1 DEF Climbs
    <3> QED
      BY <2>1, <3>1, <3>2
  <2> QED
    BY <2>2, <2>3
<1>12. \A i \in Slices : \E k \in 1..m : i = UnitEnd(k)
  BY <1>4, <1>7
<1> QED
  BY <1>1, <1>5, <1>6, <1>7, <1>8, <1>9, <1>10, <1>11, <1>12

\* What lies between them is no slice.
LEMMA BetweenEnds ==
  ASSUME NEW k \in 0..Len(SliceNals), NEW i \in 1..Len(Nals), UnitEnd(k) < i,
         k < Len(SliceNals) => i < UnitEnd(k + 1)
  PROVE  i \notin Slices
<1> SUFFICES ASSUME i \in Slices PROVE FALSE
  OBVIOUS
<1>1. PICK m \in Nat : m = Len(SliceNals)
  BY UnitEnds
<1>2. PICK l \in 1..m : i = UnitEnd(l)
  BY <1>1, UnitEnds
<1>3. k \in 0..m /\ l \in 0..m
  BY <1>1
<1>4. PICK u \in Nat, v \in Nat : u = UnitEnd(k) /\ v = UnitEnd(l)
  <2>1. UnitEnd(k) \in 0..Len(Nals) /\ UnitEnd(l) \in 0..Len(Nals)
    BY <1>1, <1>3, UnitEnds
  <2> QED
    BY <2>1
<1>5. u < v
  BY <1>2, <1>4
<1>6. k < l
  <2>1. k = l => u = v
    BY <1>4
  <2>2. l < k => v < u
    BY <1>1, <1>3, <1>4, UnitEnds
  <2> QED
    BY <1>3, <1>5, <2>1, <2>2
<1>7. PICK w \in Nat : w = UnitEnd(k + 1) /\ v < w
  <2>1. k + 1 \in 0..m /\ k < m
    BY <1>3, <1>6
  <2>2. UnitEnd(k + 1) \in 0..Len(Nals)
    BY <1>1, <2>1, UnitEnds
  <2>3. i < UnitEnd(k + 1)
    BY <1>1, <2>1
  <2> QED
    BY <1>2, <1>4, <2>2, <2>3
<1>8. k + 1 = l \/ k + 1 < l
  BY <1>3, <1>6
<1>9. w <= v
  <2>1. k + 1 \in 0..m
    BY <1>3, <1>6
  <2>2. k + 1 < l => w < v
    BY <1>1, <1>3, <1>4, <1>7, <2>1, UnitEnds
  <2>3. k + 1 = l => w = v
    BY <1>4, <1>7
  <2> QED
    BY <1>8, <2>2, <2>3
<1> QED
  BY <1>7, <1>9

\* The bytes of a unit.
LEMMA UnitIs ==
  ASSUME NEW k \in 1..Len(SliceNals)
  PROVE  /\ k - 1 \in 0..Len(SliceNals) /\ k \in 0..Len(SliceNals)
         /\ UnitEnd(k - 1) \in 0..Len(Nals) /\ UnitEnd(k) \in UnitEnd(k - 1) + 1..Len(Nals)
         /\ ExpectedUnit(k) = Buffer(UnitEnd(k - 1), Offset(UnitEnd(k)))
<1>1. PICK m \in Nat : m = Len(SliceNals)
  BY UnitEnds
<1>2. k - 1 \in 0..m /\ k \in 0..m /\ k - 1 < k
  BY <1>1
<1>3. PICK a \in 0..Len(Nals), b \in 0..Len(Nals) : a = UnitEnd(k - 1) /\ b = UnitEnd(k)
  BY <1>1, <1>2, UnitEnds
<1>4. a < b
  BY <1>1, <1>2, <1>3, UnitEnds
<1>5. b \in a + 1..Len(Nals)
  BY <1>4, NalsAre
<1>6. ExpectedUnit(k) = FlattenSeq([i \in 1..b - a |-> Encoded(Nals[a + i])])
  <2>1. SliceNals[k] = b
    BY <1>3, UnitEnds
  <2>2. (IF k = 1 THEN 0 ELSE SliceNals[k - 1]) = a
    <3>1. k = 1 => k - 1 = 0
      OBVIOUS
    <3>2. k # 1 => k - 1 # 0
      OBVIOUS
    <3> QED
      BY <1>3, <3>1, <3>2, Zenon DEF UnitEnd
  <2>3. ExpectedUnit(k) = FlattenSeq([i \in 1..b - a |-> Encoded(Nals[i + a])])
    BY <2>1, <2>2, Zenon DEF ExpectedUnit
  <2>4. \A i \in 1..b - a : i + a = a + i
    BY NalsAre
  <2>5. [i \in 1..b - a |-> Encoded(Nals[i + a])] = [i \in 1..b - a |-> Encoded(Nals[a + i])]
    BY <2>4, Zenon
  <2> QED
    BY <2>3, <2>5, Zenon
<1>7. ExpectedUnit(k) = Buffer(a, Offset(b))
  BY <1>5, <1>6, NalsJoin
<1> QED
  BY <1>1, <1>2, <1>3, <1>5, <1>7

\* It has a slice, and is a key frame if that one is.
LEMMA UnitHas ==
  ASSUME NEW k \in 1..Len(SliceNals)
  PROVE  /\ au_has_slice(ExpectedUnit(k))
         /\ au_has_idr(ExpectedUnit(k)) = (Nals[SliceNals[k]].header % 32 = SLICE_IDR)
<1>0. PICK a \in 0..Len(Nals) : a = UnitEnd(k - 1)
  BY UnitIs
<1>1. PICK b \in a + 1..Len(Nals) : b = UnitEnd(k)
  BY <1>0, UnitIs
<1>2. a \in Nat /\ b \in Nat /\ b \in a..Len(Nals) /\ b \in a + 1..b
  BY NalsAre
<1>3. ExpectedUnit(k) = Buffer(a, Offset(b))
  BY <1>0, <1>1, UnitIs
<1>4. b = SliceNals[k] /\ b \in Slices
  BY <1>1, UnitEnds
<1>5. Nals[b].header % 32 \in {SLICE_NON_IDR, SLICE_IDR}
  BY <1>4 DEF Slices, is_slice
<1>6. au_has_slice(ExpectedUnit(k))
  BY <1>2, <1>3, <1>5, TypesIn DEF au_has_slice
<1>7. ASSUME NEW i \in a + 1..b, Nals[i].header % 32 = SLICE_IDR PROVE i = b
  <2>1. i \in 1..Len(Nals) /\ i > a /\ i <= b
    BY <1>2, NalsAre
  <2>2. i \in Slices
    BY <1>7, <2>1 DEF Slices, is_slice
  <2>3. ~(i < b)
    <3>1. k - 1 \in 0..Len(SliceNals) /\ (k - 1) + 1 = k
      BY UnitIs, UnitEnds
    <3>2. UnitEnd(k - 1) < i
      BY <1>0, <1>2, <2>1
    <3>3. i < b => i < UnitEnd((k - 1) + 1)
      BY <1>1, <3>1
    <3> QED
      BY <2>1, <2>2, <3>1, <3>2, <3>3, BetweenEnds
  <2> QED
    BY <1>2, <2>1, <2>3
<1>8. au_has_idr(ExpectedUnit(k)) <=> \E i \in a + 1..b : Nals[i].header % 32 \in {SLICE_IDR}
  BY <1>2, <1>3, TypesIn DEF au_has_idr
<1>9. au_has_idr(ExpectedUnit(k)) <=> Nals[b].header % 32 = SLICE_IDR
  BY <1>2, <1>7, <1>8
<1>10. au_has_idr(ExpectedUnit(k)) \in BOOLEAN
  BY DEF au_has_idr, HasType
<1> QED
  BY <1>4, <1>6, <1>9, <1>10

\* The n NALs behind NAL a.
NalRow(a, n) == [k \in 1..n |-> Encoded(Nals[a + k])]

\* A stretch of a row of NALs joins to its bytes.
LEMMA StretchJoins ==
  ASSUME NEW a \in 0..Len(Nals), NEW n \in Nat, a + n <= Len(Nals),
         NEW lo \in 0..n, NEW hi \in lo + 1..n
  PROVE  FlattenSeq(SubSeq(NalRow(a, n), lo + 1, hi)) = Buffer(a + lo, Offset(a + hi))
<1>10. PICK nals : nals = [k \in 1..n |-> Encoded(Nals[a + k])]
  OBVIOUS
<1>11. nals = NalRow(a, n)
  BY <1>10, Zenon DEF NalRow
<1> SUFFICES FlattenSeq(SubSeq(nals, lo + 1, hi)) = Buffer(a + lo, Offset(a + hi))
  BY <1>11, Zenon
<1>0. a \in Nat /\ lo \in Nat /\ hi \in Nat /\ hi - lo \in Nat
  BY NalsAre
<1>1. \A k \in 1..n : a + k \in 1..Len(Nals) /\ nals[k] = Encoded(Nals[a + k]) /\ nals[k] \in Seq(Nat)
  <2>1. ASSUME NEW k \in 1..n
        PROVE  a + k \in 1..Len(Nals) /\ nals[k] = Encoded(Nals[a + k]) /\ nals[k] \in Seq(Nat)
    <3>1. a + k \in 1..Len(Nals)
      BY <1>0, NalsAre
    <3> QED
      BY <1>10, <3>1, EncodedBytes
  <2> QED
    BY <2>1
<1>2. PICK s : s = SubSeq(nals, lo + 1, hi)
  OBVIOUS
<1>3. /\ s \in Seq(Seq(Nat)) /\ Len(s) = hi - lo
      /\ \A k \in 1..hi - lo : s[k] = nals[lo + k]
  <2>4. lo + 1 \in Int /\ hi \in Int
    BY <1>0
  <2>5. \A i \in lo + 1..hi : i \in 1..n
    BY <1>0
  <2>1. PICK T : T = Seq(Nat) /\ \A i \in lo + 1..hi : nals[i] \in T
    BY <1>1, <2>5, Zenon
  <2>2. /\ s \in Seq(T) /\ Len(s) = IF lo + 1 <= hi THEN hi - (lo + 1) + 1 ELSE 0
        /\ \A k \in 1..hi - (lo + 1) + 1 : s[k] = nals[(lo + 1) + k - 1]
    <3>1. /\ SubSeq(nals, lo + 1, hi) \in Seq(T)
          /\ Len(SubSeq(nals, lo + 1, hi)) = IF lo + 1 <= hi THEN hi - (lo + 1) + 1 ELSE 0
          /\ \A k \in 1..hi - (lo + 1) + 1 : SubSeq(nals, lo + 1, hi)[k] = nals[(lo + 1) + k - 1]
      <4>1. \A i \in lo + 1..hi : nals[i] \in T
        BY <2>1
      <4>2. PICK p \in Int, q \in Int : p = lo + 1 /\ q = hi
        BY <2>4
      <4>3. \A i \in p..q : nals[i] \in T
        BY <4>1, <4>2, Zenon
      <4>4. SubSeq(nals, p, q) \in Seq(T)
        BY <4>3, SubSeqProperties
      <4>5. Len(SubSeq(nals, p, q)) = IF p <= q THEN q - p + 1 ELSE 0
        BY <4>3, SubSeqProperties
      <4>6. \A k \in 1..q - p + 1 : SubSeq(nals, p, q)[k] = nals[p + k - 1]
        BY <4>3, SubSeqProperties
      <4> QED
        BY <4>2, <4>4, <4>5, <4>6, Zenon
    <3> QED
      BY <1>2, <3>1, Zenon
  <2>3. lo + 1 <= hi /\ hi - (lo + 1) + 1 = hi - lo
        /\ \A k \in 1..hi - lo : (lo + 1) + k - 1 = lo + k
    BY <1>0
  <2> QED
    BY <2>1, <2>2, <2>3
<1>4. PICK t : t = [k \in 1..hi - lo |-> Encoded(Nals[(a + lo) + k])]
  OBVIOUS
<1>5. ASSUME NEW k \in 1..hi - lo PROVE s[k] = Encoded(Nals[(a + lo) + k])
  <2>1. lo + k \in 1..n /\ a + (lo + k) = (a + lo) + k
    BY <1>0
  <2> QED
    BY <1>1, <1>3, <2>1
<1>6. s = t
  <2>1. s = [k \in 1..Len(s) |-> s[k]]
    BY <1>3, LenProperties
  <2> QED
    BY <1>3, <1>4, <1>5, <2>1
<1>7. a + lo \in 0..Len(Nals) /\ a + hi \in (a + lo) + 1..Len(Nals) /\ (a + hi) - (a + lo) = hi - lo
  BY <1>0, NalsAre
<1>8. FlattenSeq([k \in 1..(a + hi) - (a + lo) |-> Encoded(Nals[(a + lo) + k])])
        = Buffer(a + lo, Offset(a + hi))
  BY <1>7, NalsJoin
<1> QED
  BY <1>2, <1>4, <1>6, <1>7, <1>8

\* Behind unit c, whole NALs are grouped to whole units up to unit d, and what
\* is left.
LEMMA GroupWhole ==
  ASSUME NEW c \in 0..Len(SliceNals), NEW d \in c..Len(SliceNals),
         NEW b \in UnitEnd(d)..Len(Nals), b > UnitEnd(c),
         d < Len(SliceNals) => b < UnitEnd(d + 1)
  PROVE  group_access_units(Buffer(UnitEnd(c), Offset(b))) =
           [k \in 1..d - c + (IF b = UnitEnd(d) THEN 0 ELSE 1) |->
              IF k <= d - c THEN ExpectedUnit(c + k) ELSE Buffer(UnitEnd(d), Offset(b))]
<1>0. PICK M \in Nat : M = Len(SliceNals) /\ c \in 0..M /\ d \in 0..M /\ c <= d
  <2>1. PICK M \in Nat : M = Len(SliceNals)
    BY UnitEnds
  <2>2. c \in 0..M /\ d \in c..M
    BY <2>1
  <2>3. d \in 0..M /\ c <= d
    BY <2>2
  <2> QED
    BY <2>1, <2>2, <2>3
<1> DEFINE e == UnitEnd(d)
           a == UnitEnd(c)
<1>1. \A k \in 0..M : UnitEnd(k) \in Nat /\ UnitEnd(k) \in 0..Len(Nals)
  BY <1>0, UnitEnds
<1>2. a \in 0..Len(Nals) /\ e \in 0..Len(Nals) /\ a \in Nat /\ e \in Nat
  BY <1>0, <1>1
<1>3. a <= e
  <2>1. c < d => a < e
    BY <1>0, UnitEnds
  <2>2. c = d => a = e
    OBVIOUS
  <2>3. c < d \/ c = d
    BY <1>0
  <2> QED
    BY <1>2, <2>1, <2>2, <2>3
<1>4. b \in 0..Len(Nals) /\ b \in Nat /\ e <= b /\ a < b /\ b \in a..Len(Nals) /\ b <= Len(Nals)
  BY <1>2, <1>3, NalsAre
<1>5. PICK n \in Nat \ {0} : n = b - a
  BY <1>2, <1>4
<1>6. PICK nals : nals = split_nals(Buffer(a, Offset(b)))
  OBVIOUS
<1>7. nals = [k \in 1..n |-> Encoded(Nals[a + k])]
  BY <1>2, <1>4, <1>5, <1>6, SplitWhole
<1>8. DOMAIN nals = 1..n /\ Len(nals) = n
  BY <1>7
<1>9. ASSUME NEW i \in 1..n
      PROVE  /\ a + i \in 1..Len(Nals) /\ a + i \in a + 1..b
             /\ is_slice(nal_unit_type(nals[i])) <=> a + i \in Slices
  <2>1. a + i \in 1..Len(Nals) /\ a + i \in a + 1..b
    BY <1>2, <1>4, <1>5
  <2>2. nal_unit_type(nals[i]) = Nals[a + i].header % 32
    BY <1>7, <2>1, TypeOfEncoded
  <2> QED
    BY <2>1, <2>2 DEF Slices
<1> DEFINE E == {i \in DOMAIN nals : is_slice(nal_unit_type(nals[i])) \/ i = Len(nals)}
<1>10. PICK m \in Nat : m = d - c + (IF b = e THEN 0 ELSE 1)
  <2>1. d - c \in Nat
    BY <1>0
  <2> QED
    BY <2>1
<1>11. PICK g : g = [k \in 1..m |-> IF k <= d - c THEN UnitEnd(c + k) - a ELSE n]
  OBVIOUS
<1>12. ASSUME NEW k \in 1..m, k <= d - c
       PROVE  /\ c + k \in 1..M /\ c + k \in 0..M /\ g[k] = UnitEnd(c + k) - a
              /\ a < UnitEnd(c + k) /\ UnitEnd(c + k) <= e
              /\ g[k] \in 1..n
  <2>1. c + k \in 1..M /\ c + k \in 0..M /\ c < c + k /\ c + k <= d
    BY <1>0, <1>12
  <2>2. g[k] = UnitEnd(c + k) - a
    BY <1>11, <1>12
  <2>3. a < UnitEnd(c + k)
    BY <1>0, <2>1, UnitEnds
  <2>4. UnitEnd(c + k) <= e
    <3>1. c + k < d => UnitEnd(c + k) < e
      BY <1>0, <2>1, UnitEnds
    <3>2. c + k = d \/ c + k < d
      BY <1>0, <2>1
    <3>3. UnitEnd(c + k) \in Nat
      BY <1>1, <2>1
    <3> QED
      BY <1>2, <3>1, <3>2, <3>3
  <2>5. g[k] \in 1..n
    <3>1. UnitEnd(c + k) \in Nat
      BY <1>1, <2>1
    <3> HIDE DEF a, e
    <3> QED
      BY <1>2, <1>4, <1>5, <2>2, <2>3, <2>4, <3>1
  <2> QED
    BY <2>1, <2>2, <2>3, <2>4, <2>5
<1>13. ASSUME NEW k \in 1..m, ~(k <= d - c)
       PROVE  k = m /\ k = d - c + 1 /\ b # e /\ g[k] = n
  <2>1. g[k] = n
    BY <1>11, <1>13
  <2>2. d - c \in Nat
    BY <1>0
  <2>3. b # e
    BY <1>10, <1>13, <2>2
  <2>4. m = d - c + 1
    BY <1>10, <2>3
  <2> QED
    BY <1>13, <2>1, <2>2, <2>3, <2>4
<1>14. g \in [1..m -> Nat]
  <2>1. \A k \in 1..m : g[k] \in Nat
    <3>1. ASSUME NEW k \in 1..m PROVE g[k] \in Nat
      <4>1. CASE k <= d - c
        BY <1>12, <4>1
      <4>2. CASE ~(k <= d - c)
        BY <1>13, <4>2
      <4> QED
        BY <4>1, <4>2
    <3> QED
      BY <3>1
  <2> QED
    BY <1>11, <2>1
<1>15. Climbs(g, m)
  <2> SUFFICES ASSUME NEW i \in 1..m, NEW j \in 1..m, i < j PROVE g[i] < g[j]
    BY DEF Climbs
  <2>0. d - c \in Nat
    BY <1>0
  <2>1. i <= d - c
    <3>1. ~(i <= d - c) => i = m
      BY <1>13
    <3> QED
      BY <3>1
  <2>2. PICK u \in Nat : u = UnitEnd(c + i) /\ u <= e /\ g[i] = u - a
    BY <1>1, <1>12, <2>1
  <2>3. CASE j <= d - c
    <3>1. PICK v \in Nat : v = UnitEnd(c + j) /\ g[j] = v - a
      BY <1>1, <1>12, <2>3
    <3>2. c + i \in 0..M /\ c + j \in 0..M /\ c + i < c + j
      BY <1>0, <1>12, <2>1, <2>3
    <3>3. u < v
      BY <1>0, <2>2, <3>1, <3>2, UnitEnds
    <3> HIDE DEF a
    <3> QED
      BY <1>2, <2>2, <3>1, <3>3
  <2>4. CASE ~(j <= d - c)
    <3>1. b # e /\ g[j] = n
      BY <1>13, <2>4
    <3> HIDE DEF a, e
    <3>2. u < b
      BY <1>2, <1>4, <2>2, <3>1
    <3> QED
      BY <1>2, <1>4, <1>5, <2>2, <3>1, <3>2
  <2> QED
    BY <2>3, <2>4
<1>16. ASSUME NEW k \in 1..m PROVE g[k] \in E
  <2>1. CASE k <= d - c
    <3>1. g[k] \in 1..n /\ c + k \in 1..M /\ UnitEnd(c + k) \in Nat
      BY <1>1, <1>12, <2>1
    <3>2. a + g[k] = UnitEnd(c + k)
      <4>1. g[k] = UnitEnd(c + k) - a
        BY <1>12, <2>1
      <4> HIDE DEF a
      <4> QED
        BY <1>2, <3>1, <4>1
    <3>3. a + g[k] \in Slices
      BY <1>0, <3>1, <3>2, UnitEnds
    <3> QED
      BY <1>8, <1>9, <3>1, <3>3
  <2>2. CASE ~(k <= d - c)
    <3>1. g[k] = n /\ n \in 1..n
      BY <1>13, <2>2
    <3> QED
      BY <1>8, <3>1
  <2> QED
    BY <2>1, <2>2
<1>17. ASSUME NEW i \in E PROVE \E k \in 1..m : i = g[k]
  <2>1. i \in 1..n /\ (is_slice(nal_unit_type(nals[i])) \/ i = n)
    BY <1>8
  <2>2. CASE a + i \in Slices
    <3>1. PICK l \in 1..M : a + i = UnitEnd(l)
      BY <1>0, <2>2, UnitEnds
    <3>2. l \in 0..M /\ UnitEnd(l) \in Nat
      BY <1>1, <3>1
    <3>3. a < UnitEnd(l) /\ UnitEnd(l) <= b
      <4> HIDE DEF a
      <4> QED
        BY <1>2, <1>4, <1>5, <2>1, <3>1
    <3>4. c < l
      <4>1. l = c => UnitEnd(l) = a
        OBVIOUS
      <4>2. l < c => UnitEnd(l) < a
        BY <1>0, <3>2, UnitEnds
      <4>3. l \in Nat /\ c \in Nat
        BY <1>0
      <4> HIDE DEF a
      <4> QED
        BY <1>2, <3>2, <3>3, <4>1, <4>2, <4>3
    <3>5. l <= d
      <4> SUFFICES ASSUME d < l PROVE FALSE
        BY <1>0
      <4>1. d < M /\ d + 1 \in 0..M
        BY <1>0, <3>1
      <4>2. b < UnitEnd(d + 1) /\ UnitEnd(d + 1) \in Nat
        BY <1>0, <1>1, <4>1
      <4>3. UnitEnd(d + 1) <= UnitEnd(l)
        <5>1. d + 1 < l => UnitEnd(d + 1) < UnitEnd(l)
          BY <1>0, <3>2, <4>1, UnitEnds
        <5>2. d + 1 = l \/ d + 1 < l
          BY <1>0
        <5> QED
          BY <3>2, <4>2, <5>1, <5>2
      <4> QED
        BY <1>4, <3>2, <3>3, <4>2, <4>3
    <3>6. l - c \in 1..m /\ l - c <= d - c /\ c + (l - c) = l
      BY <1>0, <1>10, <3>4, <3>5
    <3>7. g[l - c] = UnitEnd(l) - a
      BY <1>12, <3>6
    <3>8. i = UnitEnd(l) - a
      <4> HIDE DEF a
      <4> QED
        BY <1>2, <2>1, <3>1
    <3> QED
      BY <3>6, <3>7, <3>8
  <2>3. CASE i = n
    <3>1. CASE b = e
      <4>1. c < d
        <5> SUFFICES ASSUME c = d PROVE FALSE
          BY <1>0
        <5>1. a = e
          OBVIOUS
        <5> QED
          BY <1>2, <1>4, <3>1, <5>1
      <4>2. d - c \in 1..m /\ c + (d - c) = d
        BY <1>0, <1>10, <4>1
      <4>3. g[d - c] = e - a
        BY <1>12, <4>2
      <4> HIDE DEF a, e
      <4> QED
        BY <1>5, <2>3, <3>1, <4>2, <4>3
    <3>2. CASE b # e
      <4>1. m \in 1..m /\ ~(m <= d - c)
        BY <1>0, <1>10, <3>2
      <4>2. g[m] = n
        BY <1>13, <4>1
      <4> QED
        BY <2>3, <4>1, <4>2
    <3> QED
      BY <3>1, <3>2
  <2> QED
    BY <1>9, <2>1, <2>2, <2>3
<1>18. E = {g[k] : k \in 1..m}
  <2> HIDE DEF E
  <2> QED
    BY <1>16, <1>17, Zenon
<1>19. Ascending(E) = g
  <2> HIDE DEF E
  <2> QED
    BY <1>14, <1>15, <1>18, AscendingIs
<1>20. DOMAIN g = 1..m
  BY <1>11
<1> DEFINE first(k) == IF k = 1 THEN 1 ELSE g[k - 1] + 1
<1>21. group_access_units(Buffer(a, Offset(b)))
         = [k \in 1..m |-> FlattenSeq(SubSeq(nals, first(k), g[k]))]
  BY <1>6, <1>19, <1>20, Zenon DEF group_access_units
<1>22. ASSUME NEW k \in 1..m
       PROVE  FlattenSeq(SubSeq(nals, first(k), g[k])) =
                IF k <= d - c THEN ExpectedUnit(c + k) ELSE Buffer(e, Offset(b))
  <2>0. d - c \in Nat /\ k - 1 <= d - c
    <3>1. ~(k <= d - c) => k = d - c + 1
      BY <1>13
    <3> QED
      BY <1>0, <3>1
  <2>1. PICK lo \in Nat : /\ lo \in 0..n /\ lo < g[k] /\ first(k) = lo + 1
                          /\ a + lo = UnitEnd(c + (k - 1))
    <3>1. CASE k = 1
      <4>1. c + (k - 1) = c
        BY <1>0, <3>1
      <4>2. g[k] \in 1..n
        <5>1. k <= d - c => g[k] \in 1..n
          BY <1>12
        <5>2. ~(k <= d - c) => g[k] \in 1..n
          BY <1>13
        <5> QED
          BY <5>1, <5>2
      <4>3. 0 \in 0..n /\ 0 < g[k] /\ first(k) = 0 + 1 /\ 0 \in Nat
        BY <3>1, <4>2
      <4>4. a + 0 = a
        <5> HIDE DEF a
        <5> QED
          BY <1>2
      <4>5. a + 0 = UnitEnd(c + (k - 1))
        BY <4>1, <4>4
      <4> QED
        BY <4>3, <4>5
    <3>2. CASE k # 1
      <4>1. k - 1 \in 1..m /\ k - 1 < k
        BY <3>2
      <4>2. g[k - 1] = UnitEnd(c + (k - 1)) - a /\ g[k - 1] \in 1..n /\ c + (k - 1) \in 0..M
        BY <1>12, <2>0, <4>1
      <4>3. g[k - 1] < g[k]
        BY <1>15, <4>1 DEF Climbs
      <4>4. first(k) = g[k - 1] + 1
        BY <3>2
      <4>5. UnitEnd(c + (k - 1)) \in Nat
        BY <1>1, <4>2
      <4>6. a + g[k - 1] = UnitEnd(c + (k - 1))
        <5> HIDE DEF a
        <5> QED
          BY <1>2, <4>2, <4>5
      <4> HIDE DEF a, first
      <4> QED
        BY <4>2, <4>3, <4>4, <4>6
    <3> QED
      BY <3>1, <3>2
  <2>2. PICK hi \in lo + 1..n : hi = g[k]
    <3>1. g[k] \in 1..n
      <4>1. k <= d - c => g[k] \in 1..n
        BY <1>12
      <4>2. ~(k <= d - c) => g[k] \in 1..n
        BY <1>13
      <4> QED
        BY <4>1, <4>2
    <3>2. g[k] \in lo + 1..n
      BY <2>1, <3>1
    <3> QED
      BY <3>2
  <2>3. FlattenSeq(SubSeq(nals, lo + 1, hi)) = Buffer(a + lo, Offset(a + hi))
    <3>1. a + n <= Len(Nals)
      <4> HIDE DEF a
      <4> QED
        BY <1>2, <1>4, <1>5
    <3> HIDE DEF a
    <3>2. n \in Nat /\ lo \in 0..n /\ hi \in lo + 1..n
      BY <2>1, <2>2
    <3>3. PICK f : f = a /\ f \in 0..Len(Nals)
      BY <1>2
    <3>4. f + n <= Len(Nals) /\ nals = NalRow(f, n)
      BY <1>7, <3>1, <3>3, Zenon DEF NalRow
    <3>5. FlattenSeq(SubSeq(nals, lo + 1, hi)) = Buffer(f + lo, Offset(f + hi))
      <4>1. FlattenSeq(SubSeq(NalRow(f, n), lo + 1, hi)) = Buffer(f + lo, Offset(f + hi))
        BY <3>2, <3>3, <3>4, StretchJoins
      <4> QED
        BY <3>4, <4>1, Zenon
    <3> QED
      BY <3>3, <3>5, Zenon
  <2>4. CASE k <= d - c
    <3>1. c + k \in 1..M /\ (c + k) - 1 = c + (k - 1) /\ hi = UnitEnd(c + k) - a
          /\ UnitEnd(c + k) \in Nat
      BY <1>0, <1>1, <1>12, <2>2, <2>4
    <3>2. a + hi = UnitEnd(c + k)
      <4> HIDE DEF a
      <4> QED
        BY <1>2, <2>2, <3>1
    <3>3. ExpectedUnit(c + k) = Buffer(UnitEnd((c + k) - 1), Offset(UnitEnd(c + k)))
      BY <1>0, <3>1, UnitIs
    <3> HIDE DEF a, first, e
    <3> QED
      BY <2>1, <2>2, <2>3, <2>4, <3>1, <3>2, <3>3
  <2>5. CASE ~(k <= d - c)
    <3>1. hi = n /\ k - 1 = d - c
      BY <1>13, <2>0, <2>2, <2>5
    <3>2. c + (k - 1) = d
      BY <1>0, <3>1
    <3>3. a + lo = e
      BY <2>1, <3>2
    <3>4. a + hi = b
      <4> HIDE DEF a
      <4> QED
        BY <1>2, <1>4, <1>5, <3>1
    <3> HIDE DEF a, first, e
    <3> QED
      BY <2>1, <2>2, <2>3, <2>5, <3>3, <3>4
  <2> QED
    BY <2>4, <2>5
<1>23. [k \in 1..m |-> FlattenSeq(SubSeq(nals, first(k), g[k]))]
         = [k \in 1..m |-> IF k <= d - c THEN ExpectedUnit(c + k) ELSE Buffer(e, Offset(b))]
  <2> HIDE DEF first
  <2> QED
    BY <1>22, Zenon
<1> QED
  BY <1>10, <1>21, <1>23, Zenon

\* Parts of a buffer are buffers.
LEMMA BufferParts ==
  ASSUME NEW a \in 0..Len(Nals), NEW b \in a..Len(Nals), NEW e \in Offset(b)..Len(Stream)
  PROVE  /\ Offset(a) <= Offset(b) /\ Offset(a) \in Nat /\ Offset(b) \in Nat
         /\ SubSeq(Buffer(a, e), 1, Offset(b) - Offset(a)) = Buffer(a, Offset(b))
         /\ SubSeq(Buffer(a, e), Offset(b) - Offset(a) + 1, Len(Buffer(a, e))) = Buffer(b, e)
         /\ Buffer(a, Offset(b)) \o Buffer(b, e) = Buffer(a, e)
<1>0. a \in 0..Len(Nals) /\ b \in 0..Len(Nals) /\ a <= b
  BY NalsAre
<1>1. PICK o \in Nat, p \in Nat, l \in Nat : o = Offset(a) /\ p = Offset(b) /\ l = Len(Stream)
  BY <1>0, StreamBytes, LenProperties
<1>2. Offset(a) <= Offset(b)
  BY <1>0, OffsetsGrow
<1>3. o <= p /\ e \in p..l /\ p <= e /\ e <= l /\ e \in Nat
  BY <1>1, <1>2
<1>4. PICK x : x = Buffer(a, e)
  OBVIOUS
<1>5. x = SubSeq(Stream, o + 1, e)
  BY <1>1, <1>4, Zenon DEF Buffer
<1>6. x \in Seq(Nat) /\ Len(x) = e - o
  <2>1. e \in Offset(a)..Len(Stream)
    BY <1>1, <1>3
  <2>2. Buffer(a, e) \in Seq(Nat) /\ Len(Buffer(a, e)) = e - Offset(a)
    BY <2>1, BufferIs
  <2> QED
    BY <1>1, <1>4, <2>2
<1>7. SubSeq(x, 1, p - o) = SubSeq(Stream, o + 1, p)
  <2>1. CASE p = o
    <3>1. SubSeq(x, 1, p - o) = <<>>
      BY <2>1, SubSeqEmpty
    <3>2. SubSeq(Stream, o + 1, p) = <<>>
      BY <2>1, SubSeqEmpty
    <3> QED
      BY <3>1, <3>2
  <2>2. CASE p # o
    <3>1. /\ o + 1 \in 1..l /\ e \in 1..l /\ 1 \in 1..e - (o + 1) + 1
          /\ p - o \in 1..e - (o + 1) + 1
      BY <1>3, <2>2
    <3>2. SubSeq(SubSeq(Stream, o + 1, e), 1, p - o)
            = SubSeq(Stream, (o + 1) + 1 - 1, (o + 1) + (p - o) - 1)
      <4>1. /\ o + 1 \in 1..Len(Stream) /\ e \in 1..Len(Stream)
            /\ 1 \in 1..e - (o + 1) + 1 /\ p - o \in 1..e - (o + 1) + 1
        BY <1>1, <3>1, Zenon
      <4> QED
        BY <4>1, StreamBytes, SubSeqOfSubSeq
    <3>3. (o + 1) + 1 - 1 = o + 1 /\ (o + 1) + (p - o) - 1 = p
      OBVIOUS
    <3> QED
      BY <1>5, <3>2, <3>3
  <2> QED
    BY <2>1, <2>2
<1>8. SubSeq(x, p - o + 1, Len(x)) = SubSeq(Stream, p + 1, e)
  <2>1. CASE p = e
    <3>1. SubSeq(x, p - o + 1, e - o) = <<>>
      BY <1>3, <2>1, SubSeqEmpty
    <3>2. SubSeq(Stream, p + 1, e) = <<>>
      BY <1>3, <2>1, SubSeqEmpty
    <3> QED
      BY <1>6, <3>1, <3>2
  <2>2. CASE p # e
    <3>1. /\ o + 1 \in 1..l /\ e \in 1..l /\ p - o + 1 \in 1..e - (o + 1) + 1
          /\ e - o \in 1..e - (o + 1) + 1
      BY <1>3, <2>2
    <3>2. SubSeq(SubSeq(Stream, o + 1, e), p - o + 1, e - o)
            = SubSeq(Stream, (o + 1) + (p - o + 1) - 1, (o + 1) + (e - o) - 1)
      <4>1. /\ o + 1 \in 1..Len(Stream) /\ e \in 1..Len(Stream)
            /\ p - o + 1 \in 1..e - (o + 1) + 1 /\ e - o \in 1..e - (o + 1) + 1
        BY <1>1, <3>1, Zenon
      <4> QED
        BY <4>1, StreamBytes, SubSeqOfSubSeq
    <3>3. (o + 1) + (p - o + 1) - 1 = p + 1 /\ (o + 1) + (e - o) - 1 = e
      BY <1>3
    <3> QED
      BY <1>5, <1>6, <3>2, <3>3
  <2> QED
    BY <2>1, <2>2
<1>9. SubSeq(Stream, o + 1, p) \o SubSeq(Stream, p + 1, e) = SubSeq(Stream, o + 1, e)
  <2>1. o + 1 \in 1..l + 1 /\ p \in (o + 1) - 1..l /\ e \in p..l
    BY <1>3
  <2> QED
    BY <1>1, <2>1, StreamBytes, ConcatAdjacentSubSeq
<1> QED
  BY <1>1, <1>2, <1>4, <1>5, <1>7, <1>8, <1>9, Zenon DEF Buffer

\* next_frame finds the units that are whole: those whose successor has begun.
LEMMA CompleteIs ==
  ASSUME NEW c \in 0..Len(SliceNals), NEW e \in Offset(UnitEnd(c))..Len(Stream)
  PROVE  \E d \in c..Len(SliceNals) :
           /\ Offset(UnitEnd(d)) <= e
           /\ Complete(Buffer(UnitEnd(c), e)) =
                [aus |-> [k \in 1..d - c |-> ExpectedUnit(c + k)],
                 rest |-> Buffer(UnitEnd(d), e)]
           /\ \A k \in 1..Len(SliceNals) :
                /\ UnitEnd(k) + 1 \in 1..Len(Nals)
                /\ Offset(UnitEnd(k)) + Nals[UnitEnd(k) + 1].prefix <= e
                => k <= d
<1>0. PICK M \in Nat : M = Len(SliceNals)
  BY UnitEnds
<1>1. c \in 0..M
  BY <1>0
<1>2. PICK a \in 0..Len(Nals) : a = UnitEnd(c)
  BY <1>0, UnitEnds
<1>3. a \in Nat /\ Offset(a) \in Nat /\ e \in Offset(a)..Len(Stream) /\ e \in Nat /\ Len(Stream) \in Nat
  <2>1. a \in Nat /\ Offset(a) \in Nat /\ Len(Stream) \in Nat
    BY NalsAre, StreamBytes, LenProperties
  <2> QED
    BY <1>2, <2>1
<1>4. PICK b \in a..Len(Nals) : Seen(a, e) = a + 1..b
  BY <1>3, SeenIs
<1>5. b \in Nat /\ a <= b /\ b <= Len(Nals) /\ Len(Nals) \in Nat
  BY <1>3, NalsAre
<1>6. PICK x : x = Buffer(a, e)
  OBVIOUS
<1>7. PICK cut : cut = find_last_start_code(x)
  OBVIOUS
<1>8. cut = IF b = a THEN 0 ELSE Offset(b - 1) - Offset(a) + 1
  BY <1>3, <1>4, <1>6, <1>7, FindLast
\* A unit whose successor has begun ends before the last NAL seen.
<1>9. ASSUME NEW k \in 1..M, UnitEnd(k) + 1 \in 1..Len(Nals),
             Offset(UnitEnd(k)) + Nals[UnitEnd(k) + 1].prefix <= e
      PROVE  k <= c \/ UnitEnd(k) <= b - 1
  <2>1. PICK u \in Nat : u = UnitEnd(k)
    <3>1. k \in 0..M
      OBVIOUS
    <3>2. UnitEnd(k) \in 0..Len(Nals)
      BY <1>0, <3>1, UnitEnds
    <3> QED
      BY <3>2
  <2>2. CASE k <= c
    BY <2>2
  <2>3. CASE ~(k <= c)
    <3>1. UnitEnd(c) < UnitEnd(k)
      <4>1. k \in 0..M /\ c \in 0..M /\ c < k
        BY <1>1, <2>3
      <4> QED
        BY <1>0, <4>1, UnitEnds
    <3>2. u + 1 \in a + 1..Len(Nals) /\ (u + 1) - 1 = u
      BY <1>2, <1>3, <1>9, <2>1, <3>1
    <3>3. Offset((u + 1) - 1) + Nals[u + 1].prefix <= e
      BY <1>9, <2>1, <3>2, Zenon
    <3>4. u + 1 \in Seen(a, e)
      BY <3>2, <3>3, Zenon DEF Seen
    <3>5. u + 1 <= b
      BY <1>4, <3>4
    <3>6. u <= b - 1
      BY <1>5, <3>5
    <3> QED
      BY <2>1, <3>6
  <2> QED
    BY <2>2, <2>3
<1>10. CASE b <= a + 1
  <2>1. cut <= 1
    <3>1. CASE b = a
      BY <1>8, <3>1
    <3>2. CASE b # a
      <4>1. b - 1 = a
        BY <1>3, <1>5, <1>10, <3>2
      <4> QED
        BY <1>3, <1>8, <3>2, <4>1
    <3> QED
      BY <3>1, <3>2
  <2>2. Complete(x) = [aus |-> <<>>, rest |-> x]
    BY <1>7, <2>1, Zenon DEF Complete
  <2>3. [k \in 1..c - c |-> ExpectedUnit(c + k)] = <<>>
    <3>1. c - c = 0
      BY <1>1
    <3>2. [k \in 1..0 |-> ExpectedUnit(c + k)] = <<>>
      OBVIOUS
    <3> QED
      BY <3>1, <3>2, Zenon
  <2>4. Complete(Buffer(UnitEnd(c), e)) =
          [aus |-> [k \in 1..c - c |-> ExpectedUnit(c + k)], rest |-> Buffer(UnitEnd(c), e)]
    BY <1>2, <1>6, <2>2, <2>3, Zenon
  <2>5. Offset(UnitEnd(c)) <= e
    BY <1>2, <1>3
  <2>6. ASSUME NEW k \in 1..M, UnitEnd(k) + 1 \in 1..Len(Nals),
               Offset(UnitEnd(k)) + Nals[UnitEnd(k) + 1].prefix <= e
        PROVE  k <= c
    <3> SUFFICES ASSUME c < k PROVE FALSE
      BY <1>1
    <3>1. UnitEnd(k) <= b - 1
      BY <1>1, <1>9, <2>6
    <3>2. UnitEnd(c) < UnitEnd(k)
      <4>1. k \in 0..M
        OBVIOUS
      <4> QED
        BY <1>0, <1>1, <4>1, UnitEnds
    <3>3. UnitEnd(k) \in Nat
      <4>1. k \in 0..M
        OBVIOUS
      <4>2. UnitEnd(k) \in 0..Len(Nals)
        BY <1>0, <4>1, UnitEnds
      <4> QED
        BY <4>2
    <3> QED
      BY <1>2, <1>3, <1>5, <1>10, <3>1, <3>2, <3>3
  <2>7. c \in c..M
    BY <1>1
  <2>8. \A k \in 1..M :
          /\ UnitEnd(k) + 1 \in 1..Len(Nals)
          /\ Offset(UnitEnd(k)) + Nals[UnitEnd(k) + 1].prefix <= e
          => k <= c
    BY <2>6, Zenon
  <2> QED
    BY <1>0, <2>4, <2>5, <2>7, <2>8, Zenon
<1>11. CASE ~(b <= a + 1)
  <2>1. PICK w \in a + 1..Len(Nals) : w = b - 1
    BY <1>3, <1>5, <1>11
  <2>2. w \in Nat /\ a < w /\ w \in 0..Len(Nals) /\ w \in a..Len(Nals) /\ b # a /\ w + 1 = b
    BY <1>3, <1>5, <1>11, <2>1
  <2>3. PICK o \in Nat, p \in Nat : o = Offset(a) /\ p = Offset(w) /\ o < p /\ p <= e
    <3>1. Offset(w) \in Nat
      BY <2>2, StreamBytes
    <3>2. Offset(a) < Offset(w)
      <4>1. Offset(a) + Size(a + 1) <= Offset(w)
        BY <2>2, OffsetsGrow
      <4>2. a + 1 \in 1..Len(Nals)
        BY <1>3, <1>5, <2>2
      <4>3. PICK s \in Nat : s = Size(a + 1) /\ s >= 4
        BY <4>2, NalsAre
      <4>4. Offset(a) + s <= Offset(w)
        BY <4>1, <4>3, Zenon
      <4> QED
        BY <1>3, <3>1, <4>3, <4>4
    <3>3. Offset(w) <= e
      <4>1. b \in Seen(a, e)
        BY <1>3, <1>4, <1>5, <1>11
      <4>2. Offset(b - 1) + Nals[b].prefix <= e
        BY <4>1 DEF Seen
      <4>3. Nals[b].prefix \in 3..4
        <5>1. b \in 1..Len(Nals)
          BY <1>3, <1>5, <1>11
        <5> QED
          BY <5>1, NalsAre
      <4>4. PICK r \in 3..4 : r = Nals[b].prefix
        BY <4>3
      <4>5. Offset(w) + r <= e
        BY <2>1, <4>2, <4>4, Zenon
      <4> QED
        BY <1>3, <3>1, <4>5
    <3> QED
      BY <1>3, <3>1, <3>2, <3>3
  <2>4. cut = p - o + 1 /\ ~(cut <= 1) /\ cut - 1 = p - o
    <3>1. cut = Offset(w) - Offset(a) + 1
      BY <1>8, <2>1, <2>2, Zenon
    <3>2. cut = p - o + 1
      BY <2>3, <3>1, Zenon
    <3>3. ~(p - o + 1 <= 1) /\ (p - o + 1) - 1 = p - o
      BY <2>3
    <3> QED
      BY <3>2, <3>3, Zenon
  <2>5. /\ SubSeq(x, 1, cut - 1) = Buffer(a, Offset(w))
        /\ SubSeq(x, cut, Len(x)) = Buffer(w, e)
    <3>1. e \in Offset(w)..Len(Stream)
      BY <1>3, <2>3
    <3>2. /\ SubSeq(x, 1, Offset(w) - Offset(a)) = Buffer(a, Offset(w))
          /\ SubSeq(x, Offset(w) - Offset(a) + 1, Len(x)) = Buffer(w, e)
      BY <1>6, <2>2, <3>1, BufferParts
    <3> QED
      BY <2>3, <2>4, <3>2, Zenon
  \* Unit d is the last one that ends there.
  <2> DEFINE V == {k \in 0..M : UnitEnd(k) <= w}
  <2>6. c \in V
    BY <1>1, <1>2, <1>3, <2>2
  <2>7. PICK d \in V : \A k \in V : k <= d
    <3>1. V \subseteq 0..M /\ V # {}
      BY <2>6
    <3> HIDE DEF V
    <3> QED
      BY <3>1, Greatest
  <2>8. d \in 0..M /\ UnitEnd(d) <= w /\ c <= d /\ d \in c..M
    BY <1>1, <2>6, <2>7
  <2>9. UnitEnd(d) \in Nat /\ UnitEnd(d) \in 0..Len(Nals)
    <3>1. UnitEnd(d) \in 0..Len(Nals)
      BY <1>0, <2>8, UnitEnds
    <3> QED
      BY <3>1
  <2>10. ASSUME d < M PROVE w < UnitEnd(d + 1)
    <3>1. d + 1 \in 0..M /\ ~(d + 1 <= d)
      BY <2>8, <2>10
    <3>2. d + 1 \notin V
      BY <2>7, <3>1
    <3>3. ~(UnitEnd(d + 1) <= w)
      BY <3>1, <3>2
    <3>4. UnitEnd(d + 1) \in 0..Len(Nals)
      BY <1>0, <3>1, UnitEnds
    <3> QED
      BY <2>2, <3>3, <3>4
  <2>11. \A k \in 1..M :
           /\ UnitEnd(k) + 1 \in 1..Len(Nals)
           /\ Offset(UnitEnd(k)) + Nals[UnitEnd(k) + 1].prefix <= e
           => k <= d
    <3>1. ASSUME NEW k \in 1..M, UnitEnd(k) + 1 \in 1..Len(Nals),
                 Offset(UnitEnd(k)) + Nals[UnitEnd(k) + 1].prefix <= e
          PROVE  k <= d
      <4>1. k <= c \/ UnitEnd(k) <= w
        BY <1>9, <2>1, <3>1
      <4>2. k \in 0..M
        OBVIOUS
      <4>3. k <= c => k <= d
        BY <1>1, <2>8
      <4>4. UnitEnd(k) <= w => k <= d
        BY <2>7, <4>2
      <4> QED
        BY <4>1, <4>3, <4>4
    <3> QED
      BY <3>1, Zenon
  <2> HIDE DEF V
  <2>12. Offset(UnitEnd(d)) <= p /\ Offset(UnitEnd(d)) <= e
    <3>1. Offset(UnitEnd(d)) <= Offset(w)
      BY <2>2, <2>8, <2>9, OffsetsGrow
    <3>2. Offset(UnitEnd(d)) \in Nat
      BY <2>9, StreamBytes
    <3> QED
      BY <1>3, <2>3, <3>1, <3>2
  <2>13. PICK aus : aus = group_access_units(Buffer(a, Offset(w)))
    OBVIOUS
  <2>14. aus = [k \in 1..d - c + (IF w = UnitEnd(d) THEN 0 ELSE 1) |->
                  IF k <= d - c THEN ExpectedUnit(c + k) ELSE Buffer(UnitEnd(d), Offset(w))]
    <3>1. d \in c..Len(SliceNals) /\ w \in UnitEnd(d)..Len(Nals) /\ w > UnitEnd(c)
      BY <1>0, <1>2, <1>3, <1>5, <2>2, <2>8, <2>9
    <3>2. d < Len(SliceNals) => w < UnitEnd(d + 1)
      BY <1>0, <2>10
    <3>3. group_access_units(Buffer(UnitEnd(c), Offset(w))) =
            [k \in 1..d - c + (IF w = UnitEnd(d) THEN 0 ELSE 1) |->
              IF k <= d - c THEN ExpectedUnit(c + k) ELSE Buffer(UnitEnd(d), Offset(w))]
      BY <3>1, <3>2, GroupWhole
    <3> QED
      BY <1>2, <2>13, <3>3, Zenon
  <2>15. Complete(x) =
           IF aus # <<>> /\ ~au_has_slice(Last(aus))
           THEN [aus |-> Front(aus), rest |-> Last(aus) \o Buffer(w, e)]
           ELSE [aus |-> aus, rest |-> Buffer(w, e)]
    <3>1. Complete(x) =
            LET u == group_access_units(SubSeq(x, 1, cut - 1))
                rest == SubSeq(x, cut, Len(x))
            IN IF u # <<>> /\ ~au_has_slice(Last(u))
               THEN [aus |-> Front(u), rest |-> Last(u) \o rest]
               ELSE [aus |-> u, rest |-> rest]
      BY <1>7, <2>4, Zenon DEF Complete
    <3> QED
      BY <2>5, <2>13, <3>1, Zenon
  <2>16. d - c \in Nat
    BY <1>1, <2>8
  <2>17. PICK units : units = [k \in 1..d - c |-> ExpectedUnit(c + k)]
    OBVIOUS
  <2>18. CASE w = UnitEnd(d)
    <3>1. aus = units
      <4>1. d - c + 0 = d - c
        BY <2>16
      <4>2. aus = [k \in 1..d - c |-> IF k <= d - c THEN ExpectedUnit(c + k)
                                     ELSE Buffer(UnitEnd(d), Offset(w))]
        BY <2>14, <2>18, <4>1, Zenon
      <4> QED
        BY <2>16, <2>17, <4>2
    <3>2. c < d
      <4> SUFFICES ASSUME c = d PROVE FALSE
        BY <1>1, <2>8
      <4>1. a = w
        BY <1>2, <2>18, Zenon
      <4> QED
        BY <1>3, <2>2, <4>1
    <3>3. Len(aus) = d - c /\ aus[d - c] = ExpectedUnit(c + (d - c)) /\ c + (d - c) = d
      BY <1>1, <2>8, <2>16, <2>17, <3>1, <3>2
    <3>4. Last(aus) = ExpectedUnit(d)
      BY <3>3, Zenon DEF Last
    <3>5. au_has_slice(Last(aus))
      <4>1. d \in 1..M
        BY <1>1, <2>8, <3>2
      <4> QED
        BY <1>0, <3>4, <4>1, UnitHas
    <3>6. Complete(x) = [aus |-> units, rest |-> Buffer(UnitEnd(d), e)]
      BY <2>15, <2>18, <3>1, <3>5, Zenon
    <3> QED
      BY <1>0, <1>2, <1>6, <2>8, <2>11, <2>12, <2>17, <3>6, Zenon
  <2>19. CASE w # UnitEnd(d)
    <3>1. aus = [k \in 1..d - c + 1 |-> IF k <= d - c THEN ExpectedUnit(c + k)
                                       ELSE Buffer(UnitEnd(d), Offset(w))]
      BY <2>14, <2>19, Zenon
    <3>2. Len(aus) = d - c + 1 /\ aus # <<>>
      BY <2>16, <3>1
    <3>3. Last(aus) = Buffer(UnitEnd(d), Offset(w))
      <4>1. aus[d - c + 1] = Buffer(UnitEnd(d), Offset(w))
        BY <2>16, <3>1
      <4> QED
        BY <3>2, <4>1, Zenon DEF Last
    <3>4. ~au_has_slice(Last(aus))
      <4>1. w \in UnitEnd(d)..Len(Nals) /\ UnitEnd(d) \in 0..Len(Nals)
        BY <1>5, <2>2, <2>8, <2>9
      <4>2. ASSUME NEW i \in UnitEnd(d) + 1..w, is_slice(Nals[i].header % 32)
            PROVE  FALSE
        <5>1. i \in 1..Len(Nals) /\ UnitEnd(d) < i /\ i <= w /\ i \in Nat
          BY <1>5, <2>2, <2>9
        <5>2. i \in Slices
          BY <4>2, <5>1 DEF Slices
        <5>3. ASSUME d < M PROVE i < UnitEnd(d + 1)
          <6>1. w < UnitEnd(d + 1)
            BY <2>10, <5>3
          <6>2. UnitEnd(d + 1) \in 0..Len(Nals)
            <7>1. d + 1 \in 0..M
              BY <2>8, <5>3
            <7> QED
              BY <1>0, <7>1, UnitEnds
          <6> QED
            BY <2>2, <5>1, <6>1, <6>2
        <5>4. d \in 0..Len(SliceNals) /\ (d < Len(SliceNals) => i < UnitEnd(d + 1))
          BY <1>0, <2>8, <5>3
        <5> QED
          BY <5>1, <5>2, <5>4, BetweenEnds
      <4>3. \A T : HasType(Buffer(UnitEnd(d), Offset(w)), T)
              => \E i \in UnitEnd(d) + 1..w : Nals[i].header % 32 \in T
        BY <4>1, TypesIn
      <4> QED
        BY <3>3, <4>2, <4>3, Zenon DEF au_has_slice, is_slice
    <3>5. Front(aus) = units
      <4>1. \A k \in 1..d - c : aus[k] = ExpectedUnit(c + k)
        BY <2>16, <3>1
      <4>2. Front(aus) = SubSeq(aus, 1, d - c)
        <5>1. (d - c + 1) - 1 = d - c
          BY <2>16
        <5> QED
          BY <3>2, <5>1, Zenon DEF Front
      <4>3. SubSeq(aus, 1, d - c) = [k \in 1..d - c |-> aus[k]]
        BY <2>16, <3>2
      <4> QED
        BY <2>17, <4>1, <4>2, <4>3
    <3>6. Last(aus) \o Buffer(w, e) = Buffer(UnitEnd(d), e)
      <4>1. w \in UnitEnd(d)..Len(Nals) /\ e \in Offset(w)..Len(Stream)
        BY <1>3, <1>5, <2>2, <2>3, <2>8, <2>9
      <4> QED
        BY <2>9, <3>3, <4>1, BufferParts
    <3>7. Complete(x) = [aus |-> units, rest |-> Buffer(UnitEnd(d), e)]
      BY <2>15, <3>2, <3>4, <3>5, <3>6, Zenon
    <3> QED
      BY <1>0, <1>2, <1>6, <2>8, <2>11, <2>12, <2>17, <3>7, Zenon
  <2> QED
    BY <2>18, <2>19
<1> QED
  BY <1>10, <1>11

\* What next_frame hands out.
Entry == [au : Seq(Nat), keyframe : BOOLEAN]

\* SourceInv holds initially,
LEMMA SourceInitially == SourceInit => SourceInv
<1> SUFFICES ASSUME SourceInit PROVE SourceInv
  OBVIOUS
<1>1. /\ pos = 0 /\ leftover = <<>> /\ queued = <<>> /\ emitted = <<>>
      /\ Len(queued) = 0 /\ Len(emitted) = 0 /\ DOMAIN queued = {} /\ DOMAIN emitted = {}
  BY DEF SourceInit
<1>2. /\ Len(SliceNals) \in Nat /\ DOMAIN SliceNals = 1..Len(SliceNals)
      /\ UnitEnd(0) = 0 /\ Offset(0) = 0 /\ Len(Stream) \in Nat
  BY UnitEnds, StreamBytes, LenProperties
<1>3. Len(emitted) + Len(queued) = 0
  BY <1>1
<1>4. pos \in Offset(UnitEnd(0))..Len(Stream)
  BY <1>1, <1>2
<1>5. leftover = SubSeq(Stream, Offset(UnitEnd(0)) + 1, pos)
  <2>1. SubSeq(Stream, 1, 0) = <<>>
    BY SubSeqEmpty
  <2> QED
    BY <1>1, <1>2, <2>1
<1>6. WholeUnits
  BY <1>1, <1>2 DEF WholeUnits
<1>7. NoneHeldBack
  <2> SUFFICES ASSUME NEW k \in DOMAIN SliceNals, SliceNals[k] + 1 \in DOMAIN Nals,
                      pos >= Offset(SliceNals[k]) + Nals[SliceNals[k] + 1].prefix
               PROVE  FALSE
    BY Zenon DEF NoneHeldBack, Offset
  <2>1. k \in 1..Len(SliceNals) /\ k \in 0..Len(SliceNals)
    BY <1>2
  <2>2. PICK u \in 0..Len(Nals) : u = SliceNals[k]
    BY <2>1, UnitEnds
  <2>3. u + 1 \in 1..Len(Nals)
    BY <2>2, NalsAre
  <2>4. PICK r \in 3..4, f \in Nat : r = Nals[u + 1].prefix /\ f = Offset(u)
    <3>1. Nals[u + 1].prefix \in 3..4
      BY <2>3, NalsAre
    <3> QED
      BY <3>1, StreamBytes
  <2>5. 0 >= f + r
    BY <1>1, <2>2, <2>4, Zenon
  <2> QED
    BY <2>5
<1>8. emitted \in Seq(Entry) /\ queued \in Seq(Seq(Nat))
  BY <1>1
<1>9. \A k \in DOMAIN queued : queued[k] = ExpectedUnit(Len(emitted) + k)
  BY <1>1
<1>10. 0 <= Len(SliceNals)
  BY <1>2
<1> QED
  BY <1>3, <1>4, <1>5, <1>6, <1>7, <1>8, <1>9, <1>10, Zenon
     DEF SourceInv, UnitsExact, Entry

\* handing out a queued unit keeps it,
LEMMA EmitPreserves == SourceInv /\ EmitQueued => SourceInv'
<1> SUFFICES ASSUME SourceInv, EmitQueued PROVE SourceInv'
  OBVIOUS
<1>1. PICK E : E = Entry
  OBVIOUS
<1>2. /\ emitted \in Seq(E) /\ queued \in Seq(Seq(Nat)) /\ queued # <<>>
      /\ \A k \in DOMAIN queued : queued[k] = ExpectedUnit(Len(emitted) + k)
  BY <1>1 DEF SourceInv, EmitQueued, Entry
<1>3. PICK n \in Nat, l \in Nat : n = Len(emitted) /\ l = Len(queued)
  BY <1>2, LenProperties
<1>4. DOMAIN emitted = 1..n /\ DOMAIN queued = 1..l /\ l >= 1
  <2>1. l # 0
    BY <1>2, <1>3, EmptySeq
  <2> QED
    BY <1>2, <1>3, <2>1, LenProperties
<1>5. PICK h : h = Head(queued)
  OBVIOUS
<1>6. h \in Seq(Nat) /\ h = queued[1] /\ h = ExpectedUnit(n + 1)
  <2>1. h \in Seq(Nat)
    BY <1>2, <1>5, HeadTailProperties
  <2>2. h = queued[1]
    BY <1>2, <1>5
  <2>3. 1 \in DOMAIN queued
    BY <1>4
  <2>4. queued[1] = ExpectedUnit(n + 1)
    BY <1>2, <1>3, <2>3, Zenon
  <2> QED
    BY <2>1, <2>2, <2>4, Zenon
<1>7. PICK x : x = [au |-> h, keyframe |-> au_has_idr(h)]
  OBVIOUS
<1>8. x \in E /\ x.au = h /\ x.keyframe = au_has_idr(h)
  <2>1. au_has_idr(h) \in BOOLEAN
    BY Zenon DEF au_has_idr, HasType
  <2> QED
    BY <1>1, <1>6, <1>7, <2>1 DEF Entry
<1>9. /\ emitted' = Append(emitted, x) /\ queued' = Tail(queued)
      /\ UNCHANGED <<pos, stdout, leftover>>
  BY <1>5, <1>7 DEF EmitQueued
<1>10. /\ emitted' \in Seq(E) /\ Len(emitted') = n + 1 /\ DOMAIN emitted' = 1..n + 1
       /\ \A k \in 1..n : emitted'[k] = emitted[k]
       /\ emitted'[n + 1] = x
  BY <1>2, <1>3, <1>8, <1>9
<1>11. /\ queued' \in Seq(Seq(Nat)) /\ Len(queued') = l - 1 /\ DOMAIN queued' = 1..l - 1
       /\ \A k \in 1..l - 1 : queued'[k] = queued[k + 1]
  <2>1. /\ queued' \in Seq(Seq(Nat)) /\ Len(queued') = l - 1
        /\ \A k \in 1..l - 1 : queued'[k] = queued[k + 1]
    BY <1>2, <1>3, <1>9, HeadTailProperties
  <2> QED
    BY <2>1, LenProperties
<1>12. Len(emitted') + Len(queued') = Len(emitted) + Len(queued)
  BY <1>3, <1>4, <1>10, <1>11
<1>13. n + l <= Len(SliceNals) /\ Len(SliceNals) \in Nat
  BY <1>3, UnitEnds DEF SourceInv
<1>14. n + 1 \in 1..Len(SliceNals)
  BY <1>4, <1>13
<1>15. \A k \in DOMAIN queued' : queued'[k] = ExpectedUnit(Len(emitted') + k)
  <2> SUFFICES ASSUME NEW k \in 1..l - 1 PROVE queued'[k] = ExpectedUnit((n + 1) + k)
    BY <1>10, <1>11
  <2>1. k + 1 \in 1..l /\ n + (k + 1) = (n + 1) + k
    BY <1>4
  <2>2. queued[k + 1] = ExpectedUnit(n + (k + 1))
    BY <1>2, <1>3, <1>4, <2>1
  <2> QED
    BY <1>11, <2>1, <2>2
<1>16. WholeUnits'
  <2>1. \A k \in 1..n :
          /\ emitted[k].au = ExpectedUnit(k)
          /\ emitted[k].keyframe = (Nals[SliceNals[k]].header % 32 = SLICE_IDR)
    BY <1>4 DEF SourceInv, UnitsExact, WholeUnits
  <2>2. /\ x.au = ExpectedUnit(n + 1)
        /\ x.keyframe = (Nals[SliceNals[n + 1]].header % 32 = SLICE_IDR)
    <3>1. au_has_idr(ExpectedUnit(n + 1)) = (Nals[SliceNals[n + 1]].header % 32 = SLICE_IDR)
      BY <1>14, UnitHas
    <3> QED
      BY <1>6, <1>8, <3>1, Zenon
  <2>3. \A k \in 1..n + 1 : k \in 1..n \/ k = n + 1
    OBVIOUS
  <2>4. \A k \in DOMAIN emitted' :
          /\ emitted'[k].au = ExpectedUnit(k)
          /\ emitted'[k].keyframe = (Nals[SliceNals[k]].header % 32 = SLICE_IDR)
    BY <1>10, <2>1, <2>2, <2>3, Zenon
  <2>5. Len(emitted') <= Len(SliceNals)
    BY <1>10, <1>14
  <2> QED
    BY <2>4, <2>5, Zenon DEF WholeUnits
<1>17. NoneHeldBack'
  <2>1. NoneHeldBack
    BY DEF SourceInv, UnitsExact
  <2> QED
    BY <1>9, <1>12, <2>1, Zenon DEF NoneHeldBack
<1>18. /\ Len(emitted) + Len(queued) <= Len(SliceNals)
       /\ pos \in Offset(UnitEnd(Len(emitted) + Len(queued)))..Len(Stream)
       /\ leftover = SubSeq(Stream, Offset(UnitEnd(Len(emitted) + Len(queued))) + 1, pos)
  BY DEF SourceInv
<1>19. /\ Len(emitted') + Len(queued') <= Len(SliceNals)
       /\ pos' \in Offset(UnitEnd(Len(emitted') + Len(queued')))..Len(Stream)
       /\ leftover' = SubSeq(Stream, Offset(UnitEnd(Len(emitted') + Len(queued'))) + 1, pos')
  BY <1>9, <1>12, <1>18, Zenon
<1> QED
  BY <1>1, <1>10, <1>11, <1>15, <1>16, <1>17, <1>19, Zenon
     DEF SourceInv, UnitsExact, Entry

\* and so does a read of any number of bytes,
LEMMA ReadPreserves == SourceInv /\ ReadStdout => SourceInv'
<1> SUFFICES ASSUME SourceInv, ReadStdout PROVE SourceInv'
  OBVIOUS
<1>1. PICK n \in 1..ReadMax :
        /\ pos + n <= Len(Stream) /\ pos' = pos + n
        /\ queued' = Complete(leftover \o SubSeq(Stream, pos + 1, pos + n)).aus
        /\ leftover' = Complete(leftover \o SubSeq(Stream, pos + 1, pos + n)).rest
  BY Zenon DEF ReadStdout
<1>2. queued = <<>> /\ stdout' = stdout /\ emitted' = emitted /\ Len(queued) = 0
  BY DEF ReadStdout
<1>3. PICK E : E = Entry
  OBVIOUS
<1>4. emitted \in Seq(E)
  BY <1>3 DEF SourceInv, Entry
<1>5. PICK c \in Nat : c = Len(emitted)
  BY <1>4, LenProperties
<1>6. Len(emitted) + Len(queued) = c
  BY <1>2, <1>5
<1>7. /\ c <= Len(SliceNals) /\ pos \in Offset(UnitEnd(c))..Len(Stream)
      /\ leftover = SubSeq(Stream, Offset(UnitEnd(c)) + 1, pos)
  BY <1>6, Zenon DEF SourceInv
<1>8. c \in 0..Len(SliceNals) /\ Len(SliceNals) \in Nat
  BY <1>7, UnitEnds
<1>9. PICK o \in Nat, l \in Nat : o = Offset(UnitEnd(c)) /\ l = Len(Stream)
  <2>1. UnitEnd(c) \in 0..Len(Nals)
    BY <1>8, UnitEnds
  <2> QED
    BY <2>1, StreamBytes, LenProperties
<1>10. pos \in Nat /\ o <= pos /\ pos <= l /\ n \in Nat /\ n >= 1 /\ pos + n <= l
  <2>1. ReadMax \in Nat
    BY SourceAssumption
  <2> QED
    BY <1>1, <1>7, <1>9, <2>1
<1>11. PICK e \in Offset(UnitEnd(c))..Len(Stream) : e = pos + n
  <2>1. pos + n \in o..l
    BY <1>10
  <2> QED
    BY <1>9, <2>1
<1>12. leftover \o SubSeq(Stream, pos + 1, pos + n) = Buffer(UnitEnd(c), e)
  <2>1. o + 1 \in 1..l + 1 /\ pos \in (o + 1) - 1..l /\ pos + n \in pos..l
    BY <1>10
  <2>2. SubSeq(Stream, o + 1, pos) \o SubSeq(Stream, pos + 1, pos + n) = SubSeq(Stream, o + 1, pos + n)
    BY <1>9, <2>1, StreamBytes, ConcatAdjacentSubSeq
  <2> QED
    BY <1>7, <1>9, <1>11, <2>2, Zenon DEF Buffer
<1>13. PICK d \in c..Len(SliceNals) :
         /\ Offset(UnitEnd(d)) <= e
         /\ Complete(Buffer(UnitEnd(c), e)) =
              [aus |-> [k \in 1..d - c |-> ExpectedUnit(c + k)],
               rest |-> Buffer(UnitEnd(d), e)]
         /\ \A k \in 1..Len(SliceNals) :
              /\ UnitEnd(k) + 1 \in 1..Len(Nals)
              /\ Offset(UnitEnd(k)) + Nals[UnitEnd(k) + 1].prefix <= e
              => k <= d
  BY <1>8, CompleteIs
<1>14. d \in Nat /\ c <= d /\ d <= Len(SliceNals) /\ d - c \in Nat
  BY <1>8
<1>15. /\ queued' = [k \in 1..d - c |-> ExpectedUnit(c + k)]
       /\ leftover' = Buffer(UnitEnd(d), e)
  <2>1. PICK u, v : /\ u = [k \in 1..d - c |-> ExpectedUnit(c + k)]
                    /\ v = Buffer(UnitEnd(d), e)
    OBVIOUS
  <2>2. Complete(Buffer(UnitEnd(c), e)) = [aus |-> u, rest |-> v]
    BY <1>13, <2>1, Zenon
  <2>3. [aus |-> u, rest |-> v].aus = u /\ [aus |-> u, rest |-> v].rest = v
    OBVIOUS
  <2>4. /\ queued' = Complete(Buffer(UnitEnd(c), e)).aus
        /\ leftover' = Complete(Buffer(UnitEnd(c), e)).rest
    BY <1>1, <1>12, Zenon
  <2> QED
    BY <2>1, <2>2, <2>3, <2>4, Zenon
<1>16. /\ queued' \in Seq(Seq(Nat)) /\ Len(queued') = d - c /\ DOMAIN queued' = 1..d - c
       /\ \A k \in 1..d - c : queued'[k] = ExpectedUnit(c + k)
  <2>1. ASSUME NEW k \in 1..d - c PROVE ExpectedUnit(c + k) \in Seq(Nat)
    <3>1. c + k \in 1..Len(SliceNals)
      BY <1>8
    <3>2. PICK a \in 0..Len(Nals) : a = UnitEnd((c + k) - 1)
      BY <3>1, UnitIs
    <3>3. PICK b \in a + 1..Len(Nals) : b = UnitEnd(c + k)
      BY <3>1, <3>2, UnitIs
    <3>4. ExpectedUnit(c + k) = Buffer(a, Offset(b))
      BY <3>1, <3>2, <3>3, UnitIs
    <3>5. b \in 1..Len(Nals) /\ b > a /\ b \in 0..Len(Nals) /\ a <= b
      <4>1. Len(Nals) \in Nat
        BY NalsAre
      <4> QED
        BY <4>1
    <3>6. Offset(b) \in Offset(a)..Len(Stream)
      <4>1. Offset(a) \in Nat /\ Offset(b) \in Nat /\ Offset(a) <= Offset(b)
        BY <3>5, StreamBytes, OffsetsGrow
      <4>2. Offset(b) <= Len(Stream) /\ Len(Stream) \in Nat
        BY <3>5, LastByte, StreamBytes, LenProperties
      <4> QED
        BY <4>1, <4>2
    <3> QED
      BY <3>4, <3>6, BufferIs
  <2> QED
    BY <1>14, <1>15, <2>1
<1>17. Len(emitted') + Len(queued') = d
  BY <1>2, <1>5, <1>14, <1>16
<1>18. pos' \in Offset(UnitEnd(d))..Len(Stream)
  <2>1. Offset(UnitEnd(d)) \in Nat
    <3>1. d \in 0..Len(SliceNals)
      BY <1>8, <1>14
    <3>2. UnitEnd(d) \in 0..Len(Nals)
      BY <3>1, UnitEnds
    <3> QED
      BY <3>2, StreamBytes
  <2>2. pos' = e /\ e \in Nat /\ e <= l
    BY <1>1, <1>10, <1>11
  <2> QED
    BY <1>9, <1>13, <2>1, <2>2
<1>19. leftover' = SubSeq(Stream, Offset(UnitEnd(d)) + 1, pos')
  BY <1>1, <1>11, <1>15 DEF Buffer
<1>20. \A k \in DOMAIN queued' : queued'[k] = ExpectedUnit(Len(emitted') + k)
  BY <1>2, <1>5, <1>16
<1>21. WholeUnits'
  <2>1. WholeUnits
    BY DEF SourceInv, UnitsExact
  <2> QED
    BY <1>2, <2>1, Zenon DEF WholeUnits
<1>22. NoneHeldBack'
  <2> SUFFICES ASSUME NEW k \in DOMAIN SliceNals, SliceNals[k] + 1 \in DOMAIN Nals,
                      pos' >= Offset(SliceNals[k]) + Nals[SliceNals[k] + 1].prefix
               PROVE  Len(emitted') + Len(queued') >= k
    BY Zenon DEF NoneHeldBack, Offset
  <2>1. k \in 1..Len(SliceNals) /\ UnitEnd(k) = SliceNals[k] /\ DOMAIN Nals = 1..Len(Nals)
    BY UnitEnds, NalsAre
  <2>2. UnitEnd(k) + 1 \in 1..Len(Nals)
    BY <2>1
  <2>3. Offset(UnitEnd(k)) + Nals[UnitEnd(k) + 1].prefix <= e
    <3>1. pos' = e
      BY <1>1, <1>11
    <3> QED
      BY <2>1, <3>1
  <2>4. k <= d
    BY <1>13, <2>1, <2>2, <2>3
  <2> QED
    BY <1>14, <1>17, <2>1, <2>4
<1>23. emitted' \in Seq(E)
  BY <1>2, <1>4
<1> QED
  BY <1>3, <1>14, <1>16, <1>17, <1>18, <1>19, <1>20, <1>21, <1>22, <1>23, Zenon
     DEF SourceInv, UnitsExact, Entry

\* and what leaves the source alone.
LEMMA SourceStutters == SourceInv /\ UNCHANGED <<pos, leftover, queued, emitted>> => SourceInv'
BY DEF SourceInv, UnitsExact, WholeUnits, NoneHeldBack

\* Hence the whole path does.
LEMMA SourceSteps == SourceInv /\ [PathNext]_pathVars => SourceInv'
<1> SUFFICES ASSUME SourceInv, [PathNext]_pathVars PROVE SourceInv'
  OBVIOUS
<1>1. CASE Queue
  BY <1>1, EmitPreserves DEF Queue
<1>2. CASE Take
  BY <1>2, SourceStutters DEF Take, source
<1>3. CASE Source
  <2>1. CASE ReadStdout
    BY <2>1, ReadPreserves
  <2>2. CASE SourceEnds
    BY <2>2, SourceStutters DEF SourceEnds
  <2> QED
    BY <1>3, <2>1, <2>2 DEF Source
<1>4. CASE Sender
  BY <1>4, SourceStutters DEF Sender, source
<1>5. CASE UNCHANGED pathVars
  BY <1>5, SourceStutters DEF pathVars, source
<1> QED
  BY <1>1, <1>2, <1>3, <1>4, <1>5 DEF PathNext

\* However the recorder's output is cut into reads, next_frame hands out the
\* access units as they were encoded, in order and whole, the key frames marked,
\* and holds none back once the next start code has arrived: for every stream
\* whose NALs hold no start code (source.rs:224-299, nal.rs).
THEOREM UnitsCutExactly == PathSpec => []UnitsExact
<1>1. PathInit => SourceInv
  BY SourceInitially DEF PathInit
<1>2. SourceInv => UnitsExact
  BY DEF SourceInv
<1> QED
  BY <1>1, <1>2, SourceSteps, PTL DEF PathSpec

-----------------------------------------------------------------------------
(* The path                                                                *)

\* The invariants of the parts, and what ties the messages to the units.
PathInv == SourceInv /\ ShapeInv /\ DeliveryInv /\ UnitsTaken

\* The loop takes a unit that was handed out, the one after the last it took.
LEMMA TakeIs ==
  ASSUME PathInv, Take
  PROVE  /\ Len(accepted) \in Nat /\ Len(accepted) + 1 \in DOMAIN SliceNals
         /\ Len(accepted) + 1 <= Len(emitted)
         /\ Begin(Overhead + Len(ExpectedUnit(Len(accepted) + 1)))
         /\ Overhead + Len(ExpectedUnit(Len(accepted) + 1)) \in Lengths
<1>1. PICK E : E = Entry
  OBVIOUS
<1>2. emitted \in Seq(E) /\ accepted \in Seq(Messages)
  BY <1>1 DEF PathInv, ShapeInv, SourceInv, SendTypeOK, Entry
<1>3. PICK n \in Nat, c \in Nat : n = Len(emitted) /\ c = Len(accepted)
  BY <1>2, LenProperties
<1>4. c < n
  BY <1>3 DEF Take
<1>5. c + 1 \in 1..n /\ DOMAIN emitted = 1..n
  BY <1>2, <1>3, <1>4, LenProperties
<1>6. emitted[c + 1].au = ExpectedUnit(c + 1) /\ n <= Len(SliceNals)
  BY <1>3, <1>5, Zenon DEF PathInv, SourceInv, UnitsExact, WholeUnits
<1>7. c + 1 \in DOMAIN SliceNals
  <2>1. Len(SliceNals) \in Nat /\ DOMAIN SliceNals = 1..Len(SliceNals)
    BY UnitEnds, LenProperties
  <2> QED
    BY <1>5, <1>6, <2>1
<1>8. Begin(Overhead + Len(ExpectedUnit(c + 1)))
  BY <1>3, <1>6, Zenon DEF Take
<1>9. Overhead + Len(ExpectedUnit(c + 1)) \in Lengths
  BY <1>7, PathAssumption
<1> QED
  BY <1>3, <1>5, <1>7, <1>8, <1>9

\* Hence a step of the path is one of send_encrypted and the peer, or none.
LEMMA PathSends ==
  ASSUME PathInv, [PathNext]_pathVars
  PROVE  [SendNext]_vars
<1>1. CASE Queue
  BY <1>1 DEF Queue
<1>2. CASE Take
  BY <1>2, TakeIs, Zenon DEF SendNext
<1>3. CASE Source
  BY <1>3 DEF Source
<1>4. CASE Sender
  BY <1>4 DEF Sender, SendNext
<1>5. CASE UNCHANGED pathVars
  BY <1>5 DEF pathVars
<1> QED
  BY <1>1, <1>2, <1>3, <1>4, <1>5 DEF PathNext

\* Every step of the path keeps each message the unit it is.
LEMMA TakenSteps ==
  ASSUME PathInv, [PathNext]_pathVars
  PROVE  UnitsTaken'
<1>1. CASE UNCHANGED accepted
  <2>1. Len(emitted') >= Len(emitted) /\ Len(emitted) \in Nat /\ Len(emitted') \in Nat
    <3>1. PICK E : E = Entry
      OBVIOUS
    <3>2. emitted \in Seq(E) /\ emitted' \in Seq(E)
      BY <3>1, SourceSteps DEF PathInv, SourceInv, Entry
    <3>3. emitted' = emitted \/ \E x : emitted' = Append(emitted, x)
      BY DEF PathNext, Queue, Take, Source, Sender, EmitQueued, ReadStdout, SourceEnds,
         source, pathVars
    <3> QED
      BY <3>2, <3>3
  <2>2. \A k \in DOMAIN accepted : k \in Nat
    BY DEF PathInv, ShapeInv, SendTypeOK
  <2>3. \A k \in DOMAIN accepted : k <= Len(emitted')
    BY <2>1, <2>2 DEF PathInv, UnitsTaken
  <2> QED
    BY <1>1, <2>3, Zenon DEF PathInv, UnitsTaken
<1>2. CASE Take
  <2>0. PICK c \in Nat : c = Len(accepted)
    BY <1>2, TakeIs
  <2>1. PICK s : s = Overhead + Len(ExpectedUnit(c + 1))
    OBVIOUS
  <2>2. /\ c + 1 <= Len(emitted) /\ emitted' = emitted
        /\ accepted' = Append(accepted, [id |-> c + 1, len |-> s])
    <3>1. Begin(s) /\ c + 1 <= Len(emitted)
      BY <1>2, <2>0, <2>1, TakeIs, Zenon
    <3> QED
      BY <1>2, <2>0, <3>1 DEF Take, source, Begin
  <2>3. PICK m : m = [id |-> c + 1, len |-> s]
    OBVIOUS
  <2>4. m.len = s /\ accepted' = Append(accepted, m)
    BY <2>2, <2>3
  <2>5. /\ DOMAIN accepted = 1..c /\ DOMAIN accepted' = 1..c + 1
        /\ \A k \in 1..c : accepted'[k] = accepted[k]
        /\ accepted'[c + 1] = m
    <3>1. accepted \in Seq(Messages)
      BY DEF PathInv, ShapeInv, SendTypeOK
    <3> QED
      BY <2>0, <2>4, <3>1
  <2>6. \A k \in 1..c + 1 : k \in 1..c \/ k = c + 1
    OBVIOUS
  <2> QED
    BY <2>1, <2>2, <2>4, <2>5, <2>6, Zenon DEF PathInv, UnitsTaken
<1> QED
  BY <1>1, <1>2 DEF PathNext, Queue, Source, Sender, WriteFragment, WriteFails, PeerReads,
     vars, pathVars

\* PathInv holds initially,
LEMMA PathInitially == PathInit => PathInv
<1> SUFFICES ASSUME PathInit PROVE PathInv
  OBVIOUS
<1>1. SourceInv /\ DeliveryInv
  BY SourceInitially, DeliveryInit DEF PathInit
<1>2. ShapeInv
  BY DEF PathInit, SendInit, ShapeInv, SendTypeOK, InProgress, WellShaped, Completed, NoShape
<1>3. UnitsTaken
  BY DEF PathInit, SendInit, UnitsTaken
<1> QED
  BY <1>1, <1>2, <1>3 DEF PathInv

\* and every step keeps it.
LEMMA PathSteps == PathInv /\ [PathNext]_pathVars => PathInv'
<1> SUFFICES ASSUME PathInv, [PathNext]_pathVars PROVE PathInv'
  OBVIOUS
<1>1. [SendNext]_vars
  BY PathSends
<1>2. SourceInv'
  BY SourceSteps DEF PathInv
<1>3. ShapeInv'
  BY <1>1, SendTypeStep, ShapeStep DEF PathInv, ShapeInv
<1>4. DeliveryInv'
  BY <1>1, DeliveryStep DEF PathInv
<1>5. UnitsTaken'
  BY TakenSteps
<1> QED
  BY <1>2, <1>3, <1>4, <1>5 DEF PathInv

\* What the media path does to the connection is what FragmentedSend allows, so
\* all that is proved of send_encrypted holds of it: the units, read, cut and
\* queued, are the messages (control_channel.rs:455-461 and 156-206).
THEOREM PathImplementsSend == PathSpec => SendSpec
<1>1. PathInit => SendInit
  BY DEF PathInit
<1>2. PathInv /\ [PathNext]_pathVars => [SendNext]_vars
  BY PathSends
<1> QED
  BY <1>1, <1>2, PathInitially, PathSteps, PTL DEF PathSpec, SendSpec

\* In PathInv the car has units.
LEMMA UnitsReassembled == PathInv => UnitsInOrder
<1>0. PathInv => DeliveredInOrder
  BY DEF PathInv, DeliveryInv
<1> SUFFICES ASSUME PathInv, NEW k \in DOMAIN peer.received
             PROVE  /\ k \in DOMAIN SliceNals
                    /\ WholeMessage(peer.received[k],
                                    [id |-> k, len |-> Overhead + Len(ExpectedUnit(k))])
  BY <1>0, Zenon DEF UnitsInOrder
<1>1. /\ Len(peer.received) <= Len(accepted)
      /\ WholeMessage(peer.received[k], accepted[k])
  BY DEF PathInv, DeliveryInv, DeliveredInOrder
<1>2. k \in DOMAIN accepted /\ k \in Nat /\ k >= 1
  <2>1. peer.received \in Seq(Seq(Chunks)) /\ accepted \in Seq(Messages)
    BY DEF PathInv, ShapeInv, SendTypeOK, DeliveryInv, PeerState
  <2> QED
    BY <1>1, <2>1
<1>3. /\ accepted[k].id = k
      /\ k <= Len(emitted) /\ accepted[k].len = Overhead + Len(ExpectedUnit(k))
  BY <1>2 DEF PathInv, DeliveryInv, UnitsTaken
<1>4. k \in DOMAIN SliceNals
  <2>1. Len(emitted) <= Len(SliceNals) /\ Len(emitted) \in Nat
    <3>1. PICK E : E = Entry
      OBVIOUS
    <3>2. emitted \in Seq(E)
      BY <3>1 DEF PathInv, SourceInv, Entry
    <3> QED
      BY <3>2, LenProperties DEF PathInv, SourceInv, UnitsExact, WholeUnits
  <2>2. Len(SliceNals) \in Nat /\ DOMAIN SliceNals = 1..Len(SliceNals)
    BY UnitEnds, LenProperties
  <2> QED
    BY <1>2, <1>3, <2>1, <2>2
<1>5. PICK s : s = Overhead + Len(ExpectedUnit(k))
  OBVIOUS
<1>6. [id |-> k, len |-> s].id = k /\ [id |-> k, len |-> s].len = s
  OBVIOUS
<1>7. WholeMessage(peer.received[k], [id |-> k, len |-> s])
  BY <1>1, <1>3, <1>5, <1>6, Zenon DEF WholeMessage
<1> QED
  BY <1>4, <1>5, <1>7, Zenon

\* What the car reassembles as its k-th message is the k-th unit the recorder
\* encoded, whole, whatever the reads, the fragments, the lengths and the writes
\* that fail (source.rs:224-299, control_channel.rs:156-206 and 455-461).
THEOREM UnitsReachTheCar == PathSpec => []UnitsInOrder
BY PathInitially, PathSteps, UnitsReassembled, PTL DEF PathSpec

=============================================================================
