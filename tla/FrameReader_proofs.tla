-------------------------- MODULE FrameReader_proofs --------------------------
(***************************************************************************)
(* read_frame is right on a link whose transfers respect frames, the       *)
(* assumption the code makes of the accessory chardev: for every sequence  *)
(* of frames, every buffer of at least a header and every way of splitting *)
(* payloads over transfers.                                                *)
(***************************************************************************)
EXTENDS FrameReader, TLAPS

\* Every frame ends a transfer and none ends inside a header.
FramedStream ==
  /\ \A k \in DOMAIN Frames :
       /\ FrameStart[k + 1] \in Ends
       /\ \A e \in Ends :
            e > FrameStart[k] => e >= FrameStart[k] + HeaderLength(Frames[k])

FramedTransfers == transport = "usb" /\ FramedStream

\* Where the reader is in the stream: behind the frames it returned, or in
\* the payload of the next one with what is missing of it.  Whole transfers
\* have arrived.
Position ==
  LET next == Len(returned) + 1
  IN /\ next \in DOMAIN FrameStart
     /\ arrived \in Ends \cup {0}
     /\ reader = "first" => consumed = FrameStart[next]
     /\ reader = "rest" =>
          /\ next \in DOMAIN Frames
          /\ current = next
          /\ missing > 0
          /\ consumed + missing = FrameStart[next + 1]
          /\ consumed > FrameStart[next]

ReaderInv == StreamTypeOK /\ Aligned /\ NoEarlyFailure /\ Position

\* An element of a sequence.
LEMMA ElementType ==
  ASSUME NEW S, NEW s \in Seq(S), NEW k \in 1..Len(s)
  PROVE  s[k] \in S
  OBVIOUS

\* A header is four bytes, or eight with the total length.
LEMMA HeaderLengthType == \A f : HeaderLength(f) \in {4, 8}
  BY DEF HeaderLength

\* The offsets are natural numbers and end with the stream's length.
LEMMA Layout ==
  /\ DOMAIN Frames = 1..Len(Frames)
  /\ Len(Frames) \in Nat
  /\ StreamLength \in Nat
  /\ \A k \in DOMAIN Frames :
       /\ k \in DOMAIN FrameStart /\ k + 1 \in DOMAIN FrameStart
       /\ FrameStart[k] \in Nat /\ FrameStart[k + 1] \in Nat
       /\ Frames[k].payload \in Nat
       /\ FrameStart[k + 1] =
            FrameStart[k] + HeaderLength(Frames[k]) + Frames[k].payload
       /\ FrameStart[k + 1] <= StreamLength
<1>1. Len(Frames) \in Nat /\ DOMAIN Frames = 1..Len(Frames)
  BY ReaderAssumption
<1>2. DOMAIN FrameStart = 1..Len(Frames) + 1
  BY ReaderAssumption
<1>3. StreamLength \in Nat
  BY <1>1, ReaderAssumption DEF StreamLength
<1>4. ASSUME NEW k \in DOMAIN Frames
      PROVE  /\ k \in DOMAIN FrameStart /\ k + 1 \in DOMAIN FrameStart
             /\ FrameStart[k] \in Nat /\ FrameStart[k + 1] \in Nat
             /\ Frames[k].payload \in Nat
             /\ FrameStart[k + 1] =
                  FrameStart[k] + HeaderLength(Frames[k]) + Frames[k].payload
             /\ FrameStart[k + 1] <= StreamLength
  <2>1. k \in DOMAIN FrameStart /\ k + 1 \in DOMAIN FrameStart
    BY <1>1, <1>2
  <2>2. FrameStart[k] \in Nat /\ FrameStart[k + 1] \in Nat
    BY <2>1, <1>2, ReaderAssumption
  <2>3. Frames[k].payload \in Nat
    <3>1. Frames \in Seq([type : FrameType, payload : Nat])
      BY ReaderAssumption
    <3>2. Frames[k] \in [type : FrameType, payload : Nat]
      BY <3>1, <1>1, ElementType
    <3> QED
      BY <3>2
  <2>4. FrameStart[k + 1] <= StreamLength
    <3>1. CASE k + 1 = Len(Frames) + 1
      BY <3>1, <1>3 DEF StreamLength
    <3>2. CASE k + 1 # Len(Frames) + 1
      <4>1. k + 1 < Len(Frames) + 1 /\ Len(Frames) + 1 \in DOMAIN FrameStart
        BY <3>2, <1>1, <1>2
      <4> QED
        BY <4>1, <2>1, <2>2, <1>3, ReaderAssumption DEF StreamLength
    <3> QED
      BY <3>1, <3>2
  <2> QED
    BY <2>1, <2>2, <2>3, <2>4, ReaderAssumption
<1> QED
  BY <1>1, <1>3, <1>4

\* A read that starts inside frame k, or at its header, stays in it.
LEMMA ReadStaysInFrame ==
  ASSUME FramedTransfers,
         NEW k \in DOMAIN Frames, NEW cap \in Nat, NEW n \in ReadSizes(cap),
         consumed \in Nat, consumed < arrived, arrived \in Ends \cup {0},
         FrameStart[k] <= consumed, consumed < FrameStart[k + 1]
  PROVE  /\ n \in Nat
         /\ n <= cap
         /\ consumed + n <= FrameStart[k + 1] /\ consumed + n <= arrived
         /\ cap > 0 => n > 0
         /\ consumed = FrameStart[k] /\ cap >= 8 => n >= HeaderLength(Frames[k])
<1>1. PICK e \in ReadLimits : n = Smaller(cap, e - consumed)
  BY DEF ReadSizes
<1>2. /\ e \in Ends /\ e > consumed
      /\ \A x \in Ends : x > consumed => e <= x
  BY <1>1 DEF ReadLimits, FramedTransfers, FramedStream
<1>3. e \in Nat
  BY <1>2, Layout, ReaderAssumption
<1>4. e <= FrameStart[k + 1] /\ e <= arrived /\ arrived \in Nat
  <2>1. arrived \in Ends /\ arrived \in Nat
    BY Layout, ReaderAssumption
  <2> QED
    BY <1>2, <2>1, Layout DEF FramedTransfers, FramedStream
<1>5. consumed = FrameStart[k] => e - consumed >= HeaderLength(Frames[k])
  BY <1>2, <1>3, Layout, HeaderLengthType DEF FramedTransfers, FramedStream
<1> QED
  BY <1>1, <1>2, <1>3, <1>4, <1>5, Layout, HeaderLengthType DEF Smaller

-----------------------------------------------------------------------------

\* What Append does, element by element.
LEMMA AppendType ==
  ASSUME NEW S, NEW s \in Seq(S), NEW e \in S
  PROVE  /\ Append(s, e) \in Seq(S)
         /\ Len(Append(s, e)) = Len(s) + 1
         /\ \A i \in 1..Len(s) : Append(s, e)[i] = s[i]
         /\ Append(s, e)[Len(s) + 1] = e
         /\ Len(s) \in Nat
  OBVIOUS

\* Returning the frame that is next keeps the frames in order.
LEMMA ReturnNext ==
  ASSUME returned \in Seq(DOMAIN Frames),
         returned = [i \in 1..Len(returned) |-> i],
         Len(returned) + 1 \in DOMAIN Frames
  PROVE  LET r == Append(returned, Len(returned) + 1)
         IN /\ r \in Seq(DOMAIN Frames)
            /\ Len(r) = Len(returned) + 1
            /\ r = [i \in 1..Len(r) |-> i]
<1> DEFINE next == Len(returned) + 1
           r == Append(returned, next)
<1>1. /\ r \in Seq(DOMAIN Frames) /\ Len(r) = next /\ Len(returned) \in Nat
      /\ \A i \in 1..Len(returned) : r[i] = returned[i]
      /\ r[next] = next
  BY AppendType
<1>2. r = [i \in 1..Len(r) |-> r[i]]
  BY <1>1
<1>3. \A i \in 1..Len(r) : r[i] = i
  BY <1>1
<1> HIDE DEF r
<1>4. r = [i \in 1..Len(r) |-> i]
  BY <1>2, <1>3
<1> QED
  BY <1>1, <1>4 DEF r

-----------------------------------------------------------------------------

\* Later frames start later.
LEMMA Increasing ==
  /\ DOMAIN FrameStart = 1..Len(Frames) + 1
  /\ \A j \in DOMAIN FrameStart : FrameStart[j] \in Nat
  /\ \A j, k \in DOMAIN FrameStart : j < k => FrameStart[j] < FrameStart[k]
<1>1. FrameStart \in [1..Len(Frames) + 1 -> Nat]
  BY ReaderAssumption
<1> QED
  BY <1>1, ReaderAssumption

\* ReaderInv holds initially,
LEMMA ReaderInit == FramedTransfers => (Init => ReaderInv)
<1> SUFFICES ASSUME Init PROVE ReaderInv
  OBVIOUS
<1> USE DEF Init
<1>1. returned = [i \in 1..Len(returned) |-> i] /\ Len(returned) = 0
  OBVIOUS
<1>2. StreamTypeOK
  <2>1. Len(Frames) \in Nat /\ StreamLength \in Nat
    BY Layout
  <2>2. returned \in Seq(DOMAIN Frames)
    OBVIOUS
  <2>3. arrived \in 0..StreamLength /\ current \in 0..Len(Frames)
    BY <2>1
  <2>4. missing \in 0..StreamLength /\ consumed \in 0..arrived
    BY <2>1
  <2> QED
    BY <2>2, <2>3, <2>4 DEF StreamTypeOK
<1>3. 1 \in DOMAIN FrameStart /\ FrameStart[1] = 0
  BY Layout, ReaderAssumption
<1>4. Aligned /\ NoEarlyFailure
  BY <1>1, <1>3 DEF Aligned, NoEarlyFailure
<1>5. Position
  BY <1>1, <1>3 DEF Position
<1> QED
  BY <1>2, <1>4, <1>5 DEF ReaderInv

\* Bytes waiting at a frame boundary belong to the next frame.
LEMMA NextFrame ==
  ASSUME ReaderInv, reader = "first", consumed < arrived
  PROVE  LET next == Len(returned) + 1
         IN /\ next \in DOMAIN Frames
            /\ FrameStart[next] = consumed
            /\ \A k \in DOMAIN Frames : FrameStart[k] = consumed => k = next
<1> DEFINE next == Len(returned) + 1
<1>1. next \in DOMAIN FrameStart /\ consumed = FrameStart[next]
  BY DEF ReaderInv, Position
<1>2. consumed \in Nat /\ consumed < StreamLength
  BY Layout DEF ReaderInv, StreamTypeOK
<1> HIDE DEF next
<1>3. next # Len(Frames) + 1
  BY <1>1, <1>2 DEF StreamLength
<1>4. next \in DOMAIN Frames
  BY <1>1, <1>3, Layout, Increasing
<1>5. ASSUME NEW k \in DOMAIN Frames, FrameStart[k] = consumed
      PROVE  k = next
  <2>1. k \in DOMAIN FrameStart /\ k \in Nat /\ next \in Nat
    BY <1>4, Layout
  <2>2. k < next => FrameStart[k] < FrameStart[next]
    BY <2>1, <1>1, Increasing
  <2>3. next < k => FrameStart[next] < FrameStart[k]
    BY <2>1, <1>1, Increasing
  <2>4. ~(k < next) /\ ~(next < k)
    BY <2>2, <2>3, <1>1, <1>2, <1>5
  <2> QED
    BY <2>1, <2>4
<1> QED
  BY <1>1, <1>4, <1>5 DEF next

\* the peer keeps it,
LEMMA PeerStep ==
  ASSUME FramedTransfers, ReaderInv, PeerWrites \/ PeerCloses
  PROVE  ReaderInv'
<1> USE DEF ReaderInv
<1>1. StreamTypeOK'
  <2>1. CASE PeerWrites
    BY <2>1, Layout DEF PeerWrites, StreamTypeOK
  <2>2. CASE PeerCloses
    BY <2>2 DEF PeerCloses, StreamTypeOK
  <2> QED
    BY <2>1, <2>2
<1>2. Aligned'
  BY DEF PeerWrites, PeerCloses, Aligned
<1>3. NoEarlyFailure'
  <2>1. CASE PeerWrites
    BY <2>1 DEF PeerWrites, NoEarlyFailure
  <2>2. CASE PeerCloses
    BY <2>2 DEF PeerCloses, NoEarlyFailure
  <2> QED
    BY <2>1, <2>2
<1>4. Position'
  <2>1. CASE PeerWrites
    BY <2>1 DEF PeerWrites, Position, FramedTransfers, FramedStream
  <2>2. CASE PeerCloses
    BY <2>2 DEF PeerCloses, Position
  <2> QED
    BY <2>1, <2>2
<1> QED
  BY <1>1, <1>2, <1>3, <1>4

\* Where a first read of n bytes, taken in next frame k, leaves the stream.
LEMMA FirstReadStep ==
  ASSUME FramedTransfers, ReaderInv,
         NEW k \in DOMAIN Frames, NEW n \in 1..BufCap, FirstRead(k, n)
  PROVE  /\ k = Len(returned) + 1
         /\ consumed = FrameStart[k]
         /\ n \in Nat /\ n >= HeaderLength(Frames[k])
         /\ consumed' = FrameStart[k] + n
         /\ consumed' <= FrameStart[k + 1]
         /\ consumed' <= arrived
<1>1. k = Len(returned) + 1 /\ consumed = FrameStart[k]
  BY NextFrame DEF FirstRead
<1>2. FrameStart[k] < FrameStart[k + 1] /\ FrameStart[k] \in Nat
  BY Layout, HeaderLengthType
<1>3. BufCap \in Nat /\ BufCap >= 8
  BY ReaderAssumption
<1>4. /\ n \in ReadSizes(BufCap) /\ consumed' = consumed + n
      /\ consumed < arrived /\ arrived \in Ends \cup {0}
  BY DEF FirstRead, ReaderInv, Position
<1>5. /\ n \in Nat
      /\ consumed + n <= FrameStart[k + 1] /\ consumed + n <= arrived
      /\ n >= HeaderLength(Frames[k])
  BY <1>1, <1>2, <1>3, <1>4, ReadStaysInFrame
<1> QED
  BY <1>1, <1>4, <1>5

\* The first read finds a whole frame: it is returned.
LEMMA FrameInBufferStep ==
  ASSUME FramedTransfers, ReaderInv,
         NEW k \in DOMAIN Frames, NEW n \in 1..BufCap, FrameInBuffer(k, n)
  PROVE  ReaderInv'
<1>1. FirstRead(k, n) /\ UNCHANGED <<arrived, closed, reader, current, missing>>
  BY DEF FrameInBuffer, FirstRead, peer
<1>2. /\ k = Len(returned) + 1
      /\ consumed' = FrameStart[k] + n
      /\ consumed' <= FrameStart[k + 1] /\ consumed' <= arrived
      /\ n \in Nat /\ n >= HeaderLength(Frames[k])
  BY <1>1, FirstReadStep
<1> DEFINE h == HeaderLength(Frames[k])
           p == Frames[k].payload
<1>0. /\ h \in Nat /\ p \in Nat
      /\ FrameStart[k] \in Nat /\ FrameStart[k + 1] \in Nat
      /\ FrameStart[k + 1] = FrameStart[k] + h + p
  BY Layout, HeaderLengthType
<1>3. n >= h + p
  <2>1. n >= h /\ Smaller(n - h, p) = p
    BY <1>2 DEF FrameInBuffer, FromBuf
  <2> HIDE DEF h, p
  <2> QED
    BY <2>1, <1>0, <1>2 DEF Smaller
<1>4. consumed' = FrameStart[k + 1] /\ consumed' \in Nat
  <2> HIDE DEF h, p
  <2> QED
    BY <1>0, <1>2, <1>3
<1>5. /\ returned' = Append(returned, k)
      /\ returned \in Seq(DOMAIN Frames)
      /\ returned = [i \in 1..Len(returned) |-> i]
      /\ reader = "first"
  BY <1>1 DEF FrameInBuffer, FirstRead, ReaderInv, StreamTypeOK, Aligned
<1>6. /\ returned' \in Seq(DOMAIN Frames)
      /\ Len(returned') = k
      /\ returned' = [i \in 1..Len(returned') |-> i]
  BY <1>2, <1>5, ReturnNext
<1>7. StreamTypeOK'
  BY <1>1, <1>2, <1>4, <1>6 DEF ReaderInv, StreamTypeOK
<1>8. Aligned'
  BY <1>1, <1>4, <1>5, <1>6 DEF Aligned
<1>9. NoEarlyFailure'
  BY <1>1, <1>5 DEF NoEarlyFailure
<1>10. Position'
  BY <1>1, <1>4, <1>5, <1>6, Layout DEF ReaderInv, Position
<1> QED
  BY <1>7, <1>8, <1>9, <1>10 DEF ReaderInv

\* The first read finds part of the payload: the rest is counted.
LEMMA PayloadIncompleteStep ==
  ASSUME FramedTransfers, ReaderInv,
         NEW k \in DOMAIN Frames, NEW n \in 1..BufCap, PayloadIncomplete(k, n)
  PROVE  ReaderInv'
<1>1. FirstRead(k, n) /\ UNCHANGED <<arrived, closed, returned>>
  BY DEF PayloadIncomplete, FirstRead, peer
<1>2. /\ k = Len(returned) + 1
      /\ consumed' = FrameStart[k] + n
      /\ consumed' <= FrameStart[k + 1] /\ consumed' <= arrived
      /\ n \in Nat /\ n >= HeaderLength(Frames[k])
  BY <1>1, FirstReadStep
<1> DEFINE h == HeaderLength(Frames[k])
           p == Frames[k].payload
<1>0. /\ h \in Nat /\ h > 0 /\ p \in Nat /\ StreamLength \in Nat
      /\ FrameStart[k] \in Nat /\ FrameStart[k + 1] \in Nat
      /\ FrameStart[k + 1] = FrameStart[k] + h + p
      /\ FrameStart[k + 1] <= StreamLength
  BY Layout, HeaderLengthType
<1>3. /\ reader' = "rest" /\ current' = k
      /\ missing' = p - (n - h)
      /\ missing' > 0
  <2>1. /\ reader' = "rest" /\ current' = k
        /\ Smaller(n - h, p) < p
        /\ missing' = p - Smaller(n - h, p)
    BY DEF PayloadIncomplete, FromBuf
  <2>2. n \in Nat /\ n >= h
    BY <1>2
  <2> HIDE DEF h, p
  <2> QED
    BY <2>1, <2>2, <1>0 DEF Smaller
<1>4. /\ consumed' \in Nat /\ missing' \in Nat
      /\ consumed' + missing' = FrameStart[k + 1]
      /\ consumed' > FrameStart[k]
      /\ missing' <= StreamLength
  <2>1. n \in Nat /\ n >= h /\ consumed' = FrameStart[k] + n
    BY <1>2
  <2> HIDE DEF h, p
  <2> QED
    BY <2>1, <1>0, <1>3
<1>5. k \in 0..Len(Frames)
  BY Layout
<1>6. StreamTypeOK'
  BY <1>1, <1>2, <1>3, <1>4, <1>5, Layout DEF ReaderInv, StreamTypeOK
<1>7. Aligned'
  BY <1>1, <1>3 DEF ReaderInv, Aligned
<1>8. NoEarlyFailure'
  BY <1>3 DEF NoEarlyFailure
<1>9. Position'
  BY <1>1, <1>2, <1>3, <1>4 DEF ReaderInv, Position
<1> QED
  BY <1>6, <1>7, <1>8, <1>9 DEF ReaderInv

\* One read of read_exact, the last one or not.
LEMMA ReadRestStep ==
  ASSUME FramedTransfers, ReaderInv, NEW n \in 1..StreamLength, ReadRest(n)
  PROVE  ReaderInv'
<1> DEFINE next == Len(returned) + 1
<1>1. /\ reader = "rest" /\ consumed < arrived /\ n \in ReadSizes(missing)
      /\ consumed' = consumed + n /\ missing' = missing - n
      /\ UNCHANGED <<arrived, closed, current>>
  BY DEF ReadRest, peer
<1>2. /\ next \in DOMAIN Frames /\ current = next
      /\ missing > 0 /\ missing \in Nat /\ consumed \in Nat
      /\ consumed + missing = FrameStart[next + 1]
      /\ consumed > FrameStart[next]
      /\ arrived \in Ends \cup {0}
  BY <1>1 DEF ReaderInv, Position, StreamTypeOK
<1> HIDE DEF next
<1>3. /\ n \in Nat /\ n <= missing
      /\ consumed + n <= arrived
  BY <1>1, <1>2, Layout, ReadStaysInFrame
<1>4. /\ consumed' \in 0..arrived /\ missing' \in 0..StreamLength
      /\ consumed' + missing' = FrameStart[next + 1]
      /\ consumed' > FrameStart[next]
  BY <1>1, <1>2, <1>3, Layout DEF ReaderInv, StreamTypeOK
<1>5. CASE n = missing
  <2>1. reader' = "first" /\ returned' = Append(returned, next)
    BY <1>2, <1>5 DEF ReadRest
  <2>2. /\ returned' \in Seq(DOMAIN Frames)
        /\ Len(returned') = next
        /\ returned' = [i \in 1..Len(returned') |-> i]
    BY <1>2, <2>1, ReturnNext DEF next, ReaderInv, StreamTypeOK, Aligned
  <2>3. consumed' = FrameStart[next + 1]
    BY <1>1, <1>2, <1>5
  <2>4. StreamTypeOK'
    BY <1>1, <1>4, <2>1, <2>2 DEF ReaderInv, StreamTypeOK
  <2>5. Aligned'
    BY <2>1, <2>2, <2>3 DEF Aligned
  <2>6. NoEarlyFailure'
    BY <2>1 DEF NoEarlyFailure
  <2>7. Position'
    BY <1>1, <1>2, <2>1, <2>2, <2>3, Layout DEF Position
  <2> QED
    BY <2>4, <2>5, <2>6, <2>7 DEF ReaderInv
<1>6. CASE n # missing
  <2>1. UNCHANGED <<reader, returned>> /\ missing' > 0
    BY <1>1, <1>2, <1>3, <1>6 DEF ReadRest
  <2>2. StreamTypeOK'
    BY <1>1, <1>4, <2>1 DEF ReaderInv, StreamTypeOK
  <2>3. Aligned'
    BY <1>1, <2>1 DEF ReaderInv, Aligned
  <2>4. NoEarlyFailure'
    BY <1>1, <2>1 DEF NoEarlyFailure
  <2>5. Position'
    BY <1>1, <1>2, <1>4, <2>1 DEF ReaderInv, Position, next
  <2> QED
    BY <2>2, <2>3, <2>4, <2>5 DEF ReaderInv
<1> QED
  BY <1>5, <1>6

\* The steps that end the reader, or that this link rules out.
LEMMA OtherReadSteps ==
  ASSUME FramedTransfers, ReaderInv,
         \/ \E k \in DOMAIN Frames, n \in 1..BufCap : HeaderIncomplete(k, n)
         \/ Garbled \/ ReadFails \/ Dropped
  PROVE  ReaderInv'
<1>1. ASSUME NEW k \in DOMAIN Frames, NEW n \in 1..BufCap, HeaderIncomplete(k, n)
      PROVE  FALSE
  <2>1. FirstRead(k, n) /\ n < HeaderLength(Frames[k])
    BY <1>1 DEF HeaderIncomplete
  <2> QED
    BY <2>1, FirstReadStep, HeaderLengthType
<1>2. CASE Garbled
  BY <1>2, NextFrame DEF Garbled
<1>3. CASE Dropped
  BY <1>3 DEF Dropped, FramedTransfers, FramedStream
<1>4. CASE ReadFails
  <2>1. StreamTypeOK'
    BY <1>4 DEF ReadFails, peer, ReaderInv, StreamTypeOK
  <2>2. Aligned' /\ NoEarlyFailure'
    BY <1>4 DEF ReadFails, peer, ReaderInv, Aligned, NoEarlyFailure
  <2>3. Position'
    BY <1>4 DEF ReadFails, peer, ReaderInv, Position
  <2> QED
    BY <2>1, <2>2, <2>3 DEF ReaderInv
<1> QED
  BY <1>1, <1>2, <1>3, <1>4

\* and so does every step.
LEMMA ReaderStep ==
  FramedTransfers /\ ReaderInv /\ [Next]_<<transport, vars>> => ReaderInv'
<1> SUFFICES ASSUME FramedTransfers, ReaderInv, [Next]_<<transport, vars>>
             PROVE  ReaderInv'
  OBVIOUS
<1>1. CASE UNCHANGED vars
  BY <1>1 DEF vars, ReaderInv, StreamTypeOK, Aligned, NoEarlyFailure, Position
<1>2. CASE PeerWrites \/ PeerCloses
  BY <1>2, PeerStep
<1>3. CASE ReadFrame \/ Dropped
  BY <1>3, FrameInBufferStep, PayloadIncompleteStep, ReadRestStep,
     OtherReadSteps DEF ReadFrame
<1> QED
  BY <1>1, <1>2, <1>3 DEF Next

\* Over framed transfers read_frame returns the frames the peer wrote, each
\* once and in order, takes no byte of a later frame, and fails only at the
\* end of the stream (control.rs:147-246), whatever the socket does.
THEOREM ReaderCorrect ==
  FramedStream => (Spec => []FrameAligned)
<1> SUFFICES ASSUME FramedStream
             PROVE  Spec => []FrameAligned
  OBVIOUS
<1> DEFINE UsbInv == transport = "usb" => ReaderInv
<1>1. Init => UsbInv
  BY ReaderInit DEF FramedTransfers
<1>2. UsbInv /\ [Next]_<<transport, vars>> => UsbInv'
  <2> SUFFICES ASSUME UsbInv, [Next]_<<transport, vars>>, transport' = "usb"
               PROVE  ReaderInv'
    OBVIOUS
  <2>1. transport = "usb"
    BY DEF Next
  <2> QED
    BY <2>1, ReaderStep DEF FramedTransfers
<1>3. UsbInv => FrameAligned
  BY DEF ReaderInv, FrameAligned
<1> HIDE DEF UsbInv
<1> QED
  BY <1>1, <1>2, <1>3, PTL DEF Spec

-----------------------------------------------------------------------------
(* What holds on every link, segmented and cancelled as it may be.         *)

\* A read never takes more than has arrived, nor more than it asked for.
Received ==
  /\ TypeOK
  /\ transport = "usb" => arrived \in Ends \cup {0}
  /\ reader = "rest" => missing > 0 /\ current \in DOMAIN Frames

\* A read returns no more than it asked for, and no more than arrived.
LEMMA ReadSizesBounded ==
  ASSUME Received, NEW cap \in Nat, NEW n \in ReadSizes(cap), consumed < arrived
  PROVE  n \in Nat /\ n <= cap /\ consumed + n <= arrived
<1>1. PICK e \in ReadLimits : n = Smaller(cap, e - consumed)
  BY DEF ReadSizes
<1>2. consumed \in Nat /\ arrived \in Nat
  BY Layout DEF Received, TypeOK, StreamTypeOK
<1>3. e \in Nat /\ consumed < e /\ e <= arrived
  <2>1. CASE transport = "tcp"
    BY <1>1, <1>2, <2>1 DEF ReadLimits
  <2>2. CASE transport = "usb"
    <3>1. /\ e \in Ends /\ e > consumed
          /\ \A x \in Ends : x > consumed => e <= x
      BY <1>1, <2>2 DEF ReadLimits
    <3>2. arrived \in Ends
      BY <2>2, <1>2 DEF Received
    <3> QED
      BY <3>1, <3>2, ReaderAssumption, Layout
  <2> QED
    BY <2>1, <2>2, ReaderAssumption DEF Received, TypeOK
<1> QED
  BY <1>1, <1>2, <1>3 DEF Smaller

\* Received holds initially,
LEMMA ReceivedInit == Init => Received
<1> SUFFICES ASSUME Init PROVE Received
  OBVIOUS
<1> USE DEF Init
<1>1. Len(Frames) \in Nat /\ StreamLength \in Nat
  BY Layout
<1>2. returned \in Seq(DOMAIN Frames)
  OBVIOUS
<1>3. /\ arrived \in 0..StreamLength /\ current \in 0..Len(Frames)
      /\ missing \in 0..StreamLength /\ consumed \in 0..arrived
  BY <1>1
<1> QED
  BY <1>2, <1>3 DEF Received, TypeOK, StreamTypeOK

\* A frame that was returned is one of the stream's.
LEMMA ReturnedType ==
  ASSUME Received, NEW i \in DOMAIN returned
  PROVE  /\ returned[i] \in DOMAIN Frames /\ returned[i] \in DOMAIN FrameStart
         /\ FrameStart[returned[i]] \in Nat
<1>1. returned \in Seq(DOMAIN Frames)
  BY DEF Received, TypeOK, StreamTypeOK
<1>2. i \in 1..Len(returned) /\ Len(returned) \in Nat
  BY <1>1
<1>3. returned[i] \in DOMAIN Frames
  BY <1>1, <1>2, ElementType
<1> QED
  BY <1>3, Layout

\* The bounds of a header and its payload.
LEMMA PartOfSum ==
  ASSUME NEW a \in Nat, NEW h \in {4, 8}, NEW p \in Nat, NEW total \in Nat,
         a + h + p <= total
  PROVE  h \in Nat /\ p <= total
OBVIOUS

\* and every step keeps it.
LEMMA ReceivedStep ==
  ASSUME Received, [Next]_<<transport, vars>>
  PROVE  Received'
<1> USE DEF Received, TypeOK, StreamTypeOK
<1>0. transport' = transport /\ StreamLength \in Nat /\ BufCap \in Nat
  BY Layout, ReaderAssumption DEF Next
<1>1. CASE PeerWrites
  BY <1>0, <1>1 DEF PeerWrites
<1>2. CASE PeerCloses
  BY <1>0, <1>2 DEF PeerCloses
<1>3. ASSUME NEW k \in DOMAIN Frames, NEW n \in 1..BufCap, FirstRead(k, n)
      PROVE  /\ consumed' \in 0..arrived /\ UNCHANGED <<arrived, closed>>
             /\ n \in Nat
  BY <1>0, <1>3, ReadSizesBounded DEF FirstRead, peer
<1>4. ASSUME NEW k \in DOMAIN Frames, NEW n \in 1..BufCap, HeaderIncomplete(k, n)
      PROVE  Received'
  BY <1>0, <1>3, <1>4 DEF HeaderIncomplete, FirstRead
<1>5. ASSUME NEW k \in DOMAIN Frames, NEW n \in 1..BufCap, FrameInBuffer(k, n)
      PROVE  Received'
  BY <1>0, <1>3, <1>5, AppendType DEF FrameInBuffer, FirstRead
<1>6. ASSUME NEW k \in DOMAIN Frames, NEW n \in 1..BufCap,
             PayloadIncomplete(k, n)
      PROVE  Received'
  <2>1. consumed' \in 0..arrived /\ UNCHANGED <<arrived, closed, returned>>
    BY <1>3, <1>6 DEF PayloadIncomplete
  <2>2. missing' \in 0..StreamLength /\ missing' > 0
    <3>1. /\ missing' = Frames[k].payload - FromBuf(k, n)
          /\ n >= HeaderLength(Frames[k]) /\ FromBuf(k, n) < Frames[k].payload
      BY <1>6 DEF PayloadIncomplete
    <3>2. /\ Frames[k].payload \in Nat /\ HeaderLength(Frames[k]) \in Nat
          /\ Frames[k].payload <= StreamLength
      <4>1. /\ FrameStart[k] \in Nat /\ StreamLength \in Nat
            /\ FrameStart[k] + HeaderLength(Frames[k]) + Frames[k].payload
                 <= StreamLength
            /\ Frames[k].payload \in Nat
        BY Layout
      <4>2. HeaderLength(Frames[k]) \in {4, 8}
        BY HeaderLengthType
      <4> QED
        BY <4>1, <4>2, PartOfSum
    <3>3. FromBuf(k, n) \in Nat
      BY <3>1, <3>2 DEF FromBuf, Smaller
    <3> QED
      BY <3>1, <3>2, <3>3, <1>0
  <2>3. reader' = "rest" /\ current' \in 0..Len(Frames) /\ current' \in DOMAIN Frames
    BY <1>6, Layout DEF PayloadIncomplete
  <2> QED
    BY <1>0, <2>1, <2>2, <2>3
<1>7. ASSUME NEW n \in 1..StreamLength, ReadRest(n)
      PROVE  Received'
  <2>1. /\ n \in Nat /\ n > 0 /\ n <= missing /\ missing \in 0..StreamLength
        /\ consumed' \in 0..arrived
    BY <1>0, <1>7, ReadSizesBounded DEF ReadRest
  <2>2. missing' \in 0..StreamLength
    BY <1>0, <1>7, <2>1 DEF ReadRest
  <2>3. /\ UNCHANGED <<arrived, closed, current>>
        /\ n # missing => missing' > 0
    BY <1>7, <2>1, <1>0 DEF ReadRest, peer
  <2>4. CASE n = missing
    <3>1. current \in DOMAIN Frames
      BY <1>7 DEF ReadRest
    <3> QED
      BY <1>0, <1>7, <2>1, <2>2, <2>3, <2>4, <3>1, AppendType DEF ReadRest
  <2>5. CASE n # missing
    BY <1>0, <1>7, <2>1, <2>2, <2>3, <2>5 DEF ReadRest
  <2> QED
    BY <2>4, <2>5
<1>8. CASE Garbled \/ ReadFails \/ Dropped
  BY <1>0, <1>8 DEF Garbled, ReadFails, Dropped, peer
<1>9. CASE UNCHANGED vars
  BY <1>0, <1>9 DEF vars
<1> QED
  BY <1>1, <1>2, <1>4, <1>5, <1>6, <1>7, <1>8, <1>9 DEF Next, ReadFrame

\* Every variable of the reader keeps its type, on every link.
THEOREM ReaderTypeCorrect == Spec => []TypeOK
<1>1. Init => Received
  BY ReceivedInit
<1>2. Received => TypeOK
  BY DEF Received
<1> QED
  BY <1>1, <1>2, ReceivedStep, PTL DEF Spec

\* The frames returned, and the one being read, lie behind the reader, in order.
Forward ==
  /\ NeverReplayed
  /\ \A i \in DOMAIN returned : FrameStart[returned[i]] < consumed
  /\ reader = "rest" =>
       /\ FrameStart[current] < consumed
       /\ \A i \in DOMAIN returned : returned[i] < current

\* A frame that starts where the reader stands comes after them all.
LEMMA ForwardOf ==
  ASSUME Received, Forward, NEW k \in DOMAIN Frames, FrameStart[k] = consumed
  PROVE  \A i \in DOMAIN returned : returned[i] < k
<1> SUFFICES ASSUME NEW i \in DOMAIN returned PROVE returned[i] < k
  OBVIOUS
<1>2. returned[i] \in DOMAIN Frames
  BY ReturnedType
<1>3. k \in DOMAIN FrameStart /\ returned[i] \in DOMAIN FrameStart
  BY <1>2, Layout
<1>4. k \in Nat /\ returned[i] \in Nat
  BY <1>2, Layout
<1>5. FrameStart[returned[i]] < FrameStart[k]
  BY DEF Forward
<1>6. k < returned[i] => FrameStart[k] < FrameStart[returned[i]]
  BY <1>3, Increasing
<1>7. FrameStart[k] \in Nat /\ FrameStart[returned[i]] \in Nat
  BY <1>3, Increasing
<1> QED
  BY <1>4, <1>5, <1>6, <1>7

\* A frame behind all that were returned may be returned.
LEMMA AppendForward ==
  ASSUME Received, Forward, NEW k \in DOMAIN Frames, NEW c \in Nat,
         returned' = Append(returned, k), consumed \in Nat, consumed <= c,
         FrameStart[k] < c, \A i \in DOMAIN returned : returned[i] < k
  PROVE  /\ NeverReplayed'
         /\ \A i \in DOMAIN returned' : FrameStart[returned'[i]] < c
<1>1. returned \in Seq(DOMAIN Frames) /\ Len(returned) \in Nat
  BY DEF Received, TypeOK, StreamTypeOK
<1>2. /\ DOMAIN returned = 1..Len(returned)
      /\ DOMAIN returned' = 1..Len(returned) + 1
      /\ \A i \in DOMAIN returned : returned'[i] = returned[i]
      /\ returned'[Len(returned) + 1] = k
  BY <1>1
<1>3. \A i \in DOMAIN returned : FrameStart[returned[i]] < c
  <2> SUFFICES ASSUME NEW i \in DOMAIN returned
               PROVE  FrameStart[returned[i]] < c
    OBVIOUS
  <2>1. returned[i] \in DOMAIN FrameStart
    BY ReturnedType
  <2>2. FrameStart[returned[i]] \in Nat /\ FrameStart[returned[i]] < consumed
    BY <2>1, Increasing DEF Forward
  <2> QED
    BY <2>2
<1> QED
  BY <1>1, <1>2, <1>3 DEF NeverReplayed, Forward

\* Every step keeps Forward.
LEMMA ForwardStep ==
  ASSUME Received, Received', Forward, [Next]_<<transport, vars>>
  PROVE  Forward'
<1>0. consumed \in Nat /\ consumed' \in Nat
  BY Layout DEF Received, TypeOK, StreamTypeOK
<1>1. CASE PeerWrites \/ PeerCloses \/ Garbled \/ ReadFails \/ Dropped
  BY <1>1 DEF PeerWrites, PeerCloses, Garbled, ReadFails, Dropped, peer,
     Forward, NeverReplayed
<1>2. ASSUME NEW k \in DOMAIN Frames, NEW n \in 1..BufCap, FirstRead(k, n)
      PROVE  /\ FrameStart[k] = consumed /\ consumed < consumed'
             /\ \A i \in DOMAIN returned :
                  /\ returned[i] < k
                  /\ FrameStart[returned[i]] < consumed'
  <2>1. FrameStart[k] = consumed /\ consumed' = consumed + n /\ n \in Nat /\ n > 0
    BY <1>2, ReaderAssumption DEF FirstRead
  <2>2. \A i \in DOMAIN returned : returned[i] < k
    BY <2>1, ForwardOf
  <2>3. ASSUME NEW i \in DOMAIN returned
        PROVE  FrameStart[returned[i]] < consumed'
    <3>1. returned[i] \in DOMAIN FrameStart
      BY <2>3, ReturnedType
    <3>2. FrameStart[returned[i]] \in Nat /\ FrameStart[returned[i]] < consumed
      BY <3>1, Increasing DEF Forward
    <3> QED
      BY <3>2, <2>1, <1>0
  <2> QED
    BY <2>1, <2>2, <2>3, <1>0
<1>3. ASSUME NEW k \in DOMAIN Frames, NEW n \in 1..BufCap,
             HeaderIncomplete(k, n) \/ PayloadIncomplete(k, n)
      PROVE  Forward'
  BY <1>2, <1>3 DEF HeaderIncomplete, PayloadIncomplete, Forward, NeverReplayed
<1>4. ASSUME NEW k \in DOMAIN Frames, NEW n \in 1..BufCap, FrameInBuffer(k, n)
      PROVE  Forward'
  <2>1. returned' = Append(returned, k) /\ reader' = "first" /\ FirstRead(k, n)
    BY <1>4 DEF FrameInBuffer, FirstRead
  <2>2. /\ FrameStart[k] = consumed /\ consumed < consumed'
        /\ \A i \in DOMAIN returned : returned[i] < k
    BY <1>2, <2>1
  <2> QED
    BY <1>0, <2>1, <2>2, AppendForward DEF Forward
<1>5. ASSUME NEW n \in 1..StreamLength, ReadRest(n)
      PROVE  Forward'
  <2>1. /\ consumed' = consumed + n /\ n \in Nat /\ UNCHANGED current
        /\ FrameStart[current] < consumed
        /\ \A i \in DOMAIN returned : returned[i] < current
        /\ current \in DOMAIN Frames
    BY <1>5, Layout DEF ReadRest, Forward, Received
  <2>2. FrameStart[current] \in Nat
    BY <2>1, Layout
  <2>3. CASE n = missing
    <3>1. returned' = Append(returned, current) /\ reader' = "first"
      BY <1>5, <2>3 DEF ReadRest
    <3>2. FrameStart[current] < consumed' /\ consumed <= consumed'
      BY <1>0, <2>1, <2>2
    <3> QED
      BY <1>0, <2>1, <3>1, <3>2, AppendForward DEF Forward
  <2>4. CASE n # missing
    <3>1. UNCHANGED <<returned, reader>>
      BY <1>5, <2>4 DEF ReadRest
    <3>2. \A i \in DOMAIN returned : FrameStart[returned[i]] \in Nat
      BY ReturnedType
    <3>3. \A i \in DOMAIN returned : FrameStart[returned[i]] < consumed'
      BY <1>0, <2>1, <3>2 DEF Forward
    <3>4. FrameStart[current] < consumed'
      BY <1>0, <2>1, <2>2
    <3> QED
      BY <2>1, <3>1, <3>3, <3>4 DEF Forward, NeverReplayed
  <2> QED
    BY <2>3, <2>4
<1>6. CASE UNCHANGED vars
  BY <1>6 DEF vars, Forward, NeverReplayed
<1> QED
  BY <1>1, <1>3, <1>4, <1>5, <1>6 DEF Next, ReadFrame

\* On a socket, however the stream is segmented and whenever select! drops a
\* read, read_frame may lose frames but never returns one twice or late.
THEOREM ReaderNeverReplays == Spec => []NeverReplayed
<1>1. Init => Received /\ Forward
  <2>1. Init => Received
    BY ReceivedInit
  <2>2. Init => Forward
    BY DEF Init, Forward, NeverReplayed
  <2> QED
    BY <2>1, <2>2
<1>2. Received /\ Forward /\ [Next]_<<transport, vars>> => (Received /\ Forward)'
  BY ReceivedStep, ForwardStep
<1>3. Forward => NeverReplayed
  BY DEF Forward
<1> QED
  BY <1>1, <1>2, <1>3, PTL DEF Spec

=============================================================================
