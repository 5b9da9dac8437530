-------------------------- MODULE ControlLoop_proofs --------------------------
(***************************************************************************)
(* The control loop's type invariant, who may get behind a read that has   *)
(* been given up, and that whoever does stays there: for both links, every *)
(* queue capacity, every number of replies and every set of sources, those *)
(* of a car's USB session included.                                        *)
(***************************************************************************)
EXTENDS ControlLoop, TLAPS

\* What LoopAssumption says of the values a source's burst can have.
LEMMA BurstType == \A s : Burst(s) \in Nat \ {0}
  BY DEF Burst

\* The strengthening TypeOK needs: a branch that writes has something left.
LoopInv == TypeOK /\ (loop = "write" => toWrite > 0)

\* Every variable of the loop keeps its type.
LEMMA TypeStep == LoopInv /\ [Next]_<<link, vars>> => LoopInv'
<1> USE LoopAssumption DEF LoopInv, TypeOK
<1> SUFFICES ASSUME LoopInv, [Next]_<<link, vars>> PROVE LoopInv'
  OBVIOUS
<1>0. link' = link /\ Sources' = Sources /\ Branches' = Branches
  BY DEF Next, Sources, Branches
<1>1. CASE Usb
  BY <1>0, <1>1 DEF Usb, UsbStartRead, KernelRead, UsbStartWrite, KernelWrite
<1>2. CASE FrameRead
  BY <1>0, <1>2 DEF FrameRead, Branches, stream
<1>3. CASE ReadFails
  BY <1>0, <1>3 DEF ReadFails
<1>4. CASE HandleFrame
  BY <1>0, <1>4 DEF HandleFrame
<1>5. CASE FrameWritten
  BY <1>0, <1>5 DEF FrameWritten, stream
<1>6. CASE WriteFails
  BY <1>0, <1>6 DEF WriteFails, stream
<1>7. ASSUME NEW s \in Sources, TakeOutbound(s) PROVE LoopInv'
  BY <1>0, <1>7, BurstType DEF TakeOutbound, Branches
<1>8. ASSUME NEW s \in Sources, Produce(s) PROVE LoopInv'
  BY <1>0, <1>8 DEF Produce
<1>9. CASE CarSends
  BY <1>0, <1>9 DEF CarSends
<1>10. CASE Unplug
  BY <1>0, <1>10 DEF Unplug
<1>11. CASE UNCHANGED <<link, vars>>
  BY <1>0, <1>11 DEF vars
<1> QED
  BY <1>1, <1>2, <1>3, <1>4, <1>5, <1>6, <1>7, <1>8, <1>9, <1>10, <1>11
  DEF Next, Loop

\* Spec => []TypeOK, for every value of the constants.
THEOREM LoopTypeCorrect == Spec => []TypeOK
<1>1. Init => LoopInv
  BY LoopAssumption DEF Init, LoopInv, TypeOK, Branches
<1>2. LoopInv => TypeOK
  BY DEF LoopInv
<1> QED
  BY <1>1, <1>2, TypeStep, PTL DEF Spec

-----------------------------------------------------------------------------

\* A frame is handled with the stream out of the read that brought it, and
\* on a socket nothing of this state is ever used.
WriterInv ==
  /\ OnlyQueuesBlocked
  /\ loop = "handle" => io = "Idle" /\ branch = "read"
  /\ link = "tcp" => io = "Idle"

\* Every step of the stream, the loop, the queues and the car keeps it.
LEMMA WriterStep == TypeOK /\ WriterInv /\ [Next]_<<link, vars>> => WriterInv'
<1> SUFFICES ASSUME TypeOK, WriterInv, [Next]_<<link, vars>> PROVE WriterInv'
  OBVIOUS
<1> USE DEF WriterInv, OnlyQueuesBlocked
<1>0. link' = link /\ link \in {"usb", "tcp"}
  BY LoopAssumption DEF Next, TypeOK
<1>1. CASE Usb
  BY <1>0, <1>1 DEF Usb, UsbStartRead, KernelRead, UsbStartWrite, KernelWrite
<1>2. CASE FrameRead \/ ReadFails \/ HandleFrame
  BY <1>0, <1>2 DEF FrameRead, ReadFails, HandleFrame, stream, TypeOK
<1>3. CASE FrameWritten \/ WriteFails
  BY <1>0, <1>3 DEF FrameWritten, WriteFails, stream
<1>4. ASSUME NEW s \in Sources, TakeOutbound(s) PROVE WriterInv'
  BY <1>0, <1>4 DEF TakeOutbound, Sources
<1>5. ASSUME NEW s \in Sources, Produce(s) PROVE WriterInv'
  BY <1>0, <1>5 DEF Produce
<1>6. CASE CarSends \/ Unplug
  BY <1>0, <1>6 DEF CarSends, Unplug
<1>7. CASE UNCHANGED <<link, vars>>
  BY <1>0, <1>7 DEF vars
<1> QED
  BY <1>1, <1>2, <1>3, <1>4, <1>5, <1>6, <1>7 DEF Next, Loop

\* The answers to the car's frames never wait for an abandoned read, in the
\* sessions of a car as well, where the nav, audio and video queues win turns
\* and abandon one after the other: what gets behind a read is a queue's
\* message, over USB (Step C of control_channel::run, UsbAccessoryStream).
THEOREM RepliesFindStreamFree == Spec => []OnlyQueuesBlocked
<1>1. Init => WriterInv
  BY DEF Init, WriterInv, OnlyQueuesBlocked
<1>2. WriterInv => OnlyQueuesBlocked
  BY DEF WriterInv
<1> QED
  BY <1>1, <1>2, WriterStep, LoopTypeCorrect, PTL DEF Spec

\* A message behind an abandoned read waits for good: not a frame that arrives, not the read(2) that returns, not
\* an unplugged cable takes the stream out of the read again, for poll_write
\* leaves it to a poll_read that only the select! would make.
THEOREM WedgeIsFinal == Spec => [][Wedged => Wedged']_<<link, vars>>
<1>1. Init => WriterInv
  BY DEF Init, WriterInv, OnlyQueuesBlocked
<1>2. TypeOK /\ WriterInv /\ [Next]_<<link, vars>> => [Wedged => Wedged']_<<link, vars>>
  <2> SUFFICES ASSUME WriterInv, [Next]_<<link, vars>>, Wedged PROVE Wedged'
    OBVIOUS
  <2>0. link # "tcp" /\ loop = "write" /\ io = "Reading"
    BY DEF WriterInv, Wedged
  <2>1. CASE Usb
    BY <2>0, <2>1 DEF Wedged, Usb, UsbStartRead, KernelRead, UsbStartWrite, KernelWrite
  <2>2. CASE Loop
    BY <2>0, <2>2
       DEF Wedged, Loop, FrameRead, ReadFails, HandleFrame, FrameWritten, WriteFails,
           TakeOutbound
  <2>3. CASE (\E s \in Sources : Produce(s)) \/ CarSends \/ Unplug
    BY <2>0, <2>3 DEF Wedged, Produce, CarSends, Unplug
  <2>4. CASE UNCHANGED <<link, vars>>
    BY <2>0, <2>4 DEF Wedged, vars
  <2> QED
    BY <2>1, <2>2, <2>3, <2>4 DEF Next
<1> QED
  BY <1>1, <1>2, WriterStep, LoopTypeCorrect, PTL DEF Spec

=============================================================================
